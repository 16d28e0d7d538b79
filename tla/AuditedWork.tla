---------------------------- MODULE AuditedWork ----------------------------
(***************************************************************************)
(* What a governed session promises to whoever reads its record, without   *)
(* drivers, gates, awaits or chains: actions touch the world, the record   *)
(* says which were done and which refused, and the work is closed once.    *)
(***************************************************************************)
CONSTANT Action

VARIABLES
  phase,     \* "working" until the work is closed or abandoned
  world,     \* the actions that had an effect
  done,      \* the actions recorded as executed
  refused,   \* the actions recorded as denied
  verdict    \* the outcome the work was closed with

avars == <<phase, world, done, refused, verdict>>

Verdict == {"completed", "failed", "cancelled"}

AInit ==
  /\ phase = "working"
  /\ world = {}
  /\ done = {}
  /\ refused = {}
  /\ verdict = "none"

\* An action is run and recorded; it may or may not have had an effect.
Perform(a) ==
  /\ phase = "working"
  /\ a \notin world \cup done \cup refused
  /\ done' = done \cup {a}
  /\ world' \in {world, world \cup {a}}
  /\ UNCHANGED <<phase, refused, verdict>>

\* An action is refused: on record, never in the world.
Refuse(a) ==
  /\ phase = "working"
  /\ a \notin world \cup done \cup refused
  /\ refused' = refused \cup {a}
  /\ UNCHANGED <<phase, world, done, verdict>>

\* An action breaks half way: in the world, perhaps, but not on record.
Break(a) ==
  /\ phase = "working"
  /\ a \notin world \cup done \cup refused
  /\ world' = world \cup {a}
  /\ UNCHANGED <<phase, done, refused, verdict>>

\* Closed for good.  Completed work has every effect on record.
CloseAs(v) ==
  /\ phase = "working"
  /\ v = "completed" => world \subseteq done
  /\ phase' = "closed"
  /\ verdict' = v
  /\ UNCHANGED <<world, done, refused>>

\* The process that reads the events failed: no verdict is ever given.
Abandon ==
  /\ phase = "working"
  /\ phase' = "abandoned"
  /\ UNCHANGED <<world, done, refused, verdict>>

ANext ==
  \/ \E a \in Action : Perform(a) \/ Refuse(a) \/ Break(a)
  \/ \E v \in Verdict : CloseAs(v)
  \/ Abandon

ASpec == AInit /\ [][ANext]_avars
=============================================================================
