--------------------------- MODULE AppendOnlyLog ---------------------------
(***************************************************************************)
(* What the gateway ledger promises its callers: one log of decisions,     *)
(* shared by all of them, that each decision joins at most once and at its *)
(* end, and of which an acknowledged position never changes.               *)
(***************************************************************************)
EXTENDS Naturals, Sequences, SequencesExt

CONSTANT Decision

VARIABLES
  entries,  \* the decisions, in the order they joined
  acked     \* the <<position, decision>> pairs callers were told of

lvars == <<entries, acked>>

LInit == entries = <<>> /\ acked = {}

\* A decision joins the log.
Join(d) ==
  /\ d \notin ToSet(entries)
  /\ entries' = Append(entries, d)
  /\ UNCHANGED acked

\* Its caller is told where it is.
Acknowledge(d) ==
  /\ \E i \in DOMAIN entries :
       /\ entries[i] = d
       /\ acked' = acked \cup {<<i, d>>}
  /\ UNCHANGED entries

LNext == \E d \in Decision : Join(d) \/ Acknowledge(d)

LSpec == LInit /\ [][LNext]_lvars
=============================================================================
