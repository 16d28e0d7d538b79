----------------------------- MODULE ReefServer -----------------------------
(***************************************************************************)
(* The daemon's session registry (packages/server/src/server.ts): it       *)
(* starts governed sessions, evicts sealed ones at capacity, streams their *)
(* events to SSE subscribers, persists and re-verifies them, and binds the *)
(* sessions of a Manager fleet into a ledger once they have all sealed.    *)
(*                                                                         *)
(* The daemon is one event loop: a step of the model is one callback, from *)
(* its start to its next await.  A session itself is GovernedSession: here *)
(* it emits events, and its run resolves or rejects.                       *)
(***************************************************************************)
EXTENDS Naturals, Sequences, FiniteSets, SequencesExt

CONSTANTS
  Client,           \* the SSE connections there ever are
  Fleet,            \* the Manager fleets there ever are
  FleetSize,        \* how many tasks a fleet has
  MaxStarts,        \* bound: how many sessions are ever started
  MaxEvents,        \* bound: how many events a session emits before its last
  MaxSessions,      \* options.maxSessions
  MaxSubscribers,   \* options.maxSubscribers
  MaxLate,          \* bound: the requests in flight when close() is called
  Keyed,            \* do requests carry an integritySecret?
  HasPersistDir,    \* is options.persistDir configured?
  PersistMayFail    \* may persistSession throw part of the way?

ASSUME ActorsAssumption == IsFiniteSet(Client) /\ IsFiniteSet(Fleet)
ASSUME FleetAssumption == FleetSize \in Nat /\ FleetSize >= 2
ASSUME BoundsAssumption ==
  /\ MaxStarts \in Nat
  /\ MaxEvents \in Nat
  /\ MaxSessions \in Nat \ {0}
  /\ MaxSubscribers \in Nat
  /\ MaxLate \in Nat
ASSUME SwitchesAssumption ==
  {Keyed, HasPersistDir, PersistMayFail} \subseteq BOOLEAN

VARIABLES
  counter,      \* how many sessions were ever started; also the last id
  resident,     \* #sessions: the ids in the map, in insertion order
  record,       \* the SessionRecord of every session ever started
  subscribers,  \* the subscribers of every session
  frames,       \* what each connection was sent, oldest first
  watching,     \* the session each connection asked for, 0 before
  ended,        \* the connections whose response the server has ended
  fleets,       \* #fleets
  closed,       \* has close() been called?
  late          \* how many requests were served since

vars == <<counter, resident, record, subscribers, frames, watching, ended,
          fleets, closed, late>>

-----------------------------------------------------------------------------
Id == 1 .. MaxStarts

\* disk: what persistSession left of the session; ok: did run() resolve, so
\* that the session has a snapshot and verifies in memory.
SessionRecord ==
  [status : {"none", "running", "sealed"}, events : Nat,
   disk : {"none", "log", "whole"}, ok : BOOLEAN]
Unstarted == [status |-> "none", events |-> 0, disk |-> "none", ok |-> FALSE]

\* waits: the sessions #completeFleet found in the map; ledger: what the links
\* of the Worker Ledger bind, by session.
NoLedger == [s \in {} |-> 0]
NoFleet == [status |-> "none", ids |-> <<>>, waits |-> {}, ledger |-> NoLedger,
            verified |-> FALSE]

\* The frames of a stream.
Hello == <<"hello", 0>>
Event(n) == <<"event", n>>
Sealed == <<"sealed", 0>>

Running(s) == record[s].status = "running"
IsResident(s) == s \in ToSet(resident)

Init ==
  /\ counter = 0
  /\ resident = <<>>
  /\ record = [s \in Id |-> Unstarted]
  /\ subscribers = [s \in Id |-> {}]
  /\ frames = [c \in Client |-> <<>>]
  /\ watching = [c \in Client |-> 0]
  /\ ended = {}
  /\ fleets = [f \in Fleet |-> NoFleet]
  /\ closed = FALSE
  /\ late = 0

\* http.close() accepts no more connections, and serves what is in flight.
Serve ==
  /\ closed => late < MaxLate
  /\ late' = IF closed THEN late + 1 ELSE late

-----------------------------------------------------------------------------
(* Starting sessions.                                                      *)

SealedIn(map) == {i \in DOMAIN map : record[map[i]].status = "sealed"}

\* Mutant: the oldest session is evicted, sealed or not.
EvictOldest(map) ==
  IF Len(map) < MaxSessions THEN map ELSE Tail(map)

\* The map with room for one more session: at capacity the oldest sealed one
\* is evicted.
Evict(map) ==
  IF Len(map) < MaxSessions \/ SealedIn(map) = {} THEN map
  ELSE RemoveAt(map, CHOOSE i \in SealedIn(map) :
                       \A j \in SealedIn(map) : i <= j)

\* "too many active sessions"
Full(map) == Len(Evict(map)) >= MaxSessions

\* The map after k more sessions have been let in, as far as there is room.
Admitted[k \in Nat] ==
  IF k = 0 THEN resident
  ELSE IF Full(Admitted[k - 1]) THEN Admitted[k - 1]
       ELSE Append(Evict(Admitted[k - 1]), counter + k)

\* Let in k sessions, each of which runs at once.
Admit(k) ==
  /\ counter' = counter + k
  /\ resident' = Admitted[k]
  /\ record' = [s \in Id |->
       IF s \in counter + 1 .. counter + k
       THEN [Unstarted EXCEPT !.status = "running"]
       ELSE record[s]]

\* POST /sessions
StartSession ==
  /\ Serve
  /\ counter < MaxStarts
  /\ ~Full(resident)
  /\ Admit(1)
  /\ UNCHANGED <<subscribers, frames, watching, ended, fleets, closed>>

\* POST /sessions whose runtime cannot be built: a 400, after the eviction.
StartFails ==
  /\ Serve
  /\ ~Full(resident)
  /\ resident' = Evict(resident)
  /\ UNCHANGED <<counter, record, subscribers, frames, watching, ended,
                 fleets, closed>>

\* The records of a fleet's sessions that the map holds.
Found(ids, map) == ToSet(ids) \cap ToSet(map)

\* POST /manager/fleets: its sessions start, and #completeFleet looks them up
\* in the map, in one callback.
CreateFleet(f) ==
  /\ Serve
  /\ fleets[f].status = "none"
  /\ counter + FleetSize <= MaxStarts
  /\ Len(Admitted[FleetSize]) > 0
  /\ Last(Admitted[FleetSize]) = counter + FleetSize
  /\ Admit(FleetSize)
  /\ LET ids == [i \in 1 .. FleetSize |-> counter + i] IN
     fleets' = [fleets EXCEPT
       ![f] = [NoFleet EXCEPT !.status = "running", !.ids = ids,
                              !.waits = Found(ids, resident')]]
  /\ UNCHANGED <<subscribers, frames, watching, ended, closed>>

\* ... and when there is no room for the k-th of them the request is a 503,
\* with the sessions before it running, and no fleet.
CreateFleetFails ==
  /\ Serve
  /\ \E k \in 0 .. FleetSize - 1 :
       /\ counter + k <= MaxStarts
       /\ k > 0 => resident # Admitted[k] /\ Last(Admitted[k]) = counter + k
       /\ Full(Admitted[k])
       /\ Admit(k)
  /\ UNCHANGED <<subscribers, frames, watching, ended, fleets, closed>>

-----------------------------------------------------------------------------
(* Running sessions.                                                       *)

\* #broadcast
Broadcast(s, new) ==
  frames' = [c \in Client |->
    IF c \in subscribers[s] THEN frames[c] \o new ELSE frames[c]]

\* The session's onEvent.
EmitEvent(s) ==
  /\ Running(s)
  /\ record[s].events < MaxEvents
  /\ record' = [record EXCEPT ![s].events = @ + 1]
  /\ Broadcast(s, <<Event(record[s].events + 1)>>)
  /\ UNCHANGED <<counter, resident, subscribers, watching, ended, fleets,
                 closed, late>>

\* What there may be on disk: nothing, when persistence is off, was not asked
\* for or failed at once, all of it, or only the log, which goes first.
Persisted ==
  {"none"} \cup (IF HasPersistDir THEN {"whole"} ELSE {})
           \cup (IF HasPersistDir /\ PersistMayFail THEN {"log"} ELSE {})

\* Mutant: the streams are left to their clients to end.
LeaveStreams(s) == UNCHANGED <<ended, subscribers>>

\* Every subscriber's response is ended.
EndStreams(s) ==
  /\ ended' = ended \cup subscribers[s]
  /\ subscribers' = [subscribers EXCEPT ![s] = {}]

\* run() resolved: its last event and the sealed frame go out in one callback.
SealSession(s) ==
  /\ Running(s)
  /\ \E disk \in Persisted :
       record' = [record EXCEPT ![s].status = "sealed", ![s].events = @ + 1,
                                ![s].disk = disk, ![s].ok = TRUE]
  /\ Broadcast(s, <<Event(record[s].events + 1), Sealed>>)
  /\ EndStreams(s)
  /\ UNCHANGED <<counter, resident, watching, fleets, closed, late>>

\* run() rejected: the record is sealed without a snapshot, and no frame says
\* so.
RunRejects(s) ==
  /\ Running(s)
  /\ \E disk \in Persisted :
       record' = [record EXCEPT ![s].status = "sealed", ![s].disk = disk]
  /\ EndStreams(s)
  /\ UNCHANGED <<counter, resident, frames, watching, fleets, closed, late>>

-----------------------------------------------------------------------------
(* Streams.                                                                *)

Events(n) == [i \in 1 .. n |-> Event(i)]

\* Mutant: only what is still to come is sent.
NoReplay(s) == <<Hello>>

\* What a new subscriber is sent at once: all the events so far.
Replay(s) == <<Hello>> \o Events(record[s].events)

\* GET /sessions/:id/events of a running session, with room for a subscriber.
Subscribe(c, s) ==
  /\ Serve
  /\ watching[c] = 0
  /\ IsResident(s)
  /\ Running(s)
  /\ Cardinality(subscribers[s]) < MaxSubscribers
  /\ watching' = [watching EXCEPT ![c] = s]
  /\ subscribers' = [subscribers EXCEPT ![s] = @ \cup {c}]
  /\ frames' = [frames EXCEPT ![c] = Replay(s)]
  /\ UNCHANGED <<counter, resident, record, ended, fleets, closed>>

\* ... of a sealed one: replayed and ended.
SubscribeSealed(c, s) ==
  /\ Serve
  /\ watching[c] = 0
  /\ IsResident(s)
  /\ record[s].status = "sealed"
  /\ watching' = [watching EXCEPT ![c] = s]
  /\ frames' = [frames EXCEPT
       ![c] = Replay(s) \o (IF record[s].ok THEN <<Sealed>> ELSE <<>>)]
  /\ ended' = ended \cup {c}
  /\ UNCHANGED <<counter, resident, record, subscribers, fleets, closed>>

\* The client goes away.
Disconnect(c) ==
  /\ watching[c] # 0
  /\ c \in subscribers[watching[c]]
  /\ subscribers' = [subscribers EXCEPT ![watching[c]] = @ \ {c}]
  /\ ended' = ended \cup {c}
  /\ UNCHANGED <<counter, resident, record, frames, watching, fleets, closed,
                 late>>

\* close(): the streams end, the sessions run on, and so do the requests that
\* are in flight.
Close ==
  /\ ~closed
  /\ closed' = TRUE
  /\ ended' = ended \cup UNION {subscribers[s] : s \in ToSet(resident)}
  /\ subscribers' = [s \in Id |->
       IF IsResident(s) THEN {} ELSE subscribers[s]]
  /\ UNCHANGED <<counter, resident, record, frames, watching, fleets, late>>

-----------------------------------------------------------------------------
(* Verification and fleets.                                                *)

\* #verifySessionRecord: a log on disk is loaded in place of the session in
\* memory, without the session's secret.
VerifySessionRecord(s) ==
  IF record[s].disk = "none" THEN record[s].ok
  ELSE record[s].ok /\ record[s].disk = "whole" /\ ~Keyed

\* Mutant: a session is looked for in the map again while it is waited for.
ResidentSealed(f) ==
  \A s \in fleets[f].waits : IsResident(s) /\ record[s].status = "sealed"

\* The promises #completeFleet waits for: those of the records it has found.
AllSealed(f) == \A s \in fleets[f].waits : record[s].status = "sealed"

\* #workerResultForSession: the session's heads, which its events stand for,
\* and its verdict.
WorkerResult(s) ==
  [events |-> record[s].events, verified |-> VerifySessionRecord(s)]

\* Mutant: the sessions are looked up in the map when the ledger is built.
LateLedger(f) ==
  [s \in Found(fleets[f].ids, resident) |-> WorkerResult(s)]

\* #buildFleetLedger: a link for each of the records that were found.
FleetLedger(f) == [s \in fleets[f].waits |-> WorkerResult(s)]

\* #completeFleet, once every promise has resolved; a ledger that cannot be
\* built leaves a fleet that is sealed and not verified.
CompleteFleet(f) ==
  /\ fleets[f].status = "running"
  /\ AllSealed(f)
  /\ \E built \in BOOLEAN :
       fleets' = [fleets EXCEPT
         ![f].status = "sealed", ![f].verified = built,
         ![f].ledger = IF built THEN FleetLedger(f) ELSE NoLedger]
  /\ UNCHANGED <<counter, resident, record, subscribers, frames, watching,
                 ended, closed, late>>

\* The sessions #verifyFleet reports on: those the map still holds.
FleetSessions(f) == Found(fleets[f].ids, resident)

\* #verifyFleet
VerifyFleet(f) ==
  /\ fleets[f].status = "sealed"
  /\ fleets[f].verified
  /\ FleetSessions(f) # {}
  /\ \A s \in FleetSessions(f) :
       record[s].status = "sealed" /\ VerifySessionRecord(s)

Step(s) == EmitEvent(s) \/ SealSession(s) \/ RunRejects(s)

Next ==
  \/ StartSession
  \/ StartFails
  \/ \E f \in Fleet : CreateFleet(f) \/ CompleteFleet(f)
  \/ CreateFleetFails
  \/ \E s \in Id : Step(s)
  \/ \E c \in Client :
       \/ \E s \in Id : Subscribe(c, s) \/ SubscribeSealed(c, s)
       \/ Disconnect(c)
  \/ Close

Spec == Init /\ [][Next]_vars

\* A session's run ends (GovernedSession!EventuallyEnds), and the event loop
\* runs the callbacks that are due.
FairSpec ==
  /\ Spec
  /\ \A s \in Id : WF_vars(Step(s))
  /\ \A f \in Fleet : WF_vars(CompleteFleet(f))

-----------------------------------------------------------------------------
\* Memory is bounded, and never by dropping a session that still runs:
\* whatever is started, evicted, refused or failed half way, the map holds
\* every running session and no more than maxSessions in all.
RunningStaysResident ==
  /\ Len(resident) <= MaxSessions
  /\ IsInjective(resident)
  /\ \A s \in Id : Running(s) => IsResident(s)
  /\ \A s \in Id : Cardinality(subscribers[s]) <= MaxSubscribers

\* A client always sees the whole session: however late it subscribed, its
\* stream is a hello and the session's events from the first one on, each
\* once and in order; while it is subscribed none is missing; and a sealed
\* frame comes last, after all the events there will ever be.
StreamsFaithful ==
  \A c \in Client :
    LET s == watching[c] IN
    s # 0 =>
      \E k \in 0 .. record[s].events :
        /\ \/ frames[c] = <<Hello>> \o Events(k)
           \/ /\ frames[c] = <<Hello>> \o Events(k) \o <<Sealed>>
              /\ record[s].ok
              /\ k = record[s].events
              /\ c \in ended
        /\ c \in subscribers[s] => k = record[s].events

\* The Worker Ledger of a fleet that verified has a link for every session of
\* the fleet, and the link binds what the session has come to, to its last
\* event: though the map is looked up once, sessions started together could
\* displace each other there, and any of them may be evicted while the others
\* still run.
FleetBindsAll ==
  \A f \in Fleet :
    fleets[f].verified =>
      /\ DOMAIN fleets[f].ledger = ToSet(fleets[f].ids)
      /\ \A s \in ToSet(fleets[f].ids) :
           /\ record[s].status = "sealed"
           /\ fleets[f].ledger[s] = WorkerResult(s)

\* Every stream ends.
StreamsEnd == \A c \in Client : watching[c] # 0 ~> c \in ended

\* Every fleet seals, whether or not its sessions are still in the map.
FleetsSeal ==
  \A f \in Fleet :
    fleets[f].status = "running" ~> fleets[f].status = "sealed"

\* "fleet ledger and all governed sessions verified": the verdict of a fleet
\* is one over all of its sessions.
FleetVerdictCovers ==
  \A f \in Fleet : VerifyFleet(f) => FleetSessions(f) = ToSet(fleets[f].ids)
=============================================================================
