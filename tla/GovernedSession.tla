-------------------------- MODULE GovernedSession --------------------------
(***************************************************************************)
(* One run of the engine's GovernedSession (packages/engine/src/           *)
(* session.ts): a driver proposes steps, every action passes the tripwire  *)
(* gate, the authorizer and the executor, every stage is appended to the   *)
(* evidence log, and the work item's spine commits the log's head.         *)
(*                                                                         *)
(* The code is one JavaScript task, so a step of the model is the code     *)
(* between two awaits: it.next, authorizer.can, executor.execute and       *)
(* it.return.  The abort signal may fire at each of those points.          *)
(*                                                                         *)
(* A chain head is modelled by the number of records it covers: the log    *)
(* and the spine of one session only grow, and hashing is collision free.  *)
(***************************************************************************)
EXTENDS Integers, Sequences, FiniteSets

CONSTANTS
  MaxSteps,      \* bound: how many steps the driver yields before it ends
  SinkMayThrow,  \* may the onEvent callback throw?
  MintMayFail    \* may a record be impossible to mint ("failed to mint")?

ASSUME MaxStepsAssumption == MaxSteps \in Nat
ASSUME SinkAssumption == SinkMayThrow \in BOOLEAN
ASSUME MintAssumption == MintMayFail \in BOOLEAN

VARIABLES
  pc,        \* the await the run is suspended at, or how it ended
  aborted,   \* signal.aborted
  steps,     \* driver steps consumed so far; also the id of the last action
  action,    \* the action in the pipeline, NoAction between actions
  sent,      \* the ActionResult handed to the next it.next(sent)
  outcome,   \* the outcome decided so far; "failed" is the code's default
  log,       \* the evidence log: its records, oldest first
  spine,     \* the transitions of the work item
  executed,  \* #actionsExecuted
  denied,    \* #actionsDenied
  effects,   \* history: ids of the actions whose executor changed the world
  atAbort    \* history: the effects there were when the signal fired

vars == <<pc, aborted, steps, action, sent, outcome, log, spine, executed,
          denied, effects, atAbort>>

-----------------------------------------------------------------------------
Outcome == {"completed", "failed", "cancelled"}
WorkState == {"proposed", "ready", "claimed", "in_progress",
              "done", "failed", "cancelled"}
Terminal == {"done", "failed", "cancelled"}

\* The terminal work state each outcome finalises to, and its inverse.
OUTCOME_STATE == [o \in Outcome |-> IF o = "completed" THEN "done" ELSE o]
STATE_OUTCOME == [w \in Terminal |-> IF w = "done" THEN "completed" ELSE w]

ActionId == 1 .. MaxSteps
Action == [id : 0 .. MaxSteps, required : BOOLEAN]
NoAction == [id |-> 0, required |-> FALSE]
Result == [id : 0 .. MaxSteps, allowed : BOOLEAN]
NoResult == [id |-> 0, allowed |-> FALSE]

\* The records a session logs.
Plain == [kind : {"session.created", "observation", "message"}]
Moved == [kind : {"work.transition"}, to : WorkState]
Acted == [kind : {"action.denied", "action.executed"}, id : ActionId]
Seal == [kind : {"session.sealed"}, outcome : Outcome, finalLogLength : Nat,
         workAnchor : Nat, actionsExecuted : Nat, actionsDenied : Nat]
Record == Plain \cup Moved \cup Acted \cup Seal

\* A transition commits the log head at its time (as the log's length).
Transition == [to : WorkState, head : Nat]

\* The actions the log has a record of the given kind for.
Recorded(l, kind) == {l[i].id : i \in {j \in DOMAIN l : l[j].kind = kind}}

PC == {"new", "driver", "authorize", "execute", "closing", "sealed", "rejected"}

\* Ways an emission whose record was minted may go on: the sink may throw.
Thrown == {FALSE, SinkMayThrow}

-----------------------------------------------------------------------------
Init ==
  /\ pc = "new"
  /\ aborted \in BOOLEAN
  /\ steps = 0
  /\ action = NoAction
  /\ sent = NoResult
  /\ outcome = "failed"
  /\ log = <<>>
  /\ spine = <<>>
  /\ executed = 0
  /\ denied = 0
  /\ effects = {}
  /\ atAbort = {}

\* AbortController.abort(), from outside, while the run is suspended.
Abort ==
  /\ pc \notin {"sealed", "rejected"}
  /\ ~aborted
  /\ aborted' = TRUE
  /\ atAbort' = effects
  /\ UNCHANGED <<pc, steps, action, sent, outcome, log, spine, executed,
                 denied, effects>>

-----------------------------------------------------------------------------
(* The opening and the seal, each one synchronous block.                   *)

StartLog == <<[kind |-> "session.created"],
              [kind |-> "work.transition", to |-> "ready"],
              [kind |-> "work.transition", to |-> "claimed"],
              [kind |-> "work.transition", to |-> "in_progress"]>>

\* #advance reads the head before it emits the transition's own record.
StartSpine == <<[to |-> "ready", head |-> 1],
                [to |-> "claimed", head |-> 2],
                [to |-> "in_progress", head |-> 3]>>

\* Mutant: the head is read after the transition's own record.
LateHeadSpine(l, s, o) ==
  Append(s, [to |-> OUTCOME_STATE[o], head |-> Len(l) + 1])

FinalSpine(l, s, o) == Append(s, [to |-> OUTCOME_STATE[o], head |-> Len(l)])

\* #advance to the terminal state: the record of the last transition.
MovedLog(l, o) ==
  Append(l, [kind |-> "work.transition", to |-> OUTCOME_STATE[o]])

\* ... and the seal over it.
FinalLog(l, s, o) ==
  Append(MovedLog(l, o),
         [kind |-> "session.sealed", outcome |-> o,
          finalLogLength |-> Len(MovedLog(l, o)) + 1,
          workAnchor |-> Len(FinalSpine(l, s, o)),
          actionsExecuted |-> executed, actionsDenied |-> denied])

\* #finalize over the log l and the spine s.  A record that cannot be minted
\* or a sink that throws, on the transition or on the seal, ends it early.
Finalize(l, s, o) ==
  /\ outcome' = o
  /\ spine' = FinalSpine(l, s, o)
  /\ \/ log' = FinalLog(l, s, o) /\ pc' = "sealed"
     \/ /\ SinkMayThrow
        /\ pc' = "rejected"
        /\ log' \in {MovedLog(l, o), FinalLog(l, s, o)}
     \/ /\ MintMayFail
        /\ pc' = "rejected"
        /\ log' \in {l, MovedLog(l, o)}

\* run(): open the session and the work item, and ask the driver for a step.
Start ==
  /\ pc = "new"
  /\ ~aborted
  /\ log' = StartLog
  /\ spine' = StartSpine
  /\ pc' = "driver"
  /\ UNCHANGED <<aborted, steps, action, sent, outcome, executed, denied,
                 effects, atAbort>>

\* run() with the signal already aborted: sealed, the driver never runs.
StartAborted ==
  /\ pc = "new"
  /\ aborted
  /\ Finalize(StartLog, StartSpine, "cancelled")
  /\ UNCHANGED <<aborted, steps, action, sent, executed, denied, effects,
                 atAbort>>

\* The i-th emission of the opening throws, with its record in the log (the
\* sink) or not (the mint): run() rejects.
StartThrows ==
  /\ pc = "new"
  /\ \E i \in 1 .. 4 :
       /\ \/ SinkMayThrow /\ log' = SubSeq(StartLog, 1, i)
          \/ MintMayFail /\ log' = SubSeq(StartLog, 1, i - 1)
       /\ spine' = SubSeq(StartSpine, 1, i - 1)
  /\ pc' = "rejected"
  /\ UNCHANGED <<aborted, steps, action, sent, outcome, executed, denied,
                 effects, atAbort>>

-----------------------------------------------------------------------------
(* The driver loop.                                                        *)

\* What the executor may have done to the world when it settles.
ExecutorActs == effects' \in {effects, effects \cup {action.id}}

\* Leave the loop with outcome o; the generator's return() is awaited next.
Leave(o) == pc' = "closing" /\ outcome' = o

\* it.next() answered with a step.
DriverSteps ==
  /\ pc = "driver"
  /\ steps < MaxSteps
  /\ steps' = steps + 1

\* Mutant: the result sent with it.next(sent) is not cleared after use.
YieldStaleResult == DriverSteps /\ sent' = sent

\* ... and the result that was sent with it.next is consumed.
Yield == DriverSteps /\ sent' = NoResult

\* Mutant: the loop does not look at the signal.
YieldUnlessDone == Yield

\* The signal is looked at once per step, before the step is looked at.
YieldLive == Yield /\ ~aborted

StepAfterAbort ==
  /\ Yield
  /\ aborted
  /\ Leave("cancelled")
  /\ UNCHANGED <<aborted, action, log, spine, executed, denied, effects,
                 atAbort>>

\* An "observe" or a "message" step: recorded, and the loop goes on.
DriverReports(kind) ==
  /\ YieldLive
  /\ log' = Append(log, [kind |-> kind])
  /\ \E thrown \in Thrown :
       IF thrown THEN Leave("failed") ELSE UNCHANGED <<pc, outcome>>
  /\ UNCHANGED <<aborted, action, spine, executed, denied, effects, atAbort>>

\* A "done" or a "fail" step; or an "observe" or "message" step whose data is
\* no JSON object or whose record cannot be minted, which counts as "failed".
DriverConcludes(o) ==
  /\ YieldLive
  /\ Leave(o)
  /\ UNCHANGED <<aborted, action, log, spine, executed, denied, effects,
                 atAbort>>

\* Mutant: a driver that has returned is asked again.
DriverAskedAgain == pc = "driver" /\ UNCHANGED vars

\* The driver returns without a "done" step, or throws: either way "failed".
DriverStops ==
  /\ pc = "driver"
  /\ Leave("failed")
  /\ sent' = NoResult
  /\ UNCHANGED <<aborted, steps, action, log, spine, executed, denied,
                 effects, atAbort>>

\* Mutant: the loop goes on as if the emission had not failed.
GoesOn == pc' = "driver" /\ UNCHANGED outcome

\* What the loop's catch makes of a record that cannot be minted after its
\* action was counted: the session fails, the count has no record.
CountedUnrecorded == Leave("failed")

\* What both denials do: count, record, and tell the driver, unless the
\* action was required (or the sink threw).
Deny(a) ==
  /\ denied' = denied + 1
  /\ log' = Append(log, [kind |-> "action.denied", id |-> a.id])
  /\ \E thrown \in Thrown :
       IF thrown \/ a.required
       THEN /\ Leave("failed")
            /\ sent' = NoResult
       ELSE /\ pc' = "driver"
            /\ sent' = [id |-> a.id, allowed |-> FALSE]
            /\ UNCHANGED outcome

\* An "action" step the tripwire gate refuses.
ActionTripped(required) ==
  /\ DriverSteps
  /\ ~aborted
  /\ Deny([id |-> steps + 1, required |-> required])
  /\ UNCHANGED <<aborted, action, spine, executed, effects, atAbort>>

\* ... and whose denial cannot be minted.
TripUnrecorded ==
  /\ MintMayFail
  /\ YieldLive
  /\ denied' = denied + 1
  /\ CountedUnrecorded
  /\ UNCHANGED <<aborted, action, log, spine, executed, effects, atAbort>>

\* An "action" step that passes the gate: ask the authorizer.
ActionProposed(required) ==
  /\ YieldLive
  /\ action' = [id |-> steps + 1, required |-> required]
  /\ pc' = "authorize"
  /\ UNCHANGED <<aborted, outcome, log, spine, executed, denied, effects,
                 atAbort>>

\* Mutant: the refusal is recorded and the action runs all the same.
RefusedButRun ==
  /\ pc = "authorize"
  /\ Deny([action EXCEPT !.required = FALSE])
  /\ action' = NoAction
  /\ ExecutorActs
  /\ UNCHANGED <<aborted, steps, spine, executed, atAbort>>

AuthorizerRefuses ==
  /\ pc = "authorize"
  /\ Deny(action)
  /\ action' = NoAction
  /\ UNCHANGED <<aborted, steps, spine, executed, effects, atAbort>>

\* The refusal is counted but its record cannot be minted.
RefusalUnrecorded ==
  /\ MintMayFail
  /\ pc = "authorize"
  /\ denied' = denied + 1
  /\ action' = NoAction
  /\ CountedUnrecorded
  /\ UNCHANGED <<aborted, steps, sent, log, spine, executed, effects, atAbort>>

\* can() rejects: the catch of the loop turns it into a driver error.
AuthorizerThrows ==
  /\ pc = "authorize"
  /\ Leave("failed")
  /\ action' = NoAction
  /\ UNCHANGED <<aborted, steps, sent, log, spine, executed, denied, effects,
                 atAbort>>

AuthorizerGrants ==
  /\ pc = "authorize"
  /\ pc' = "execute"
  /\ UNCHANGED <<aborted, steps, action, sent, outcome, log, spine, executed,
                 denied, effects, atAbort>>

\* execute() resolves, whether ok or not: counted, recorded, reported.
ExecutorReturns ==
  /\ pc = "execute"
  /\ ExecutorActs
  /\ executed' = executed + 1
  /\ log' = Append(log, [kind |-> "action.executed", id |-> action.id])
  /\ \E thrown \in Thrown :
       IF thrown
       THEN Leave("failed") /\ sent' = NoResult
       ELSE /\ pc' = "driver"
            /\ sent' = [id |-> action.id, allowed |-> TRUE]
            /\ UNCHANGED outcome
  /\ action' = NoAction
  /\ UNCHANGED <<aborted, steps, spine, denied, atAbort>>

\* execute() resolves, and its record cannot be minted: counted all the same.
ExecutionUnrecorded ==
  /\ MintMayFail
  /\ pc = "execute"
  /\ ExecutorActs
  /\ executed' = executed + 1
  /\ action' = NoAction
  /\ CountedUnrecorded
  /\ UNCHANGED <<aborted, steps, sent, log, spine, denied, atAbort>>

\* execute() rejects: neither counted nor recorded, the session fails.
ExecutorThrows ==
  /\ pc = "execute"
  /\ ExecutorActs
  /\ Leave("failed")
  /\ action' = NoAction
  /\ UNCHANGED <<aborted, steps, sent, log, spine, executed, denied, atAbort>>

\* Mutant: only the check inside the loop looks at the signal.
LoopOutcome == outcome

\* Cancellation wins over the driver's outcome and the failure default.
FinalOutcome == IF aborted THEN "cancelled" ELSE outcome

\* it.return() settled: the last look at the signal, then the seal.
Close ==
  /\ pc = "closing"
  /\ Finalize(log, spine, FinalOutcome)
  /\ UNCHANGED <<aborted, steps, action, sent, executed, denied, effects,
                 atAbort>>

-----------------------------------------------------------------------------
Run ==
  \/ Start
  \/ StartAborted
  \/ StartThrows
  \/ StepAfterAbort
  \/ \E kind \in {"observation", "message"} : DriverReports(kind)
  \/ \E o \in {"completed", "failed"} : DriverConcludes(o)
  \/ DriverStops
  \/ \E required \in BOOLEAN : ActionTripped(required)
  \/ TripUnrecorded
  \/ \E required \in BOOLEAN : ActionProposed(required)
  \/ AuthorizerGrants
  \/ AuthorizerRefuses
  \/ RefusalUnrecorded
  \/ AuthorizerThrows
  \/ ExecutorReturns
  \/ ExecutionUnrecorded
  \/ ExecutorThrows
  \/ Close

Next == Abort \/ Run

Spec == Init /\ [][Next]_vars

\* Every promise the run awaits settles and the event loop runs on.
FairSpec == Spec /\ WF_vars(Run)

-----------------------------------------------------------------------------
(* The store-untrusting check of verify.ts, over a log l and a spine s.    *)

\* verifyBinding for the session's own two chains.
VerifyBinding(l, s) ==
  /\ l # <<>>
  /\ s # <<>>
  /\ l[Len(l)].kind = "session.sealed"
  /\ l[Len(l)].finalLogLength = Len(l)
  /\ l[Len(l)].workAnchor = Len(s)
  /\ s[Len(s)].to \in Terminal
  /\ l[Len(l)].outcome = STATE_OUTCOME[s[Len(s)].to]
  /\ Len(l) >= 3 => s[Len(s)].head = Len(l) - 2

IsSealed == log # <<>> /\ log[Len(log)].kind = "session.sealed"

-----------------------------------------------------------------------------
TypeOK ==
  /\ pc \in PC
  /\ aborted \in BOOLEAN
  /\ steps \in 0 .. MaxSteps
  /\ action \in Action
  /\ sent \in Result
  /\ outcome \in Outcome
  /\ log \in Seq(Record)
  /\ spine \in Seq(Transition)
  /\ executed \in Nat
  /\ denied \in Nat
  /\ effects \subseteq ActionId
  /\ atAbort \subseteq ActionId

\* A session that seals always passes the independent check: whatever path
\* led to the seal, the length, anchor, outcome and head #finalize writes are
\* the ones verifyBinding recomputes from the two chains.
SealVerifies == IsSealed => VerifyBinding(log, spine)

\* How many executions and denials are counted beyond those on record.
Lead(e, d) == <<e - Cardinality(Recorded(log, "action.executed")),
                d - Cardinality(Recorded(log, "action.denied"))>>

\* The seal's counters are the log's, but for the one action whose record
\* could not be minted after it was counted; and work sealed as completed has
\* exactly the counts its log shows, whatever failed during the run.
SealCounts ==
  IsSealed =>
    LET seal == log[Len(log)]
        lead == Lead(seal.actionsExecuted, seal.actionsDenied)
    IN /\ lead \in {<<0, 0>>, <<0, 1>>, <<1, 0>>}
       /\ seal.outcome = "completed" => lead = <<0, 0>>

\* "A denied action is NEVER executed": no action has a denial on record and
\* an effect on the world, nor both records.
DeniedNeverExecuted ==
  Recorded(log, "action.denied")
    \cap (effects \cup Recorded(log, "action.executed")) = {}

\* A session sealed as completed accounts for all it did: every effect on the
\* world has its record.  (An executor that throws leaves an effect without a
\* record; the session must then not be completed.)
CompletedIsAccounted ==
  outcome = "completed" => effects \subseteq Recorded(log, "action.executed")

\* Cancellation wins: a run the signal reached before its end is not sealed
\* as anything but cancelled.
CancellationWins == pc = "sealed" /\ aborted => outcome = "cancelled"

\* After the signal at most the one action in flight still takes effect.
AbortStopsEffects == aborted => Cardinality(effects \ atAbort) <= 1

\* The driver is told the truth about its last action, and only about that
\* one: a result is on record, and it is never handed over a second time.
TruthfulFeedback ==
  sent # NoResult =>
    /\ sent.id = steps
    /\ sent.id \in Recorded(log, IF sent.allowed THEN "action.executed"
                              ELSE "action.denied")

\* The session keeps the promise of AuditedWork to the readers of its record,
\* crashed executors, throwing sinks and late signals included.
Contract == INSTANCE AuditedWork WITH
  Action  <- ActionId,
  phase   <- IF IsSealed THEN "closed"
             ELSE IF pc = "rejected" THEN "abandoned" ELSE "working",
  world   <- effects,
  done    <- Recorded(log, "action.executed"),
  refused <- Recorded(log, "action.denied"),
  verdict <- IF IsSealed THEN log[Len(log)].outcome ELSE "none"

KeepsContract == Contract!ASpec

\* Every run ends: no driver, authorizer or executor outcome leaves it open.
EventuallyEnds == <>(pc \in {"sealed", "rejected"})
=============================================================================
