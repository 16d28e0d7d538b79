--------------------------- MODULE Orchestration ---------------------------
(***************************************************************************)
(* One Orchestrator.orchestrate (packages/agent/src/orchestrator.ts): plan, *)
(* route each subtask to a worker, run it as a governed session, judge, and *)
(* keep the Worker Ledger, a chain that pins every sub-session.            *)
(*                                                                         *)
(* A step is the code between two awaits: planner.plan, router.route,      *)
(* worker.run and judge.  While the run awaits a worker of its own, the    *)
(* steps are AgentWorker's.  A head is modelled by the place of its        *)
(* session in the history of sealed sessions: hashing is collision free.   *)
(***************************************************************************)
EXTENDS AgentWorker

CONSTANTS
  Team,          \* the kinds of worker an orchestrator is built with
  MaxSubtasks    \* bound: the length of a plan

ASSUME SubtasksAssumption == MaxSubtasks \in Nat
ASSUME TeamAssumption == Team \subseteq {"agent", "cli", "guest"}

VARIABLES
  first,     \* options.workers[0], "none" when there is no worker
  opc,       \* the await the orchestration is suspended at, or how it ended
  plan,      \* the number of subtasks planned
  who,       \* the worker the current subtask was routed to
  steps,     \* the steps so far
  ledger,    \* the worker ledger
  result,    \* the result handed to the caller
  sealed     \* history: the sessions workers ran, in order

orchestratorVars == <<first, opc, plan, who, steps, ledger, result, sealed>>
vars == <<workerVars, orchestratorVars>>

-----------------------------------------------------------------------------
\* The kinds of worker: codeWorker and toolWorker run an agent, cliWorker an
\* external one; "guest" is any other implementation of Worker.
Workers == {"agent", "cli", "guest"}

SessionOutcome == {"completed", "failed", "cancelled"}

\* A worker's result pins its session and says whether it verified.
WorkerResult(outcome, verified, pin) ==
  [outcome |-> outcome, verified |-> verified, pin |-> pin]

NoResult == [outcome |-> "none", met |-> "none", verified |-> FALSE]

Completed(s) == {i \in DOMAIN s : s[i].outcome = "completed"}

\* Mutant: one completed subtask is enough.
AnyCompleted(s) == IF Completed(s) # {} THEN "completed" ELSE "failed"

Outcome(s) ==
  IF s # <<>> /\ Completed(s) = DOMAIN s THEN "completed"
  ELSE IF Completed(s) # {} THEN "partial" ELSE "failed"

Init ==
  /\ WorkerIdle
  /\ first \in Team \cup {"none"}
  /\ opc = "plan"
  /\ plan = 0
  /\ who = "none"
  /\ steps = <<>>
  /\ ledger = <<>>
  /\ result = NoResult
  /\ sealed = <<>>

-----------------------------------------------------------------------------
PlanRecord(n) == [kind |-> "plan", subtasks |-> n]
ContractRecord == [kind |-> "contract"]
RouteRecord(i, w) == [kind |-> "route", subtask |-> i, worker |-> w]
ResultRecord(i, w, r) ==
  [kind |-> "result", subtask |-> i, worker |-> w, outcome |-> r.outcome,
   verified |-> r.verified, pin |-> r.pin]
AcceptanceRecord(met) == [kind |-> "acceptance", met |-> met]
DoneRecord(s, met) ==
  [kind |-> "done", outcome |-> Outcome(s), subtasks |-> Len(s),
   completed |-> Cardinality(Completed(s)), met |-> met]

\* An awaited seam rejected: orchestrate rejects, and the ledger is lost.
Rejects ==
  /\ opc' = "rejected"
  /\ UNCHANGED <<first, plan, who, steps, ledger, result, sealed>>

\* The done record, and the result: verifyLedger holds of a ledger to which
\* record alone has added, each record chained to the one before.
Finish(s, records, met) ==
  /\ opc' = "returned"
  /\ ledger' = Append(records, DoneRecord(s, met))
  /\ result' = [outcome |-> Outcome(s), met |-> met, verified |-> TRUE]

\* After the plan, or a step: the next subtask, the judge if one is wired, or
\* the end.
GoOn(n, s, records) ==
  \/ /\ Len(s) < n
     /\ opc' = "route"
     /\ ledger' = records
     /\ UNCHANGED result
  \/ /\ Len(s) = n
     /\ opc' = "judge"
     /\ ledger' = records
     /\ UNCHANGED result
  \/ /\ Len(s) = n
     /\ Finish(s, records, "none")

\* LlmPlanner falls back to the task itself, so its plan is never empty;
\* another planner's may be.
PlanLengths == 0 .. MaxSubtasks

\* The planner settles.
Plan ==
  /\ opc = "plan"
  /\ \E n \in PlanLengths, contract \in {<<>>, <<ContractRecord>>} :
       /\ plan' = n
       /\ GoOn(n, <<>>, <<PlanRecord(n)>> \o contract)
  /\ UNCHANGED <<first, who, steps, sealed>>
  /\ UNCHANGED workerVars

PlannerRejects == opc = "plan" /\ Rejects /\ UNCHANGED workerVars

\* LlmRouter names a worker, possibly one that does not exist.
RouterChoices == Team \cup {"nobody"}

\* #route: the worker the router named, or the first one.
Chosen(choice) == IF choice \in Team THEN choice ELSE first

\* cliWorker: a session over the external agent.
StartCli == StartWorker("cli")

\* The router settles, and the worker's run begins; or the worker throws
\* while it builds its session.
Route ==
  /\ opc = "route"
  /\ first # "none"
  /\ \E choice \in RouterChoices :
       /\ who' = Chosen(choice)
       /\ ledger' = Append(ledger, RouteRecord(Len(steps) + 1, who'))
       /\ \/ opc' = "work"
             /\ \/ who' = "guest" /\ UNCHANGED workerVars
                \/ who' = "agent" /\ StartWorker("agent")
                \/ who' = "cli" /\ StartCli
          \/ opc' = "rejected" /\ UNCHANGED workerVars
  /\ UNCHANGED <<first, plan, steps, result, sealed>>

\* Mutant: an orchestrator without workers is not noticed.
OnlyRouterThrows ==
  opc = "route" /\ first # "none" /\ Rejects /\ UNCHANGED workerVars

\* The router throws, or there is no worker at all.
RouterRejects == opc = "route" /\ Rejects /\ UNCHANGED workerVars

\* The result record, and on to the next step.  The session the result pins
\* is the last one sealed.
Conclude(r) ==
  LET i == Len(steps) + 1
      step == [worker |-> who, outcome |-> r.outcome, verified |-> r.verified,
               pin |-> r.pin]
  IN /\ steps' = Append(steps, step)
     /\ GoOn(plan, steps', Append(ledger, ResultRecord(i, who, r)))

\* Mutant: the heads are taken before the session runs.
PinBefore(s) == Len(s)

\* resultFromSession pins the heads of the session that just ran.
Pin(s) == Len(s) + 1

\* A session of our own sealed; a seal without an event sink verifies
\* (GovernedSession!SealVerifies).
WorkerSettles ==
  /\ opc = "work"
  /\ who # "guest"
  /\ wpc = "idle"
  /\ sealed' = Append(sealed, [worker |-> who, outcome |-> verdict,
                               verified |-> TRUE,
                               noted |-> Recorded(slog),
                               touched |-> touched,
                               measured |-> measured])
  /\ Conclude(WorkerResult(verdict, TRUE, Pin(sealed)))
  /\ DropWorker
  /\ UNCHANGED <<first, plan, who>>

\* Another worker's session ends in any way, verified or not.
GuestSettles ==
  /\ opc = "work"
  /\ who = "guest"
  /\ \E o \in SessionOutcome, v \in BOOLEAN :
       /\ sealed' = Append(sealed, [worker |-> who, outcome |-> o,
                                    verified |-> v, noted |-> {},
                                    touched |-> {}, measured |-> {}])
       /\ Conclude(WorkerResult(o, v, Pin(sealed)))
  /\ UNCHANGED <<first, plan, who>>
  /\ UNCHANGED workerVars

\* A guest may reject during its run; a session of ours always seals.
WorkerRejects ==
  /\ opc = "work"
  /\ who = "guest"
  /\ Rejects
  /\ UNCHANGED workerVars

\* The judge rules on the steps, or throws.
Judge ==
  /\ opc = "judge"
  /\ \E met \in BOOLEAN :
       Finish(steps, Append(ledger, AcceptanceRecord(met)),
              IF met THEN "met" ELSE "unmet")
  /\ UNCHANGED <<first, plan, who, steps, sealed>>
  /\ UNCHANGED workerVars

JudgeRejects == opc = "judge" /\ Rejects /\ UNCHANGED workerVars

\* A step of the worker's run.
Work == opc = "work" /\ WorkerNext /\ UNCHANGED orchestratorVars

Next ==
  \/ Plan \/ PlannerRejects
  \/ Route \/ RouterRejects
  \/ Work \/ WorkerSettles \/ GuestSettles \/ WorkerRejects
  \/ Judge \/ JudgeRejects

Spec == Init /\ [][Next]_vars

\* The planner, the router, the provider, the sessions and the judge settle.
FairSpec == Spec /\ WF_vars(Next)

-----------------------------------------------------------------------------
\* Where the ledger has its records of a kind.
At(kind) == {j \in DOMAIN ledger : ledger[j].kind = kind}

\* The ledger is bound to the work: each result in it follows the route of
\* the same subtask to the same worker, a registered one, and pins the
\* session that worker sealed for it, with that session's outcome and
\* verification; every session that was sealed is pinned exactly once, in the
\* order they ran, and no route waits for a result but the one being worked on.
LedgerBindsWork ==
  /\ \A j \in At("result") :
       LET r == ledger[j] IN
       /\ r.worker \in Team
       /\ j > 1 /\ ledger[j - 1] = RouteRecord(r.subtask, r.worker)
       /\ r.subtask \in DOMAIN sealed
       /\ r.pin = r.subtask
       /\ r.worker = sealed[r.pin].worker
       /\ r.outcome = sealed[r.pin].outcome
       /\ r.verified = sealed[r.pin].verified
  /\ \A i \in DOMAIN sealed : \E j \in At("result") : ledger[j].pin = i
  /\ \A j, k \in At("result") : j < k => ledger[j].pin < ledger[k].pin
  /\ \A j \in At("route") :
       j + 1 \notin At("result") =>
         /\ opc \in {"work", "rejected"}
         /\ j = Len(ledger)
         /\ ledger[j].subtask = Len(sealed) + 1
         /\ ledger[j].worker \in Team
  /\ opc = "work" => Len(ledger) \in At("route") /\ Last(ledger).worker = who

\* A returned orchestration says of itself what its ledger proves: it is
\* completed only if every planned subtask has a completed session, partial
\* only if some has; a completed session of an external agent proves which files
\* the agent changed, among those that both snapshots read; an acceptance is
\* reported iff it is on the ledger; and nothing follows the done record.
ReturnsWhatItProves ==
  opc = "returned" =>
    LET done == Last(ledger)
        good == {i \in DOMAIN sealed : sealed[i].outcome = "completed"}
    IN /\ done.kind = "done"
       /\ At("done") = {Len(ledger)}
       /\ done.outcome = result.outcome
       /\ done.subtasks = plan
       /\ done.completed = Cardinality(good)
       /\ result.outcome = "completed" <=> plan > 0 /\ Cardinality(good) = plan
       /\ result.outcome = "failed" <=> good = {}
       /\ \A i \in good : sealed[i].worker = "cli" =>
            Notes(sealed[i].noted, sealed[i].touched, sealed[i].measured)
       /\ result.met # "none" <=> At("acceptance") # {}
       /\ \A j \in At("acceptance") : ledger[j].met = (result.met = "met")

\* An orchestration ends, whatever its workers and its provider do.
Settles == <>(opc \in {"returned", "rejected"})
=============================================================================
