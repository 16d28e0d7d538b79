----------------------- MODULE GovernedSessionProofs -----------------------
(***************************************************************************)
(* What GovernedSession guarantees for every number of driver steps and    *)
(* whether or not the event sink may throw and records can be minted.      *)
(***************************************************************************)
EXTENDS GovernedSession, FiniteSetTheorems, SequenceTheorems, TLAPS

ActionKind == {"action.denied", "action.executed"}

\* What appending one record does to the ids on record.
LEMMA RecordedAppend ==
  ASSUME NEW l \in Seq(Record), NEW r \in Record, NEW k \in ActionKind
  PROVE  Recorded(Append(l, r), k)
           = IF r.kind = k THEN Recorded(l, k) \cup {r.id} ELSE Recorded(l, k)
<1> DEFINE m == Append(l, r)
<1>1. /\ DOMAIN m = 1 .. Len(l) + 1
      /\ DOMAIN l = 1 .. Len(l)
      /\ Len(l) \in Nat
      /\ \A i \in 1 .. Len(l) : m[i] = l[i]
      /\ m[Len(l) + 1] = r
  OBVIOUS
<1>2. {j \in DOMAIN m : m[j].kind = k}
        = {j \in DOMAIN l : l[j].kind = k}
            \cup (IF r.kind = k THEN {Len(l) + 1} ELSE {})
  BY <1>1
<1>3. \A i \in DOMAIN l : m[i].id = l[i].id
  BY <1>1
<1>4. m[Len(l) + 1].id = r.id
  BY <1>1
<1> HIDE DEF m
<1>5. QED
  BY <1>2, <1>3, <1>4 DEF Recorded, m

\* The ids on record are ids of actions.
LEMMA RecordedType ==
  ASSUME NEW l \in Seq(Record), NEW k \in ActionKind
  PROVE  Recorded(l, k) \subseteq ActionId
<1>1. ASSUME NEW i \in DOMAIN l, l[i].kind = k
      PROVE  l[i].id \in ActionId
  <2>1. l[i] \in Record
    OBVIOUS
  <2>2. l[i] \in Acted
    BY <2>1, <1>1 DEF Record, Plain, Moved, Seal, ActionKind
  <2>3. QED
    BY <2>2 DEF Acted
<1>2. QED
  BY <1>1 DEF Recorded


\* A log without a record about an action has no ids on record.
LEMMA RecordedNone ==
  ASSUME NEW l, NEW k, \A i \in DOMAIN l : l[i].kind # k
  PROVE  Recorded(l, k) = {}
BY DEF Recorded

-----------------------------------------------------------------------------
(* The two synchronous blocks that write several records at once.          *)

\* The opening writes well-formed records; none is about an action.
LEMMA OpeningShape ==
  ASSUME NEW i \in 0 .. 4
  PROVE  /\ SubSeq(StartLog, 1, i) \in Seq(Record)
         /\ Len(SubSeq(StartLog, 1, i)) = i
         /\ \A j \in 1 .. i : SubSeq(StartLog, 1, i)[j].kind
                                \in {"session.created", "work.transition"}
<1>1. StartLog \in Seq(Record) /\ Len(StartLog) = 4
  BY DEF StartLog, Record, Plain, Moved, WorkState
<1>2. \A j \in 1 .. 4 : StartLog[j].kind
                          \in {"session.created", "work.transition"}
  BY DEF StartLog
<1>3. /\ Len(SubSeq(StartLog, 1, i)) = i
      /\ \A j \in 1 .. i : SubSeq(StartLog, 1, i)[j] = StartLog[j]
  BY <1>1
<1> HIDE DEF StartLog
<1>4. SubSeq(StartLog, 1, i) \in Seq(Record)
  <2>1. \A j \in 1 .. i : j \in 1 .. 4
    OBVIOUS
  <2>2. \A j \in 1 .. i : StartLog[j] \in Record
    BY <2>1, <1>1, ElementOfSeq
  <2>3. 1 \in Int /\ i \in Int
    OBVIOUS
  <2>4. QED
    BY ONLY <2>2, <2>3, SubSeqProperties
<1>5. QED
  BY <1>2, <1>3, <1>4

\* So are the transitions the opening may have made.
LEMMA OpeningSpine ==
  ASSUME NEW i \in 0 .. 3
  PROVE  SubSeq(StartSpine, 1, i) \in Seq(Transition)
<1>1. StartSpine \in Seq(Transition) /\ Len(StartSpine) = 3
  BY DEF StartSpine, Transition, WorkState
<1> HIDE DEF StartSpine
<1>2. /\ 1 \in Int /\ i \in Int
      /\ \A j \in 1 .. i : StartSpine[j] \in Transition
  BY <1>1
<1>3. QED
  BY ONLY <1>2, SubSeqProperties

\* What is left of the opening when an emission of it throws.
LEMMA OpeningForms ==
  ASSUME StartThrows
  PROVE  /\ \E i \in 0 .. 4 : log' = SubSeq(StartLog, 1, i)
         /\ \E i \in 0 .. 3 : spine' = SubSeq(StartSpine, 1, i)
<1>1. PICK i \in 1 .. 4 :
        /\ log' = SubSeq(StartLog, 1, i) \/ log' = SubSeq(StartLog, 1, i - 1)
        /\ spine' = SubSeq(StartSpine, 1, i - 1)
  BY DEF StartThrows
<1>2. i \in 0 .. 4 /\ i - 1 \in 0 .. 4 /\ i - 1 \in 0 .. 3
  OBVIOUS
<1>3. QED
  BY <1>1, <1>2

\* The opening as a whole is well formed.
LEMMA StartShape ==
  /\ StartLog \in Seq(Record)
  /\ StartSpine \in Seq(Transition)
  /\ Len(StartLog) = 4
  /\ \A j \in 1 .. 4 : StartLog[j].kind
                         \in {"session.created", "work.transition"}
BY DEF StartLog, StartSpine, Record, Plain, Moved, Transition, WorkState

\* What #finalize appends: two well-formed records and one transition, which
\* verifyBinding accepts whatever log and spine they are appended to.
LEMMA FinalizeShape ==
  ASSUME NEW l \in Seq(Record), NEW s \in Seq(Transition),
         NEW o \in Outcome, executed \in Nat, denied \in Nat
  PROVE  /\ MovedLog(l, o) \in Seq(Record)
         /\ FinalLog(l, s, o) \in Seq(Record)
         /\ FinalSpine(l, s, o) \in Seq(Transition)
         /\ Len(MovedLog(l, o)) = Len(l) + 1
         /\ Len(FinalLog(l, s, o)) = Len(l) + 2
         /\ MovedLog(l, o)[Len(l) + 1].kind = "work.transition"
         /\ VerifyBinding(FinalLog(l, s, o), FinalSpine(l, s, o))
         /\ FinalLog(l, s, o)[Len(l) + 2].outcome = o
         /\ FinalLog(l, s, o)[Len(l) + 2].actionsExecuted = executed
         /\ FinalLog(l, s, o)[Len(l) + 2].actionsDenied = denied
         /\ \A k \in ActionKind :
              /\ Recorded(MovedLog(l, o), k) = Recorded(l, k)
              /\ Recorded(FinalLog(l, s, o), k) = Recorded(l, k)
<1> DEFINE w == OUTCOME_STATE[o]
           moved == [kind |-> "work.transition", to |-> w]
           last == [to |-> w, head |-> Len(l)]
           seal == [kind |-> "session.sealed", outcome |-> o,
                    finalLogLength |-> Len(MovedLog(l, o)) + 1,
                    workAnchor |-> Len(FinalSpine(l, s, o)),
                    actionsExecuted |-> executed, actionsDenied |-> denied]
<1>1. w \in Terminal /\ w \in WorkState /\ STATE_OUTCOME[w] = o
  BY DEF OUTCOME_STATE, STATE_OUTCOME, Terminal, Outcome, WorkState
<1>2. moved \in Record /\ last \in Transition /\ Len(l) \in Nat
  BY <1>1 DEF Record, Moved, Transition
<1>3. /\ MovedLog(l, o) = Append(l, moved)
      /\ MovedLog(l, o) \in Seq(Record)
      /\ Len(MovedLog(l, o)) = Len(l) + 1
      /\ MovedLog(l, o)[Len(l) + 1] = moved
  BY <1>2 DEF MovedLog
<1>4. /\ FinalSpine(l, s, o) \in Seq(Transition)
      /\ Len(FinalSpine(l, s, o)) = Len(s) + 1
      /\ Len(s) \in Nat
      /\ FinalSpine(l, s, o)[Len(s) + 1] = last
  BY <1>2 DEF FinalSpine
<1>5. seal \in Seal /\ seal \in Record
  BY <1>3, <1>4, <1>2 DEF Record, Seal
<1>6. FinalLog(l, s, o) = Append(MovedLog(l, o), seal)
  BY DEF FinalLog
<1>7. /\ FinalLog(l, s, o) \in Seq(Record)
      /\ Len(FinalLog(l, s, o)) = Len(l) + 2
      /\ FinalLog(l, s, o)[Len(l) + 2] = seal
  BY <1>6, <1>5, <1>3, <1>2
<1>8. seal.kind = "session.sealed" /\ seal.outcome = o
      /\ seal.finalLogLength = Len(l) + 2 /\ seal.workAnchor = Len(s) + 1
      /\ seal.actionsExecuted = executed /\ seal.actionsDenied = denied
  BY <1>3, <1>4, <1>2
<1>9. last.to = w /\ last.head = Len(l)
  OBVIOUS
<1>10. moved.kind = "work.transition"
  OBVIOUS
<1> HIDE DEF w, moved, last, seal
<1>11. VerifyBinding(FinalLog(l, s, o), FinalSpine(l, s, o))
  <2>1. FinalLog(l, s, o) # <<>> /\ FinalSpine(l, s, o) # <<>>
    BY <1>7, <1>4, <1>2
  <2>2. QED
    BY <2>1, <1>7, <1>4, <1>8, <1>9, <1>1, <1>2 DEF VerifyBinding
<1>12. ASSUME NEW k \in ActionKind
       PROVE  /\ Recorded(MovedLog(l, o), k) = Recorded(l, k)
              /\ Recorded(FinalLog(l, s, o), k) = Recorded(l, k)
  <2>1. k # moved.kind /\ k # seal.kind
    BY <1>8, <1>10 DEF ActionKind
  <2>2. Recorded(Append(l, moved), k) = Recorded(l, k)
    BY <2>1, <1>2, RecordedAppend
  <2>3. Recorded(Append(MovedLog(l, o), seal), k)
          = Recorded(MovedLog(l, o), k)
    BY <2>1, <1>3, <1>5, RecordedAppend
  <2>4. QED
    BY <2>2, <2>3, <1>3, <1>6
<1>13. QED
  BY <1>3, <1>4, <1>7, <1>8, <1>10, <1>11, <1>12

-----------------------------------------------------------------------------
(* The inductive invariant.                                                *)

\* Before the run nothing has happened; ids on record are past steps.
Bookkeeping ==
  /\ pc = "new" => /\ steps = 0 /\ executed = 0 /\ denied = 0
                   /\ effects = {} /\ log = <<>>
  /\ pc = "new" => outcome = "failed"
  /\ \A k \in ActionKind : Recorded(log, k) \subseteq 1 .. steps
  /\ effects \subseteq 1 .. steps

\* The action in the pipeline is the last step's and has left no trace yet.
InFlight ==
  pc \in {"authorize", "execute"} =>
    /\ action.id = steps
    /\ steps \in ActionId
    /\ steps \notin effects
    /\ \A k \in ActionKind : steps \notin Recorded(log, k)

\* Every action counted is on record.
Level == Lead(executed, denied) = <<0, 0>>

\* The counters count the records, but for one the run ended with because it
\* could not be minted.
Counted ==
  /\ Lead(executed, denied) \in {<<0, 0>>, <<0, 1>>, <<1, 0>>}
  /\ pc \in {"new", "driver", "authorize", "execute"} => Level
  /\ outcome = "completed" => Level

\* Only the end of a run writes the seal.
SealsAtEnd == pc \notin {"sealed", "rejected"} => ~IsSealed

\* While no executor has thrown, every effect is on record.
Accounted ==
  pc \in {"driver", "authorize", "execute"} =>
    effects \subseteq Recorded(log, "action.executed")

Ledger ==
  /\ Bookkeeping
  /\ InFlight
  /\ DeniedNeverExecuted
  /\ Counted
  /\ SealsAtEnd
  /\ Accounted
  /\ CompletedIsAccounted

IInv ==
  /\ TypeOK
  /\ Ledger
  /\ SealVerifies
  /\ SealCounts
  /\ CancellationWins

-----------------------------------------------------------------------------
(* Type correctness.                                                       *)

\* The records an action may append are well formed.
LEMMA RecordForms ==
  /\ \A k \in {"observation", "message"} : [kind |-> k] \in Record
  /\ \A k \in ActionKind, i \in ActionId : [kind |-> k, id |-> i] \in Record
BY DEF Record, Plain, Acted, ActionKind

\* The results and actions the code builds are well formed.
LEMMA ResultForms ==
  /\ NoResult \in Result
  /\ NoAction \in Action
  /\ \A b \in BOOLEAN, i \in ActionId : [id |-> i, allowed |-> b] \in Result
BY MaxStepsAssumption DEF NoResult, Result, NoAction, Action, ActionId

\* A session not yet run has the types.
LEMMA TypeInit == Init => TypeOK
BY MaxStepsAssumption
   DEF Init, TypeOK, PC, Action, NoAction, Result, NoResult, Outcome

\* The two ways a denial goes on.
LEMMA DenyForms ==
  ASSUME NEW a, Deny(a)
  PROVE  /\ denied' = denied + 1
         /\ log' = Append(log, [kind |-> "action.denied", id |-> a.id])
         /\ \/ pc' = "closing" /\ outcome' = "failed" /\ sent' = NoResult
            \/ /\ pc' = "driver" /\ outcome' = outcome
               /\ sent' = [id |-> a.id, allowed |-> FALSE]
<1>1. PICK thrown \in Thrown :
        IF thrown \/ a.required
        THEN Leave("failed") /\ sent' = NoResult
        ELSE /\ pc' = "driver"
             /\ sent' = [id |-> a.id, allowed |-> FALSE]
             /\ UNCHANGED outcome
  BY DEF Deny
<1>2. CASE thrown \/ a.required
  BY <1>1, <1>2 DEF Deny, Leave
<1>3. CASE ~(thrown \/ a.required)
  BY <1>1, <1>3 DEF Deny
<1>4. QED
  BY <1>2, <1>3

\* The two ways a recorded report or execution goes on.
LEMMA ReportForms ==
  ASSUME NEW kind, DriverReports(kind)
  PROVE  \/ pc' = "closing" /\ outcome' = "failed"
         \/ pc' = pc /\ outcome' = outcome
<1>1. PICK thrown \in Thrown :
        IF thrown THEN Leave("failed") ELSE UNCHANGED <<pc, outcome>>
  BY DEF DriverReports
<1>2. CASE thrown
  BY <1>1, <1>2 DEF Leave
<1>3. CASE ~thrown
  BY <1>1, <1>3
<1>4. QED
  BY <1>2, <1>3

\* The two ways an execution that returned goes on.
LEMMA ReturnForms ==
  ASSUME ExecutorReturns
  PROVE  \/ pc' = "closing" /\ outcome' = "failed" /\ sent' = NoResult
         \/ /\ pc' = "driver" /\ outcome' = outcome
            /\ sent' = [id |-> action.id, allowed |-> TRUE]
<1>1. PICK thrown \in Thrown :
        IF thrown
        THEN Leave("failed") /\ sent' = NoResult
        ELSE /\ pc' = "driver"
             /\ sent' = [id |-> action.id, allowed |-> TRUE]
             /\ UNCHANGED outcome
  BY DEF ExecutorReturns
<1>2. CASE thrown
  BY <1>1, <1>2 DEF Leave
<1>3. CASE ~thrown
  BY <1>1, <1>3
<1>4. QED
  BY <1>2, <1>3

\* Denying the action of a step keeps the types.
LEMMA TypeDeny ==
  ASSUME TypeOK, NEW a, a.id \in ActionId, Deny(a)
  PROVE  /\ denied' \in Nat
         /\ log' \in Seq(Record)
         /\ pc' \in PC
         /\ sent' \in Result
         /\ outcome' \in Outcome
<1>1. /\ denied' = denied + 1
      /\ log' = Append(log, [kind |-> "action.denied", id |-> a.id])
      /\ \/ pc' = "closing" /\ outcome' = "failed" /\ sent' = NoResult
         \/ /\ pc' = "driver" /\ outcome' = outcome
            /\ sent' = [id |-> a.id, allowed |-> FALSE]
  BY DenyForms
<1>2. [kind |-> "action.denied", id |-> a.id] \in Record
  BY RecordForms DEF ActionKind
<1>3. log' \in Seq(Record)
  BY <1>1, <1>2 DEF TypeOK
<1>4. NoResult \in Result /\ [id |-> a.id, allowed |-> FALSE] \in Result
  BY MaxStepsAssumption, ResultForms DEF ActionId
<1>5. denied' \in Nat
  BY <1>1 DEF TypeOK
<1>6. pc' \in PC /\ outcome' \in Outcome /\ sent' \in Result
  BY <1>1, <1>4 DEF TypeOK, PC, Outcome
<1>7. QED
  BY <1>3, <1>5, <1>6

\* #finalize keeps the types.
LEMMA TypeFinalize ==
  ASSUME TypeOK, NEW l \in Seq(Record), NEW s \in Seq(Transition),
         NEW o \in Outcome, Finalize(l, s, o)
  PROVE  /\ outcome' \in Outcome
         /\ spine' \in Seq(Transition)
         /\ log' \in Seq(Record)
         /\ pc' \in PC
<1>1. executed \in Nat /\ denied \in Nat
  BY DEF TypeOK
<1>2. /\ MovedLog(l, o) \in Seq(Record)
      /\ FinalLog(l, s, o) \in Seq(Record)
      /\ FinalSpine(l, s, o) \in Seq(Transition)
  BY <1>1, FinalizeShape
<1>3. QED
  BY <1>2 DEF Finalize, PC

\* Every step keeps the types, given what InFlight says of the action.
LEMMA TypeStep == TypeOK /\ InFlight /\ [Next]_vars => TypeOK'
<1> SUFFICES ASSUME TypeOK, InFlight, [Next]_vars
             PROVE  TypeOK'
  OBVIOUS
<1> USE MaxStepsAssumption
<1>1. CASE Abort
  BY <1>1 DEF Abort, TypeOK
<1>2. CASE Start
  BY <1>2, StartShape DEF Start, TypeOK, PC
<1>3. CASE StartAborted
  <2>1. "cancelled" \in Outcome
    BY DEF Outcome
  <2>2. Finalize(StartLog, StartSpine, "cancelled")
    BY <1>3 DEF StartAborted
  <2>3. QED
    BY <1>3, <2>1, <2>2, StartShape, TypeFinalize DEF StartAborted, TypeOK
<1>4. CASE StartThrows
  <2>1. log' \in Seq(Record) /\ spine' \in Seq(Transition)
    BY <1>4, OpeningForms, OpeningShape, OpeningSpine
  <2>2. QED
    BY <1>4, <2>1 DEF StartThrows, TypeOK, PC
<1>5. CASE StepAfterAbort
  BY <1>5 DEF StepAfterAbort, Yield, DriverSteps, Leave, TypeOK, PC, Outcome,
              Result, NoResult
<1>6. ASSUME NEW kind \in {"observation", "message"}, DriverReports(kind)
      PROVE  TypeOK'
  <2>1. log' \in Seq(Record)
    BY <1>6, RecordForms DEF DriverReports, TypeOK
  <2>2. QED
    BY <1>6, <2>1, ReportForms
       DEF DriverReports, YieldLive, Yield, DriverSteps, TypeOK, PC, Outcome,
           Result, NoResult
<1>7. ASSUME NEW o \in {"completed", "failed"}, DriverConcludes(o)
      PROVE  TypeOK'
  BY <1>7 DEF DriverConcludes, YieldLive, Yield, DriverSteps, Leave, TypeOK,
              PC, Outcome, Result, NoResult
<1>8. CASE DriverStops
  BY <1>8 DEF DriverStops, Leave, TypeOK, PC, Outcome, Result, NoResult
<1>9. ASSUME NEW required \in BOOLEAN, ActionTripped(required)
      PROVE  TypeOK'
  <2> DEFINE a == [id |-> steps + 1, required |-> required]
  <2>1. a \in Action /\ a.id \in ActionId /\ steps + 1 \in 0 .. MaxSteps
    BY <1>9 DEF ActionTripped, DriverSteps, Action, ActionId, TypeOK
  <2>2. Deny(a)
    BY <1>9 DEF ActionTripped
  <2> HIDE DEF a
  <2>3. QED
    BY <1>9, <2>1, <2>2, TypeDeny DEF ActionTripped, DriverSteps, TypeOK
<1>10. ASSUME NEW required \in BOOLEAN, ActionProposed(required)
       PROVE  TypeOK'
  BY <1>10 DEF ActionProposed, YieldLive, Yield, DriverSteps, TypeOK, PC,
               Action, Result, NoResult
<1>11. CASE AuthorizerGrants
  BY <1>11 DEF AuthorizerGrants, TypeOK, PC
<1>12. CASE AuthorizerRefuses
  <2>1. action.id \in ActionId /\ Deny(action)
    BY <1>12 DEF AuthorizerRefuses, InFlight
  <2>2. QED
    BY <1>12, <2>1, TypeDeny
       DEF AuthorizerRefuses, TypeOK, Action, NoAction
<1>13. CASE AuthorizerThrows
  BY <1>13 DEF AuthorizerThrows, Leave, TypeOK, PC, Outcome, Action, NoAction
<1>14. CASE ExecutorReturns
  <2>1. action.id \in ActionId
    BY <1>14 DEF ExecutorReturns, InFlight
  <2>2. log' \in Seq(Record)
    BY <1>14, <2>1, RecordForms DEF ExecutorReturns, TypeOK, ActionKind
  <2>3. sent' \in Result /\ action' \in Action
    BY <1>14, <2>1, ReturnForms, ResultForms DEF ExecutorReturns
  <2>4. pc' \in PC /\ outcome' \in Outcome
    BY <1>14, ReturnForms DEF TypeOK, PC, Outcome
  <2>5. QED
    BY <1>14, <2>1, <2>2, <2>3, <2>4
       DEF ExecutorReturns, ExecutorActs, TypeOK
<1>15. CASE ExecutorThrows
  <2>1. action.id \in ActionId
    BY <1>15 DEF ExecutorThrows, InFlight
  <2>2. QED
    BY <1>15, <2>1 DEF ExecutorThrows, ExecutorActs, Leave, TypeOK, PC,
                       Outcome, Action, NoAction
<1>16. CASE Close
  <2>1. FinalOutcome \in Outcome
    BY DEF FinalOutcome, Outcome, TypeOK
  <2>2. Finalize(log, spine, FinalOutcome)
    BY <1>16 DEF Close
  <2>3. QED
    BY <1>16, <2>1, <2>2, TypeFinalize DEF Close, TypeOK
<1>17. CASE TripUnrecorded
  BY <1>17 DEF TripUnrecorded, YieldLive, Yield, DriverSteps,
               CountedUnrecorded, Leave, TypeOK, PC, Outcome, Result, NoResult
<1>18. CASE RefusalUnrecorded
  BY <1>18 DEF RefusalUnrecorded, CountedUnrecorded, Leave, TypeOK, PC,
               Outcome, Action, NoAction
<1>19. CASE ExecutionUnrecorded
  <2>1. action.id \in ActionId
    BY <1>19 DEF ExecutionUnrecorded, InFlight
  <2>2. QED
    BY <1>19, <2>1 DEF ExecutionUnrecorded, CountedUnrecorded, ExecutorActs,
                       Leave, TypeOK, PC, Outcome, Action, NoAction
<1>20. CASE UNCHANGED vars
  BY <1>20 DEF vars, TypeOK
<1>21. QED
  BY <1>1, <1>2, <1>3, <1>4, <1>5, <1>6, <1>7, <1>8, <1>9, <1>10, <1>11,
     <1>12, <1>13, <1>14, <1>15, <1>16, <1>17, <1>18, <1>19, <1>20
     DEF Next, Run

-----------------------------------------------------------------------------
(* How a step changes what is on record.                                   *)

\* A step that appends nothing changes nothing on record.
LEMMA QuietRecords ==
  ASSUME log' = log
  PROVE  /\ \A k \in ActionKind : Recorded(log, k)' = Recorded(log, k)
         /\ IsSealed' = IsSealed
BY DEF Recorded, IsSealed

\* What a step that appends one record changes on record.
LEMMA AppendRecords ==
  ASSUME TypeOK, NEW r \in Record, log' = Append(log, r)
  PROVE  /\ \A k \in ActionKind :
              Recorded(log, k)' = IF r.kind = k
                                  THEN Recorded(log, k) \cup {r.id}
                                  ELSE Recorded(log, k)
         /\ r.kind # "session.sealed" => ~IsSealed'
<1>1. log \in Seq(Record)
  BY DEF TypeOK
<1>2. \A k \in ActionKind :
        Recorded(log', k) = IF r.kind = k THEN Recorded(log, k) \cup {r.id}
                            ELSE Recorded(log, k)
  BY <1>1, RecordedAppend
<1>3. \A k : Recorded(log, k)' = Recorded(log', k)
  BY DEF Recorded
<1>4. log'[Len(log')] = r
  BY <1>1
<1>5. QED
  BY <1>2, <1>3, <1>4 DEF IsSealed

\* The ids on record are finitely many, so adding a new one adds one.
LEMMA RecordedCount ==
  ASSUME TypeOK, NEW k \in ActionKind, NEW i, i \notin Recorded(log, k)
  PROVE  /\ Cardinality(Recorded(log, k)) \in Nat
         /\ Cardinality(Recorded(log, k) \cup {i})
              = Cardinality(Recorded(log, k)) + 1
<1>1. IsFiniteSet(ActionId)
  BY MaxStepsAssumption, FS_Interval DEF ActionId
<1>2. Recorded(log, k) \subseteq ActionId
  BY RecordedType DEF TypeOK
<1>3. IsFiniteSet(Recorded(log, k))
  BY <1>1, <1>2, FS_Subset
<1>4. QED
  BY <1>3, FS_AddElement, FS_CardinalityType

\* A step that records nothing about an action changes no lead but by its
\* counts.
LEMMA QuietLead ==
  ASSUME \A k \in ActionKind : Recorded(log, k)' = Recorded(log, k)
  PROVE  \A e, d : /\ executed' = e /\ denied' = d
                   => Lead(executed, denied)' = Lead(e, d)
BY DEF Lead, ActionKind

\* Counting one more action leads the record by one more.
LEMMA LeadByOne ==
  ASSUME TypeOK, Lead(executed, denied) = <<0, 0>>
  PROVE  /\ Lead(executed + 1, denied) = <<1, 0>>
         /\ Lead(executed, denied + 1) = <<0, 1>>
<1>1. /\ Cardinality(Recorded(log, "action.executed")) \in Nat
      /\ Cardinality(Recorded(log, "action.denied")) \in Nat
  <2>1. IsFiniteSet(ActionId)
    BY MaxStepsAssumption, FS_Interval DEF ActionId
  <2>2. \A k \in ActionKind : Recorded(log, k) \subseteq ActionId
    BY RecordedType DEF TypeOK
  <2>3. QED
    BY <2>1, <2>2, FS_Subset, FS_CardinalityType DEF ActionKind
<1>2. executed \in Nat /\ denied \in Nat
  BY DEF TypeOK
<1>3. QED
  BY <1>1, <1>2 DEF Lead

\* A log without a record about an action, as the opening leaves it.
LEMMA OpeningRecords ==
  ASSUME NEW i \in 0 .. 4, log' = SubSeq(StartLog, 1, i)
  PROVE  /\ \A k \in ActionKind : Recorded(log, k)' = {}
         /\ ~IsSealed'
<1>1. /\ log' \in Seq(Record)
      /\ Len(log') = i
      /\ \A j \in 1 .. i : log'[j].kind
                             \in {"session.created", "work.transition"}
  BY OpeningShape
<1>2. \A j \in DOMAIN log' : log'[j].kind
                               \in {"session.created", "work.transition"}
  BY <1>1
<1>3. \A k \in ActionKind : Recorded(log', k) = {}
  BY <1>1, <1>2, RecordedNone DEF ActionKind
<1>4. \A k : Recorded(log, k)' = Recorded(log', k)
  BY DEF Recorded
<1>5. QED
  BY <1>1, <1>3, <1>4 DEF IsSealed

\* The opening has no record about an action, and no seal.
LEMMA StartRecords ==
  /\ \A k \in ActionKind : Recorded(StartLog, k) = {}
  /\ StartLog[Len(StartLog)].kind # "session.sealed"
<1>1. \A j \in DOMAIN StartLog : StartLog[j].kind
                                   \in {"session.created", "work.transition"}
  BY StartShape
<1>2. QED
  BY <1>1, StartShape, RecordedNone DEF ActionKind

-----------------------------------------------------------------------------
(* Every step keeps the ledger part of the invariant.                      *)

\* A step that changes nothing that is on record about actions.
LEMMA QuietLedger ==
  ASSUME TypeOK, Ledger, steps' \in Nat, steps <= steps',
         \A k \in ActionKind : Recorded(log, k)' = Recorded(log, k),
         ~IsSealed',
         UNCHANGED <<effects, executed, denied>>,
         pc' # "new",
         pc' \in {"driver", "authorize", "execute"}
           => effects \subseteq Recorded(log, "action.executed"),
         outcome' = "completed"
           => effects \subseteq Recorded(log, "action.executed"),
         pc' \in {"driver", "authorize", "execute"} => Level,
         outcome' = "completed" => Level,
         InFlight'
  PROVE  Ledger'
<1>1. Bookkeeping'
  BY DEF Ledger, Bookkeeping, TypeOK
<1>2. DeniedNeverExecuted' /\ Counted'
  <2>1. DeniedNeverExecuted'
    BY DEF Ledger, DeniedNeverExecuted, ActionKind
  <2>2. Lead(executed, denied)' = Lead(executed, denied)
    BY QuietLead
  <2>3. QED
    BY <2>1, <2>2 DEF Ledger, Counted, Level
<1>3. SealsAtEnd'
  BY DEF SealsAtEnd
<1>4. Accounted' /\ CompletedIsAccounted'
  BY DEF Accounted, CompletedIsAccounted, ActionKind
<1>5. QED
  BY <1>1, <1>2, <1>3, <1>4 DEF Ledger

\* A step that records the fate of the action with id i, new to the record.
LEMMA ActedLedger ==
  ASSUME TypeOK, Ledger, NEW i \in ActionId, NEW k \in ActionKind,
         log' = Append(log, [kind |-> k, id |-> i]),
         steps' \in Nat, steps <= steps', i <= steps',
         i \notin effects, \A j \in ActionKind : i \notin Recorded(log, j),
         effects' \in {effects, effects \cup {i}},
         k = "action.denied" => UNCHANGED effects,
         executed' = IF k = "action.executed" THEN executed + 1 ELSE executed,
         denied' = IF k = "action.denied" THEN denied + 1 ELSE denied,
         effects \subseteq Recorded(log, "action.executed"), Level,
         pc' \in {"driver", "closing"}
  PROVE  Ledger'
<1> DEFINE D == Recorded(log, "action.denied")
           X == Recorded(log, "action.executed")
           r == [kind |-> k, id |-> i]
<1>1. r \in Record /\ r.kind = k /\ r.id = i
  BY RecordForms
<1>2. /\ \A j \in ActionKind :
           Recorded(log, j)' = IF k = j THEN Recorded(log, j) \cup {i}
                               ELSE Recorded(log, j)
      /\ k # "session.sealed" => ~IsSealed'
  <2> HIDE DEF r
  <2>1. log' = Append(log, r)
    BY DEF r
  <2>2. QED
    BY <2>1, <1>1, AppendRecords
<1>3. /\ D' = IF k = "action.denied" THEN D \cup {i} ELSE D
      /\ X' = IF k = "action.executed" THEN X \cup {i} ELSE X
      /\ ~IsSealed'
  BY <1>2 DEF ActionKind
<1>4. i \notin D /\ i \notin X
  BY DEF ActionKind
<1>5. D \subseteq 1 .. steps /\ X \subseteq 1 .. steps /\ effects \subseteq 1 .. steps
  BY DEF Ledger, Bookkeeping, ActionKind
<1>6. D \cap (effects \cup X) = {}
  BY DEF Ledger, DeniedNeverExecuted
<1>7. /\ Cardinality(D \cup {i}) = Cardinality(D) + 1
      /\ Cardinality(X \cup {i}) = Cardinality(X) + 1
  BY <1>4, RecordedCount DEF ActionKind
<1>8. /\ Cardinality(X) \in Nat /\ Cardinality(D) \in Nat
      /\ executed \in Nat /\ denied \in Nat
      /\ executed - Cardinality(X) = 0 /\ denied - Cardinality(D) = 0
  <2>1. /\ Cardinality(X) \in Nat /\ Cardinality(D) \in Nat
    BY <1>4, RecordedCount DEF ActionKind
  <2>2. executed \in Nat /\ denied \in Nat
    BY DEF TypeOK
  <2>3. QED
    BY <2>1, <2>2 DEF Level, Lead
<1>9. k = "action.denied" \/ k = "action.executed"
  BY DEF ActionKind
<1>10. /\ Bookkeeping' = (/\ D' \subseteq 1 .. steps'
                          /\ X' \subseteq 1 .. steps'
                          /\ effects' \subseteq 1 .. steps')
       /\ DeniedNeverExecuted' = (D' \cap (effects' \cup X') = {})
       /\ Accounted' = (pc' = "driver" => effects' \subseteq X')
       /\ CompletedIsAccounted' = (outcome' = "completed" => effects' \subseteq X')
  BY DEF Bookkeeping, DeniedNeverExecuted, Accounted, CompletedIsAccounted,
         ActionKind
<1>16. Lead(executed, denied)'
         = <<executed' - Cardinality(X'), denied' - Cardinality(D')>>
  BY DEF Lead
<1>17. Lead(executed, denied)' = <<0, 0>> => Counted'
  BY DEF Counted, Level
<1> HIDE DEF D, X
<1>11. 1 .. steps \subseteq 1 .. steps' /\ i \in 1 .. steps'
  BY DEF TypeOK, ActionId
<1>12. effects \subseteq X
  BY DEF X
<1>13. CASE k = "action.denied"
  <2>1. D' = D \cup {i} /\ X' = X /\ effects' = effects
    BY <1>13, <1>3
  <2>2. executed' = executed /\ denied' = denied + 1
    BY <1>13
  <2>3. Bookkeeping' /\ DeniedNeverExecuted'
    BY <2>1, <1>4, <1>5, <1>6, <1>10, <1>11
  <2>4. Counted' /\ Accounted' /\ CompletedIsAccounted'
    <3>1. executed' - Cardinality(X') = 0 /\ denied' - Cardinality(D') = 0
      BY <2>1, <2>2, <1>7, <1>8
    <3>2. QED
      BY <3>1, <2>1, <1>10, <1>12, <1>16, <1>17
  <2>5. InFlight' /\ SealsAtEnd'
    BY <1>3 DEF InFlight, SealsAtEnd
  <2>6. QED
    BY <2>3, <2>4, <2>5 DEF Ledger
<1>14. CASE k = "action.executed"
  <2>1. D' = D /\ X' = X \cup {i} /\ effects' \subseteq effects \cup {i}
    BY <1>14, <1>3
  <2>2. executed' = executed + 1 /\ denied' = denied
    BY <1>14
  <2>3. Bookkeeping' /\ DeniedNeverExecuted'
    BY <2>1, <1>4, <1>5, <1>6, <1>10, <1>11
  <2>4. Counted' /\ Accounted' /\ CompletedIsAccounted'
    <3>1. executed' - Cardinality(X') = 0 /\ denied' - Cardinality(D') = 0
      BY <2>1, <2>2, <1>7, <1>8
    <3>2. QED
      BY <3>1, <2>1, <1>10, <1>12, <1>16, <1>17
  <2>5. InFlight' /\ SealsAtEnd'
    BY <1>3 DEF InFlight, SealsAtEnd
  <2>6. QED
    BY <2>3, <2>4, <2>5 DEF Ledger
<1>15. QED
  BY <1>9, <1>13, <1>14

\* A step that ends the loop because an action was counted and its record
\* could not be minted.
LEMMA UnrecordedLedger ==
  ASSUME TypeOK, Ledger, Level, log' = log, steps' \in Nat, steps <= steps',
         effects' = effects
           \/ \E i \in 1 .. steps' :
                /\ effects' = effects \cup {i}
                /\ i \notin Recorded(log, "action.denied"),
         \/ executed' = executed + 1 /\ denied' = denied
         \/ executed' = executed /\ denied' = denied + 1,
         pc \notin {"sealed", "rejected"}, pc' = "closing",
         outcome' = "failed"
  PROVE  Ledger'
<1>1. /\ \A k \in ActionKind : Recorded(log, k)' = Recorded(log, k)
      /\ ~IsSealed'
  BY QuietRecords DEF Ledger, SealsAtEnd
<1>2. Bookkeeping'
  <2>1. \A k \in ActionKind : Recorded(log, k)' \subseteq 1 .. steps'
    BY <1>1 DEF Ledger, Bookkeeping, TypeOK
  <2>2. effects' \subseteq 1 .. steps'
    <3>1. effects \subseteq 1 .. steps'
      BY DEF Ledger, Bookkeeping, TypeOK
    <3>2. QED
      BY <3>1
  <2>3. QED
    BY <2>1, <2>2 DEF Bookkeeping
<1>3. DeniedNeverExecuted'
  BY <1>1 DEF Ledger, DeniedNeverExecuted, ActionKind
<1>4. Counted'
  <2>1. Lead(executed, denied)' \in {<<1, 0>>, <<0, 1>>}
    BY <1>1, QuietLead, LeadByOne DEF Level
  <2>2. QED
    BY <2>1 DEF Counted
<1>5. QED
  BY <1>1, <1>2, <1>3, <1>4
     DEF Ledger, InFlight, SealsAtEnd, Accounted, CompletedIsAccounted

\* A log that ends with no seal.
Unsealed(l) == ~(l # <<>> /\ l[Len(l)].kind = "session.sealed")

\* Sealing over a log l that records what the present log records.
LEMMA FinalizeStep ==
  ASSUME TypeOK, Ledger, NEW l \in Seq(Record), NEW s \in Seq(Transition),
         NEW o \in Outcome, Finalize(l, s, o),
         \A k \in ActionKind : Recorded(l, k) = Recorded(log, k),
         o = "completed" => effects \subseteq Recorded(log, "action.executed"),
         o = "completed" => Level,
         Unsealed(l),
         aborted => o = "cancelled",
         UNCHANGED <<steps, effects, executed, denied, aborted>>
  PROVE  Ledger' /\ SealVerifies' /\ SealCounts' /\ CancellationWins'
<1>1. executed \in Nat /\ denied \in Nat
  BY DEF TypeOK
<1>2. /\ MovedLog(l, o) \in Seq(Record)
      /\ FinalLog(l, s, o) \in Seq(Record)
      /\ Len(MovedLog(l, o)) = Len(l) + 1
      /\ Len(FinalLog(l, s, o)) = Len(l) + 2
      /\ MovedLog(l, o)[Len(l) + 1].kind = "work.transition"
      /\ VerifyBinding(FinalLog(l, s, o), FinalSpine(l, s, o))
      /\ FinalLog(l, s, o)[Len(l) + 2].outcome = o
      /\ FinalLog(l, s, o)[Len(l) + 2].actionsExecuted = executed
      /\ FinalLog(l, s, o)[Len(l) + 2].actionsDenied = denied
      /\ \A k \in ActionKind :
           /\ Recorded(MovedLog(l, o), k) = Recorded(l, k)
           /\ Recorded(FinalLog(l, s, o), k) = Recorded(l, k)
  BY <1>1, FinalizeShape
<1>3. /\ outcome' = o
      /\ spine' = FinalSpine(l, s, o)
      /\ log' = l \/ log' = MovedLog(l, o) \/ log' = FinalLog(l, s, o)
      /\ pc' \in {"sealed", "rejected"}
      /\ pc' = "sealed" => log' = FinalLog(l, s, o)
  BY DEF Finalize
<1>4. \A k \in ActionKind : Recorded(log, k)' = Recorded(log, k)
  <2>1. \A k \in ActionKind : Recorded(log', k) = Recorded(log, k)
    BY <1>2, <1>3
  <2>2. \A k : Recorded(log, k)' = Recorded(log', k)
    BY DEF Recorded
  <2>3. QED
    BY <2>1, <2>2
<1>5. Ledger'
  <2>1. Bookkeeping'
    BY <1>3, <1>4 DEF Ledger, Bookkeeping
  <2>2. DeniedNeverExecuted' /\ Counted'
    <3>1. DeniedNeverExecuted'
      BY <1>4 DEF Ledger, DeniedNeverExecuted, ActionKind
    <3>2. Lead(executed, denied)' = Lead(executed, denied)
      BY <1>4, QuietLead
    <3>3. QED
      BY <3>1, <3>2, <1>3 DEF Ledger, Counted, Level
  <2>3. InFlight' /\ SealsAtEnd' /\ Accounted'
    BY <1>3 DEF InFlight, SealsAtEnd, Accounted
  <2>4. CompletedIsAccounted'
    BY <1>3, <1>4 DEF CompletedIsAccounted, ActionKind
  <2>5. QED
    BY <2>1, <2>2, <2>3, <2>4 DEF Ledger
<1>6. IsSealed' => log' = FinalLog(l, s, o)
  <2>1. CASE log' = MovedLog(l, o)
    BY <2>1, <1>2 DEF IsSealed
  <2>2. CASE log' = l
    BY <2>2 DEF IsSealed, Unsealed
  <2>3. QED
    BY <2>1, <2>2, <1>3
<1>7. SealVerifies'
  BY <1>2, <1>3, <1>6 DEF SealVerifies
<1>8. SealCounts'
  <2> SUFFICES ASSUME IsSealed' PROVE SealCounts'
    BY DEF SealCounts
  <2>1. /\ log'[Len(log')].actionsExecuted = executed
        /\ log'[Len(log')].actionsDenied = denied
        /\ log'[Len(log')].outcome = o
    BY <1>2, <1>6
  <2>2. Lead(executed, denied) \in {<<0, 0>>, <<0, 1>>, <<1, 0>>}
    BY DEF Ledger, Counted
  <2>3. Lead(executed, denied)
          = <<executed - Cardinality(Recorded(log, "action.executed"))',
              denied - Cardinality(Recorded(log, "action.denied"))'>>
    BY <1>4 DEF Lead, ActionKind
  <2>4. QED
    BY <2>1, <2>2, <2>3 DEF SealCounts, Level, Lead
<1>9. CancellationWins'
  BY <1>3 DEF CancellationWins
<1>10. QED
  BY <1>5, <1>7, <1>8, <1>9

\* A run that has not ended is not sealed, so nothing is owed to a seal yet.
LEMMA OpenOwesNothing ==
  ASSUME Ledger', pc' \notin {"sealed", "rejected"}
  PROVE  SealVerifies' /\ SealCounts' /\ CancellationWins'
BY DEF Ledger, SealsAtEnd, SealVerifies, SealCounts, CancellationWins

\* The invariant holds of a session not yet run.
LEMMA IInvInit == Init => IInv
<1> SUFFICES ASSUME Init PROVE IInv
  OBVIOUS
<1>1. \A k \in ActionKind : Recorded(log, k) = {}
  BY RecordedNone DEF Init
<1>2. Cardinality({}) = 0
  BY FS_EmptySet
<1>3. ~IsSealed
  BY DEF Init, IsSealed
<1>4. Counted
  <2>1. /\ executed = 0 /\ denied = 0
        /\ Recorded(log, "action.executed") = {}
        /\ Recorded(log, "action.denied") = {}
    BY <1>1 DEF Init, ActionKind
  <2>2. Lead(executed, denied) = <<0, 0>>
    BY <2>1, <1>2 DEF Lead
  <2>3. QED
    BY <2>2 DEF Counted, Level
<1>5. Ledger
  BY <1>1, <1>3, <1>4
     DEF Init, Ledger, Bookkeeping, InFlight, DeniedNeverExecuted, SealsAtEnd,
         Accounted, CompletedIsAccounted, ActionKind
<1>6. QED
  BY <1>3, <1>5, TypeInit
     DEF Init, IInv, SealVerifies, SealCounts, CancellationWins

\* The invariant is inductive.
LEMMA IInvStep == IInv /\ [Next]_vars => IInv'
<1> SUFFICES ASSUME IInv, [Next]_vars
             PROVE  IInv'
  OBVIOUS
<1> DEFINE X == Recorded(log, "action.executed")
<1>1. TypeOK'
  BY TypeStep DEF IInv, Ledger
<1>2. /\ TypeOK /\ Ledger /\ Bookkeeping /\ InFlight /\ SealsAtEnd
      /\ steps \in Nat
      /\ pc \in {"driver", "authorize", "execute"} => effects \subseteq X
      /\ outcome = "completed" => effects \subseteq X
      /\ pc \in {"new", "driver", "authorize", "execute"} => Level
      /\ outcome = "completed" => Level
  BY MaxStepsAssumption
     DEF IInv, Ledger, TypeOK, Accounted, CompletedIsAccounted, Counted
<1>3. SUFFICES Ledger' /\ SealVerifies' /\ SealCounts' /\ CancellationWins'
  BY <1>1 DEF IInv
<1>4. ASSUME Ledger', pc' \notin {"sealed", "rejected"}
      PROVE  Ledger' /\ SealVerifies' /\ SealCounts' /\ CancellationWins'
  BY <1>4, OpenOwesNothing
\* A step that leaves the log alone.
<1>5. ASSUME log' = log, pc \notin {"sealed", "rejected"}
      PROVE  /\ \A k \in ActionKind : Recorded(log, k)' = Recorded(log, k)
             /\ ~IsSealed'
  BY <1>5, <1>2, QuietRecords DEF SealsAtEnd
<1>6. CASE Abort
  <2>1. /\ UNCHANGED <<pc, steps, action, outcome, log, effects, executed, denied>>
        /\ pc \notin {"sealed", "rejected"}
    BY <1>6 DEF Abort
  <2>2. /\ \A k \in ActionKind : Recorded(log, k)' = Recorded(log, k)
        /\ ~IsSealed'
    BY <2>1, <1>5
  <2>3. CASE pc = "new"
    <3>1. Bookkeeping'
      BY <2>1, <2>2, <1>2 DEF Bookkeeping
    <3>2. DeniedNeverExecuted' /\ Counted'
      <4>1. DeniedNeverExecuted'
        BY <2>1, <2>2, <1>2 DEF Ledger, DeniedNeverExecuted, ActionKind
      <4>2. Lead(executed, denied)' = Lead(executed, denied)
        BY <2>1, <2>2, QuietLead
      <4>3. QED
        BY <4>1, <4>2, <2>1, <1>2 DEF Ledger, Counted, Level
    <3>3. Ledger'
      BY <3>1, <3>2, <2>1, <2>2, <2>3, <1>2
         DEF Ledger, InFlight, SealsAtEnd, Accounted, CompletedIsAccounted,
             Bookkeeping
    <3>4. QED
      BY <3>3, <2>1, <1>4
  <2>4. CASE pc # "new"
    <3>1. InFlight'
      BY <2>1, <2>2, <1>2 DEF InFlight
    <3>2. Ledger'
      BY <3>1, <2>1, <2>2, <2>4, <1>2, QuietLedger
    <3>3. QED
      BY <3>2, <2>1, <1>4
  <2>5. QED
    BY <2>3, <2>4
<1>7. CASE Start
  <2>1. /\ log' = StartLog /\ pc = "new" /\ pc' = "driver" /\ effects = {}
        /\ UNCHANGED <<steps, effects, executed, denied, outcome>>
    BY <1>7, <1>2 DEF Start, Bookkeeping
  <2>2. /\ \A k \in ActionKind : Recorded(log, k)' = {}
        /\ ~IsSealed'
    <3>1. \A k : Recorded(log, k)' = Recorded(log', k)
      BY DEF Recorded
    <3>2. QED
      BY <3>1, <2>1, StartRecords DEF IsSealed
  <2>3. \A k \in ActionKind : Recorded(log, k) = {}
    BY <2>1, <1>2, RecordedNone DEF Bookkeeping
  <2>4. InFlight'
    BY <2>1 DEF InFlight
  <2>5. Ledger'
    BY <2>1, <2>2, <2>3, <2>4, <1>2, QuietLedger
  <2>6. QED
    BY <2>1, <2>5, <1>4
<1>8. CASE StartAborted
  <2>1. /\ Finalize(StartLog, StartSpine, "cancelled") /\ "cancelled" \in Outcome
        /\ pc = "new" /\ UNCHANGED <<steps, effects, executed, denied, aborted>>
    BY <1>8 DEF StartAborted, Outcome
  <2>2. \A k \in ActionKind : Recorded(log, k) = {}
    BY <2>1, <1>2, RecordedNone DEF Bookkeeping
  <2>3. \A k \in ActionKind : Recorded(StartLog, k) = Recorded(log, k)
    BY <2>2, StartRecords
  <2>4. Unsealed(StartLog) /\ "cancelled" # "completed"
    BY StartRecords DEF Unsealed
  <2>5. QED
    BY <2>1, <2>3, <2>4, <1>2, StartShape, FinalizeStep
<1>9. CASE StartThrows
  <2>1. PICK i \in 0 .. 4 : log' = SubSeq(StartLog, 1, i)
    BY <1>9, OpeningForms
  <2>2. /\ \A k \in ActionKind : Recorded(log, k)' = {}
        /\ ~IsSealed'
    BY <2>1, OpeningRecords
  <2>3. /\ pc = "new" /\ pc' = "rejected" /\ effects = {}
        /\ outcome' = "failed"
        /\ UNCHANGED <<steps, effects, executed, denied>>
    BY <1>9, <1>2 DEF StartThrows, Bookkeeping
  <2>4. \A k \in ActionKind : Recorded(log, k) = {}
    BY <2>3, <1>2, RecordedNone DEF Bookkeeping
  <2>5. Ledger'
    BY <2>2, <2>3, <2>4, <1>2, QuietLedger DEF InFlight
  <2>6. QED
    BY <2>2, <2>3, <2>5 DEF SealVerifies, SealCounts, CancellationWins
<1>10. CASE StepAfterAbort
  <2>1. /\ log' = log /\ pc = "driver" /\ pc' = "closing"
        /\ steps' = steps + 1 /\ outcome' = "cancelled"
        /\ UNCHANGED <<effects, executed, denied>>
    BY <1>10 DEF StepAfterAbort, Yield, DriverSteps, Leave
  <2>2. Ledger'
    BY <2>1, <1>2, <1>5, QuietLedger DEF InFlight
  <2>3. QED
    BY <2>1, <2>2, <1>4
<1>11. ASSUME NEW kind \in {"observation", "message"}, DriverReports(kind)
       PROVE  Ledger' /\ SealVerifies' /\ SealCounts' /\ CancellationWins'
  <2>1. /\ log' = Append(log, [kind |-> kind]) /\ pc = "driver"
        /\ steps' = steps + 1 /\ pc' \in {"driver", "closing"}
        /\ outcome' = outcome \/ outcome' = "failed"
        /\ UNCHANGED <<effects, executed, denied>>
    BY <1>11, ReportForms
       DEF DriverReports, YieldLive, Yield, DriverSteps
  <2>2. /\ \A k \in ActionKind : Recorded(log, k)' = Recorded(log, k)
        /\ ~IsSealed'
    <3>1. [kind |-> kind] \in Record
      BY RecordForms
    <3>2. QED
      BY <3>1, <2>1, <1>2, AppendRecords DEF ActionKind
  <2>3. Ledger'
    BY <2>1, <2>2, <1>2, QuietLedger DEF InFlight
  <2>4. QED
    BY <2>1, <2>3, <1>4
<1>12. ASSUME NEW o \in {"completed", "failed"}, DriverConcludes(o)
       PROVE  Ledger' /\ SealVerifies' /\ SealCounts' /\ CancellationWins'
  <2>1. /\ log' = log /\ pc = "driver" /\ pc' = "closing"
        /\ steps' = steps + 1 /\ outcome' = o
        /\ UNCHANGED <<effects, executed, denied>>
    BY <1>12 DEF DriverConcludes, YieldLive, Yield, DriverSteps, Leave
  <2>2. Ledger'
    BY <2>1, <1>2, <1>5, QuietLedger DEF InFlight
  <2>3. QED
    BY <2>1, <2>2, <1>4
<1>13. CASE DriverStops
  <2>1. /\ log' = log /\ pc = "driver" /\ pc' = "closing"
        /\ outcome' = "failed"
        /\ UNCHANGED <<steps, effects, executed, denied>>
    BY <1>13 DEF DriverStops, Leave
  <2>2. Ledger'
    BY <2>1, <1>2, <1>5, QuietLedger DEF InFlight
  <2>3. QED
    BY <2>1, <2>2, <1>4
<1>14. ASSUME NEW required \in BOOLEAN, ActionTripped(required)
       PROVE  Ledger' /\ SealVerifies' /\ SealCounts' /\ CancellationWins'
  <2> DEFINE a == [id |-> steps + 1, required |-> required]
  <2>1. /\ Deny(a) /\ pc = "driver" /\ steps' = steps + 1
        /\ steps + 1 \in ActionId
        /\ UNCHANGED <<effects, executed>>
    BY <1>14, <1>2, MaxStepsAssumption
       DEF ActionTripped, DriverSteps, ActionId
  <2>2. a.id = steps + 1
    OBVIOUS
  <2> HIDE DEF a
  <2>3. /\ log' = Append(log, [kind |-> "action.denied", id |-> steps + 1])
        /\ denied' = denied + 1 /\ pc' \in {"driver", "closing"}
    BY <2>1, <2>2, DenyForms
  <2>4. /\ steps + 1 \notin effects
        /\ \A j \in ActionKind : steps + 1 \notin Recorded(log, j)
    BY <1>2 DEF Bookkeeping
  <2>5. "action.denied" \in ActionKind /\ "action.denied" # "action.executed"
    BY DEF ActionKind
  <2>6. /\ steps' \in Nat /\ steps <= steps' /\ steps + 1 <= steps'
        /\ effects \subseteq X
    BY <2>1, <1>2
  <2>7. Ledger'
    BY <2>1, <2>3, <2>4, <2>5, <2>6, <1>2, ActedLedger
  <2>8. QED
    BY <2>3, <2>7, <1>4
<1>15. ASSUME NEW required \in BOOLEAN, ActionProposed(required)
       PROVE  Ledger' /\ SealVerifies' /\ SealCounts' /\ CancellationWins'
  <2>1. /\ log' = log /\ pc = "driver" /\ pc' = "authorize"
        /\ steps' = steps + 1 /\ steps + 1 \in ActionId
        /\ action'.id = steps'
        /\ UNCHANGED <<effects, executed, denied, outcome>>
    BY <1>15, <1>2, MaxStepsAssumption
       DEF ActionProposed, YieldLive, Yield, DriverSteps, ActionId
  <2>2. /\ steps + 1 \notin effects
        /\ \A j \in ActionKind : steps + 1 \notin Recorded(log, j)
    BY <1>2 DEF Bookkeeping
  <2>3. InFlight'
    BY <2>1, <2>2, <1>5 DEF InFlight
  <2>4. Ledger'
    BY <2>1, <2>3, <1>2, <1>5, QuietLedger
  <2>5. QED
    BY <2>1, <2>4, <1>4
<1>16. CASE AuthorizerGrants
  <2>1. /\ log' = log /\ pc = "authorize" /\ pc' = "execute"
        /\ UNCHANGED <<steps, action, effects, executed, denied, outcome>>
    BY <1>16 DEF AuthorizerGrants
  <2>2. InFlight'
    BY <2>1, <1>2, <1>5 DEF InFlight
  <2>3. Ledger'
    BY <2>1, <2>2, <1>2, <1>5, QuietLedger
  <2>4. QED
    BY <2>1, <2>3, <1>4
<1>17. CASE AuthorizerRefuses
  <2>1. /\ Deny(action) /\ pc = "authorize" /\ action.id = steps
        /\ UNCHANGED <<steps, effects, executed>>
    BY <1>17, <1>2 DEF AuthorizerRefuses, InFlight
  <2>2. /\ log' = Append(log, [kind |-> "action.denied", id |-> steps])
        /\ denied' = denied + 1 /\ pc' \in {"driver", "closing"}
    BY <2>1, DenyForms
  <2>3. /\ steps \in ActionId /\ steps \notin effects
        /\ \A j \in ActionKind : steps \notin Recorded(log, j)
    BY <2>1, <1>2 DEF InFlight
  <2>4. "action.denied" \in ActionKind /\ "action.denied" # "action.executed"
    BY DEF ActionKind
  <2>5. steps' \in Nat /\ steps <= steps' /\ effects \subseteq X
    BY <2>1, <1>2
  <2>6. Ledger'
    BY <2>1, <2>2, <2>3, <2>4, <2>5, <1>2, ActedLedger
  <2>7. QED
    BY <2>2, <2>6, <1>4
<1>18. CASE AuthorizerThrows
  <2>1. /\ log' = log /\ pc = "authorize" /\ pc' = "closing"
        /\ outcome' = "failed"
        /\ UNCHANGED <<steps, effects, executed, denied>>
    BY <1>18 DEF AuthorizerThrows, Leave
  <2>2. Ledger'
    BY <2>1, <1>2, <1>5, QuietLedger DEF InFlight
  <2>3. QED
    BY <2>1, <2>2, <1>4
<1>19. CASE ExecutorReturns
  <2>1. /\ log' = Append(log, [kind |-> "action.executed", id |-> steps])
        /\ pc = "execute" /\ executed' = executed + 1
        /\ effects' \in {effects, effects \cup {steps}}
        /\ UNCHANGED <<steps, denied>>
    BY <1>19, <1>2 DEF ExecutorReturns, ExecutorActs, InFlight
  <2>2. pc' \in {"driver", "closing"}
    BY <1>19, ReturnForms
  <2>3. /\ steps \in ActionId /\ steps \notin effects
        /\ \A j \in ActionKind : steps \notin Recorded(log, j)
    BY <2>1, <1>2 DEF InFlight
  <2>4. "action.executed" \in ActionKind /\ "action.denied" # "action.executed"
    BY DEF ActionKind
  <2>5. steps' \in Nat /\ steps <= steps' /\ effects \subseteq X
    BY <2>1, <1>2
  <2>6. Ledger'
    BY <2>1, <2>2, <2>3, <2>4, <2>5, <1>2, ActedLedger
  <2>7. QED
    BY <2>2, <2>6, <1>4
<1>20. CASE ExecutorThrows
  <2>1. /\ log' = log /\ pc = "execute" /\ pc' = "closing"
        /\ outcome' = "failed"
        /\ effects' \in {effects, effects \cup {steps}}
        /\ UNCHANGED <<steps, executed, denied>>
    BY <1>20, <1>2 DEF ExecutorThrows, ExecutorActs, InFlight, Leave
  <2>2. /\ steps \in ActionId /\ steps \in 1 .. steps
        /\ steps \notin Recorded(log, "action.denied")
    BY <2>1, <1>2 DEF InFlight, ActionKind, ActionId
  <2>3. /\ \A k \in ActionKind : Recorded(log, k)' = Recorded(log, k)
        /\ ~IsSealed'
    BY <2>1, <1>5
  <2>4. Bookkeeping'
    BY <2>1, <2>2, <2>3, <1>2 DEF Bookkeeping
  <2>5. DeniedNeverExecuted' /\ Counted'
    <3>1. DeniedNeverExecuted'
      BY <2>1, <2>2, <2>3, <1>2 DEF Ledger, DeniedNeverExecuted, ActionKind
    <3>2. Lead(executed, denied)' = Lead(executed, denied)
      BY <2>1, <2>3, QuietLead
    <3>3. QED
      BY <3>1, <3>2, <2>1, <1>2 DEF Ledger, Counted, Level
  <2>6. Ledger'
    BY <2>1, <2>3, <2>4, <2>5
       DEF Ledger, InFlight, SealsAtEnd, Accounted, CompletedIsAccounted
  <2>7. QED
    BY <2>1, <2>6, <1>4
<1>21. CASE Close
  <2>1. /\ Finalize(log, spine, FinalOutcome)
        /\ UNCHANGED <<steps, effects, executed, denied, aborted>>
    BY <1>21 DEF Close
  <2>2. /\ FinalOutcome \in Outcome
        /\ aborted => FinalOutcome = "cancelled"
        /\ FinalOutcome = "completed" => effects \subseteq X /\ Level
    BY <1>2 DEF FinalOutcome, Outcome, TypeOK
  <2>3. /\ log \in Seq(Record) /\ spine \in Seq(Transition)
        /\ Unsealed(log)
    BY <1>2, <1>21 DEF TypeOK, Close, SealsAtEnd, IsSealed, Unsealed
  <2>4. QED
    BY <2>1, <2>2, <2>3, <1>2, FinalizeStep
<1>22. CASE TripUnrecorded
  <2>1. /\ log' = log /\ pc = "driver" /\ pc' = "closing"
        /\ steps' = steps + 1 /\ outcome' = "failed"
        /\ executed' = executed /\ denied' = denied + 1 /\ effects' = effects
    BY <1>22 DEF TripUnrecorded, YieldLive, Yield, DriverSteps,
                 CountedUnrecorded, Leave
  <2>2. Ledger'
    BY <2>1, <1>2, UnrecordedLedger
  <2>3. QED
    BY <2>1, <2>2, <1>4
<1>23. CASE RefusalUnrecorded
  <2>1. /\ log' = log /\ pc = "authorize" /\ pc' = "closing"
        /\ steps' = steps /\ outcome' = "failed"
        /\ executed' = executed /\ denied' = denied + 1 /\ effects' = effects
    BY <1>23 DEF RefusalUnrecorded, CountedUnrecorded, Leave
  <2>2. Ledger'
    BY <2>1, <1>2, UnrecordedLedger
  <2>3. QED
    BY <2>1, <2>2, <1>4
<1>24. CASE ExecutionUnrecorded
  <2>1. /\ log' = log /\ pc = "execute" /\ pc' = "closing"
        /\ steps' = steps /\ outcome' = "failed"
        /\ executed' = executed + 1 /\ denied' = denied
        /\ effects' \in {effects, effects \cup {steps}}
    BY <1>24, <1>2
       DEF ExecutionUnrecorded, CountedUnrecorded, ExecutorActs, InFlight, Leave
  <2>2. /\ steps \in 1 .. steps'
        /\ steps \notin Recorded(log, "action.denied")
    BY <2>1, <1>2 DEF InFlight, ActionKind, ActionId
  <2>3. Ledger'
    BY <2>1, <2>2, <1>2, UnrecordedLedger
  <2>4. QED
    BY <2>1, <2>3, <1>4
<1>25. CASE UNCHANGED vars
  <2>1. Counted' /\ SealCounts'
    BY <1>25 DEF vars, IInv, Ledger, Counted, Level, Lead, SealCounts,
                 IsSealed, Recorded
  <2>2. Bookkeeping' /\ InFlight' /\ DeniedNeverExecuted' /\ Accounted'
        /\ CompletedIsAccounted'
    <3>1. UNCHANGED <<pc, steps, action, outcome, log, executed, denied, effects>>
      BY <1>25 DEF vars
    <3>2. \A k \in ActionKind : Recorded(log, k)' = Recorded(log, k)
      BY <3>1, QuietRecords
    <3>3. Bookkeeping'
      BY <3>1, <3>2, <1>2 DEF Bookkeeping
    <3>4. InFlight'
      BY <3>1, <3>2, <1>2 DEF InFlight
    <3>5. DeniedNeverExecuted' /\ Accounted' /\ CompletedIsAccounted'
      BY <3>1, <3>2, <1>2
         DEF Ledger, DeniedNeverExecuted, Accounted, CompletedIsAccounted,
             ActionKind
    <3>6. QED
      BY <3>3, <3>4, <3>5
  <2>3. SealsAtEnd' /\ SealVerifies' /\ CancellationWins'
    BY <1>25
       DEF vars, IInv, Ledger, SealsAtEnd, SealVerifies, CancellationWins,
           IsSealed, VerifyBinding
  <2>4. QED
    BY <2>1, <2>2, <2>3 DEF Ledger
<1>26. QED
  BY <1>6, <1>7, <1>8, <1>9, <1>10, <1>11, <1>12, <1>13, <1>14, <1>15,
     <1>16, <1>17, <1>18, <1>19, <1>20, <1>21, <1>22, <1>23, <1>24, <1>25
     DEF Next, Run

-----------------------------------------------------------------------------
(* What a reader may rely on.                                              *)

\* The invariant holds in every reachable state.
LEMMA Invariance == Spec => []IInv
<1>1. Init => IInv
  BY IInvInit
<1>2. IInv /\ [Next]_vars => IInv'
  BY IInvStep
<1>3. QED
  BY <1>1, <1>2, PTL DEF Spec

\* The variables of a session keep their types.
THEOREM TypeCorrect == Spec => []TypeOK
BY Invariance, PTL DEF IInv

\* Whatever happens during a run, a seal it writes passes verifyBinding.
THEOREM SealsVerify == Spec => []SealVerifies
BY Invariance, PTL DEF IInv

\* The counters in the seal are the numbers of records of each kind, but for
\* at most one action whose record could not be minted; and those of work
\* sealed as completed are exact, whatever failed during the run.
THEOREM SealsCount == Spec => []SealCounts
BY Invariance, PTL DEF IInv

\* An action on record as denied never takes effect, before or after.
THEOREM DeniedIsNeverExecuted == Spec => []DeniedNeverExecuted
<1>1. IInv => DeniedNeverExecuted
  BY DEF IInv, Ledger
<1>2. QED
  BY <1>1, Invariance, PTL

\* Work concluded as completed has every effect on record.
THEOREM CompletedAccounts == Spec => []CompletedIsAccounted
<1>1. IInv => CompletedIsAccounted
  BY DEF IInv, Ledger
<1>2. QED
  BY <1>1, Invariance, PTL

\* A run the signal reached in time is sealed as cancelled.
THEOREM CancellationAlwaysWins == Spec => []CancellationWins
BY Invariance, PTL DEF IInv

-----------------------------------------------------------------------------
(* After the signal.                                                       *)

\* Once the signal has fired the driver is asked for no action any more, so
\* that only the one in the pipeline can add to the effects there were.
InFlightOnly ==
  aborted =>
    /\ pc \in {"new", "authorize", "execute"} => effects \subseteq atAbort
    /\ \E i \in ActionId \cup {0} : effects \ atAbort \subseteq {i}

\* A step after which the run asks for an action is one of a live run.
LEMMA InFlightOnlyStep ==
  IInv /\ InFlightOnly /\ [Next]_vars => InFlightOnly'
<1> SUFFICES ASSUME IInv, InFlightOnly, [Next]_vars, aborted'
             PROVE  /\ pc' \in {"new", "authorize", "execute"}
                         => effects' \subseteq atAbort'
                    /\ \E i \in ActionId \cup {0} : effects' \ atAbort' \subseteq {i}
  BY DEF InFlightOnly
<1> USE DEF InFlightOnly
<1>1. CASE Abort
  BY <1>1 DEF Abort
<1>2. CASE Start \/ StartAborted \/ StartThrows
  BY <1>2 DEF Start, StartAborted, StartThrows, Finalize
<1>3. CASE StepAfterAbort \/ DriverStops
  BY <1>3 DEF StepAfterAbort, DriverStops, Yield, DriverSteps, Leave
<1>4. ASSUME NEW kind \in {"observation", "message"}, DriverReports(kind)
      PROVE  FALSE
  BY <1>4 DEF DriverReports, YieldLive
<1>5. ASSUME NEW o \in {"completed", "failed"}, DriverConcludes(o)
      PROVE  FALSE
  BY <1>5 DEF DriverConcludes, YieldLive
<1>6. ASSUME NEW required \in BOOLEAN,
             ActionTripped(required) \/ ActionProposed(required)
      PROVE  FALSE
  BY <1>6 DEF ActionTripped, ActionProposed, YieldLive
<1>7. CASE AuthorizerGrants
  BY <1>7 DEF AuthorizerGrants
<1>8. CASE AuthorizerRefuses
  <2>1. pc' \in {"closing", "driver"}
    BY <1>8, DenyForms DEF AuthorizerRefuses
  <2> QED
    BY <1>8, <2>1 DEF AuthorizerRefuses
<1>9. CASE AuthorizerThrows
  BY <1>9 DEF AuthorizerThrows, Leave
<1>10. CASE ExecutorReturns \/ ExecutionUnrecorded \/ ExecutorThrows
  <2>1. pc = "execute" /\ pc' \in {"closing", "driver"}
    BY <1>10, ReturnForms
       DEF ExecutorReturns, ExecutionUnrecorded, CountedUnrecorded,
           ExecutorThrows, Leave
  <2>2. /\ effects' \subseteq effects \cup {action.id}
        /\ aborted' = aborted /\ atAbort' = atAbort
    BY <1>10
       DEF ExecutorReturns, ExecutionUnrecorded, ExecutorThrows, ExecutorActs
  <2>3. action.id \in ActionId
    BY <2>1 DEF IInv, Ledger, InFlight
  <2>4. effects' \ atAbort' \subseteq {action.id}
    BY <2>1, <2>2
  <2> QED
    BY <2>1, <2>3, <2>4
<1>11. CASE Close
  BY <1>11 DEF Close, Finalize
<1>12. CASE TripUnrecorded
  BY <1>12 DEF TripUnrecorded, YieldLive
<1>13. CASE RefusalUnrecorded
  BY <1>13 DEF RefusalUnrecorded, CountedUnrecorded, Leave
<1>14. CASE UNCHANGED vars
  BY <1>14 DEF vars
<1> QED
  BY <1>1, <1>2, <1>3, <1>4, <1>5, <1>6, <1>7, <1>8, <1>9, <1>10, <1>11,
     <1>12, <1>13, <1>14 DEF Next, Run

\* After the signal no action starts: of all the effects on the world there
\* will ever be, at most one is not among those there were when it fired.
THEOREM AbortStops == Spec => []AbortStopsEffects
<1>1. Init => InFlightOnly
  BY DEF Init, InFlightOnly
<1>2. IInv /\ InFlightOnly /\ [Next]_vars => InFlightOnly'
  BY InFlightOnlyStep
<1>3. InFlightOnly => AbortStopsEffects
  <2> SUFFICES ASSUME InFlightOnly, aborted
               PROVE  Cardinality(effects \ atAbort) <= 1
    BY DEF AbortStopsEffects
  <2>1. PICK i : effects \ atAbort \subseteq {i}
    BY DEF InFlightOnly
  <2>2. CASE effects \ atAbort = {}
    <3>1. Cardinality({}) = 0
      BY FS_EmptySet
    <3> QED
      BY <2>2, <3>1
  <2>3. CASE effects \ atAbort = {i}
    <3>1. Cardinality({i}) = 1
      BY FS_Singleton
    <3> QED
      BY <2>3, <3>1
  <2> QED
    BY <2>1, <2>2, <2>3
<1> QED
  BY <1>1, <1>2, <1>3, Invariance, PTL DEF Spec

-----------------------------------------------------------------------------
(* What the driver is told.                                                *)

\* What is on record stays there.
LEMMA RecordGrows ==
  ASSUME IInv, log' = log \/ \E r \in Record : log' = Append(log, r)
  PROVE  \A k \in ActionKind : Recorded(log, k) \subseteq Recorded(log, k)'
<1>1. CASE log' = log
  BY <1>1, QuietRecords
<1>2. ASSUME NEW r \in Record, log' = Append(log, r)
      PROVE  \A k \in ActionKind : Recorded(log, k) \subseteq Recorded(log, k)'
  BY <1>2, AppendRecords DEF IInv
<1> QED
  BY <1>1, <1>2

\* A denial leaves the driver without a result, or with the one on record.
LEMMA DenialIsTold ==
  ASSUME IInv, NEW a, a.id = steps', steps' \in ActionId, Deny(a)
  PROVE  TruthfulFeedback'
<1>1. /\ log' = Append(log, [kind |-> "action.denied", id |-> a.id])
      /\ sent' = NoResult \/ sent' = [id |-> a.id, allowed |-> FALSE]
  BY DenyForms
<1> DEFINE r == [kind |-> "action.denied", id |-> a.id]
<1>2. r \in Record /\ r.kind = "action.denied" /\ r.id = steps'
  BY RecordForms DEF ActionKind
<1> HIDE DEF r
<1>3. log' = Append(log, r)
  BY <1>1 DEF r
<1>4. steps' \in Recorded(log, "action.denied")'
  BY <1>2, <1>3, AppendRecords DEF IInv, ActionKind
<1> QED
  BY <1>1, <1>4 DEF TruthfulFeedback

\* Every step leaves the driver with the truth.
LEMMA FeedbackStep ==
  IInv /\ TruthfulFeedback /\ [Next]_vars => TruthfulFeedback'
<1> SUFFICES ASSUME IInv, TruthfulFeedback, [Next]_vars
             PROVE  TruthfulFeedback'
  OBVIOUS
<1>1. ASSUME sent' = NoResult
      PROVE  TruthfulFeedback'
  BY <1>1 DEF TruthfulFeedback
<1>2. ASSUME UNCHANGED <<sent, steps>>,
             \A k \in ActionKind : Recorded(log, k) \subseteq Recorded(log, k)'
      PROVE  TruthfulFeedback'
  BY <1>2 DEF TruthfulFeedback, ActionKind
<1>3. ASSUME UNCHANGED <<sent, steps, log>>
      PROVE  TruthfulFeedback'
  BY <1>2, <1>3, RecordGrows
<1>4. CASE Abort
  BY <1>3, <1>4 DEF Abort
<1>5. CASE pc = "new" /\ (Start \/ StartAborted \/ StartThrows)
  <2>1. sent = NoResult
    <3>1. \A k \in ActionKind : Recorded(log, k) = {}
      BY <1>5, RecordedNone DEF IInv, Ledger, Bookkeeping
    <3> QED
      BY <3>1 DEF TruthfulFeedback, ActionKind
  <2> QED
    BY <1>1, <1>5, <2>1 DEF Start, StartAborted, StartThrows
<1>6. CASE StepAfterAbort \/ DriverStops
  BY <1>1, <1>6 DEF StepAfterAbort, DriverStops, Yield
<1>7. ASSUME NEW kind \in {"observation", "message"}, DriverReports(kind)
      PROVE  TruthfulFeedback'
  BY <1>1, <1>7 DEF DriverReports, YieldLive, Yield
<1>8. ASSUME NEW o \in {"completed", "failed"}, DriverConcludes(o)
      PROVE  TruthfulFeedback'
  BY <1>1, <1>8 DEF DriverConcludes, YieldLive, Yield
<1>9. ASSUME NEW required \in BOOLEAN, ActionTripped(required)
      PROVE  TruthfulFeedback'
  <2> DEFINE a == [id |-> steps + 1, required |-> required]
  <2>1. Deny(a) /\ steps' = steps + 1 /\ steps + 1 \in ActionId
    BY <1>9, MaxStepsAssumption
       DEF ActionTripped, DriverSteps, ActionId, IInv, TypeOK
  <2>2. a.id = steps + 1
    OBVIOUS
  <2> HIDE DEF a
  <2> QED
    BY <2>1, <2>2, DenialIsTold
<1>10. ASSUME NEW required \in BOOLEAN, ActionProposed(required)
       PROVE  TruthfulFeedback'
  BY <1>1, <1>10 DEF ActionProposed, YieldLive, Yield
<1>11. CASE AuthorizerGrants
  BY <1>3, <1>11 DEF AuthorizerGrants
<1>12. CASE AuthorizerThrows
  BY <1>3, <1>12 DEF AuthorizerThrows
<1>13. CASE AuthorizerRefuses
  BY <1>13, DenialIsTold DEF AuthorizerRefuses, IInv, Ledger, InFlight
<1>14. CASE ExecutorReturns
  <2> DEFINE r == [kind |-> "action.executed", id |-> action.id]
  <2>1. action.id = steps /\ steps \in ActionId /\ steps' = steps
    BY <1>14 DEF ExecutorReturns, IInv, Ledger, InFlight
  <2>2. r \in Record /\ r.kind = "action.executed" /\ r.id = steps
    BY <2>1, RecordForms DEF ActionKind
  <2> HIDE DEF r
  <2>3. log' = Append(log, r)
    BY <1>14 DEF ExecutorReturns, r
  <2>4. steps' \in Recorded(log, "action.executed")'
    BY <2>1, <2>2, <2>3, AppendRecords DEF IInv, ActionKind
  <2>5. sent' = NoResult \/ sent' = [id |-> steps', allowed |-> TRUE]
    BY <1>14, <2>1, ReturnForms
  <2> QED
    BY <2>4, <2>5 DEF TruthfulFeedback
<1>15. CASE ExecutorThrows
  BY <1>3, <1>15 DEF ExecutorThrows
<1>16. CASE Close
  <2>1. \A k \in ActionKind : Recorded(log, k)' = Recorded(log, k)
    <3>1. /\ log' \in {log, MovedLog(log, FinalOutcome),
                       FinalLog(log, spine, FinalOutcome)}
      BY <1>16 DEF Close, Finalize
    <3>2. /\ log \in Seq(Record) /\ spine \in Seq(Transition)
          /\ FinalOutcome \in Outcome /\ executed \in Nat /\ denied \in Nat
      BY DEF IInv, TypeOK, FinalOutcome, Outcome
    <3> DEFINE o == FinalOutcome
    <3>3. o \in Outcome
      BY <3>2
    <3>4. log' \in {log, MovedLog(log, o), FinalLog(log, spine, o)}
      BY <3>1
    <3> HIDE DEF o
    <3>5. \A k \in ActionKind :
            /\ Recorded(MovedLog(log, o), k) = Recorded(log, k)
            /\ Recorded(FinalLog(log, spine, o), k) = Recorded(log, k)
      BY <3>2, <3>3, FinalizeShape
    <3>6. \A k \in ActionKind : Recorded(log', k) = Recorded(log, k)
      BY <3>4, <3>5
    <3>7. \A k : Recorded(log, k)' = Recorded(log', k)
      BY DEF Recorded
    <3> QED
      BY <3>6, <3>7
  <2> QED
    BY <1>2, <1>16, <2>1 DEF Close
<1>17. CASE TripUnrecorded
  BY <1>1, <1>17 DEF TripUnrecorded, YieldLive, Yield
<1>18. CASE RefusalUnrecorded \/ ExecutionUnrecorded
  BY <1>3, <1>18 DEF RefusalUnrecorded, ExecutionUnrecorded
<1>19. CASE UNCHANGED vars
  BY <1>3, <1>19 DEF vars
<1> QED
  BY <1>4, <1>5, <1>6, <1>7, <1>8, <1>9, <1>10, <1>11, <1>12, <1>13, <1>14,
     <1>15, <1>16, <1>17, <1>18, <1>19 DEF Next, Run, Start, StartAborted, StartThrows

\* The result handed to the driver is that of its last action, and on record
\* as such: executed when it was allowed, denied when it was not.
THEOREM FeedbackIsTruthful == Spec => []TruthfulFeedback
<1>1. Init => TruthfulFeedback
  BY DEF Init, TruthfulFeedback
<1>2. IInv /\ TruthfulFeedback /\ [Next]_vars => TruthfulFeedback'
  BY FeedbackStep
<1> QED
  BY <1>1, <1>2, Invariance, PTL DEF Spec

-----------------------------------------------------------------------------
(* The session implements AuditedWork.                                     *)

\* A step of an open run that neither ends it nor touches record or world is
\* no step of the contract.
LEMMA QuietImplements ==
  ASSUME ~IsSealed, ~IsSealed', pc # "rejected", pc' # "rejected",
         \A k \in ActionKind : Recorded(log, k)' = Recorded(log, k),
         UNCHANGED effects
  PROVE  UNCHANGED Contract!avars
BY DEF Contract!avars, ActionKind

\* The end of a run is CloseAs or Abandon.
LEMMA FinalizeImplements ==
  ASSUME IInv, NEW l \in Seq(Record), NEW s \in Seq(Transition),
         NEW o \in Outcome, Finalize(l, s, o), ~IsSealed, pc # "rejected",
         Unsealed(l),
         \A k \in ActionKind : Recorded(l, k) = Recorded(log, k),
         o = "completed" => effects \subseteq Recorded(log, "action.executed"),
         UNCHANGED effects
  PROVE  Contract!ANext
<1>1. executed \in Nat /\ denied \in Nat
  BY DEF IInv, TypeOK
<1>2. /\ Len(MovedLog(l, o)) = Len(l) + 1
      /\ Len(FinalLog(l, s, o)) = Len(l) + 2
      /\ MovedLog(l, o)[Len(l) + 1].kind = "work.transition"
      /\ VerifyBinding(FinalLog(l, s, o), FinalSpine(l, s, o))
      /\ FinalLog(l, s, o)[Len(l) + 2].outcome = o
      /\ \A k \in ActionKind :
           /\ Recorded(MovedLog(l, o), k) = Recorded(l, k)
           /\ Recorded(FinalLog(l, s, o), k) = Recorded(l, k)
  BY <1>1, FinalizeShape
<1>3. \A k : Recorded(log, k)' = Recorded(log', k)
  BY DEF Recorded
<1>4. CASE log' = MovedLog(l, o) /\ pc' = "rejected"
  <2>1. ~IsSealed'
    BY <1>2, <1>4 DEF IsSealed
  <2>2. \A k \in ActionKind : Recorded(log, k)' = Recorded(log, k)
    BY <1>2, <1>3, <1>4
  <2>3. Contract!Abandon
    BY <2>1, <2>2, <1>4 DEF Contract!Abandon, ActionKind
  <2>4. QED
    BY <2>3 DEF Contract!ANext
<1>5. CASE log' = l /\ pc' = "rejected"
  <2>1. ~IsSealed'
    BY <1>5 DEF IsSealed, Unsealed
  <2>2. \A k \in ActionKind : Recorded(log, k)' = Recorded(log, k)
    BY <1>3, <1>5
  <2>3. Contract!Abandon
    BY <2>1, <2>2, <1>5 DEF Contract!Abandon, ActionKind
  <2>4. QED
    BY <2>3 DEF Contract!ANext
<1>6. CASE log' = FinalLog(l, s, o)
  <2>1. IsSealed' /\ log'[Len(log')].outcome = o
    BY <1>2, <1>6 DEF VerifyBinding, IsSealed
  <2>2. \A k \in ActionKind : Recorded(log, k)' = Recorded(log, k)
    BY <1>2, <1>3, <1>6
  <2>3. Contract!CloseAs(o)
    BY <2>1, <2>2, <1>6 DEF Contract!CloseAs, ActionKind
  <2>4. QED
    BY <2>3 DEF Contract!ANext, Contract!Verdict, Outcome
<1>7. QED
  BY <1>4, <1>5, <1>6 DEF Finalize

\* The fate of the action with id i, new to the record, is Perform or Refuse.
LEMMA ActedImplements ==
  ASSUME IInv, NEW i \in ActionId, NEW k \in ActionKind,
         log' = Append(log, [kind |-> k, id |-> i]),
         i \notin effects, \A j \in ActionKind : i \notin Recorded(log, j),
         effects' \in {effects, effects \cup {i}},
         k = "action.denied" => UNCHANGED effects,
         ~IsSealed, pc # "rejected", pc' # "rejected"
  PROVE  Contract!ANext
<1> DEFINE r == [kind |-> k, id |-> i]
<1>1. r \in Record /\ r.kind = k /\ r.id = i
  BY RecordForms
<1>2. /\ \A j \in ActionKind :
           Recorded(log, j)' = IF k = j THEN Recorded(log, j) \cup {i}
                               ELSE Recorded(log, j)
      /\ ~IsSealed'
  <2> HIDE DEF r
  <2>1. log' = Append(log, r) /\ TypeOK /\ k # "session.sealed"
    BY DEF r, IInv, ActionKind
  <2>2. QED
    BY <2>1, <1>1, AppendRecords
<1>3. CASE k = "action.denied"
  <2>1. Contract!Refuse(i)
    BY <1>2, <1>3 DEF Contract!Refuse, ActionKind
  <2>2. QED
    BY <2>1 DEF Contract!ANext
<1>4. CASE k = "action.executed"
  <2>1. Contract!Perform(i)
    BY <1>2, <1>4 DEF Contract!Perform, ActionKind
  <2>2. QED
    BY <2>1 DEF Contract!ANext
<1>5. QED
  BY <1>3, <1>4 DEF ActionKind

\* Every step of a session is a step of the contract, or none.
LEMMA StepImplements ==
  IInv /\ [Next]_vars => [Contract!ANext]_(Contract!avars)
<1> SUFFICES ASSUME IInv, [Next]_vars
             PROVE  Contract!ANext \/ UNCHANGED Contract!avars
  OBVIOUS
<1>1. /\ TypeOK /\ Bookkeeping /\ InFlight /\ SealsAtEnd /\ steps \in Nat
      /\ pc \in {"driver", "authorize", "execute"}
           => effects \subseteq Recorded(log, "action.executed")
      /\ outcome = "completed"
           => effects \subseteq Recorded(log, "action.executed")
  BY MaxStepsAssumption
     DEF IInv, Ledger, TypeOK, Accounted, CompletedIsAccounted
<1>2. ASSUME log' = log, effects' = effects,
             pc \notin {"sealed", "rejected"}, pc' # "rejected"
      PROVE  UNCHANGED Contract!avars
  BY <1>2, <1>1, QuietRecords, QuietImplements DEF SealsAtEnd
<1>3. CASE Abort
  BY <1>3, <1>2 DEF Abort
<1>4. CASE Start
  <2>1. /\ \A k \in ActionKind : Recorded(log, k) = {}
        /\ log' = StartLog /\ pc = "new" /\ pc' = "driver" /\ ~IsSealed
    BY <1>4, <1>1, RecordedNone DEF Start, Bookkeeping, SealsAtEnd
  <2>2. /\ \A k \in ActionKind : Recorded(log, k)' = {}
        /\ ~IsSealed'
    <3>1. \A k : Recorded(log, k)' = Recorded(log', k)
      BY DEF Recorded
    <3>2. QED
      BY <3>1, <2>1, StartRecords DEF IsSealed
  <2>3. UNCHANGED effects
    BY <1>4 DEF Start
  <2>4. QED
    BY <2>1, <2>2, <2>3, QuietImplements
<1>5. CASE StartAborted
  <2>1. /\ Finalize(StartLog, StartSpine, "cancelled") /\ "cancelled" \in Outcome
        /\ pc = "new" /\ UNCHANGED effects /\ ~IsSealed
    BY <1>5, <1>1 DEF StartAborted, Outcome, SealsAtEnd
  <2>2. \A k \in ActionKind : Recorded(log, k) = {}
    BY <2>1, <1>1, RecordedNone DEF Bookkeeping
  <2>3. \A k \in ActionKind : Recorded(StartLog, k) = Recorded(log, k)
    BY <2>2, StartRecords
  <2>4. Unsealed(StartLog)
    BY StartRecords DEF Unsealed
  <2>5. QED
    BY <2>1, <2>3, <2>4, <1>1, StartShape, FinalizeImplements
<1>6. CASE StartThrows
  <2>1. PICK i \in 0 .. 4 : log' = SubSeq(StartLog, 1, i)
    BY <1>6, OpeningForms
  <2>2. /\ \A k \in ActionKind : Recorded(log, k)' = {}
        /\ ~IsSealed'
    BY <2>1, OpeningRecords
  <2>3. pc = "new" /\ pc' = "rejected" /\ UNCHANGED effects /\ ~IsSealed
    BY <1>6, <1>1 DEF StartThrows, SealsAtEnd
  <2>4. \A k \in ActionKind : Recorded(log, k) = {}
    BY <2>3, <1>1, RecordedNone DEF Bookkeeping
  <2>5. Contract!Abandon
    BY <2>2, <2>3, <2>4 DEF Contract!Abandon, ActionKind
  <2>6. QED
    BY <2>5 DEF Contract!ANext
<1>7. CASE StepAfterAbort
  BY <1>7, <1>2 DEF StepAfterAbort, Yield, DriverSteps, Leave
<1>8. ASSUME NEW kind \in {"observation", "message"}, DriverReports(kind)
      PROVE  UNCHANGED Contract!avars
  <2>1. /\ log' = Append(log, [kind |-> kind]) /\ pc = "driver"
        /\ pc' \in {"driver", "closing"} /\ UNCHANGED effects
    BY <1>8, ReportForms DEF DriverReports, YieldLive, Yield, DriverSteps
  <2>2. /\ \A k \in ActionKind : Recorded(log, k)' = Recorded(log, k)
        /\ ~IsSealed'
    <3>1. [kind |-> kind] \in Record
      BY RecordForms
    <3>2. QED
      BY <3>1, <2>1, <1>1, AppendRecords DEF ActionKind
  <2>3. ~IsSealed
    BY <2>1, <1>1 DEF SealsAtEnd
  <2>4. QED
    BY <2>1, <2>2, <2>3, QuietImplements
<1>9. ASSUME NEW o \in {"completed", "failed"}, DriverConcludes(o)
      PROVE  UNCHANGED Contract!avars
  BY <1>9, <1>2 DEF DriverConcludes, YieldLive, Yield, DriverSteps, Leave
<1>10. CASE DriverStops
  BY <1>10, <1>2 DEF DriverStops, Leave
<1>11. ASSUME NEW required \in BOOLEAN, ActionTripped(required)
       PROVE  Contract!ANext
  <2> DEFINE a == [id |-> steps + 1, required |-> required]
  <2>1. /\ Deny(a) /\ pc = "driver" /\ steps + 1 \in ActionId
        /\ UNCHANGED effects
    BY <1>11, <1>1, MaxStepsAssumption
       DEF ActionTripped, DriverSteps, ActionId
  <2>2. a.id = steps + 1
    OBVIOUS
  <2> HIDE DEF a
  <2>3. /\ log' = Append(log, [kind |-> "action.denied", id |-> steps + 1])
        /\ pc' \in {"driver", "closing"}
    BY <2>1, <2>2, DenyForms
  <2>4. /\ steps + 1 \notin effects
        /\ \A j \in ActionKind : steps + 1 \notin Recorded(log, j)
    BY <1>1 DEF Bookkeeping
  <2>5. "action.denied" \in ActionKind /\ ~IsSealed
    BY <2>1, <1>1 DEF ActionKind, SealsAtEnd
  <2>6. QED
    BY <2>1, <2>3, <2>4, <2>5, ActedImplements
<1>12. ASSUME NEW required \in BOOLEAN, ActionProposed(required)
       PROVE  UNCHANGED Contract!avars
  BY <1>12, <1>2 DEF ActionProposed, YieldLive, Yield, DriverSteps
<1>13. CASE AuthorizerGrants
  BY <1>13, <1>2 DEF AuthorizerGrants
<1>14. CASE AuthorizerRefuses
  <2>1. /\ Deny(action) /\ pc = "authorize" /\ action.id = steps
        /\ UNCHANGED effects
    BY <1>14, <1>1 DEF AuthorizerRefuses, InFlight
  <2>2. /\ log' = Append(log, [kind |-> "action.denied", id |-> steps])
        /\ pc' \in {"driver", "closing"}
    BY <2>1, DenyForms
  <2>3. /\ steps \in ActionId /\ steps \notin effects
        /\ \A j \in ActionKind : steps \notin Recorded(log, j)
    BY <2>1, <1>1 DEF InFlight
  <2>4. "action.denied" \in ActionKind /\ ~IsSealed
    BY <2>1, <1>1 DEF ActionKind, SealsAtEnd
  <2>5. QED
    BY <2>1, <2>2, <2>3, <2>4, ActedImplements
<1>15. CASE AuthorizerThrows
  BY <1>15, <1>2 DEF AuthorizerThrows, Leave
<1>16. CASE ExecutorReturns
  <2>1. /\ log' = Append(log, [kind |-> "action.executed", id |-> steps])
        /\ pc = "execute"
        /\ effects' \in {effects, effects \cup {steps}}
    BY <1>16, <1>1 DEF ExecutorReturns, ExecutorActs, InFlight
  <2>2. pc' \in {"driver", "closing"}
    BY <1>16, ReturnForms
  <2>3. /\ steps \in ActionId /\ steps \notin effects
        /\ \A j \in ActionKind : steps \notin Recorded(log, j)
    BY <2>1, <1>1 DEF InFlight
  <2>4. "action.executed" \in ActionKind /\ ~IsSealed
        /\ "action.executed" # "action.denied"
    BY <2>1, <1>1 DEF ActionKind, SealsAtEnd
  <2>5. QED
    BY <2>1, <2>2, <2>3, <2>4, ActedImplements
<1>17. CASE ExecutionUnrecorded \/ ExecutorThrows
  <2>1. /\ log' = log /\ pc = "execute" /\ pc' = "closing"
        /\ effects' = effects \/ effects' = effects \cup {steps}
    BY <1>17, <1>1
       DEF ExecutionUnrecorded, CountedUnrecorded, ExecutorThrows,
           ExecutorActs, InFlight, Leave
  <2>2. CASE effects' = effects
    BY <2>1, <2>2, <1>2
  <2>3. CASE effects' = effects \cup {steps}
    <3>1. /\ steps \in ActionId /\ steps \notin effects
          /\ \A j \in ActionKind : steps \notin Recorded(log, j)
      BY <2>1, <1>1 DEF InFlight
    <3>2. /\ \A k \in ActionKind : Recorded(log, k)' = Recorded(log, k)
          /\ ~IsSealed /\ ~IsSealed'
      BY <2>1, <1>1, QuietRecords DEF SealsAtEnd
    <3>3. Contract!Break(steps)
      BY <3>1, <3>2, <2>1, <2>3 DEF Contract!Break, ActionKind
    <3>4. QED
      BY <3>1, <3>3 DEF Contract!ANext
  <2>4. QED
    BY <2>1, <2>2, <2>3
<1>18. CASE Close
  <2>1. /\ Finalize(log, spine, FinalOutcome) /\ pc = "closing"
        /\ UNCHANGED effects
    BY <1>18 DEF Close
  <2>2. /\ FinalOutcome \in Outcome /\ ~IsSealed
        /\ FinalOutcome = "completed"
             => effects \subseteq Recorded(log, "action.executed")
    BY <2>1, <1>1 DEF FinalOutcome, Outcome, TypeOK, SealsAtEnd
  <2>3. /\ log \in Seq(Record) /\ spine \in Seq(Transition)
        /\ Unsealed(log)
    BY <2>2, <1>1 DEF TypeOK, IsSealed, Unsealed
  <2>4. QED
    BY <2>1, <2>2, <2>3, FinalizeImplements
<1>19. CASE TripUnrecorded
  BY <1>19, <1>2
     DEF TripUnrecorded, YieldLive, Yield, DriverSteps, CountedUnrecorded, Leave
<1>20. CASE RefusalUnrecorded
  BY <1>20, <1>2 DEF RefusalUnrecorded, CountedUnrecorded, Leave
<1>21. CASE UNCHANGED vars
  BY <1>21 DEF vars, Contract!avars, IsSealed, Recorded
<1>22. QED
  BY <1>3, <1>4, <1>5, <1>6, <1>7, <1>8, <1>9, <1>10, <1>11, <1>12, <1>13,
     <1>14, <1>15, <1>16, <1>17, <1>18, <1>19, <1>20, <1>21 DEF Next, Run

\* A session not yet run has promised nothing.
LEMMA InitImplements == Init => Contract!AInit
<1> SUFFICES ASSUME Init PROVE Contract!AInit
  OBVIOUS
<1>1. \A k \in ActionKind : Recorded(log, k) = {}
  BY RecordedNone DEF Init
<1>2. ~IsSealed
  BY DEF Init, IsSealed
<1>3. QED
  BY <1>1, <1>2 DEF Init, Contract!AInit, ActionKind

\* Every run of the engine's session is a run of the abstract audited work:
\* nothing refused is done, nothing is done after the work is closed, and
\* work closed as completed has its whole effect on record.
THEOREM SessionKeepsContract == Spec => KeepsContract
<1>1. Init => Contract!AInit
  BY InitImplements
<1>2. IInv /\ [Next]_vars => [Contract!ANext]_(Contract!avars)
  BY StepImplements
<1>3. QED
  BY <1>1, <1>2, Invariance, PTL DEF Spec, KeepsContract, Contract!ASpec
=============================================================================
