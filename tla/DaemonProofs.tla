---------------------------- MODULE DaemonProofs ----------------------------
(***************************************************************************)
(* The safety of two parts of the daemon, for all values of their          *)
(* constants.  PowerSession: a request is settled by its own answer,       *)
(* nothing outlives the session, and a session that completed did what it  *)
(* says.  DaemonAccount: a plan is of one account, and a start brings back *)
(* what was acknowledged.                                                  *)
(***************************************************************************)
EXTENDS PowerSession, DaemonAccount, SequenceTheorems, TLAPS

(***************************************************************************)
(* A session with an MCP tool or with Chrome.                              *)
(***************************************************************************)
PC == {"driver", "tool", "result", "sealed", "finished"}
Over == pc \in {"sealed", "finished"}

AnyTool == BrowserTool \cup {"mcp"}

\* A plan, whatever its tools.
KnownPlan ==
  /\ request.plan \in Seq(AnyTool)
  /\ request.kind \in {"browser", "mcp", "http"}
  /\ request.expectDenied \in BOOLEAN

\* An id is the number of the request it was made for, on its way and back.
Ids ==
  /\ sent \in Nat /\ nextId = sent + 1
  /\ \A p \in pending : p.id = p.of
  /\ \A a \in wire : a.id = a.of
  /\ OwnAnswers

\* Only a tool has something pending; without a browser, only a tool has a
\* process that was not told to stop, and nothing has a profile.
Resources ==
  /\ pc # "tool" => pending = {}
  /\ request.kind # "browser" =>
       /\ profile = "none"
       /\ pc # "tool" => child # "up"
  /\ request.kind = "http" => child = "none"
  /\ pc = "finished" => profile # "made" /\ child # "up"

\* The number of tools of the plan that are behind the driver.
Done == Len(request.plan) - Len(tools)
First(n) == {request.plan[i] : i \in 1 .. n}

\* The tools are what is left of the plan; of those before, each returned.
Progress ==
  /\ tools \in Seq(AnyTool)
  /\ Done \in Nat
  /\ \A i \in 1 .. Len(tools) : tools[i] = request.plan[Done + i]
  /\ pc \in {"tool", "result"} => tools # <<>>
  /\ pc = "driver" => result = "ok"
  /\ pc \in {"driver", "tool"} \/ (pc = "result" /\ result # "ok") =>
       returned = First(Done)
  /\ pc = "result" /\ result = "ok" => returned = First(Done + 1)
  /\ ~Over => outcome = "running"
  /\ ExpectsDenial /\ ~Over => Done = 0
  /\ ExpectsDenial /\ (pc = "driver" \/ (pc = "result" /\ result = "denied")) =>
       child = "none"

IInv ==
  /\ pc \in PC
  /\ KnownPlan
  /\ Ids
  /\ Resources
  /\ Progress
  /\ HonestOutcome

-----------------------------------------------------------------------------
\* A step that leaves the driver and the client as they are.
LEMMA Quiet ==
  ASSUME IInv, UNCHANGED <<request, driver, client, profile, settled>>,
         \A a \in wire' : a.id = a.of,
         child' = child \/ (child \in {"up", "stopping"} /\ child' = "exited")
  PROVE  IInv'
<1> USE DEF driver, client
<1>1. Ids'
  BY DEF IInv, Ids, OwnAnswers
<1>2. Resources'
  BY DEF IInv, Resources
<1>3. Progress'
  BY DEF IInv, Progress, Done, First, Over, ExpectsDenial, IsAnnotation
<1>4. HonestOutcome'
  BY DEF IInv, HonestOutcome
<1> QED
  BY <1>1, <1>2, <1>3, <1>4 DEF IInv, KnownPlan

\* The part of a plan that is behind the driver, with the current tool.
LEMMA OneMoreDone ==
  ASSUME IInv, tools # <<>>
  PROVE  /\ Head(tools) = request.plan[Done + 1]
         /\ First(Done) \cup {Head(tools)} = First(Done + 1)
<1>1. Done \in Nat /\ Len(tools) \in Nat \ {0} /\ Head(tools) = tools[1]
  BY DEF IInv, Progress
<1>2. Head(tools) = request.plan[Done + 1]
  BY <1>1 DEF IInv, Progress
<1>3. 1 .. Done + 1 = (1 .. Done) \cup {Done + 1}
  BY <1>1
<1> QED
  BY <1>2, <1>3 DEF First

\* A tool returns to the driver.
LEMMA Returned ==
  ASSUME IInv, NEW how \in {"ok", "error"}, Return(how), ~Over, pc # "result",
         tools # <<>>, pc = "driver" => how = "error",
         request' = request, wire' \subseteq wire, OwnAnswers',
         request.kind # "browser" => profile' = "none"
  PROVE  IInv'
<1> USE DEF Return
<1>1. pc \in {"driver", "tool"}
  BY DEF IInv, PC, Over
<1>2. Ids'
  BY DEF IInv, Ids
<1>3. Resources'
  BY <1>1 DEF IInv, Resources, CloseClient, Kill, KnownPlan
<1>4. Progress'
  <2>1. /\ Done' = Done /\ First(Done)' = First(Done)
        /\ First(Done + 1)' = First(Done + 1)
    BY DEF Done, First
  <2>2. ~Over' /\ ExpectsDenial' = ExpectsDenial
    BY DEF Over, ExpectsDenial, IsAnnotation
  <2>3. returned' = IF how = "ok" THEN First(Done + 1) ELSE First(Done)
    <3>1. returned = First(Done)
      BY <1>1 DEF IInv, Progress
    <3> QED
      BY <3>1, OneMoreDone
  <2> QED
    BY <1>1, <2>1, <2>2, <2>3 DEF IInv, Progress
<1>5. HonestOutcome'
  BY DEF IInv, Progress, HonestOutcome
<1> QED
  BY <1>2, <1>3, <1>4, <1>5 DEF IInv, KnownPlan, PC

\* A tool waits for its next step.
LEMMA Awaited ==
  ASSUME IInv, NEW s, Await(s), pc \in {"driver", "tool"}, tools # <<>>,
         request' = request, wire' \subseteq wire, OwnAnswers',
         request.kind = "http" => child' = "none",
         request.kind # "browser" => profile' = "none"
  PROVE  IInv'
<1> USE DEF Await
<1>1. Ids'
  <2>1. pending' \subseteq {[id |-> nextId, of |-> sent + 1]}
    BY DEF Send, FreshId
  <2>2. \A p \in pending' : p.id = p.of
    BY <2>1 DEF IInv, Ids
  <2>3. sent' \in Nat /\ nextId' = sent' + 1
    BY DEF Send, IInv, Ids
  <2> QED
    BY <2>2, <2>3 DEF IInv, Ids
<1>2. Resources'
  BY DEF IInv, Resources
<1>3. Progress'
  <2>1. /\ Done' = Done /\ First(Done)' = First(Done)
    BY DEF Done, First
  <2>2. ~Over /\ ~Over' /\ ExpectsDenial' = ExpectsDenial
    BY DEF Over, ExpectsDenial, IsAnnotation
  <2> QED
    BY <2>1, <2>2 DEF IInv, Progress
<1>4. HonestOutcome'
  BY DEF IInv, Progress, HonestOutcome, Over
<1> QED
  BY <1>1, <1>2, <1>3, <1>4 DEF IInv, KnownPlan, PC

\* The next step of a tool, or its end.
LEMMA Proceeds ==
  ASSUME IInv, pc = "tool", Proceed, UNCHANGED <<request, wire, settled>>,
         profile' = profile
  PROVE  IInv'
<1>1. tools # <<>> /\ ~Over /\ OwnAnswers'
  BY DEF IInv, Progress, Over, Ids, OwnAnswers
<1>2. request.kind # "browser" => profile' = "none"
  BY DEF IInv, Resources
<1>3. request.kind = "http" => child = "none"
  BY DEF IInv, Resources
<1>4. CASE Return("ok")
  BY <1>1, <1>2, <1>4, Returned
<1>5. CASE Await(Tail(steps)) /\ child' = child
  BY <1>1, <1>2, <1>3, <1>5, Awaited
<1> QED
  BY <1>4, <1>5 DEF Proceed

LEMMA Failed ==
  ASSUME IInv, pc = "tool", Fails, UNCHANGED <<request, wire, settled>>
  PROVE  IInv'
<1>1. tools # <<>> /\ ~Over /\ OwnAnswers'
  BY DEF IInv, Progress, Over, Ids, OwnAnswers
<1>2. request.kind # "browser" => profile' = "none"
  BY DEF IInv, Resources, Fails
<1> QED
  BY <1>1, <1>2, Returned DEF Fails

\* The run ends.
LEMMA Sealed ==
  ASSUME IInv, pc \in {"driver", "result"}, NEW o \in {"completed", "failed"},
         Seals(o), UNCHANGED <<request, Powers>>, HonestOutcome'
  PROVE  IInv'
<1> USE DEF Seals, Powers, process, client
<1>1. Ids'
  BY DEF IInv, Ids, OwnAnswers
<1>2. Resources'
  BY DEF IInv, Resources
<1>3. Progress'
  <2>1. Done' = Done /\ Over'
    BY DEF Done, Over
  <2> QED
    BY <2>1 DEF IInv, Progress
<1> QED
  BY <1>1, <1>2, <1>3 DEF IInv, KnownPlan, PC

-----------------------------------------------------------------------------
(* The driver's steps.                                                     *)

LEMMA EndsStep == IInv /\ Ends => IInv'
<1> SUFFICES ASSUME IInv, Ends PROVE IInv'
  OBVIOUS
<1> DEFINE o == IF request.plan = <<>> THEN "failed" ELSE "completed"
<1>1. Seals(o) /\ pc = "driver" /\ UNCHANGED <<request, Powers>>
  BY DEF Ends
<1>2. o \in {"completed", "failed"}
  OBVIOUS
<1>3. HonestOutcome'
  <2> SUFFICES ASSUME outcome' = "completed" PROVE HonestOutcome'
    BY DEF HonestOutcome
  <2>1. request.plan # <<>> /\ result' = "ok" /\ returned' = returned
    BY <1>1 DEF IInv, Progress, Seals
  <2>2. Done = Len(request.plan) /\ returned = First(Done)
    BY <1>1 DEF IInv, Progress, KnownPlan, Done, Ends
  <2>3. ToSet(request.plan) = First(Done)
    BY <2>2 DEF ToSet, First, IInv, KnownPlan
  <2> QED
    BY <1>1, <2>1, <2>2, <2>3 DEF HonestOutcome
<1> HIDE DEF o
<1> QED
  BY <1>1, <1>2, <1>3, Sealed

LEMMA DeniedStep == IInv /\ Denied => IInv'
<1> SUFFICES ASSUME IInv, Denied PROVE IInv'
  OBVIOUS
<1> USE DEF Denied, Powers, process, client
<1>1. Ids'
  BY DEF IInv, Ids, OwnAnswers
<1>2. Resources'
  BY DEF IInv, Resources
<1>3. Progress'
  <2>1. /\ Done' = Done /\ First(Done)' = First(Done)
        /\ ~Over /\ ~Over' /\ ExpectsDenial' = ExpectsDenial
    BY DEF Done, First, Over, ExpectsDenial, IsAnnotation
  <2> QED
    BY <2>1 DEF IInv, Progress
<1>4. HonestOutcome'
  BY DEF IInv, Progress, HonestOutcome, Over
<1> QED
  BY <1>1, <1>2, <1>3, <1>4 DEF IInv, KnownPlan, PC

LEMMA CallsStep == IInv /\ Calls => IInv'
<1> SUFFICES ASSUME IInv, Calls PROVE IInv'
  OBVIOUS
<1>1. /\ pc = "driver" /\ tools # <<>> /\ ~Over /\ request' = request
      /\ wire' \subseteq wire
  BY DEF Calls, Over
<1>2. OwnAnswers'
  BY DEF Calls, IInv, Ids, OwnAnswers
<1>3. CASE Fails
  <2>1. Return("error") /\ (request.kind # "browser" => profile' = "none")
    BY <1>3 DEF Fails, IInv, Resources
  <2> QED
    BY <1>1, <1>2, <2>1, Returned
<1>4. CASE request.kind = "browser" /\ Return("error")
  BY <1>1, <1>2, <1>4, Returned
<1>5. CASE /\ request.kind # "http"
           /\ profile' = IF request.kind = "browser" THEN "made" ELSE "none"
           /\ Await(StepsOf(Head(tools)))
  BY <1>1, <1>2, <1>5, Awaited
<1> QED
  BY <1>3, <1>4, <1>5 DEF Calls

LEMMA JudgesStep == IInv /\ Judges => IInv'
<1> SUFFICES ASSUME IInv, Judges PROVE IInv'
  OBVIOUS
<1>1. pc = "result" /\ UNCHANGED <<request, Powers>> /\ tools # <<>>
  BY DEF Judges, IInv, Progress
<1>2. CASE Seals("failed")
  <2>1. HonestOutcome'
    BY <1>2 DEF Seals, HonestOutcome
  <2> QED
    BY <1>1, <1>2, <2>1, Sealed
<1>3. CASE ExpectsDenial /\ result = "denied" /\ Seals("completed")
  <2>1. child = "none" /\ returned = First(0)
    BY <1>1, <1>3 DEF IInv, Progress, Over
  <2>2. child' = "none" /\ returned' = {} /\ result' = "denied"
    BY <1>1, <1>3, <2>1 DEF First, Seals, Powers, process
  <2>3. HonestOutcome'
    BY <1>1, <1>3, <2>2 DEF HonestOutcome, ExpectsDenial
  <2> QED
    BY <1>1, <1>3, <2>3, Sealed
<1>4. CASE /\ ~ExpectsDenial /\ result = "ok" /\ pc' = "driver"
           /\ tools' = Tail(tools)
           /\ UNCHANGED <<result, outcome, returned>>
  <2> USE <1>1, <1>4
  <2>1. Ids'
    BY DEF IInv, Ids, OwnAnswers, Powers, client
  <2>2. Resources'
    BY DEF IInv, Resources, Powers, process, client
  <2>3. Progress'
    <3>1. /\ ~Over /\ ~Over' /\ ExpectsDenial' = ExpectsDenial
          /\ tools \in Seq(AnyTool) /\ Done \in Nat
          /\ \A i \in 1 .. Len(tools) : tools[i] = request.plan[Done + i]
          /\ returned = First(Done + 1) /\ outcome = "running"
      BY DEF Over, ExpectsDenial, IsAnnotation, IInv, Progress
    <3>2. /\ tools' \in Seq(AnyTool) /\ Len(tools') = Len(tools) - 1
          /\ \A i \in 1 .. Len(tools') : tools'[i] = tools[i + 1]
      BY <3>1
    <3>3. Done' = Done + 1 /\ Done + 1 \in Nat
      BY <3>1, <3>2 DEF Done, IInv, KnownPlan
    <3>4. returned' = First(Done + 1)
      BY <3>1
    <3>5. \A i \in 1 .. Len(tools') : tools'[i] = request.plan[Done + 1 + i]
      BY <3>1, <3>2
    <3>6. First(Done') = First(Done + 1)
      BY <3>3
    <3> QED
      BY <3>1, <3>2, <3>3, <3>4, <3>5, <3>6 DEF Progress, First
  <2>4. HonestOutcome'
    BY DEF IInv, Progress, HonestOutcome, Over
  <2> QED
    BY <2>1, <2>2, <2>3, <2>4 DEF IInv, KnownPlan, PC
<1> QED
  BY <1>2, <1>3, <1>4 DEF Judges

LEMMA FinishesStep == IInv /\ Finishes => IInv'
<1> SUFFICES ASSUME IInv, Finishes PROVE IInv'
  OBVIOUS
<1> USE DEF Finishes, Cleanup, Kill
<1>1. Ids'
  BY DEF IInv, Ids, OwnAnswers
<1>2. Resources'
  BY DEF IInv, Resources, KnownPlan
<1>3. Progress'
  <2>1. Done' = Done /\ Over'
    BY DEF Done, Over
  <2> QED
    BY <2>1 DEF IInv, Progress
<1>4. HonestOutcome'
  BY DEF IInv, HonestOutcome
<1> QED
  BY <1>1, <1>2, <1>3, <1>4 DEF IInv, KnownPlan, PC

-----------------------------------------------------------------------------
(* The steps of a tool, and of the other process.                          *)

LEMMA ToolStep == IInv /\ Tool => IInv'
<1> SUFFICES ASSUME IInv, Tool PROVE IInv'
  OBVIOUS
<1>1. CASE FindsTarget
  BY <1>1, Proceeds, Failed DEF FindsTarget, AtStep, Elsewhere
<1>2. CASE Connects
  BY <1>2, Proceeds, Failed DEF Connects, AtStep, Elsewhere
<1>3. CASE Loads
  BY <1>3, Proceeds DEF Loads, AtStep, Elsewhere
<1>4. pending # {} => pc = "tool"
  BY DEF IInv, Resources
<1>5. CASE TimesOut
  BY <1>4, <1>5, Failed DEF TimesOut, Elsewhere
<1>6. CASE SpawnFails
  <2>1. CASE Fails
    BY <1>6, <2>1, Failed DEF SpawnFails
  <2>2. CASE UNCHANGED <<driver, steps, process, client>>
    <3>1. /\ UNCHANGED <<request, driver, client, profile, settled>>
          /\ child' = child /\ wire' = wire
      BY <1>6, <2>2 DEF SpawnFails, process
    <3>2. \A a \in wire' : a.id = a.of
      BY <3>1 DEF IInv, Ids
    <3> QED
      BY <3>1, <3>2, Quiet
  <2> QED
    BY <1>6, <2>1, <2>2 DEF SpawnFails
<1>7. CASE ServerClosed
  BY <1>4, <1>7, Failed DEF ServerClosed, Elsewhere
<1> QED
  BY <1>1, <1>2, <1>3, <1>5, <1>6, <1>7 DEF Tool

LEMMA DeliversStep == IInv /\ Delivers => IInv'
<1> SUFFICES ASSUME IInv, Delivers PROVE IInv'
  OBVIOUS
<1>1. PICK a \in wire : (Settle(a) \/ Drop(a)) /\ wire' = wire \ {a}
  BY DEF Delivers
<1>2. request' = request /\ wire' \subseteq wire
  BY <1>1 DEF Delivers
<1>3. CASE Settle(a)
  <2>1. PICK p \in pending :
           /\ p.id = a.id
           /\ settled' = settled \cup {<<p.of, a.of>>}
           /\ \/ Return("error")
              \/ Return("ok")
              \/ Await(Tail(steps)) /\ UNCHANGED child
           /\ UNCHANGED <<profile, connected, navigated>>
    BY <1>3 DEF Settle
  <2>2. OwnAnswers'
    <3>1. p.of = a.of
      BY <2>1 DEF IInv, Ids
    <3> QED
      BY <2>1, <3>1 DEF OwnAnswers, IInv, Ids
  <2>3. pc = "tool"
    BY <2>1 DEF IInv, Resources
  <2>4. /\ tools # <<>> /\ ~Over
        /\ request.kind # "browser" => profile' = "none"
        /\ request.kind = "http" => child = "none"
    BY <2>1, <2>3 DEF IInv, Progress, Over, Resources
  <2>5. CASE Return("error")
    BY <1>2, <2>2, <2>3, <2>4, <2>5, Returned
  <2>6. CASE Return("ok")
    BY <1>2, <2>2, <2>3, <2>4, <2>6, Returned
  <2>7. CASE Await(Tail(steps)) /\ UNCHANGED child
    BY <1>2, <2>2, <2>3, <2>4, <2>7, Awaited
  <2> QED
    BY <2>1, <2>5, <2>6, <2>7
<1>4. CASE Drop(a)
  <2>1. /\ UNCHANGED <<request, driver, client, profile, settled>>
        /\ child' = child
    BY <1>2, <1>4 DEF Drop, process
  <2>2. \A b \in wire' : b.id = b.of
    BY <1>2 DEF IInv, Ids
  <2> QED
    BY <2>1, <2>2, Quiet
<1> QED
  BY <1>1, <1>3, <1>4

LEMMA EnvironmentStep == IInv /\ Environment => IInv'
<1> SUFFICES ASSUME IInv, Environment PROVE IInv'
  OBVIOUS
<1>1. CASE PipeBreaks
  <2>1. /\ UNCHANGED <<request, driver, client, profile, settled>>
        /\ child' = child /\ wire' = wire
    BY <1>1 DEF PipeBreaks, process
  <2>2. \A a \in wire' : a.id = a.of
    BY <2>1 DEF IInv, Ids
  <2> QED
    BY <2>1, <2>2, Quiet
<1>2. CASE Answers
  <2>1. /\ UNCHANGED <<request, driver, client, profile, settled>>
        /\ child' = child
    BY <1>2 DEF Answers, process
  <2>2. PICK p \in pending, how \in {"result", "error"}, C \in SUBSET {1, 2} :
           wire' = wire \cup {[id |-> p.id, of |-> p.of, how |-> how,
                               copy |-> c] : c \in C}
    BY <1>2 DEF Answers
  <2>3. p.id = p.of
    BY DEF IInv, Ids
  <2>4. \A a \in wire' : a.id = a.of
    BY <2>2, <2>3 DEF IInv, Ids
  <2> QED
    BY <2>1, <2>4, Quiet
<1>3. CASE Exits
  <2>1. /\ UNCHANGED <<request, driver, client, profile, settled>>
        /\ child \in {"up", "stopping"} /\ child' = "exited" /\ wire' = wire
    BY <1>3 DEF Exits
  <2>2. \A a \in wire' : a.id = a.of
    BY <2>1 DEF IInv, Ids
  <2> QED
    BY <2>1, <2>2, Quiet
<1> QED
  BY <1>1, <1>2, <1>3, DeliversStep DEF Environment

-----------------------------------------------------------------------------
(* The inductive invariant, and what follows from it.                      *)

LEMMA Start == Init => IInv
<1> SUFFICES ASSUME Init PROVE IInv
  OBVIOUS
<1> USE DEF Init
<1>1. KnownPlan
  <2>1. CASE request \in BrowserRequests
    <3>1. request.plan \in BrowserPlans
      BY <2>1 DEF BrowserRequests
    <3>2. \A t \in AnyTool : <<t>> \in Seq(AnyTool)
      OBVIOUS
    <3>3. \A t \in BrowserTool : t \in AnyTool
      BY DEF AnyTool
    <3>4. /\ <<"navigate", "annotate", "getDom">> \in Seq(AnyTool)
          /\ <<"annotate", "getDom">> \in Seq(AnyTool)
          /\ <<"navigate", "getDom", "getContent", "screenshot">>
               \in Seq(AnyTool)
      BY DEF AnyTool, BrowserTool
    <3>5. request.plan \in Seq(AnyTool)
      BY <3>1, <3>2, <3>3, <3>4 DEF BrowserPlans
    <3> QED
      BY <2>1, <3>5 DEF KnownPlan, BrowserRequests
  <2>2. CASE request \in McpRequests
    <3>1. <<>> \in Seq(AnyTool) /\ <<"mcp">> \in Seq(AnyTool)
      BY DEF AnyTool
    <3>2. request.plan \in {<<>>, <<"mcp">>}
      BY <2>2 DEF McpRequests
    <3> QED
      BY <2>2, <3>1, <3>2 DEF KnownPlan, McpRequests
  <2> QED
    BY <2>1, <2>2
<1>2. Ids /\ Resources
  BY DEF Ids, Resources, OwnAnswers
<1>3. Progress
  <2>1. Done = 0 /\ First(Done) = {}
    BY <1>1 DEF Done, First, KnownPlan
  <2> QED
    BY <1>1, <2>1 DEF Progress, KnownPlan, Over
<1>4. HonestOutcome
  BY DEF HonestOutcome
<1> QED
  BY <1>1, <1>2, <1>3, <1>4 DEF IInv, PC

LEMMA Step == IInv /\ [Next]_vars => IInv'
<1> SUFFICES ASSUME IInv, [Next]_vars PROVE IInv'
  OBVIOUS
<1>1. CASE UNCHANGED vars
  <2>1. /\ UNCHANGED <<request, driver, client, profile, settled>>
        /\ child' = child /\ wire' = wire
    BY <1>1 DEF vars, process
  <2>2. \A a \in wire' : a.id = a.of
    BY <2>1 DEF IInv, Ids
  <2> QED
    BY <2>1, <2>2, Quiet
<1> QED
  BY <1>1, EndsStep, DeniedStep, CallsStep, JudgesStep, FinishesStep, ToolStep,
     EnvironmentStep DEF Next, Driver

LEMMA Invariance == Spec => []IInv
  BY Start, Step, PTL DEF Spec

\* A request of StdioMcpClient or CdpClient is settled by its own answer,
\* however often the other process repeats or delays one: the ids of the
\* requests are never used again.
THEOREM AnswersAreOwn == Spec => []OwnAnswers
<1>1. IInv => OwnAnswers
  BY DEF IInv, Ids
<1> QED
  BY <1>1, Invariance, PTL

\* The end of #run leaves no process that was not told to stop, no profile
\* whose removal was not tried and no pending request, whichever step of
\* whichever tool failed.
THEOREM NothingIsLeft == Spec => []NothingOutlives
<1>1. IInv => NothingOutlives
  BY DEF IInv, Resources, NothingOutlives
<1> QED
  BY <1>1, Invariance, PTL

\* A session that completed was denied the tool it expected to be denied, with
\* nothing spawned for it, or had an answer for each tool of its plan.
THEOREM OutcomeIsHonest == Spec => []HonestOutcome
<1>1. IInv => HonestOutcome
  BY DEF IInv
<1> QED
  BY <1>1, Invariance, PTL

-----------------------------------------------------------------------------
(***************************************************************************)
(* The account, the plans and the registries.                              *)
(***************************************************************************)
\* The stores hold the four files.
HoldsAll(store) == store = [r \in Registry |-> store[r]]

\* What SteeringRegistry holds.
IsSteering(x) == x = [custom |-> x.custom, active |-> x.active]

\* What may be missing from a file.
Missing(r) == IF r = "powers" THEN unsaved ELSE {}

\* What is in a list of the file, or was acknowledged all the same.
Covered(r) == Items(r, file[r]) \cup Missing(r)

\* What was acknowledged is in memory as long as the daemon runs, and in a
\* file that was not cut short.
FilesKeepAcked ==
  /\ HoldsAll(memory) /\ HoldsAll(file) /\ HoldsAll(acked)
  /\ IsSteering(memory["steering"]) /\ IsSteering(file["steering"])
  /\ up => \A r \in Registry : acked[r] \subseteq Items(r, memory[r])
  /\ \A r \in Registry \ cut : acked[r] \subseteq Covered(r)

\* A plan is a record of these fields.
IsPlan(x) == x = [f \in {"pc", "account", "quota", "priority"} |-> x[f]]

\* What a plan has read so far is of the account it began with.
PlansKeepAccount ==
  /\ plan = [p \in Planner |-> plan[p]]
  /\ \A p \in Planner :
       /\ IsPlan(plan[p])
       /\ plan[p].pc = "priority" => plan[p].quota = plan[p].account
  /\ PlanOfOneAccount

AccountInv == FilesKeepAcked /\ PlansKeepAccount

-----------------------------------------------------------------------------
LEMMA AccountStarts == AccountInit => AccountInv
<1> SUFFICES ASSUME AccountInit PROVE AccountInv
  OBVIOUS
<1>1. FilesKeepAcked
  BY DEF AccountInit, Empty, FilesKeepAcked, HoldsAll, Registry, Items,
         IsSteering,
         Covered
<1>2. PlansKeepAccount
  BY DEF AccountInit, NoPlan, PlansKeepAccount, IsPlan, PlanOfOneAccount
<1> QED
  BY <1>1, <1>2 DEF AccountInv

\* The files, and what was acknowledged of them, are left alone.
LEMMA SameFiles ==
  ASSUME AccountInv, UNCHANGED <<up, stores>>
  PROVE  FilesKeepAcked'
  BY DEF AccountInv, FilesKeepAcked, HoldsAll, stores, Covered, Missing

\* A value that keeps the items of the list and has those given.
Extends(r, value, items) ==
  /\ Items(r, memory[r]) \cup items \subseteq Items(r, value)
  /\ r = "steering" => IsSteering(value)

\* A change of one file, saved and acknowledged.
LEMMA ChangeSaved ==
  ASSUME AccountInv, up, up', NEW r \in Registry, NEW value, NEW items,
         Extends(r, value, items), Saves(r, value),
         acked' = [acked EXCEPT ![r] = @ \cup items]
  PROVE  FilesKeepAcked'
<1>1. /\ HoldsAll(memory)' /\ HoldsAll(file)' /\ HoldsAll(acked)'
      /\ memory'[r] = value /\ file'[r] = value
      /\ acked'[r] = acked[r] \cup items
      /\ \A q \in Registry \ {r} :
           memory'[q] = memory[q] /\ file'[q] = file[q] /\ acked'[q] = acked[q]
  BY DEF Saves, AccountInv, FilesKeepAcked, HoldsAll
<1>2. IsSteering(memory'["steering"]) /\ IsSteering(file'["steering"])
  BY <1>1 DEF Extends, AccountInv, FilesKeepAcked, Registry
<1>3. acked'[r] \subseteq Items(r, value)
  BY <1>1 DEF Extends, AccountInv, FilesKeepAcked
<1>4. \A q \in Registry : acked'[q] \subseteq Items(q, memory'[q])
  BY <1>1, <1>3 DEF AccountInv, FilesKeepAcked
<1>5. \A q \in Registry \ cut' : acked'[q] \subseteq Covered(q)'
  <2> TAKE q \in Registry \ cut'
  <2>1. CASE q = r
    BY <1>1, <1>3, <2>1 DEF Covered
  <2>2. CASE q # r
    <3>1. Missing(q)' = Missing(q) /\ q \notin cut
      BY <2>2 DEF Saves, Missing
    <3> QED
      BY <1>1, <2>2, <3>1 DEF Covered, AccountInv, FilesKeepAcked
  <2> QED
    BY <2>1, <2>2
<1> QED
  BY <1>1, <1>2, <1>4, <1>5 DEF FilesKeepAcked

\* A change of one file that was not saved, or not in full.
LEMMA ChangeUnsaved ==
  ASSUME AccountInv, up, up', NEW r \in Registry, NEW value,
         Extends(r, value, {}), SaveFails(r, value), acked' = acked
  PROVE  FilesKeepAcked'
<1>1. /\ HoldsAll(memory)' /\ HoldsAll(file)' /\ HoldsAll(acked)'
      /\ memory'[r] = value
      /\ \A q \in Registry \ {r} : memory'[q] = memory[q]
      /\ \A q \in Registry \ cut' : q \notin cut /\ file'[q] = file[q]
      /\ file'["steering"] \in {file["steering"], Empty["steering"]}
  BY DEF SaveFails, AccountInv, FilesKeepAcked, HoldsAll, Registry
<1>2. IsSteering(memory'["steering"]) /\ IsSteering(file'["steering"])
  BY <1>1 DEF Extends, AccountInv, FilesKeepAcked, Registry, IsSteering, Empty
<1>3. \A q \in Registry : acked'[q] \subseteq Items(q, memory'[q])
  BY <1>1 DEF Extends, AccountInv, FilesKeepAcked
<1>4. \A q \in Registry \ cut' : acked'[q] \subseteq Covered(q)'
  BY <1>1 DEF SaveFails, Covered, Missing, AccountInv, FilesKeepAcked
<1> QED
  BY <1>1, <1>2, <1>3, <1>4 DEF FilesKeepAcked

\* A request that changes one file.
LEMMA ChangesFile ==
  ASSUME AccountInv, NEW r \in Registry, NEW value, NEW items,
         Extends(r, value, items), Change(r, value, items)
  PROVE  AccountInv'
<1>1. up /\ up' /\ plan' = plan
  BY DEF Change
<1>2. FilesKeepAcked'
  <2>1. CASE Saves(r, value) /\ acked' = [acked EXCEPT ![r] = @ \cup items]
    BY <1>1, <2>1, ChangeSaved
  <2>2. CASE SaveFails(r, value) /\ acked' = acked
    <3>1. Extends(r, value, {})
      BY DEF Extends
    <3> QED
      BY <1>1, <2>2, <3>1, ChangeUnsaved
  <2> QED
    BY <2>1, <2>2 DEF Change
<1>3. PlansKeepAccount'
  BY <1>1 DEF AccountInv, PlansKeepAccount, PlanOfOneAccount, IsPlan
<1> QED
  BY <1>2, <1>3 DEF AccountInv

LEMMA CrashFiles == AccountInv /\ Crash => FilesKeepAcked'
<1> SUFFICES ASSUME AccountInv, Crash PROVE FilesKeepAcked'
  OBVIOUS
<1>1. /\ HoldsAll(memory)' /\ HoldsAll(acked)' /\ acked' = acked
      /\ IsSteering(memory'["steering"]) /\ unsaved' = unsaved /\ ~up'
  BY DEF Crash, Empty, AccountInv, FilesKeepAcked, HoldsAll, Registry,
         IsSteering
<1>2. /\ HoldsAll(file)'
      /\ \A q \in Registry \ cut' : q \notin cut /\ file'[q] = file[q]
      /\ file'["steering"] \in {file["steering"], Empty["steering"]}
  BY DEF Crash, AccountInv, FilesKeepAcked, HoldsAll, Registry
<1>3. IsSteering(file'["steering"])
  BY <1>2 DEF Empty, IsSteering, AccountInv, FilesKeepAcked
<1>4. \A q \in Registry \ cut' : acked'[q] \subseteq Covered(q)'
  BY <1>1, <1>2 DEF Covered, Missing, AccountInv, FilesKeepAcked
<1> QED
  BY <1>1, <1>2, <1>3, <1>4 DEF FilesKeepAcked

\* The plans are left alone.
LEMMA SamePlans ==
  ASSUME AccountInv, plan' = plan
  PROVE  PlansKeepAccount'
  BY DEF AccountInv, PlansKeepAccount, PlanOfOneAccount, IsPlan

\* One plan begins.
LEMMA PlanBegins ==
  ASSUME AccountInv, NEW p \in Planner, BeginsPlan(p)
  PROVE  PlansKeepAccount'
  BY DEF BeginsPlan, NoPlan, AccountInv, PlansKeepAccount, PlanOfOneAccount,
         IsPlan

LEMMA CrashPlans == AccountInv /\ Crash => PlansKeepAccount'
  BY DEF Crash, NoPlan, Answered, AccountInv, PlansKeepAccount,
         PlanOfOneAccount, IsPlan

-----------------------------------------------------------------------------
LEMMA RegistriesStep == AccountInv /\ Registries => AccountInv'
<1> SUFFICES ASSUME AccountInv, Registries PROVE AccountInv'
  OBVIOUS
<1>0. {"account", "hooks", "steering", "powers"} = Registry
  BY DEF Registry
<1>1. CASE CreateHook
  <2>1. PICK h : Change("hooks", memory["hooks"] \cup {h}, {h})
    BY <1>1 DEF CreateHook
  <2>2. Extends("hooks", memory["hooks"] \cup {h}, {h})
    BY DEF Extends, Items
  <2> QED
    BY <1>0, <2>1, <2>2, ChangesFile
<1>2. CASE AddSteering
  <2> DEFINE With(c) == [memory["steering"] EXCEPT !.custom = @ \cup {c}]
  <2>1. PICK c : Change("steering", With(c), {c})
    BY <1>2 DEF AddSteering
  <2>2. /\ IsSteering(With(c))
        /\ With(c).custom = memory["steering"].custom \cup {c}
    BY DEF IsSteering, AccountInv, FilesKeepAcked
  <2>3. Extends("steering", With(c), {c})
    BY <2>2 DEF Extends, Items
  <2> QED
    BY <1>0, <2>1, <2>3, ChangesFile
<1>3. CASE SetActive
  <2> DEFINE With(ids) == [memory["steering"] EXCEPT !.active = ids]
  <2>1. PICK ids : Change("steering", With(ids), {})
    BY <1>3 DEF SetActive
  <2>2. /\ IsSteering(With(ids))
        /\ With(ids).custom = memory["steering"].custom
    BY DEF IsSteering, AccountInv, FilesKeepAcked
  <2>3. Extends("steering", With(ids), {})
    BY <2>2 DEF Extends, Items
  <2> QED
    BY <1>0, <2>1, <2>3, ChangesFile
<1>4. CASE AddPower
  <2>1. PICK p : Change("powers", memory["powers"] \cup {p}, {p})
    BY <1>4 DEF AddPower
  <2>2. Extends("powers", memory["powers"] \cup {p}, {p})
    BY DEF Extends, Items
  <2> QED
    BY <1>0, <2>1, <2>2, ChangesFile
<1>5. CASE InstallAgain
  <2>1. PICK p \in memory["powers"] :
          /\ acked' = [acked EXCEPT !["powers"] = @ \cup {p}]
          /\ unsaved' = unsaved \cup ({p} \ file["powers"])
    BY <1>5 DEF InstallAgain
  <2>2. up /\ UNCHANGED <<up, memory, file, cut, plan>>
    BY <1>5 DEF InstallAgain
  <2>3. /\ HoldsAll(acked')
        /\ acked'["powers"] = acked["powers"] \cup {p}
        /\ \A q \in Registry \ {"powers"} : acked'[q] = acked[q]
    BY <1>0, <2>1 DEF AccountInv, FilesKeepAcked, HoldsAll
  <2>4. \A q \in Registry : acked'[q] \subseteq Items(q, memory'[q])
    <3> TAKE q \in Registry
    <3>1. CASE q = "powers"
      BY <2>1, <2>2, <2>3, <3>1 DEF AccountInv, FilesKeepAcked, Items
    <3>2. CASE q # "powers"
      BY <2>2, <2>3, <3>2 DEF AccountInv, FilesKeepAcked
    <3> QED
      BY <3>1, <3>2
  <2>5. \A q \in Registry \ cut' : acked'[q] \subseteq Covered(q)'
    <3> TAKE q \in Registry \ cut'
    <3>1. CASE q = "powers"
      BY <2>1, <2>2, <2>3, <3>1
      DEF AccountInv, FilesKeepAcked, Covered, Missing, Items
    <3>2. CASE q # "powers"
      BY <2>2, <2>3, <3>2 DEF AccountInv, FilesKeepAcked, Covered, Missing
    <3> QED
      BY <3>1, <3>2
  <2>6. FilesKeepAcked'
    BY <2>2, <2>3, <2>4, <2>5 DEF FilesKeepAcked, HoldsAll, AccountInv
  <2> QED
    BY <2>2, <2>6, SamePlans DEF AccountInv
<1>6. CASE Logout
  <2>1. Extends("account", Nobody, {})
    BY DEF Extends, Items
  <2> QED
    BY <1>0, <1>6, <2>1, ChangesFile DEF Logout
<1> QED
  BY <1>1, <1>2, <1>3, <1>4, <1>5, <1>6 DEF Registries

LEMMA SignInsStep == AccountInv /\ SignIns => AccountInv'
<1> SUFFICES ASSUME AccountInv, SignIns PROVE AccountInv'
  OBVIOUS
<1>1. plan' = plan
  BY DEF SignIns, BeginLogin, Identifies, SignsIn, BeginSession, SignInStep
<1>2. CASE SignsIn
  <2>1. "account" \in Registry
    BY DEF Registry
  <2>2. /\ up /\ up' /\ acked' = acked
        /\ \E x : Saves("account", x) \/ SaveFails("account", x)
    BY <1>2 DEF SignsIn, SignInStep
  <2>3. PICK x : Saves("account", x) \/ SaveFails("account", x)
    BY <2>2
  <2>4. Extends("account", x, {})
    BY DEF Extends, Items
  <2>5. acked' = [acked EXCEPT !["account"] = @ \cup {}]
    BY <2>1, <2>2 DEF AccountInv, FilesKeepAcked, HoldsAll
  <2>6. FilesKeepAcked'
    BY <2>1, <2>2, <2>3, <2>4, <2>5, ChangeSaved, ChangeUnsaved
  <2> QED
    BY <1>1, <2>6, SamePlans DEF AccountInv
<1>3. CASE UNCHANGED <<up, stores>>
  BY <1>1, <1>3, SameFiles, SamePlans DEF AccountInv
<1> QED
  BY <1>2, <1>3 DEF SignIns, BeginLogin, Identifies, BeginSession, SignInStep

LEMMA PlansStep == AccountInv /\ Plans => AccountInv'
<1> SUFFICES ASSUME AccountInv, Plans PROVE AccountInv'
  OBVIOUS
<1>1. FilesKeepAcked'
  BY SameFiles DEF Plans, AskPlan, StartSession, AnswerLogin, ReadQuota,
                   ReadPriority, AnswerPlan
<1>2. PlansKeepAccount'
  <2>1. CASE AskPlan \/ StartSession \/ AnswerLogin
    BY <2>1, PlanBegins, SamePlans
    DEF AskPlan, StartSession, AnswerLogin, Planner
  <2>2. CASE ReadQuota
    <3>1. PICK p \in Planner :
            plan' = [plan EXCEPT ![p].pc = "priority",
                                 ![p].quota = plan[p].account]
      BY <2>2 DEF ReadQuota
    <3>2. /\ plan' = [q \in Planner |-> plan'[q]]
          /\ \A q \in Planner \ {p} : plan'[q] = plan[q]
          /\ IsPlan(plan'[p]) /\ plan'[p].pc = "priority"
          /\ plan'[p].quota = plan'[p].account
      BY <3>1 DEF AccountInv, PlansKeepAccount, IsPlan
    <3> QED
      BY <3>2 DEF AccountInv, PlansKeepAccount, PlanOfOneAccount
  <2>3. CASE ReadPriority
    <3>1. PICK p \in Planner :
            /\ plan[p].pc = "priority"
            /\ plan' = [plan EXCEPT ![p].pc = "done",
                                    ![p].priority = plan[p].account]
      BY <2>3 DEF ReadPriority, PriorityAccount
    <3>2. /\ plan' = [q \in Planner |-> plan'[q]]
          /\ \A q \in Planner \ {p} : plan'[q] = plan[q]
          /\ IsPlan(plan'[p]) /\ plan'[p].pc = "done"
          /\ plan'[p].quota = plan[p].quota
          /\ plan'[p].account = plan[p].account
          /\ plan'[p].priority = plan[p].account
      <4>1. PICK y : y = plan[p]
        OBVIOUS
      <4>2. IsPlan(y) /\ plan = [q \in Planner |-> plan[q]]
        BY <4>1 DEF AccountInv, PlansKeepAccount
      <4>3. PICK x : x = [y EXCEPT !.pc = "done", !.priority = y.account]
        OBVIOUS
      <4>4. /\ IsPlan(x) /\ x.pc = "done" /\ x.quota = y.quota
            /\ x.account = y.account /\ x.priority = y.account
        BY <4>2, <4>3 DEF IsPlan
      <4>5. plan' = [plan EXCEPT ![p] = x]
        BY <3>1, <4>1, <4>3
      <4>6. /\ plan' = [q \in Planner |-> plan'[q]]
            /\ plan'[p] = x /\ \A q \in Planner \ {p} : plan'[q] = plan[q]
        BY <4>2, <4>5
      <4> QED
        BY <4>1, <4>4, <4>6
    <3>3. plan[p].quota = plan[p].account
      BY <3>1 DEF AccountInv, PlansKeepAccount
    <3>4. PlanOfOneAccount'
      BY <3>2, <3>3 DEF AccountInv, PlansKeepAccount, PlanOfOneAccount
    <3>5. \A q \in Planner :
            /\ IsPlan(plan'[q])
            /\ plan'[q].pc = "priority" => plan'[q].quota = plan'[q].account
      <4> TAKE q \in Planner
      <4>1. CASE q = p
        BY <3>2, <4>1
      <4>2. CASE q # p
        BY <3>2, <4>2 DEF AccountInv, PlansKeepAccount
      <4> QED
        BY <4>1, <4>2
    <3> QED
      BY <3>2, <3>4, <3>5 DEF PlansKeepAccount
  <2>4. CASE AnswerPlan
    BY <2>4 DEF AnswerPlan, Answered, NoPlan, AccountInv, PlansKeepAccount,
                PlanOfOneAccount, IsPlan
  <2> QED
    BY <2>1, <2>2, <2>3, <2>4 DEF Plans
<1> QED
  BY <1>1, <1>2 DEF AccountInv

\* A start puts into memory what the files hold.
LEMMA RestartStep ==
  ASSUME AccountInv, Restart
  PROVE  /\ AccountInv'
         /\ \A r \in Registry \ cut :
              acked[r] \subseteq Items(r, memory'[r]) \cup Missing(r)
<1>1. /\ HoldsAll(memory') /\ \A r \in Registry : memory'[r] = file[r]
      /\ HoldsAll(acked')
      /\ \A r \in Registry : acked'[r] = Items(r, memory'[r])
      /\ file' = file /\ cut' = cut
  BY DEF Restart, Load, HoldsAll
<1>2. FilesKeepAcked'
  <2>1. "steering" \in Registry
    BY DEF Registry
  <2> QED
    BY <1>1, <2>1 DEF AccountInv, FilesKeepAcked, HoldsAll, Covered
<1>3. PlansKeepAccount'
  BY SamePlans DEF Restart
<1>4. \A r \in Registry \ cut :
        acked[r] \subseteq Items(r, memory'[r]) \cup Missing(r)
  BY <1>1 DEF AccountInv, FilesKeepAcked, Covered
<1> QED
  BY <1>2, <1>3, <1>4 DEF AccountInv

LEMMA AccountStep == AccountInv /\ [AccountNext]_accountVars => AccountInv'
<1> SUFFICES ASSUME AccountInv, [AccountNext]_accountVars PROVE AccountInv'
  OBVIOUS
<1>1. CASE Crash
  BY <1>1, CrashFiles, CrashPlans DEF AccountInv
<1>2. CASE UNCHANGED accountVars
  BY <1>2, SameFiles, SamePlans DEF accountVars, AccountInv
<1> QED
  BY <1>1, <1>2, RegistriesStep, SignInsStep, PlansStep, RestartStep
  DEF AccountNext

\* Only a start brings the daemon up.
LEMMA OnlyRestartStarts ==
  ASSUME AccountInv, [AccountNext]_accountVars, ~up, up'
  PROVE  \A r \in Registry \ cut :
           acked[r] \subseteq Items(r, memory'[r]) \cup Missing(r)
<1>1. Restart
  BY DEF AccountNext, accountVars, Registries, CreateHook, AddSteering,
         SetActive, AddPower, InstallAgain, Logout, Change, SignIns,
         BeginLogin, Identifies,
         SignsIn, BeginSession, Plans, AskPlan, StartSession, AnswerLogin,
         ReadQuota, ReadPriority, AnswerPlan, Crash
<1> QED
  BY <1>1, RestartStep

\* The invariant holds at every moment of the account, the registries and the
\* plans of account.ts.
THEOREM AccountsKept == AccountSpec => []AccountInv
  BY AccountStarts, AccountStep, PTL DEF AccountSpec

\* An account plan is of one account, for any number of logins, sessions,
\* queries, changes and faults (AccountStore, AccountPlanDriver).
THEOREM PlansOfOneAccount == AccountSpec => []PlanOfOneAccount
<1>1. AccountInv => PlanOfOneAccount
  BY DEF AccountInv, PlansKeepAccount
<1> QED
  BY <1>1, AccountsKept, PTL

\* The daemon starts again with each hook, steering item and power it
\* acknowledged, unless the file was cut short or the power was acknowledged
\* from memory alone (the constructors of the registries, whose changes stay in
\* memory when a save fails).
THEOREM RestartsKeepAcked == AccountSpec => RestartKeepsAcked
<1>1. AccountInv /\ [AccountNext]_accountVars =>
        [~up /\ up' =>
           \A r \in Registry \ cut :
             acked[r] \subseteq Items(r, memory'[r])
                                  \cup (IF r = "powers" THEN unsaved ELSE {})
        ]_accountVars
  BY OnlyRestartStarts DEF Missing
<1> QED
  BY <1>1, AccountsKept, PTL DEF AccountSpec, RestartKeepsAcked
=============================================================================
