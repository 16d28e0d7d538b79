-------------------------- MODULE IdeClientProofs --------------------------
(***************************************************************************)
(* For any number of turns, tasks, events and messages: the host's one     *)
(* AbortController reaches every open stream, and what the host has of a   *)
(* turn and the webview shows of it is that turn's evidence in order,      *)
(* however its stream is cut.                                              *)
(***************************************************************************)
EXTENDS IdeClient, SequenceTheorems, NaturalsInduction,
        WellFoundedInduction, TLAPS

\* A run is a record of these fields.
IsRun(x) ==
  x = [f \in {"pc", "number", "target", "signal", "read", "buffer"} |-> x[f]]

AllRuns ==
  /\ run = [r \in Run |-> run[r]]
  /\ \A r \in Run : IsRun(run[r])

\* A run that has made an AbortController and has not ended.
Began(r) == run[r].pc \in {"create", "saved", "stream"}

IInv ==
  /\ AllRuns
  /\ abort = None => \A r \in Run : ~Began(r)
  /\ OneAbortReachesAll

-----------------------------------------------------------------------------
(* What a step does to the runs.                                           *)

LEMMA MovesOn ==
  ASSUME AllRuns, NEW r \in Run, NEW pc, Goto(r, pc)
  PROVE  /\ AllRuns'
         /\ \A s \in Run \ {r} : run'[s] = run[s]
         /\ run'[r].pc = pc /\ run'[r].signal = run[r].signal
  BY DEF AllRuns, IsRun, Goto

LEMMA Over ==
  ASSUME AllRuns, NEW r \in Run,
         run' = [run EXCEPT ![r] = Ended(@.number)]
  PROVE  /\ AllRuns'
         /\ \A s \in Run \ {r} : run'[s] = run[s]
         /\ run'[r].pc = "ended"
  BY DEF AllRuns, IsRun, Ended, NoRun

\* No run begins, no stream is opened, and no AbortController is replaced.
Quiet ==
  /\ AllRuns'
  /\ abort' = abort
  /\ aborted \subseteq aborted'
  /\ \A r \in Run : Began(r)' => Began(r)
  /\ \A r \in Run : run'[r].pc = "stream" =>
                      run[r].pc = "stream" /\ run'[r].signal = run[r].signal

LEMMA QuietStep == IInv /\ Quiet => IInv'
  BY DEF IInv, Quiet, OneAbortReachesAll

LEMMA AbortsGrow == aborted \subseteq Aborts
  BY DEF Aborts

\* The runs, the AbortController and the aborted runs are left alone.
LEMMA SameRuns ==
  ASSUME IInv, run' = run, abort' = abort, aborted \subseteq aborted'
  PROVE  Quiet
  BY DEF IInv, Quiet, AllRuns, IsRun, Began

LEMMA EndsQuietly ==
  ASSUME IInv, NEW r \in Run, run' = [run EXCEPT ![r] = Ended(@.number)],
         abort' = abort, aborted' = aborted
  PROVE  Quiet
<1>1. AllRuns BY DEF IInv
<1>2. /\ AllRuns'
      /\ \A s \in Run \ {r} : run'[s] = run[s]
      /\ run'[r].pc = "ended"
  BY <1>1, Over
<1> QED BY <1>2 DEF Quiet, Began

LEMMA MovesQuietly ==
  ASSUME IInv, NEW r \in Run, NEW pc, Goto(r, pc),
         pc \in {"asked", "tasks", "saved", "verify"},
         pc = "saved" => Began(r), abort' = abort, aborted' = aborted
  PROVE  Quiet
<1>1. AllRuns BY DEF IInv
<1>2. /\ AllRuns'
      /\ \A s \in Run \ {r} : run'[s] = run[s]
      /\ run'[r].pc = pc
  BY <1>1, MovesOn
<1> QED BY <1>2 DEF Quiet, Began

-----------------------------------------------------------------------------
LEMMA StartsInv ==
  ASSUME IInv, NEW r \in Run, Starts(r)
  PROVE  IInv'
<1>1. AllRuns BY DEF IInv
<1>2. /\ AllRuns'
      /\ \A s \in Run \ {r} : run'[s] = run[s]
      /\ run'[r].pc = "create"
  BY <1>1, MovesOn DEF Starts
<1>3. abort' = r /\ r # None
  BY RunsAssumption DEF Starts, Run, None
<1>4. aborted' = Aborts BY DEF Starts, AbortsLast
<1>5. OneAbortReachesAll'
  <2> SUFFICES ASSUME NEW s \in Run, run'[s].pc = "stream"
               PROVE  run'[s].signal \in aborted'
    BY DEF OneAbortReachesAll
  <2>1. s # r /\ run'[s] = run[s] /\ run[s].pc = "stream" BY <1>2
  <2>2. abort # None BY <2>1 DEF IInv, Began
  <2>3. run[s].signal \in aborted \cup {abort}
    BY <2>1 DEF IInv, OneAbortReachesAll
  <2> QED BY <2>1, <2>2, <2>3, <1>4 DEF Aborts
<1> QED BY <1>2, <1>3, <1>5 DEF IInv

LEMMA OpensStreamInv ==
  ASSUME IInv, NEW r \in Run, OpensStream(r)
  PROVE  IInv'
<1>1. AllRuns BY DEF IInv
<1>2. run' = [run EXCEPT ![r].pc = "stream", ![r].signal = abort]
  BY DEF OpensStream
<1>3. /\ AllRuns'
      /\ \A s \in Run \ {r} : run'[s] = run[s]
      /\ run'[r].pc = "stream" /\ run'[r].signal = abort
  BY <1>1, <1>2 DEF AllRuns, IsRun
<1>4. abort' = abort /\ aborted' = aborted /\ Began(r)
  BY DEF OpensStream, Began
<1> QED BY <1>3, <1>4 DEF IInv, OneAbortReachesAll, Began

LEMMA ReadsChunkQuiet ==
  ASSUME IInv, NEW r \in Run, ReadsChunk(r)
  PROVE  Quiet
<1>1. AllRuns BY DEF IInv
<1>2. PICK n, rest :
        run' = [run EXCEPT ![r].read = @ + n, ![r].buffer = rest]
  BY DEF ReadsChunk
<1>3. /\ AllRuns'
      /\ \A s \in Run \ {r} : run'[s] = run[s]
      /\ run'[r].pc = run[r].pc /\ run'[r].signal = run[r].signal
  BY <1>1, <1>2 DEF AllRuns, IsRun
<1>4. abort' = abort /\ aborted' = aborted BY DEF ReadsChunk
<1> QED BY <1>3, <1>4 DEF Quiet, Began

LEMMA SubmitQuiet ==
  ASSUME IInv, NEW t \in Turn, Submit(t)
  PROVE  Quiet
<1>1. AllRuns /\ t \in Run BY DEF IInv, Run
<1>2. run' = [run EXCEPT ![t].pc = "asked", ![t].number = nextTurn]
  BY DEF Submit
<1>3. /\ AllRuns'
      /\ \A s \in Run \ {t} : run'[s] = run[s]
      /\ run'[t].pc = "asked"
  BY <1>1, <1>2 DEF AllRuns, IsRun
<1>4. abort' = abort /\ aborted' = aborted BY DEF Submit
<1> QED BY <1>3, <1>4 DEF Quiet, Began

LEMMA ResolvesAffordancesQuiet ==
  ASSUME IInv, NEW t \in Turn, ResolvesAffordances(t)
  PROVE  Quiet
<1>1. AllRuns /\ t \in Run BY DEF IInv, Run
<1>2. abort' = abort /\ aborted' = aborted BY DEF ResolvesAffordances
<1>3. CASE Ends(t) BY <1>1, <1>2, <1>3, EndsQuietly DEF Ends
<1>4. ASSUME NEW target,
             run' = [run EXCEPT ![t].pc = "recorded", ![t].target = target]
      PROVE  Quiet
  <2>1. /\ AllRuns'
        /\ \A s \in Run \ {t} : run'[s] = run[s]
        /\ run'[t].pc = "recorded"
    BY <1>1, <1>4 DEF AllRuns, IsRun
  <2> QED BY <2>1, <1>2 DEF Quiet, Began
<1> QED BY <1>3, <1>4 DEF ResolvesAffordances

LEMMA createSessionQuiet ==
  ASSUME IInv, NEW r \in Run, createSession(r)
  PROVE  Quiet
  BY MovesQuietly DEF createSession, Began

LEMMA StreamEndsQuiet ==
  ASSUME IInv, NEW r \in Run, StreamEnds(r)
  PROVE  Quiet
<1>1. abort' = abort /\ aborted' = aborted BY DEF StreamEnds
<1>2. CASE Goto(r, "verify") BY <1>1, <1>2, MovesQuietly
<1>3. CASE Ends(r) BY <1>1, <1>3, EndsQuietly DEF Ends
<1> QED BY <1>2, <1>3 DEF StreamEnds

LEMMA FailsQuiet ==
  ASSUME IInv, NEW r \in Run, Fails(r)
  PROVE  Quiet
  BY EndsQuietly DEF Fails, Ends

LEMMA VerifiesTargetQuiet ==
  ASSUME IInv, NEW t \in Turn, VerifiesTarget(t)
  PROVE  Quiet
<1>1. t \in Run BY DEF Run
<1> QED BY <1>1, EndsQuietly DEF VerifiesTarget, Ends

LEMMA handleSessionMessageQuiet ==
  ASSUME IInv, handleSessionMessage
  PROVE  Quiet
<1> DEFINE message == Head(toHost)
<1>1. CASE TakesTurn(message.turn)
  <2>1. abort' = abort /\ aborted' = aborted BY <1>1 DEF TakesTurn
  <2>2. CASE message.turn \notin Run
    <3>1. run' = run BY <1>1, <2>2 DEF TakesTurn, Goto, IInv, AllRuns
    <3> QED BY <3>1, <2>1, SameRuns
  <2>3. CASE message.turn \in Run
    <3>1. CASE Goto(message.turn, "tasks")
      BY <3>1, <2>1, <2>3, MovesQuietly
    <3>2. CASE run' = [run EXCEPT ![message.turn] = Ended(@.number)]
      BY <3>2, <2>1, <2>3, EndsQuietly
    <3> QED BY <1>1, <3>1, <3>2 DEF TakesTurn
  <2> QED BY <2>2, <2>3
<1>2. CASE verifyChatTurn(message.turn)
  BY <1>2, SameRuns DEF verifyChatTurn
<1>3. CASE startNewChatSession
  BY <1>3, SameRuns, AbortsGrow DEF startNewChatSession
<1> QED BY <1>1, <1>2, <1>3 DEF handleSessionMessage

\* The steps that leave every run where it is.
Watching ==
  \/ \E t \in Turn : Approve(t) \/ ClicksVerify(t) \/ VerificationAnswered(t)
  \/ requestNewSession \/ ViewCloses \/ ViewReceives \/ TellsOfNewSession
  \/ Cancels \/ UNCHANGED vars

LEMMA WatchingQuiet ==
  ASSUME IInv, Watching
  PROVE  Quiet
<1>1. run' = run /\ abort' = abort /\ (aborted' = aborted \/ aborted' = Aborts)
  BY DEF Watching, Approve, ClicksVerify, VerificationAnswered,
         requestNewSession, ViewCloses, ViewReceives, TellsOfNewSession,
         Cancels, vars, host
<1> QED BY <1>1, AbortsGrow, SameRuns

-----------------------------------------------------------------------------
LEMMA RunsInv ==
  ASSUME IInv, NEW r \in Run, Runs(r)
  PROVE  IInv'
  BY StartsInv, createSessionQuiet, OpensStreamInv, ReadsChunkQuiet,
     StreamEndsQuiet, QuietStep
  DEF Runs

LEMMA InitInv == Init => IInv
  BY DEF Init, IInv, AllRuns, IsRun, Began, OneAbortReachesAll, NoRun

LEMMA NextInv ==
  ASSUME IInv, [Next]_vars
  PROVE  IInv'
<1>1. CASE Watching BY <1>1, WatchingQuiet, QuietStep
<1>2. CASE \E t \in Turn : Submit(t) BY <1>2, SubmitQuiet, QuietStep
<1>3. CASE handleSessionMessage BY <1>3, handleSessionMessageQuiet, QuietStep
<1>4. CASE \E t \in Turn : runChatTurn(t)
  <2>1. PICK t \in Turn : runChatTurn(t) BY <1>4
  <2>2. t \in Run BY DEF Run
  <2> QED BY <2>1, <2>2, RunsInv, ResolvesAffordancesQuiet,
             VerifiesTargetQuiet, QuietStep DEF runChatTurn
<1>5. CASE \E k \in Task : runTask(k)
  BY <1>5, RunsInv DEF runTask, Run
<1>6. CASE \E r \in Run : Fails(r) BY <1>6, FailsQuiet, QuietStep
<1> QED BY <1>1, <1>2, <1>3, <1>4, <1>5, <1>6 DEF Next, Watching

\* The one AbortController the host keeps reaches every open stream: a run
\* replaces it only after it aborted the controller before (extension.ts,
\* `abort?.abort(); abort = new AbortController()`), so that whatever controller
\* a stream was opened with is the current one or aborted.
THEOREM AbortReachesAll == Spec => []OneAbortReachesAll
<1>1. IInv => OneAbortReachesAll BY DEF IInv
<1>2. IInv /\ [Next]_vars => IInv' BY NextInv
<1> QED BY <1>1, <1>2, InitInv, PTL DEF Spec

-----------------------------------------------------------------------------
(* The evidence of a turn.                                                 *)

\* The first n events of a turn.
Events(t, n) == [i \in 1 .. n |-> <<t, i>>]

\* What there may be to show of a turn that had m events so far.
ViewsOf(t, m) ==
  {v \in [events : {Events(t, n) : n \in 0 .. m}, sealed : BOOLEAN,
          verify : {None, t}] :
     v.sealed => v.events = Events(t, Evidence)}

\* How many events the host has of a turn.
Known(t) == Len(record[t].view.events)

\* What the webview may be told, and what the host may be asked.
Showings == {"chatTurnEvent", "chatTurnVerified", "chatTurnSealed"}
Notices == {"chatError", "error", "chatSessionReset", "reset", "sealed"}
Tellings ==
  [kind : Notices, turn : Turn \cup {None}, view : {Blank}]
  \cup UNION {[kind : Showings, turn : {t}, view : ViewsOf(t, Known(t))] :
                t \in Turn}
Asks ==
  [kind : {"sendChatTurn", "verifyChatTurn"}, turn : Turn]
  \cup [kind : {"newSession"}, turn : {None}]

\* The frames that a run has read in full, and the rest.
Whole(n) == n \div 2
Partly(r, n) == IF n % 2 = 1 THEN <<Wire(r)[n]>> ELSE <<>>

\* A turn's evidence when so many of its frames were read.
Upto(frames) == IF frames = Seal THEN Evidence ELSE frames

Streams ==
  \A r \in Run :
    /\ run[r].read \in 0 .. 2 * Seal
    /\ run[r].buffer = Partly(r, run[r].read)

Targets ==
  /\ chatTurns \subseteq Turn
  /\ \A r \in Run : /\ run[r].target \in Turn \cup {None}
                    /\ run[r].pc = "verify" => run[r].target \in Turn

\* Until a turn ends, the host has the evidence that it read.
Records ==
  /\ record = [t \in Turn |-> record[t]]
  /\ \A t \in Turn :
       /\ record[t] \in [session : {None, t}, view : ViewsOf(t, Evidence)]
       /\ run[t].pc # "ended" =>
            /\ record[t].view.events = Events(t, Upto(Whole(run[t].read)))
            /\ record[t].view.sealed <=> Whole(run[t].read) = Seal

Shown ==
  /\ toView \in Seq(Tellings)
  /\ shown = [t \in Turn |-> shown[t]]
  /\ \A t \in Turn : shown[t] \in ViewsOf(t, Known(t))

\* A turn is on a card, or on its way to the host, once and before it runs.
Sends(i, t) == toHost[i].kind = "sendChatTurn" /\ toHost[i].turn = t
Sent ==
  /\ toHost \in Seq(Asks)
  /\ \A t \in cards \cap Turn : run[t].pc = "asked"
  /\ \A i \in 1 .. Len(toHost) : \A t \in Turn : Sends(i, t) =>
       /\ run[t].pc = "asked"
       /\ t \notin cards
       /\ \A j \in 1 .. Len(toHost) : Sends(j, t) => i = j

EInv ==
  /\ AllRuns
  /\ Streams
  /\ Targets
  /\ Records
  /\ Shown
  /\ Sent

-----------------------------------------------------------------------------
(* The stream: what a chunk of it brings.                                  *)

LEMMA LeastNumber ==
  ASSUME NEW T, T \subseteq Nat, T # {}
  PROVE  \E n \in T : \A m \in T : n <= m
<1> DEFINE R == OpToRel(<, Nat)
<1>1. IsWellFoundedOn(R, Nat)
  BY NatLessThanWellFounded
<1>2. ASSUME NEW x \in Nat, NEW y \in Nat, x < y
      PROVE  <<x, y>> \in R
  BY <1>2 DEF OpToRel
<1> HIDE DEF R
<1>3. PICK n \in T : \A m \in T : ~ (<<m, n>> \in R)
  BY <1>1, WFMin
<1>4. \A m \in T : ~ (m < n)
  BY <1>2, <1>3
<1> QED
  BY <1>4

LEMMA Halves ==
  ASSUME NEW n \in Nat
  PROVE  /\ n \div 2 \in Nat /\ n % 2 \in {0, 1}
         /\ n = 2 * (n \div 2) + (n % 2)
<1>1. n % 2 \in {0, 1}
  OBVIOUS
<1>2. n \div 2 \in Nat
  OBVIOUS
<1>3. n = 2 * (n \div 2) + (n % 2)
  OBVIOUS
<1> QED
  BY <1>1, <1>2, <1>3

\* The frames of r between two places, and the characters of r from the frame
\* after p on.
FramesOf(r, p, n) == [k \in 1 .. n |-> <<r, p + k>>]
CharsOf(r, p, n) ==
  [i \in 1 .. n |-> <<r, IF i % 2 = 1 THEN p + i \div 2 + 1 ELSE 0>>]

LEMMA NextFrame ==
  ASSUME NEW r, NEW p \in Nat, NEW n \in Nat
  PROVE  FramesOf(r, p, n) \o <<<<r, p + n + 1>>>> = FramesOf(r, p, n + 1)
<1>1. PICK s : s = FramesOf(r, p, n)
  OBVIOUS
<1>2. PICK e : e = <<r, p + n + 1>>
  OBVIOUS
<1> DEFINE S == {<<r, p + k>> : k \in 1 .. n + 1}
<1>3. s \in Seq(S) /\ Len(s) = n /\ \A k \in 1 .. n : s[k] = <<r, p + k>>
  <2>1. \A k \in 1 .. n : <<r, p + k>> \in S
    OBVIOUS
  <2> HIDE DEF S
  <2>2. s = [k \in 1 .. n |-> <<r, p + k>>]
    BY <1>1 DEF FramesOf
  <2>3. s \in [1 .. n -> S]
    BY <2>1, <2>2
  <2>4. s \in Seq(S)
    BY <2>3
  <2>5. Len(s) = n
    BY <2>2
  <2>6. \A k \in 1 .. n : s[k] = <<r, p + k>>
    BY <2>2
  <2> QED
    BY <2>4, <2>5, <2>6
<1>4. e \in S
  <2>1. n + 1 \in 1 .. n + 1 /\ p + (n + 1) = p + n + 1
    OBVIOUS
  <2> QED
    BY <1>2, <2>1
<1>5. PICK u : u = FramesOf(r, p, n + 1)
  OBVIOUS
<1>6. /\ u \in Seq(S) /\ Len(u) = n + 1
      /\ \A k \in 1 .. n + 1 : u[k] = <<r, p + k>>
  <2>1. \A k \in 1 .. n + 1 : <<r, p + k>> \in S
    OBVIOUS
  <2> HIDE DEF S
  <2>2. u = [k \in 1 .. n + 1 |-> <<r, p + k>>]
    BY <1>5 DEF FramesOf
  <2>3. u \in [1 .. n + 1 -> S]
    BY <2>1, <2>2
  <2>4. u \in Seq(S)
    BY <2>3
  <2>5. Len(u) = n + 1
    BY <2>2
  <2>6. \A k \in 1 .. n + 1 : u[k] = <<r, p + k>>
    BY <2>2
  <2> QED
    BY <2>4, <2>5, <2>6
<1> HIDE DEF S
<1>7. PICK w : w = s \o <<e>>
  OBVIOUS
<1>8. /\ w \in Seq(S) /\ Len(w) = n + 1
      /\ \A k \in 1 .. n : w[k] = s[k]
      /\ w[n + 1] = e
  BY <1>3, <1>4, <1>7
<1>9. \A k \in 1 .. n + 1 : w[k] = u[k]
  <2> TAKE k \in 1 .. n + 1
  <2>1. CASE k \in 1 .. n
    BY <1>3, <1>6, <1>8, <2>1
  <2>2. CASE k = n + 1
    <3>1. p + (n + 1) = p + n + 1
      OBVIOUS
    <3> QED
      BY <1>2, <1>6, <1>8, <2>2, <3>1
  <2> QED
    BY <2>1, <2>2
<1>10. w = u
  BY <1>6, <1>8, <1>9, SeqEqual
<1> QED
  BY <1>1, <1>2, <1>5, <1>7, <1>10

LEMMA OnlyOne ==
  ASSUME NEW e
  PROVE  DataLine(<<e>>) = <<e>>
  BY DEF DataLine

\* What drainSSE has of the first i characters.
DrainStep(b, f, i) ==
  IF i = 0 THEN [frames |-> <<>>, rest |-> <<>>]
  ELSE IF EndsFrame(b[i])
  THEN [frames |-> f[i - 1].frames \o DataLine(f[i - 1].rest),
        rest |-> <<>>]
  ELSE [frames |-> f[i - 1].frames, rest |-> Append(f[i - 1].rest, b[i])]
DrainedTo(r, p, i) ==
  [frames |-> FramesOf(r, p, i \div 2),
   rest |-> IF i % 2 = 1 THEN <<<<r, p + i \div 2 + 1>>>> ELSE <<>>]

LEMMA DrainedStep ==
  ASSUME NEW r, NEW p \in Nat, NEW n \in Nat, NEW b, b = CharsOf(r, p, n),
         NEW f, NEW i \in 1 .. n, f[i - 1] = DrainedTo(r, p, i - 1)
  PROVE  DrainStep(b, f, i) = DrainedTo(r, p, i)
<1>1. PICK h : h = i \div 2
  OBVIOUS
<1>2. h \in Nat /\ b[i] = <<r, IF i % 2 = 1 THEN p + h + 1 ELSE 0>>
  BY <1>1, Halves DEF CharsOf
<1>3. CASE i % 2 = 1
  <2>1. (i - 1) \div 2 = h /\ (i - 1) % 2 = 0
    BY <1>1, <1>3
  <2>2. f[i - 1] = [frames |-> FramesOf(r, p, h), rest |-> <<>>]
    BY <2>1 DEF DrainedTo
  <2>3. b[i] = <<r, p + h + 1>> /\ ~EndsFrame(b[i])
    BY <1>2, <1>3 DEF EndsFrame
  <2>4. DrainStep(b, f, i) = [frames |-> f[i - 1].frames,
                              rest |-> Append(f[i - 1].rest, b[i])]
    BY <2>3 DEF DrainStep
  <2>5. Append(<<>>, b[i]) = <<b[i]>>
    OBVIOUS
  <2> QED
    BY <1>1, <1>3, <2>2, <2>3, <2>4, <2>5 DEF DrainedTo
<1>4. CASE i % 2 = 0
  <2>1. (i - 1) \div 2 = h - 1 /\ (i - 1) % 2 = 1 /\ h - 1 \in Nat
    BY <1>1, <1>4
  <2>2. PICK e : e = <<r, p + (h - 1) + 1>>
    OBVIOUS
  <2>3. f[i - 1] = [frames |-> FramesOf(r, p, h - 1), rest |-> <<e>>]
    BY <2>1, <2>2 DEF DrainedTo
  <2>4. EndsFrame(b[i])
    BY <1>2, <1>4 DEF EndsFrame
  <2>5. DrainStep(b, f, i)
          = [frames |-> f[i - 1].frames \o DataLine(f[i - 1].rest),
             rest |-> <<>>]
    BY <2>4 DEF DrainStep
  <2>6. DataLine(<<e>>) = <<e>>
    BY OnlyOne
  <2>7. FramesOf(r, p, h - 1) \o <<e>> = FramesOf(r, p, h)
    <3>1. h - 1 + 1 = h
      BY <1>2
    <3> QED
      BY <2>1, <2>2, <3>1, NextFrame
  <2>8. DrainStep(b, f, i) = [frames |-> FramesOf(r, p, h), rest |-> <<>>]
    <3>1. f[i - 1].frames = FramesOf(r, p, h - 1) /\ f[i - 1].rest = <<e>>
      BY <2>3
    <3>2. f[i - 1].frames \o DataLine(f[i - 1].rest) = FramesOf(r, p, h)
      BY <2>6, <2>7, <3>1
    <3> QED
      BY <2>5, <3>2
  <2>9. DrainedTo(r, p, i) = [frames |-> FramesOf(r, p, h), rest |-> <<>>]
    BY <1>1, <1>4 DEF DrainedTo
  <2> QED
    BY <2>8, <2>9
<1> QED
  BY <1>3, <1>4, Halves

\* However a chunk is cut: the frames that end in it, and the rest.
LEMMA DrainedFrames ==
  ASSUME NEW r, NEW p \in Nat, NEW n \in Nat, NEW b, b = CharsOf(r, p, n)
  PROVE  Drained(b) = DrainedTo(r, p, n)
<1>1. Len(b) = n
  BY DEF CharsOf
<1> DEFINE g == [i \in 0 .. n |-> DrainedTo(r, p, i)]
<1>2. DrainStep(b, g, 0) = DrainedTo(r, p, 0)
  <2>1. FramesOf(r, p, 0 \div 2) = <<>> /\ 0 % 2 = 0
    BY DEF FramesOf
  <2> QED
    BY <2>1 DEF DrainStep, DrainedTo
<1>3. \A i \in 0 .. n : DrainStep(b, g, i) = DrainedTo(r, p, i)
  <2> TAKE i \in 0 .. n
  <2>1. CASE i = 0
    BY <1>2, <2>1
  <2>2. CASE i # 0
    <3>1. i \in 1 .. n /\ i - 1 \in 0 .. n
      BY <2>2
    <3>2. g[i - 1] = DrainedTo(r, p, i - 1)
      BY <3>1
    <3> HIDE DEF g
    <3> QED
      BY <3>1, <3>2, DrainedStep
  <2> QED
    BY <2>1, <2>2
<1>4. g = [i \in 0 .. n |-> DrainStep(b, g, i)]
  BY <1>3
<1>5. ASSUME NEW f, f = [i \in 0 .. n |-> DrainStep(b, f, i)]
      PROVE  f[n] = DrainedTo(r, p, n)
  <2> DEFINE Bad == {i \in 0 .. n : f[i] # DrainedTo(r, p, i)}
  <2>1. CASE Bad = {}
    BY <2>1
  <2>2. CASE Bad # {}
    <3>1. PICK i \in Bad : \A m \in Bad : i <= m
      <4>1. Bad \subseteq Nat
        OBVIOUS
      <4> HIDE DEF Bad
      <4> QED
        BY <2>2, <4>1, LeastNumber
    <3>2. f[i] = DrainStep(b, f, i)
      BY <1>5
    <3>3. CASE i = 0
      <4>1. DrainStep(b, f, 0) = DrainStep(b, g, 0)
        BY DEF DrainStep
      <4> QED
        BY <1>2, <3>2, <3>3, <4>1
    <3>4. CASE i # 0
      <4>1. i \in 1 .. n /\ i - 1 \in 0 .. n /\ i - 1 \notin Bad
        BY <3>1, <3>4
      <4>2. f[i - 1] = DrainedTo(r, p, i - 1)
        BY <4>1
      <4>3. DrainStep(b, f, i) = DrainedTo(r, p, i)
        BY <4>1, <4>2, DrainedStep
      <4> QED
        BY <3>2, <4>3
    <3> QED
      BY <3>3, <3>4
  <2> QED
    BY <2>1, <2>2
<1>6. PICK f : /\ f = CHOOSE x : x = [i \in 0 .. Len(b) |-> DrainStep(b, x, i)]
               /\ Drained(b) = f[Len(b)]
  BY Zenon DEF Drained, DrainStep
<1>7. f = [i \in 0 .. n |-> DrainStep(b, f, i)]
  <2> HIDE DEF g
  <2>1. \E x : x = [i \in 0 .. Len(b) |-> DrainStep(b, x, i)]
    BY <1>1, <1>4
  <2> QED
    BY <1>1, <1>6, <2>1, Zenon
<1> QED
  BY <1>1, <1>5, <1>6, <1>7

-----------------------------------------------------------------------------
(* What there is to show of a turn.                                        *)

LEMMA NextEvent ==
  ASSUME NEW t, NEW n \in Nat
  PROVE  Append(Events(t, n), <<t, n + 1>>) = Events(t, n + 1)
<1>1. PICK s : s = Events(t, n)
  OBVIOUS
<1>2. PICK e : e = <<t, n + 1>>
  OBVIOUS
<1>3. PICK u : u = Events(t, n + 1)
  OBVIOUS
<1> DEFINE S == {<<t, k>> : k \in 1 .. n + 1}
<1>4. \A k \in 1 .. n + 1 : <<t, k>> \in S
  OBVIOUS
<1>5. n + 1 \in 1 .. n + 1
  OBVIOUS
<1>6. e \in S
  BY <1>2, <1>4, <1>5
<1> HIDE DEF S
<1>7. s \in Seq(S) /\ Len(s) = n /\ \A k \in 1 .. n : s[k] = <<t, k>>
  <2>1. s = [k \in 1 .. n |-> <<t, k>>]
    BY <1>1 DEF Events
  <2>2. s \in [1 .. n -> S]
    BY <1>4, <2>1
  <2> QED
    BY <2>1, <2>2
<1>8. /\ u \in Seq(S) /\ Len(u) = n + 1
      /\ \A k \in 1 .. n + 1 : u[k] = <<t, k>>
  <2>1. u = [k \in 1 .. n + 1 |-> <<t, k>>]
    BY <1>3 DEF Events
  <2>2. u \in [1 .. n + 1 -> S]
    BY <1>4, <2>1
  <2> QED
    BY <2>1, <2>2
<1>9. PICK w : w = Append(s, e)
  OBVIOUS
<1>10. /\ w \in Seq(S) /\ Len(w) = n + 1
       /\ \A k \in 1 .. n : w[k] = s[k]
       /\ w[n + 1] = e
  BY <1>6, <1>7, <1>9
<1>11. \A k \in 1 .. n + 1 : w[k] = u[k]
  <2> TAKE k \in 1 .. n + 1
  <2>1. CASE k \in 1 .. n
    BY <1>7, <1>8, <1>10, <2>1
  <2>2. CASE k = n + 1
    BY <1>2, <1>8, <1>10, <2>2
  <2> QED
    BY <2>1, <2>2
<1>12. w = u
  BY <1>8, <1>10, <1>11, SeqEqual
<1> QED
  BY <1>1, <1>2, <1>3, <1>9, <1>12

\* What is shown after a frame.
Seen(t, v, n) ==
  [events |-> Events(t, Upto(n)), sealed |-> n = Seal,
   verify |-> IF n = Seal THEN t ELSE v.verify]
IsView(v) == v = [f \in {"events", "sealed", "verify"} |-> v[f]]

LEMMA SameView ==
  ASSUME NEW v, NEW w, IsView(v), IsView(w), v.events = w.events,
         v.sealed = w.sealed, v.verify = w.verify
  PROVE  v = w
  BY DEF IsView

LEMMA RecordedFrame ==
  ASSUME NEW t, NEW v, IsView(v), NEW p \in Nat, p < Seal,
         v.events = Events(t, p), v.sealed = FALSE
  PROVE  Recorded(v, <<t, p + 1>>) = Seen(t, v, p + 1)
<1>1. Evidence \in Nat
  BY BoundsAssumption
<1>2. CASE p + 1 = Seal
  <2>1. Upto(p + 1) = p
    BY <1>1, <1>2 DEF Upto, Seal
  <2>2. Recorded(v, <<t, p + 1>>) = [v EXCEPT !.sealed = TRUE, !.verify = t]
    BY <1>2 DEF Recorded
  <2>3. [v EXCEPT !.sealed = TRUE, !.verify = t]
          = [events |-> Events(t, p), sealed |-> TRUE, verify |-> t]
    <3>1. PICK events : events = Events(t, p)
      OBVIOUS
    <3>2. PICK w : w = [v EXCEPT !.sealed = TRUE, !.verify = t]
      OBVIOUS
    <3>3. /\ IsView(w) /\ w.events = events /\ w.sealed = TRUE
          /\ w.verify = t
      BY <3>1, <3>2 DEF IsView
    <3>4. PICK x : x = [events |-> events, sealed |-> TRUE, verify |-> t]
      OBVIOUS
    <3>5. /\ IsView(x) /\ x.events = events /\ x.sealed = TRUE
          /\ x.verify = t
      BY <3>4 DEF IsView
    <3> QED
      BY <3>1, <3>2, <3>3, <3>4, <3>5, SameView
  <2>4. (p + 1 = Seal) = TRUE
    BY <1>2
  <2> QED
    BY <1>2, <2>1, <2>2, <2>3, <2>4 DEF Seen
<1>3. CASE p + 1 # Seal
  <2>1. Upto(p + 1) = p + 1
    BY <1>3 DEF Upto
  <2>2. PICK events : events = Events(t, p + 1)
    OBVIOUS
  <2>3. Recorded(v, <<t, p + 1>>) = [v EXCEPT !.events = events]
    BY <1>3, <2>2, NextEvent DEF Recorded
  <2>4. [v EXCEPT !.events = events]
          = [events |-> events, sealed |-> FALSE, verify |-> v.verify]
    <3>1. PICK w : w = [v EXCEPT !.events = events]
      OBVIOUS
    <3>2. /\ IsView(w) /\ w.events = events /\ w.sealed = FALSE
          /\ w.verify = v.verify
      BY <3>1 DEF IsView
    <3>3. PICK x : x = [events |-> events, sealed |-> FALSE,
                        verify |-> v.verify]
      OBVIOUS
    <3>4. /\ IsView(x) /\ x.events = events /\ x.sealed = FALSE
          /\ x.verify = v.verify
      BY <3>3 DEF IsView
    <3> QED
      BY <3>1, <3>2, <3>3, <3>4, SameView
  <2>5. (p + 1 = Seal) = FALSE
    BY <1>3
  <2> QED
    BY <1>3, <2>1, <2>2, <2>3, <2>4, <2>5 DEF Seen
<1> QED
  BY <1>2, <1>3

\* What is shown after i of the frames.
AfterStep(v, frames, f, i) ==
  IF i = 0 THEN v ELSE Recorded(f[i - 1], frames[i])

Seens(t, v, p, n) == [i \in 1 .. n |-> Seen(t, v, p + i)]

LEMMA AfterFrames ==
  ASSUME NEW t, NEW v, IsView(v), NEW p \in Nat, NEW n \in Nat, n > 0,
         p + n <= Seal, v.events = Events(t, p), v.sealed = FALSE,
         NEW frames, frames = FramesOf(t, p, n)
  PROVE  After(v, frames) = Seens(t, v, p, n)
<1>1. Len(frames) = n /\ \A i \in 1 .. n : frames[i] = <<t, p + i>>
  BY DEF FramesOf
<1>2. Evidence \in Nat /\ Seal \in Nat
  BY BoundsAssumption DEF Seal
<1> DEFINE To(i) == IF i = 0 THEN v ELSE Seen(t, v, p + i)
           g == [i \in 0 .. n |-> To(i)]
<1>3. ASSUME NEW f, NEW i \in 1 .. n, f[i - 1] = To(i - 1)
      PROVE  AfterStep(v, frames, f, i) = To(i)
  <2>1. PICK x : x = f[i - 1]
    OBVIOUS
  <2>2. PICK q : q = p + (i - 1)
    OBVIOUS
  <2>3. q \in Nat /\ q < Seal /\ q + 1 = p + i
    BY <1>2, <2>2
  <2>4. IsView(x) /\ x.events = Events(t, q) /\ x.sealed = FALSE
        /\ x.verify = v.verify
    <3>1. CASE i = 1
      BY <1>3, <2>1, <2>2, <3>1
    <3>2. CASE i # 1
      <4>1. x = Seen(t, v, q)
        BY <1>3, <2>1, <2>2, <3>2
      <4>2. Upto(q) = q /\ (q = Seal) = FALSE
        BY <1>2, <2>3 DEF Upto
      <4> QED
        BY <4>1, <4>2 DEF Seen, IsView
    <3> QED
      BY <3>1, <3>2
  <2>5. Recorded(x, <<t, q + 1>>) = Seen(t, x, q + 1)
    BY <2>3, <2>4, RecordedFrame
  <2>6. Seen(t, x, q + 1) = Seen(t, v, q + 1)
    BY <2>4 DEF Seen
  <2> QED
    BY <1>1, <2>1, <2>3, <2>5, <2>6 DEF AfterStep
<1>4. \A i \in 0 .. n : AfterStep(v, frames, g, i) = To(i)
  <2> TAKE i \in 0 .. n
  <2>1. CASE i = 0
    BY <2>1 DEF AfterStep
  <2>2. CASE i # 0
    <3>1. i \in 1 .. n /\ g[i - 1] = To(i - 1)
      BY <2>2
    <3> HIDE DEF g, To
    <3> QED
      BY <1>3, <3>1
  <2> QED
    BY <2>1, <2>2
<1>5. g = [i \in 0 .. n |-> AfterStep(v, frames, g, i)]
  BY <1>4
<1>6. ASSUME NEW f, f = [i \in 0 .. n |-> AfterStep(v, frames, f, i)]
      PROVE  \A i \in 0 .. n : f[i] = To(i)
  <2> DEFINE Bad == {i \in 0 .. n : f[i] # To(i)}
  <2>1. SUFFICES ASSUME Bad # {}
                 PROVE  FALSE
    OBVIOUS
  <2>2. PICK i \in Bad : \A m \in Bad : i <= m
    <3>1. Bad \subseteq Nat
      OBVIOUS
    <3> HIDE DEF Bad
    <3> QED
      BY <2>1, <3>1, LeastNumber
  <2>3. f[i] = AfterStep(v, frames, f, i)
    BY <1>6
  <2>4. CASE i = 0
    BY <2>2, <2>3, <2>4 DEF AfterStep
  <2>5. CASE i # 0
    <3>1. i \in 1 .. n /\ i - 1 \in 0 .. n /\ i - 1 \notin Bad
      BY <2>2, <2>5
    <3>2. f[i - 1] = To(i - 1)
      BY <3>1
    <3> HIDE DEF To
    <3> QED
      BY <1>3, <2>2, <2>3, <3>1, <3>2
  <2> QED
    BY <2>4, <2>5
<1>7. PICK f :
        /\ f = CHOOSE x :
                 x = [i \in 0 .. Len(frames) |-> AfterStep(v, frames, x, i)]
        /\ After(v, frames) = [i \in 1 .. Len(frames) |-> f[i]]
  <2>1. \E f : f = CHOOSE x :
                 x = [i \in 0 .. Len(frames) |-> AfterStep(v, frames, x, i)]
    OBVIOUS
  <2>2. After(v, frames)
          = LET upTo == CHOOSE x :
                  x = [i \in 0 .. Len(frames) |-> AfterStep(v, frames, x, i)]
            IN [i \in 1 .. Len(frames) |-> upTo[i]]
    BY DEF After, AfterStep
  <2> QED
    BY <2>1, <2>2, Zenon
<1>8. f = [i \in 0 .. n |-> AfterStep(v, frames, f, i)]
  <2> HIDE DEF g
  <2>1. \E x : x = [i \in 0 .. Len(frames) |-> AfterStep(v, frames, x, i)]
    BY <1>1, <1>5
  <2> QED
    BY <1>1, <1>7, <2>1, Zenon
<1>9. \A i \in 1 .. n : f[i] = Seen(t, v, p + i)
  BY <1>6, <1>8
<1> QED
  BY <1>1, <1>7, <1>9 DEF Seens

-----------------------------------------------------------------------------
(* Views and messages.                                                     *)

LEMMA EventsLength ==
  ASSUME NEW t, NEW n \in Nat
  PROVE  Len(Events(t, n)) = n
  BY DEF Events

LEMMA ViewFields ==
  ASSUME NEW t, NEW m \in Nat, NEW v, v \in ViewsOf(t, m)
  PROVE  /\ IsView(v)
         /\ \E n \in 0 .. m : v.events = Events(t, n)
         /\ v.sealed \in BOOLEAN /\ v.verify \in {None, t}
         /\ v.sealed => v.events = Events(t, Evidence)
<1>1. /\ v \in [events : {Events(t, n) : n \in 0 .. m}, sealed : BOOLEAN,
                verify : {None, t}]
      /\ v.sealed => v.events = Events(t, Evidence)
  BY DEF ViewsOf
<1>2. IsView(v)
  BY <1>1 DEF IsView
<1> QED
  BY <1>1, <1>2

LEMMA ViewMade ==
  ASSUME NEW t, NEW m \in Nat, NEW v, IsView(v),
         NEW n \in 0 .. m, v.events = Events(t, n),
         v.sealed \in BOOLEAN, v.verify \in {None, t},
         v.sealed => v.events = Events(t, Evidence)
  PROVE  v \in ViewsOf(t, m)
<1> DEFINE E == {Events(t, k) : k \in 0 .. m}
<1>1. v.events \in E
  OBVIOUS
<1> HIDE DEF E
<1>2. v \in [events : E, sealed : BOOLEAN, verify : {None, t}]
  BY <1>1 DEF IsView
<1> QED
  BY <1>2 DEF ViewsOf, E

LEMMA ViewsGrow ==
  ASSUME NEW t, NEW m \in Nat, NEW k \in Nat, m <= k
  PROVE  ViewsOf(t, m) \subseteq ViewsOf(t, k)
<1> SUFFICES ASSUME NEW v \in ViewsOf(t, m)
             PROVE  v \in ViewsOf(t, k)
  OBVIOUS
<1>1. PICK n \in 0 .. m : v.events = Events(t, n)
  BY ViewFields
<1>2. n \in 0 .. k
  BY <1>1
<1> QED
  BY <1>1, <1>2, ViewFields, ViewMade

LEMMA BlankView ==
  ASSUME NEW t, NEW m \in Nat
  PROVE  Blank \in ViewsOf(t, m)
<1>1. PICK b : b = Blank
  OBVIOUS
<1>2. /\ IsView(b) /\ b.events = <<>> /\ b.sealed = FALSE /\ b.verify = None
  BY <1>1 DEF Blank, IsView
<1>3. <<>> = Events(t, 0)
  BY DEF Events
<1>4. 0 \in 0 .. m
  OBVIOUS
<1> QED
  BY <1>1, <1>2, <1>3, <1>4, ViewMade

LEMMA EvidenceIsNat == Evidence \in Nat /\ Evidence > 0 /\ Seal \in Nat
  BY BoundsAssumption DEF Seal

LEMMA RecordFields ==
  ASSUME Records, NEW t \in Turn
  PROVE  /\ record[t] = [session |-> record[t].session, view |-> record[t].view]
         /\ record[t].session \in {None, t}
         /\ record[t].view \in ViewsOf(t, Evidence)
  BY DEF Records

LEMMA LengthOf ==
  ASSUME NEW t, NEW v, v \in ViewsOf(t, Evidence)
  PROVE  Len(v.events) \in 0 .. Evidence /\ v.events = Events(t, Len(v.events))
<1>1. PICK n \in 0 .. Evidence : v.events = Events(t, n)
  BY ViewFields, EvidenceIsNat
<1>2. n \in Nat
  BY <1>1
<1> QED
  BY <1>1, <1>2, EventsLength

LEMMA KnownOf ==
  ASSUME Records, NEW t \in Turn
  PROVE  /\ Known(t) \in 0 .. Evidence
         /\ record[t].view.events = Events(t, Known(t))
  BY RecordFields, LengthOf DEF Known

LEMMA KnownLater ==
  ASSUME Records', NEW t \in Turn
  PROVE  Known(t)' \in 0 .. Evidence
<1>1. record'[t].view \in ViewsOf(t, Evidence)
  BY DEF Records
<1> QED
  BY <1>1, LengthOf DEF Known

LEMMA SeqOfMore ==
  ASSUME NEW A, NEW B, A \subseteq B, NEW s \in Seq(A)
  PROVE  s \in Seq(B)
<1>1. s \in [1 .. Len(s) -> A] /\ Len(s) \in Nat
  OBVIOUS
<1>2. s \in [1 .. Len(s) -> B]
  BY <1>1
<1> QED
  BY <1>1, <1>2

\* The host has no fewer events of any turn.
KnowsMore == \A t \in Turn : Known(t) <= Known(t)'

LEMMA TellingsGrow ==
  ASSUME Records, Records', KnowsMore
  PROVE  /\ Tellings \subseteq Tellings'
         /\ \A t \in Turn : ViewsOf(t, Known(t)) \subseteq ViewsOf(t, Known(t)')
<1>1. \A t \in Turn : ViewsOf(t, Known(t)) \subseteq ViewsOf(t, Known(t)')
  <2> TAKE t \in Turn
  <2>1. Known(t) \in 0 .. Evidence
    BY KnownOf
  <2>2. PICK k : k = Known(t)'
    OBVIOUS
  <2>3. k \in 0 .. Evidence
    BY <2>2, KnownLater
  <2>4. Known(t) <= k
    BY <2>2 DEF KnowsMore
  <2>5. ViewsOf(t, Known(t)) \subseteq ViewsOf(t, k)
    BY <2>1, <2>3, <2>4, ViewsGrow, EvidenceIsNat
  <2> QED
    BY <2>2, <2>5
<1>2. ASSUME NEW m \in Tellings
      PROVE  m \in Tellings'
  <2>1. CASE m \in [kind : Notices, turn : Turn \cup {None}, view : {Blank}]
    BY <2>1 DEF Tellings
  <2>2. CASE \E t \in Turn :
          m \in [kind : Showings, turn : {t}, view : ViewsOf(t, Known(t))]
    <3>1. PICK t \in Turn :
            m \in [kind : Showings, turn : {t}, view : ViewsOf(t, Known(t))]
      BY <2>2
    <3>2. m \in [kind : Showings, turn : {t}, view : ViewsOf(t, Known(t)')]
      BY <1>1, <3>1
    <3> QED
      BY <3>2 DEF Tellings
  <2> QED
    BY <2>1, <2>2 DEF Tellings
<1> QED
  BY <1>1, <1>2

LEMMA ShownStays ==
  ASSUME EInv, Records', KnowsMore, shown' = shown,
         toView' \in Seq(Tellings')
  PROVE  Shown'
<1>1. Records
  BY DEF EInv
<1>2. \A t \in Turn : ViewsOf(t, Known(t)) \subseteq ViewsOf(t, Known(t)')
  BY <1>1, TellingsGrow
<1>3. \A t \in Turn : shown'[t] \in ViewsOf(t, Known(t)')
  BY <1>2 DEF EInv, Shown
<1>4. shown' = [t \in Turn |-> shown'[t]]
  BY DEF EInv, Shown
<1> QED
  BY <1>3, <1>4 DEF Shown

\* What is posted may be told.
LEMMA Posted ==
  ASSUME EInv, Records', KnowsMore, NEW s \in Seq(Tellings'),
         \/ toView' = toView \o s
         \/ toView' = toView
  PROVE  toView' \in Seq(Tellings')
<1>1. PICK T : T = Tellings'
  OBVIOUS
<1>2. Tellings \subseteq T /\ toView \in Seq(Tellings)
  BY <1>1, TellingsGrow DEF EInv, Shown
<1>3. toView \in Seq(T) /\ s \in Seq(T)
  BY <1>1, <1>2, SeqOfMore
<1>4. toView \o s \in Seq(T)
  BY <1>3, ConcatProperties
<1> QED
  BY <1>1, <1>3, <1>4

LEMMA Notice ==
  ASSUME NEW kind \in Notices, NEW t \in Turn \cup {None}
  PROVE  <<Message(kind, t)>> \in Seq(Tellings)
<1>1. Message(kind, t) \in [kind : Notices, turn : Turn \cup {None},
                            view : {Blank}]
  BY DEF Message
<1>2. Message(kind, t) \in Tellings
  BY <1>1 DEF Tellings
<1> QED
  BY <1>2

LEMMA NoticeLater ==
  ASSUME NEW kind \in Notices, NEW t \in Turn \cup {None}
  PROVE  <<Message(kind, t)>> \in Seq(Tellings')
<1>1. Message(kind, t) \in [kind : Notices, turn : Turn \cup {None},
                            view : {Blank}]
  BY DEF Message
<1>2. Message(kind, t) \in Tellings'
  BY <1>1 DEF Tellings
<1> QED
  BY <1>2

LEMMA ShowingLater ==
  ASSUME NEW kind \in Showings, NEW t \in Turn, NEW v,
         v \in ViewsOf(t, Known(t)')
  PROVE  Showing(kind, t, v) \in Tellings'
<1>1. Showing(kind, t, v) \in [kind : Showings, turn : {t},
                               view : ViewsOf(t, Known(t)')]
  BY DEF Showing
<1> QED
  BY <1>1 DEF Tellings

-----------------------------------------------------------------------------
(* What the steps change.                                                  *)

\* The host's evidence is left alone.
SameEvidence ==
  /\ record' = [t \in Turn |-> record'[t]]
  /\ \A t \in Turn :
       /\ record'[t] \in [session : {None, t}, view : ViewsOf(t, Evidence)]
       /\ record'[t].view.events = record[t].view.events
       /\ record'[t].view.sealed = record[t].view.sealed

LEMMA SameRecord ==
  ASSUME EInv, record' = record
  PROVE  SameEvidence
  BY DEF EInv, Records, SameEvidence

LEMMA SameKnown ==
  ASSUME EInv, SameEvidence
  PROVE  KnowsMore /\ \A t \in Turn : Known(t)' = Known(t)
<1>1. \A t \in Turn : Known(t)' = Known(t)
  BY DEF SameEvidence, Known
<1>2. \A t \in Turn : Known(t) \in 0 .. Evidence
  BY KnownOf DEF EInv
<1>3. \A t \in Turn : Known(t) <= Known(t)'
  BY <1>1, <1>2, EvidenceIsNat
<1> QED
  BY <1>1, <1>3 DEF KnowsMore

\* So are the runs.
LEMMA SameRecords ==
  ASSUME EInv, run' = run, SameEvidence, chatTurns' \subseteq Turn
  PROVE  AllRuns' /\ Streams' /\ Targets' /\ Records' /\ KnowsMore
<1>1. AllRuns'
  BY DEF EInv, AllRuns, IsRun
<1>2. Streams'
  BY DEF EInv, Streams
<1>3. Targets'
  BY DEF EInv, Targets
<1>4. Records'
  BY DEF EInv, Records, SameEvidence
<1>5. KnowsMore
  BY SameKnown
<1> QED
  BY <1>1, <1>2, <1>3, <1>4, <1>5

\* No turn is put on a card or on its way.
LEMMA SameSent ==
  ASSUME EInv, run' = run, cards' \subseteq cards, toHost' = toHost
  PROVE  Sent'
  BY DEF EInv, Sent, Sends

\* One run becomes x, which has not read more.
Moved(r, x) ==
  /\ run' = [run EXCEPT ![r] = x]
  /\ IsRun(x)
  /\ x.target \in Turn \cup {None}
  /\ x.pc = "verify" => x.target \in Turn
  /\ x.pc = "ended" => x.read = 0 /\ x.buffer = <<>>
  /\ x.pc # "ended" => /\ run[r].pc # "ended"
                       /\ x.read = run[r].read /\ x.buffer = run[r].buffer

LEMMA OneMoves ==
  ASSUME EInv, NEW r \in Run, NEW x, Moved(r, x),
         SameEvidence, chatTurns' \subseteq Turn
  PROVE  /\ AllRuns' /\ Streams' /\ Targets' /\ Records' /\ KnowsMore
         /\ run'[r] = x /\ \A s \in Run \ {r} : run'[s] = run[s]
<1>1. /\ run' = [s \in Run |-> run'[s]]
      /\ run'[r] = x /\ \A s \in Run \ {r} : run'[s] = run[s]
  BY DEF EInv, AllRuns, Moved
<1>2. AllRuns'
  <2>1. \A s \in Run : IsRun(run'[s])
    BY <1>1 DEF EInv, AllRuns, Moved
  <2> QED
    BY <1>1, <2>1 DEF AllRuns
<1>3. Streams'
  <2>1. ASSUME NEW s \in Run
        PROVE  /\ run'[s].read \in 0 .. 2 * Seal
               /\ run'[s].buffer = Partly(s, run'[s].read)
    <3>1. CASE s # r
      BY <1>1, <3>1 DEF EInv, Streams
    <3>2. CASE s = r /\ x.pc # "ended"
      BY <1>1, <3>2 DEF EInv, Streams, Moved
    <3>3. CASE s = r /\ x.pc = "ended"
      <4>1. Partly(s, 0) = <<>>
        BY DEF Partly
      <4>2. run'[s].read = 0 /\ run'[s].buffer = <<>>
        BY <1>1, <3>3 DEF Moved
      <4> QED
        BY <4>1, <4>2, EvidenceIsNat
    <3> QED
      BY <3>1, <3>2, <3>3
  <2> QED
    BY <2>1 DEF Streams
<1>4. Targets'
  BY <1>1 DEF EInv, Targets, Moved
<1>5. Records'
  <2>1. ASSUME NEW t \in Turn, run'[t].pc # "ended"
        PROVE  run[t].pc # "ended" /\ run'[t].read = run[t].read
    BY <1>1, <2>1 DEF Moved, Run
  <2> QED
    BY <2>1 DEF EInv, Records, SameEvidence
<1>6. KnowsMore
  BY SameKnown
<1> QED
  BY <1>1, <1>2, <1>3, <1>4, <1>5, <1>6

\* One run that is not on its way to the host moves.
LEMMA OneSent ==
  ASSUME EInv, NEW r \in Run, run[r].pc # "asked",
         \A s \in Run \ {r} : run'[s] = run[s],
         cards' = cards, toHost' = toHost
  PROVE  Sent'
<1>1. \A t \in Turn : run[t].pc = "asked" => run'[t].pc = "asked"
  BY DEF Run
<1>2. toHost \in Seq(Asks) /\ \A t \in cards \cap Turn : run'[t].pc = "asked"
  BY <1>1 DEF EInv, Sent
<1>3. \A i \in 1 .. Len(toHost) : \A t \in Turn : Sends(i, t) =>
        /\ run'[t].pc = "asked"
        /\ t \notin cards
        /\ \A j \in 1 .. Len(toHost) : Sends(j, t) => i = j
  BY <1>1 DEF EInv, Sent
<1>4. \A i : \A t : Sends(i, t)' <=> Sends(i, t)
  BY DEF Sends
<1> QED
  BY <1>2, <1>3, <1>4 DEF Sent

\* The forms of a move: a step on, and the end.
LEMMA Going ==
  ASSUME EInv, NEW r \in Run, NEW step, Goto(r, step),
         run[r].pc # "ended", step # "ended",
         step = "verify" => run[r].target \in Turn
  PROVE  \E x : /\ Moved(r, x) /\ x.pc = step
                /\ x.target = run[r].target /\ x.signal = run[r].signal
<1>1. PICK y : y = run[r]
  OBVIOUS
<1>2. IsRun(y) /\ y.target \in Turn \cup {None}
      /\ run = [s \in Run |-> run[s]]
  BY <1>1 DEF EInv, AllRuns, Targets
<1>3. PICK x : x = [y EXCEPT !.pc = step]
  OBVIOUS
<1>4. /\ IsRun(x) /\ x.pc = step /\ x.number = y.number
      /\ x.target = y.target /\ x.signal = y.signal /\ x.read = y.read
      /\ x.buffer = y.buffer
  BY <1>2, <1>3 DEF IsRun
<1>5. run' = [run EXCEPT ![r] = x]
  BY <1>1, <1>3 DEF Goto
<1> QED
  BY <1>1, <1>2, <1>4, <1>5 DEF Moved

LEMMA Ending ==
  ASSUME EInv, NEW r \in Run, run' = [run EXCEPT ![r] = Ended(@.number)]
  PROVE  \E x : Moved(r, x) /\ x.pc = "ended"
<1>1. PICK x : x = Ended(run[r].number)
  OBVIOUS
<1>2. /\ IsRun(x) /\ x.pc = "ended" /\ x.target = None /\ x.read = 0
      /\ x.buffer = <<>>
  BY <1>1 DEF Ended, NoRun, IsRun
<1>3. run' = [run EXCEPT ![r] = x]
  BY <1>1
<1> QED
  BY <1>2, <1>3 DEF Moved

-----------------------------------------------------------------------------
(* The host's runs, but for what they read.                                *)

\* One run moves, and at most notices are posted.
LEMMA MovesWithNotice ==
  ASSUME EInv, NEW r \in Run, NEW x, Moved(r, x), run[r].pc # "asked",
         SameEvidence, chatTurns' \subseteq Turn,
         shown' = shown, cards' = cards, toHost' = toHost,
         NEW s \in Seq(Tellings'),
         \/ toView' = toView \o s
         \/ toView' = toView
  PROVE  EInv'
<1>1. /\ AllRuns' /\ Streams' /\ Targets' /\ Records' /\ KnowsMore
      /\ \A q \in Run \ {r} : run'[q] = run[q]
  BY OneMoves
<1>2. Sent'
  BY <1>1, OneSent
<1>3. toView' \in Seq(Tellings')
  BY <1>1, Posted
<1>4. Shown'
  BY <1>1, <1>3, ShownStays
<1> QED
  BY <1>1, <1>2, <1>4 DEF EInv

LEMMA NoNotice == <<>> \in Seq(Tellings')
  OBVIOUS

LEMMA ElsewhereIs ==
  ASSUME Elsewhere
  PROVE  shown' = shown /\ cards' = cards /\ toHost' = toHost
  BY DEF Elsewhere, view

LEMMA FailsEvidence ==
  ASSUME EInv, NEW r \in Run, Fails(r)
  PROVE  EInv'
<1>1. PICK x : Moved(r, x) /\ x.pc = "ended"
  BY Ending DEF Fails, Ends
<1>2. run[r].pc # "asked" /\ record' = record /\ chatTurns' = chatTurns
  BY DEF Fails
<1>3. PICK kind \in Notices, t \in Turn \cup {None} :
        toView' = toView \o <<Message(kind, t)>>
  BY DEF Fails, Post, Notices
<1>4. <<Message(kind, t)>> \in Seq(Tellings')
  BY NoticeLater
<1>5. chatTurns' \subseteq Turn
  BY <1>2 DEF EInv, Targets
<1> QED
  BY <1>1, <1>2, <1>3, <1>4, <1>5, SameRecord, MovesWithNotice, ElsewhereIs
  DEF Fails

LEMMA ResolvesAffordancesEvidence ==
  ASSUME EInv, NEW t \in Turn, ResolvesAffordances(t)
  PROVE  EInv'
<1>1. /\ t \in Run /\ run[t].pc = "tasks" /\ record' = record
      /\ SameEvidence
  BY SameRecord DEF ResolvesAffordances, Run
<1>2. chatTurns' \subseteq Turn
  BY DEF EInv, Targets, ResolvesAffordances
<1>3. CASE /\ \E target \in {None} \cup Latest :
                run' = [run EXCEPT ![t].pc = "recorded", ![t].target = target]
           /\ UNCHANGED toView
  <2>1. PICK target \in {None} \cup Latest :
          run' = [run EXCEPT ![t].pc = "recorded", ![t].target = target]
    BY <1>3
  <2>2. target \in Turn \cup {None}
    BY DEF Latest, EInv, Targets
  <2>3. PICK y : y = run[t]
    OBVIOUS
  <2>4. IsRun(y)
    BY <1>1, <2>3 DEF EInv, AllRuns
  <2>5. PICK x : x = [y EXCEPT !.pc = "recorded", !.target = target]
    OBVIOUS
  <2>6. /\ IsRun(x) /\ x.pc = "recorded" /\ x.target = target
        /\ x.read = y.read /\ x.buffer = y.buffer
    BY <2>4, <2>5 DEF IsRun
  <2>7. run' = [run EXCEPT ![t] = x]
    BY <2>1, <2>3, <2>5
  <2>8. Moved(t, x)
    BY <1>1, <2>2, <2>3, <2>6, <2>7 DEF Moved
  <2> QED
    BY <1>1, <1>2, <1>3, <2>8, MovesWithNotice, NoNotice, ElsewhereIs
    DEF ResolvesAffordances
<1>4. CASE Ends(t) /\ Post(<<Message("chatError", t)>>)
  <2>1. PICK x : Moved(t, x) /\ x.pc = "ended"
    BY <1>1, <1>4, Ending DEF Ends
  <2>2. <<Message("chatError", t)>> \in Seq(Tellings')
    BY NoticeLater DEF Notices
  <2>3. toView' = toView \o <<Message("chatError", t)>>
    BY <1>4 DEF Post
  <2> QED
    BY <1>1, <1>2, <2>1, <2>2, <2>3, MovesWithNotice, ElsewhereIs
    DEF ResolvesAffordances
<1> QED
  BY <1>3, <1>4 DEF ResolvesAffordances

LEMMA StartsEvidence ==
  ASSUME EInv, NEW r \in Run, Starts(r)
  PROVE  EInv'
<1>1. /\ run[r].pc \in {"new", "recorded"} /\ record' = record
      /\ SameEvidence /\ chatTurns' \subseteq Turn
  BY SameRecord DEF Starts, EInv, Targets
<1>2. PICK x : Moved(r, x)
  BY <1>1, Going DEF Starts
<1>3. CASE UNCHANGED toView
  BY <1>1, <1>2, <1>3, MovesWithNotice, NoNotice, ElsewhereIs DEF Starts
<1>4. CASE Post(<<Message("reset", None)>>)
  <2>1. <<Message("reset", None)>> \in Seq(Tellings')
    BY NoticeLater DEF Notices
  <2>2. toView' = toView \o <<Message("reset", None)>>
    BY <1>4 DEF Post
  <2> QED
    BY <1>1, <1>2, <2>1, <2>2, MovesWithNotice, ElsewhereIs DEF Starts
<1> QED
  BY <1>3, <1>4 DEF Starts

LEMMA createSessionEvidence ==
  ASSUME EInv, NEW r \in Run, createSession(r)
  PROVE  EInv'
<1>1. run[r].pc = "create" /\ chatTurns' \subseteq Turn
  BY DEF createSession, EInv, Targets
<1>2. PICK x : Moved(r, x)
  BY <1>1, Going DEF createSession
<1>3. SameEvidence
  <2>1. CASE r \in Turn
    <3>1. record' = [record EXCEPT ![r].session = r]
      BY <2>1 DEF createSession
    <3>2. PICK y : y = record[r]
      OBVIOUS
    <3>3. PICK z : z = [y EXCEPT !.session = r]
      OBVIOUS
    <3>4. y \in [session : {None, r}, view : ViewsOf(r, Evidence)]
      BY <2>1, <3>2 DEF EInv, Records
    <3>5. /\ z \in [session : {None, r}, view : ViewsOf(r, Evidence)]
          /\ z.view = y.view
      BY <3>3, <3>4
    <3>6. record' = [record EXCEPT ![r] = z]
      BY <3>1, <3>2, <3>3
    <3>7. /\ record' = [t \in Turn |-> record'[t]]
          /\ record'[r] = z /\ \A t \in Turn \ {r} : record'[t] = record[t]
      BY <2>1, <3>6 DEF EInv, Records
    <3>8. ASSUME NEW t \in Turn
          PROVE  /\ record'[t] \in [session : {None, t},
                                    view : ViewsOf(t, Evidence)]
                 /\ record'[t].view.events = record[t].view.events
                 /\ record'[t].view.sealed = record[t].view.sealed
      <4>1. CASE t = r
        BY <3>2, <3>5, <3>7, <4>1
      <4>2. CASE t # r
        BY <3>7, <4>2 DEF EInv, Records
      <4> QED
        BY <4>1, <4>2
    <3> QED
      BY <3>7, <3>8 DEF SameEvidence
  <2>2. CASE r \notin Turn
    BY <2>2, SameRecord DEF createSession
  <2> QED
    BY <2>1, <2>2
<1> QED
  BY <1>1, <1>2, <1>3, MovesWithNotice, NoNotice, ElsewhereIs
  DEF createSession

LEMMA OpensStreamEvidence ==
  ASSUME EInv, NEW r \in Run, OpensStream(r)
  PROVE  EInv'
<1>1. /\ run[r].pc = "saved" /\ chatTurns' \subseteq Turn
      /\ SameEvidence
  BY SameRecord DEF OpensStream, EInv, Targets
<1>2. PICK y : y = run[r]
  OBVIOUS
<1>3. IsRun(y) /\ y.target \in Turn \cup {None}
  BY <1>2 DEF EInv, AllRuns, Targets
<1>4. PICK x : x = [y EXCEPT !.pc = "stream", !.signal = abort]
  OBVIOUS
<1>5. /\ IsRun(x) /\ x.pc = "stream" /\ x.target = y.target
      /\ x.read = y.read /\ x.buffer = y.buffer
  BY <1>3, <1>4 DEF IsRun
<1>6. run' = [run EXCEPT ![r] = x]
  BY <1>2, <1>4 DEF OpensStream
<1>7. Moved(r, x)
  BY <1>1, <1>2, <1>3, <1>5, <1>6 DEF Moved
<1> QED
  BY <1>1, <1>7, MovesWithNotice, NoNotice, ElsewhereIs DEF OpensStream

LEMMA StreamEndsEvidence ==
  ASSUME EInv, NEW r \in Run, StreamEnds(r)
  PROVE  EInv'
<1>1. /\ run[r].pc = "stream" /\ chatTurns' \subseteq Turn
      /\ SameEvidence
  BY SameRecord DEF StreamEnds, EInv, Targets
<1>2. CASE run[r].target \in chatTurns /\ Goto(r, "verify") /\ UNCHANGED toView
  <2>1. run[r].target \in Turn
    BY <1>2 DEF EInv, Targets
  <2>2. PICK x : Moved(r, x)
    BY <1>1, <1>2, <2>1, Going
  <2> QED
    BY <1>1, <1>2, <2>2, MovesWithNotice, NoNotice, ElsewhereIs DEF StreamEnds
<1>3. CASE Ends(r) /\ UNCHANGED toView
  <2>1. PICK x : Moved(r, x)
    BY <1>3, Ending DEF Ends
  <2> QED
    BY <1>1, <1>3, <2>1, MovesWithNotice, NoNotice, ElsewhereIs DEF StreamEnds
<1>4. CASE Ends(r) /\ Post(<<Message("chatError", run[r].target)>>)
  <2>1. PICK x : Moved(r, x)
    BY <1>4, Ending DEF Ends
  <2>2. PICK t : t = run[r].target
    OBVIOUS
  <2>3. t \in Turn \cup {None}
    BY <2>2 DEF EInv, Targets
  <2>4. <<Message("chatError", t)>> \in Seq(Tellings')
    BY <2>3, NoticeLater DEF Notices
  <2>5. toView' = toView \o <<Message("chatError", t)>>
    BY <1>4, <2>2 DEF Post
  <2> QED
    BY <1>1, <2>1, <2>4, <2>5, MovesWithNotice, ElsewhereIs DEF StreamEnds
<1> QED
  BY <1>2, <1>3, <1>4 DEF StreamEnds

\* A verdict is put on the record, and shown.
LEMMA VerifiedEvidence ==
  ASSUME EInv, NEW t \in Turn, Verified(t)
  PROVE  /\ SameEvidence
         /\ \E s \in Seq(Tellings') : toView' = toView \o s
<1>1. PICK v : v = record[t].view
  OBVIOUS
<1>2. PICK session : session = record[t].session
  OBVIOUS
<1>3. record' = [record EXCEPT ![t].view.verify = session]
  BY <1>2 DEF Verified
<1>4. v \in ViewsOf(t, Evidence) /\ session \in {None, t}
  BY <1>1, <1>2, RecordFields DEF EInv
<1>5. PICK w : w = [v EXCEPT !.verify = session]
  OBVIOUS
<1>6. /\ IsView(w) /\ w.events = v.events /\ w.sealed = v.sealed
      /\ w.verify = session
  BY <1>4, <1>5, ViewFields, EvidenceIsNat DEF IsView
<1>7. ASSUME NEW m \in Nat, v \in ViewsOf(t, m)
      PROVE  w \in ViewsOf(t, m)
  <2>1. PICK n \in 0 .. m : v.events = Events(t, n)
    BY <1>7, ViewFields
  <2> QED
    BY <1>4, <1>6, <1>7, <2>1, ViewFields, ViewMade
<1>8. PICK y : y = record[t]
  OBVIOUS
<1>9. y \in [session : {None, t}, view : ViewsOf(t, Evidence)]
  BY <1>8 DEF EInv, Records
<1>10. PICK z : z = [y EXCEPT !.view = w]
  OBVIOUS
<1>11. /\ z \in [session : {None, t}, view : ViewsOf(t, Evidence)]
       /\ z.view = w
  BY <1>4, <1>7, <1>9, <1>10, EvidenceIsNat
<1>12. record' = [record EXCEPT ![t] = z]
  BY <1>1, <1>3, <1>5, <1>8, <1>10
<1>13. /\ record' = [u \in Turn |-> record'[u]]
       /\ record'[t] = z /\ \A u \in Turn \ {t} : record'[u] = record[u]
  BY <1>12 DEF EInv, Records
<1>14. SameEvidence
  <2>1. ASSUME NEW u \in Turn
        PROVE  /\ record'[u] \in [session : {None, u},
                                  view : ViewsOf(u, Evidence)]
               /\ record'[u].view.events = record[u].view.events
               /\ record'[u].view.sealed = record[u].view.sealed
    <3>1. CASE u = t
      BY <1>1, <1>6, <1>11, <1>13, <3>1
    <3>2. CASE u # t
      BY <1>13, <3>2 DEF EInv, Records
    <3> QED
      BY <3>1, <3>2
  <2> QED
    BY <1>13, <2>1 DEF SameEvidence
<1>15. w \in ViewsOf(t, Known(t)')
  <2>1. Known(t)' = Known(t) /\ Known(t) \in 0 .. Evidence
    BY <1>14, SameKnown, KnownOf DEF EInv
  <2>2. PICK k : k = Known(t)
    OBVIOUS
  <2>3. k \in 0 .. Evidence /\ v.events = Events(t, k) /\ k \in Nat
    BY <1>1, <2>1, <2>2, KnownOf, EvidenceIsNat DEF EInv
  <2>4. v \in ViewsOf(t, k)
    BY <1>4, <2>3, ViewFields, ViewMade, EvidenceIsNat
  <2> QED
    BY <1>7, <2>1, <2>2, <2>3, <2>4
<1>16. Showing("chatTurnVerified", t, w) \in Tellings'
  BY <1>15, ShowingLater DEF Showings
<1>17. <<Showing("chatTurnVerified", t, w)>> \in Seq(Tellings')
  BY <1>16
<1>18. toView' = toView \o <<Showing("chatTurnVerified", t, w)>>
  BY <1>11, <1>13 DEF Verified, Post
<1> QED
  BY <1>14, <1>17, <1>18

LEMMA VerifiesTargetEvidence ==
  ASSUME EInv, NEW t \in Turn, VerifiesTarget(t)
  PROVE  EInv'
<1>1. /\ t \in Run /\ run[t].pc = "verify" /\ chatTurns' \subseteq Turn
      /\ run[t].target \in Turn
  BY DEF VerifiesTarget, EInv, Targets, Run
<1>2. PICK u \in Turn : u = run[t].target
  BY <1>1
<1>3. SameEvidence /\ \E s \in Seq(Tellings') : toView' = toView \o s
  BY <1>2, VerifiedEvidence DEF VerifiesTarget
<1>4. PICK x : Moved(t, x)
  BY <1>1, Ending DEF VerifiesTarget, Ends
<1> QED
  BY <1>1, <1>3, <1>4, MovesWithNotice, ElsewhereIs DEF VerifiesTarget

-----------------------------------------------------------------------------
(* A chunk is read.                                                        *)

LEMMA WireIs ==
  ASSUME NEW r
  PROVE  /\ Len(Wire(r)) = 2 * Seal
         /\ \A j \in 1 .. 2 * Seal :
              Wire(r)[j] = <<r, IF j % 2 = 1 THEN j \div 2 + 1 ELSE 0>>
  BY EvidenceIsNat DEF Wire

\* What is in the buffer once n more characters came, of k that had come.
LEMMA ChunkOf ==
  ASSUME NEW r, NEW k \in Nat, NEW n \in Nat, k + n <= 2 * Seal
  PROVE  Partly(r, k) \o SubSeq(Wire(r), k + 1, k + n)
           = CharsOf(r, k \div 2, (k % 2) + n)
<1>1. PICK p : p = k \div 2
  OBVIOUS
<1>2. PICK m : m = k % 2
  OBVIOUS
<1>3. p \in Nat /\ m \in {0, 1} /\ k = 2 * p + m /\ Seal \in Nat
  BY <1>1, <1>2, Halves, EvidenceIsNat
<1>4. PICK W : W = Wire(r)
  OBVIOUS
<1> DEFINE S == {W[j] : j \in 1 .. 2 * Seal}
<1>5. \A j \in 1 .. 2 * Seal : W[j] \in S
  OBVIOUS
<1> HIDE DEF S
<1>6. PICK a : a = Partly(r, k)
  OBVIOUS
<1>7. a \in Seq(S) /\ Len(a) = m /\ (m = 1 => a[1] = W[k])
  <2>1. CASE m = 1
    <3>1. a = <<W[k]>> /\ k \in 1 .. 2 * Seal
      BY <1>2, <1>3, <1>4, <1>6, <2>1 DEF Partly
    <3>2. W[k] \in S
      BY <1>5, <3>1
    <3> QED
      BY <2>1, <3>1, <3>2
  <2>2. CASE m = 0
    <3>1. a = <<>>
      BY <1>2, <1>6, <2>2 DEF Partly
    <3> QED
      BY <2>2, <3>1
  <2> QED
    BY <1>3, <2>1, <2>2
<1>8. PICK c : c = SubSeq(W, k + 1, k + n)
  OBVIOUS
<1>9. /\ c \in Seq(S) /\ Len(c) = n
      /\ \A i \in 1 .. n : c[i] = W[k + i]
  <2>1. \A i \in k + 1 .. k + n : W[i] \in S
    <3> TAKE i \in k + 1 .. k + n
    <3>1. i \in 1 .. 2 * Seal
      BY <1>3
    <3> QED
      BY <1>5, <3>1
  <2>2. /\ c \in Seq(S)
        /\ Len(c) = IF k + 1 <= k + n THEN k + n - (k + 1) + 1 ELSE 0
        /\ \A i \in 1 .. k + n - (k + 1) + 1 : c[i] = W[k + 1 + i - 1]
    BY <1>8, <2>1, SubSeqProperties
  <2>3. Len(c) = n
    BY <2>2
  <2>4. \A i \in 1 .. n : c[i] = W[k + i]
    <3> TAKE i \in 1 .. n
    <3>1. i \in 1 .. k + n - (k + 1) + 1 /\ k + 1 + i - 1 = k + i
      OBVIOUS
    <3> QED
      BY <2>2, <3>1
  <2> QED
    BY <2>2, <2>3, <2>4
<1>10. PICK b : b = a \o c
  OBVIOUS
<1>11. /\ b \in Seq(S) /\ Len(b) = m + n
       /\ \A i \in 1 .. m : b[i] = a[i]
       /\ \A i \in m + 1 .. m + n : b[i] = c[i - m]
  <2>1. /\ b \in Seq(S) /\ Len(b) = Len(a) + Len(c)
        /\ \A i \in 1 .. Len(a) + Len(c) :
             b[i] = IF i <= Len(a) THEN a[i] ELSE c[i - Len(a)]
    BY <1>7, <1>9, <1>10, ConcatProperties
  <2>2. \A i \in 1 .. m + n : b[i] = IF i <= m THEN a[i] ELSE c[i - m]
    BY <1>7, <1>9, <2>1
  <2>3. \A i \in 1 .. m : b[i] = a[i]
    <3> TAKE i \in 1 .. m
    <3>1. i \in 1 .. m + n /\ i <= m
      BY <1>3
    <3> QED
      BY <2>2, <3>1
  <2>4. \A i \in m + 1 .. m + n : b[i] = c[i - m]
    <3> TAKE i \in m + 1 .. m + n
    <3>1. i \in 1 .. m + n /\ ~(i <= m)
      BY <1>3
    <3> QED
      BY <2>2, <3>1
  <2> QED
    BY <1>7, <1>9, <2>1, <2>3, <2>4
<1>12. \A i \in 1 .. m + n : b[i] = W[2 * p + i]
  <2> TAKE i \in 1 .. m + n
  <2>1. CASE i <= m
    <3>1. i = 1 /\ m = 1 /\ k = 2 * p + i
      BY <1>3, <2>1
    <3> QED
      BY <1>7, <1>11, <3>1
  <2>2. CASE i > m
    <3>1. i \in m + 1 .. m + n /\ i - m \in 1 .. n /\ k + (i - m) = 2 * p + i
      BY <1>3, <2>2
    <3> QED
      BY <1>9, <1>11, <3>1
  <2> QED
    BY <1>3, <2>1, <2>2
<1>13. \A i \in 1 .. m + n :
         W[2 * p + i] = <<r, IF i % 2 = 1 THEN p + i \div 2 + 1 ELSE 0>>
  <2> TAKE i \in 1 .. m + n
  <2>1. 2 * p + i \in 1 .. 2 * Seal
    BY <1>3
  <2>2. (2 * p + i) % 2 = i % 2 /\ (2 * p + i) \div 2 = p + i \div 2
    BY <1>3
  <2> QED
    BY <1>4, <2>1, <2>2, WireIs
<1>14. PICK u : u = CharsOf(r, p, m + n)
  OBVIOUS
<1>15. /\ u = [i \in 1 .. m + n |-> u[i]]
       /\ \A i \in 1 .. m + n :
            u[i] = <<r, IF i % 2 = 1 THEN p + i \div 2 + 1 ELSE 0>>
  BY <1>14 DEF CharsOf
<1>16. \A i \in 1 .. m + n : u[i] = b[i]
  BY <1>12, <1>13, <1>15
<1>17. b = [i \in 1 .. m + n |-> b[i]]
  BY <1>3, <1>11
<1>18. u = b
  BY <1>15, <1>16, <1>17
<1> QED
  BY <1>1, <1>2, <1>4, <1>6, <1>8, <1>10, <1>14, <1>18

\* The rest of them is what is partly there.
LEMMA RestOf ==
  ASSUME NEW r, NEW p \in Nat, NEW n \in Nat, 2 * p + n <= 2 * Seal
  PROVE  DrainedTo(r, p, n).rest = Partly(r, 2 * p + n)
<1>1. (2 * p + n) % 2 = n % 2 /\ (2 * p + n) \div 2 = p + n \div 2
  OBVIOUS
<1>2. CASE n % 2 = 1
  <2>1. 2 * p + n \in 1 .. 2 * Seal
    BY <1>2, EvidenceIsNat
  <2>2. Wire(r)[2 * p + n] = <<r, p + n \div 2 + 1>>
    BY <1>1, <1>2, <2>1, WireIs
  <2> QED
    BY <1>1, <1>2, <2>2 DEF Partly, DrainedTo
<1>3. CASE n % 2 # 1
  BY <1>1, <1>3 DEF Partly, DrainedTo
<1> QED
  BY <1>2, <1>3

\* The host has one more frame after another of a turn.
LEMMA OntoTurn ==
  ASSUME EInv, NEW t \in Turn, run[t].pc # "ended",
         NEW p, p = Whole(run[t].read), NEW n \in Nat, n > 0, p + n <= Seal,
         Onto(t, FramesOf(t, p, n))
  PROVE  /\ record' = [u \in Turn |-> record'[u]]
         /\ \A u \in Turn \ {t} : record'[u] = record[u]
         /\ record'[t] \in [session : {None, t}, view : ViewsOf(t, Evidence)]
         /\ record'[t].view.events = Events(t, Upto(p + n))
         /\ record'[t].view.sealed <=> p + n = Seal
         /\ KnowsMore
         /\ \E s \in Seq(Tellings') : toView' = toView \o s
<1>1. t \in Run /\ Evidence \in Nat /\ Seal = Evidence + 1
  BY EvidenceIsNat DEF Run, Seal
<1>2. p \in Nat /\ p < Seal
  BY <1>1, Halves DEF EInv, Streams, Whole
<1>3. PICK v : v = record[t].view
  OBVIOUS
<1>4. v \in ViewsOf(t, Evidence) /\ v.events = Events(t, Upto(p))
      /\ (v.sealed <=> p = Seal)
  BY <1>3, RecordFields DEF EInv, Records
<1>5. /\ IsView(v) /\ v.events = Events(t, p) /\ v.sealed = FALSE
      /\ v.verify \in {None, t}
  BY <1>1, <1>2, <1>4, ViewFields DEF Upto
<1>6. PICK frames : frames = FramesOf(t, p, n)
  OBVIOUS
<1>7. Len(frames) = n /\ frames # <<>>
  BY <1>6 DEF FramesOf
<1>8. PICK after : after = After(v, frames)
  OBVIOUS
<1>9. after = [i \in 1 .. n |-> Seen(t, v, p + i)]
  <2>1. IsView(v) /\ v.events = Events(t, p) /\ v.sealed = FALSE
    BY <1>5
  <2>2. p \in Nat /\ p + n <= Seal
    BY <1>2
  <2>3. After(v, frames) = Seens(t, v, p, n)
    BY <1>6, <2>1, <2>2, AfterFrames, ZenonT(40)
  <2> QED
    BY <1>8, <2>3 DEF Seens
<1>10. /\ record' = [record EXCEPT ![t].view = after[Len(frames)]]
       /\ toView' = toView \o
            [i \in 1 .. Len(frames) |->
               Showing(IF frames[i][2] = Seal THEN "chatTurnSealed"
                       ELSE "chatTurnEvent", t, after[i])]
  BY <1>3, <1>6, <1>7, <1>8 DEF Onto, Post
<1>11. ASSUME NEW i \in 1 .. n, NEW w, w = Seen(t, v, p + i)
       PROVE  /\ w.events = Events(t, Upto(p + i))
              /\ w.sealed <=> p + i = Seal
              /\ Upto(p + i) \in 0 .. Upto(p + n)
              /\ Upto(p + n) \in 0 .. Evidence /\ p <= Upto(p + n)
              /\ \A m \in Nat : Upto(p + i) <= m => w \in ViewsOf(t, m)
  <2>1. /\ IsView(w) /\ w.events = Events(t, Upto(p + i))
        /\ w.sealed = (p + i = Seal)
        /\ w.verify = IF p + i = Seal THEN t ELSE v.verify
    BY <1>11 DEF Seen, IsView
  <2>2. /\ Upto(p + i) \in 0 .. Upto(p + n)
        /\ Upto(p + n) \in 0 .. Evidence /\ p <= Upto(p + n)
    BY <1>1, <1>2 DEF Upto
  <2>3. w.sealed => w.events = Events(t, Evidence)
    BY <2>1 DEF Upto
  <2>4. \A m \in Nat : Upto(p + i) <= m => w \in ViewsOf(t, m)
    <3> SUFFICES ASSUME NEW m \in Nat, Upto(p + i) <= m
                 PROVE  w \in ViewsOf(t, m)
      OBVIOUS
    <3>1. Upto(p + i) \in 0 .. m
      BY <2>2
    <3>2. w.sealed \in BOOLEAN /\ w.verify \in {None, t}
      BY <1>5, <2>1
    <3> QED
      BY <2>1, <2>3, <3>1, <3>2, ViewMade
  <2> QED
    BY <2>1, <2>2, <2>3, <2>4
<1>12. n \in 1 .. n
  OBVIOUS
<1>13. PICK last : last = Seen(t, v, p + n)
  OBVIOUS
<1>14. after[Len(frames)] = last
  BY <1>7, <1>9, <1>12, <1>13
<1>15. /\ last.events = Events(t, Upto(p + n))
       /\ last.sealed <=> p + n = Seal
       /\ Upto(p + n) \in 0 .. Evidence /\ p <= Upto(p + n)
       /\ last \in ViewsOf(t, Evidence)
  BY <1>1, <1>11, <1>12, <1>13
<1>16. PICK y : y = record[t]
  OBVIOUS
<1>17. y \in [session : {None, t}, view : ViewsOf(t, Evidence)]
  BY <1>16 DEF EInv, Records
<1>18. PICK z : z = [y EXCEPT !.view = last]
  OBVIOUS
<1>19. /\ z \in [session : {None, t}, view : ViewsOf(t, Evidence)]
       /\ z.view = last
  BY <1>15, <1>17, <1>18
<1>20. record' = [record EXCEPT ![t] = z]
  BY <1>10, <1>14, <1>16, <1>18
<1>21. /\ record' = [u \in Turn |-> record'[u]]
       /\ record'[t] = z /\ \A u \in Turn \ {t} : record'[u] = record[u]
  BY <1>20 DEF EInv, Records
<1>22. Known(t)' = Upto(p + n) /\ Known(t) = p
  <2>1. Len(Events(t, Upto(p + n))) = Upto(p + n)
    BY <1>15, EventsLength, EvidenceIsNat
  <2>2. Len(Events(t, p)) = p
    BY <1>2, EventsLength
  <2> QED
    BY <1>3, <1>5, <1>15, <1>19, <1>21, <2>1, <2>2 DEF Known
<1>23. KnowsMore
  <2>1. ASSUME NEW u \in Turn
        PROVE  Known(u) <= Known(u)'
    <3>1. CASE u = t
      BY <1>15, <1>22, <3>1
    <3>2. CASE u # t
      <4>1. Known(u)' = Known(u)
        BY <1>21, <3>2 DEF Known
      <4>2. Known(u) \in 0 .. Evidence
        BY KnownOf DEF EInv
      <4> QED
        BY <4>1, <4>2, EvidenceIsNat
    <3> QED
      BY <3>1, <3>2
  <2> QED
    BY <2>1 DEF KnowsMore
<1>24. PICK T : T = Tellings'
  OBVIOUS
<1>25. ASSUME NEW i \in 1 .. n
       PROVE  Showing(IF frames[i][2] = Seal THEN "chatTurnSealed"
                      ELSE "chatTurnEvent", t, after[i]) \in T
  <2>1. PICK w : w = Seen(t, v, p + i)
    OBVIOUS
  <2>2. after[i] = w
    BY <1>9, <2>1
  <2>3. w \in ViewsOf(t, Upto(p + n))
    BY <1>11, <1>15, <2>1
  <2>4. PICK kind : kind = IF frames[i][2] = Seal THEN "chatTurnSealed"
                           ELSE "chatTurnEvent"
    OBVIOUS
  <2>5. kind \in Showings
    BY <2>4 DEF Showings
  <2>6. Showing(kind, t, w) \in T
    BY <1>22, <1>24, <2>3, <2>5, ShowingLater
  <2> QED
    BY <2>2, <2>4, <2>6
<1>26. PICK s : s = [i \in 1 .. Len(frames) |->
                       Showing(IF frames[i][2] = Seal THEN "chatTurnSealed"
                               ELSE "chatTurnEvent", t, after[i])]
  OBVIOUS
<1>27. s \in [1 .. n -> T]
  BY <1>7, <1>25, <1>26
<1>28. s \in Seq(T)
  BY <1>27
<1> QED
  BY <1>10, <1>15, <1>19, <1>21, <1>23, <1>24, <1>26, <1>28

\* Frames that are no turn's, or none.
LEMMA OntoOther ==
  ASSUME EInv, NEW r \in Run, NEW frames, Onto(r, frames),
         r \notin Turn \/ frames = <<>>
  PROVE  /\ record' = record
         /\ \E s \in Seq(Tellings') : toView' = toView \o s
<1>1. /\ record' = record
      /\ Post(IF \E i \in DOMAIN frames : frames[i][2] = Seal
              THEN <<Message("sealed", None)>> ELSE <<>>)
  BY DEF Onto
<1>2. <<Message("sealed", None)>> \in Seq(Tellings')
  BY NoticeLater DEF Notices
<1>3. <<>> \in Seq(Tellings')
  BY NoNotice
<1> QED
  BY <1>1, <1>2, <1>3 DEF Post

LEMMA ReadsChunkEvidence ==
  ASSUME EInv, NEW r \in Run, ReadsChunk(r)
  PROVE  EInv'
<1>1. PICK n \in 1 .. Len(Wire(r)) - run[r].read :
        LET chunk == SubSeq(Wire(r), run[r].read + 1, run[r].read + n)
            drained == drainSSE(run[r].buffer \o chunk)
        IN /\ run' = [run EXCEPT ![r].read = @ + n, ![r].buffer = drained.rest]
           /\ Onto(r, drained.frames)
  BY DEF ReadsChunk
<1>2. PICK k : k = run[r].read
  OBVIOUS
<1>3. /\ k \in Nat /\ n \in Nat /\ n > 0 /\ k + n <= 2 * Seal
      /\ run[r].buffer = Partly(r, k) /\ Seal \in Nat
  BY <1>1, <1>2, WireIs, EvidenceIsNat DEF EInv, Streams
<1>4. PICK p : p = k \div 2
  OBVIOUS
<1>5. PICK m : m = (k % 2) + n
  OBVIOUS
<1>6. p \in Nat /\ m \in Nat /\ 2 * p + m = k + n /\ p = Whole(k)
  BY <1>3, <1>4, <1>5, Halves DEF Whole
<1>7. PICK b : b = run[r].buffer \o SubSeq(Wire(r), k + 1, k + n)
  OBVIOUS
<1>8. b = CharsOf(r, p, m)
  BY <1>3, <1>4, <1>5, <1>7, ChunkOf
<1>9. drainSSE(b) = DrainedTo(r, p, m)
  BY <1>6, <1>8, DrainedFrames DEF drainSSE
<1>10. PICK h : h = m \div 2
  OBVIOUS
<1>11. /\ h \in Nat /\ p + h <= Seal /\ Whole(k + n) = p + h
  <2>1. h \in Nat /\ m = 2 * h + (m % 2) /\ m % 2 \in {0, 1}
    BY <1>6, <1>10, Halves
  <2>2. PICK e \in {0, 1} : m = 2 * h + e
    BY <2>1
  <2>3. k + n = 2 * (p + h) + e /\ p + h \in Nat
    <3>1. h \in Nat /\ p \in Nat /\ m = 2 * h + e /\ k + n = 2 * p + m
      BY <1>6, <2>1, <2>2
    <3> QED
      BY <3>1
  <2>4. (k + n) \div 2 = p + h
    <3>1. PICK g \in Nat : g = p + h
      BY <2>3
    <3>2. (2 * g + e) \div 2 = g
      OBVIOUS
    <3> QED
      BY <2>3, <3>1, <3>2
  <2>5. p + h <= Seal
    BY <1>3, <2>3
  <2> QED
    BY <2>1, <2>4, <2>5 DEF Whole
<1>12. PICK rest : rest = Partly(r, k + n)
  OBVIOUS
<1>13. DrainedTo(r, p, m).rest = rest
  BY <1>3, <1>6, <1>12, RestOf
<1>14. DrainedTo(r, p, m).frames = FramesOf(r, p, h)
  BY <1>10 DEF DrainedTo
<1>15. /\ run' = [run EXCEPT ![r].read = @ + n, ![r].buffer = rest]
       /\ Onto(r, FramesOf(r, p, h))
  BY <1>1, <1>2, <1>7, <1>9, <1>13, <1>14
<1>16. PICK y : y = run[r]
  OBVIOUS
<1>17. IsRun(y) /\ run = [s \in Run |-> run[s]]
  BY <1>16 DEF EInv, AllRuns
<1>18. PICK x : x = [y EXCEPT !.read = k + n, !.buffer = rest]
  OBVIOUS
<1>19. /\ IsRun(x) /\ x.read = k + n /\ x.buffer = rest
       /\ x.pc = y.pc /\ x.target = y.target
  BY <1>17, <1>18 DEF IsRun
<1>20. run' = [run EXCEPT ![r] = x]
  BY <1>2, <1>15, <1>16, <1>18
<1>21. /\ run' = [s \in Run |-> run'[s]]
       /\ run'[r] = x /\ \A s \in Run \ {r} : run'[s] = run[s]
  BY <1>17, <1>20
<1>22. /\ run[r].pc = "stream" /\ chatTurns' = chatTurns
       /\ shown' = shown /\ cards' = cards /\ toHost' = toHost
  BY ElsewhereIs DEF ReadsChunk
<1>23. AllRuns'
  <2>1. \A s \in Run : IsRun(run'[s])
    BY <1>19, <1>21 DEF EInv, AllRuns
  <2> QED
    BY <1>21, <2>1 DEF AllRuns
<1>24. Streams'
  <2>1. k + n \in 0 .. 2 * Seal
    BY <1>3
  <2>2. ASSUME NEW s \in Run
        PROVE  /\ run'[s].read \in 0 .. 2 * Seal
               /\ run'[s].buffer = Partly(s, run'[s].read)
    <3>1. CASE s = r
      BY <1>12, <1>19, <1>21, <2>1, <3>1
    <3>2. CASE s # r
      BY <1>21, <3>2 DEF EInv, Streams
    <3> QED
      BY <3>1, <3>2
  <2> QED
    BY <2>2 DEF Streams
<1>25. Targets'
  BY <1>16, <1>19, <1>21, <1>22 DEF EInv, Targets
<1>26. Sent'
  BY <1>21, <1>22, OneSent
<1>27. /\ Records' /\ KnowsMore
       /\ \E s \in Seq(Tellings') : toView' = toView \o s
  <2>1. CASE r \in Turn /\ h > 0
    <3>1. /\ record' = [u \in Turn |-> record'[u]]
          /\ \A u \in Turn \ {r} : record'[u] = record[u]
          /\ record'[r] \in [session : {None, r}, view : ViewsOf(r, Evidence)]
          /\ record'[r].view.events = Events(r, Upto(p + h))
          /\ record'[r].view.sealed <=> p + h = Seal
          /\ KnowsMore
          /\ \E s \in Seq(Tellings') : toView' = toView \o s
      <4>1. run[r].pc # "ended" /\ p = Whole(run[r].read)
        BY <1>2, <1>6, <1>22
      <4> QED
        BY <1>11, <1>15, <2>1, <4>1, OntoTurn, SMTT(30)
    <3>2. ASSUME NEW t \in Turn
          PROVE  /\ record'[t] \in [session : {None, t},
                                    view : ViewsOf(t, Evidence)]
                 /\ run'[t].pc # "ended" =>
                      /\ record'[t].view.events
                           = Events(t, Upto(Whole(run'[t].read)))
                      /\ record'[t].view.sealed
                           <=> Whole(run'[t].read) = Seal
      <4>1. CASE t = r
        BY <1>11, <1>19, <1>21, <3>1, <4>1
      <4>2. CASE t # r
        <5>1. record'[t] = record[t] /\ run'[t] = run[t]
          BY <1>21, <3>1, <4>2 DEF Run
        <5> QED
          BY <5>1 DEF EInv, Records
      <4> QED
        BY <4>1, <4>2
    <3> QED
      BY <3>1, <3>2 DEF Records
  <2>2. CASE r \notin Turn \/ h = 0
    <3>1. h = 0 => FramesOf(r, p, h) = <<>>
      BY DEF FramesOf
    <3>2. record' = record /\ \E s \in Seq(Tellings') : toView' = toView \o s
      BY <1>15, <2>2, <3>1, OntoOther
    <3>3. KnowsMore
      BY <3>2, SameRecord, SameKnown
    <3>4. ASSUME NEW t \in Turn
          PROVE  /\ run'[t].pc = run[t].pc
                 /\ Whole(run'[t].read) = Whole(run[t].read)
      <4>1. CASE t = r
        BY <1>2, <1>6, <1>11, <1>16, <1>19, <1>21, <2>2, <4>1
      <4>2. CASE t # r
        BY <1>21, <4>2 DEF Run
      <4> QED
        BY <4>1, <4>2
    <3>5. Records'
      BY <3>2, <3>4 DEF EInv, Records
    <3> QED
      BY <3>2, <3>3, <3>5
  <2>3. (r \in Turn /\ h > 0) \/ (r \notin Turn \/ h = 0)
    BY <1>11
  <2> QED
    BY <2>1, <2>2, <2>3, Zenon
<1>28. toView' \in Seq(Tellings')
  BY <1>27, Posted
<1>29. Shown'
  BY <1>22, <1>27, <1>28, ShownStays
<1> QED
  BY <1>23, <1>24, <1>25, <1>26, <1>27, <1>29 DEF EInv

LEMMA RunsEvidence ==
  ASSUME EInv, NEW r \in Run, Runs(r)
  PROVE  EInv'
  BY StartsEvidence, createSessionEvidence, OpensStreamEvidence,
     ReadsChunkEvidence, StreamEndsEvidence
  DEF Runs

-----------------------------------------------------------------------------
(* The webview, and its messages to the host.                              *)

\* What is shown may change to anything that the host has.
LEMMA ShowsKnown ==
  ASSUME EInv, run' = run, SameEvidence, chatTurns' \subseteq Turn,
         shown' = [t \in Turn |-> shown'[t]],
         \A t \in Turn : shown'[t] \in ViewsOf(t, Known(t)),
         toView' \in Seq(Tellings)
  PROVE  AllRuns' /\ Streams' /\ Targets' /\ Records' /\ Shown'
<1>1. AllRuns' /\ Streams' /\ Targets' /\ Records' /\ KnowsMore
  BY SameRecords
<1>2. PICK T : T = Tellings'
  OBVIOUS
<1>3. /\ Tellings \subseteq T
      /\ \A t \in Turn : ViewsOf(t, Known(t)) \subseteq ViewsOf(t, Known(t)')
  BY <1>1, <1>2, TellingsGrow DEF EInv
<1>4. toView' \in Seq(T)
  BY <1>3, SeqOfMore
<1>5. \A t \in Turn : shown'[t] \in ViewsOf(t, Known(t)')
  BY <1>3
<1> QED
  BY <1>1, <1>2, <1>4, <1>5 DEF Shown

\* One turn is shown something else.
LEMMA ShowsOne ==
  ASSUME EInv, NEW t \in Turn, NEW v \in ViewsOf(t, Known(t)),
         shown' = [shown EXCEPT ![t] = v]
  PROVE  /\ shown' = [u \in Turn |-> shown'[u]]
         /\ \A u \in Turn : shown'[u] \in ViewsOf(u, Known(u))
<1>1. /\ shown' = [u \in Turn |-> shown'[u]]
      /\ shown'[t] = v /\ \A u \in Turn \ {t} : shown'[u] = shown[u]
  BY DEF EInv, Shown
<1>2. ASSUME NEW u \in Turn
      PROVE  shown'[u] \in ViewsOf(u, Known(u))
  <2>1. CASE u = t
    BY <1>1, <2>1
  <2>2. CASE u # t
    BY <1>1, <2>2 DEF EInv, Shown
  <2> QED
    BY <2>1, <2>2
<1> QED
  BY <1>1, <1>2

LEMMA BlankKnown ==
  ASSUME EInv, NEW t \in Turn
  PROVE  Blank \in ViewsOf(t, Known(t))
<1>1. Known(t) \in 0 .. Evidence
  BY KnownOf DEF EInv
<1>2. Known(t) \in Nat
  BY <1>1, EvidenceIsNat
<1> QED
  BY <1>2, BlankView

LEMMA ShowsNothing ==
  ASSUME EInv, shown' = [t \in Turn |-> Blank]
  PROVE  /\ shown' = [u \in Turn |-> shown'[u]]
         /\ \A u \in Turn : shown'[u] \in ViewsOf(u, Known(u))
<1>1. \A u \in Turn : shown'[u] = Blank
  OBVIOUS
<1>2. \A u \in Turn : shown'[u] \in ViewsOf(u, Known(u))
  BY <1>1, BlankKnown
<1> QED
  BY <1>2

LEMMA ShowsTheSame ==
  ASSUME EInv, shown' = shown
  PROVE  /\ shown' = [u \in Turn |-> shown'[u]]
         /\ \A u \in Turn : shown'[u] \in ViewsOf(u, Known(u))
  BY DEF EInv, Shown

\* One more message to the host.
LEMMA Queued ==
  ASSUME EInv, NEW m \in Asks, toHost' = Append(toHost, m)
  PROVE  /\ toHost' \in Seq(Asks) /\ Len(toHost) \in Nat
         /\ Len(toHost') = Len(toHost) + 1
         /\ \A i \in 1 .. Len(toHost) : \A t : Sends(i, t)' <=> Sends(i, t)
         /\ \A i \in 1 .. Len(toHost') : \A t :
              i \notin 1 .. Len(toHost) =>
                (Sends(i, t)' <=> m.kind = "sendChatTurn" /\ m.turn = t)
<1>1. toHost \in Seq(Asks)
  BY DEF EInv, Sent
<1>2. /\ toHost' \in Seq(Asks) /\ Len(toHost) \in Nat
      /\ Len(toHost') = Len(toHost) + 1
      /\ \A i \in 1 .. Len(toHost) : toHost'[i] = toHost[i]
      /\ toHost'[Len(toHost) + 1] = m
  BY <1>1, AppendProperties
<1>3. \A i \in 1 .. Len(toHost') :
        i \notin 1 .. Len(toHost) => i = Len(toHost) + 1
  BY <1>2
<1>4. \A i \in 1 .. Len(toHost') :
        i \notin 1 .. Len(toHost) => toHost'[i] = m
  BY <1>2, <1>3
<1> QED
  BY <1>2, <1>4 DEF Sends

\* A turn is sent that is on no card and on its way no more.
LEMMA SendsTurn ==
  ASSUME EInv, NEW t \in Turn,
         toHost' = Append(toHost, [kind |-> "sendChatTurn", turn |-> t]),
         cards' \subseteq cards \ {t}, run'[t].pc = "asked",
         \A u \in Turn \ {t} : run'[u] = run[u],
         \A i \in 1 .. Len(toHost) : ~Sends(i, t)
  PROVE  Sent'
<1>1. PICK m : m = [kind |-> "sendChatTurn", turn |-> t]
  OBVIOUS
<1>2. m \in Asks /\ m.kind = "sendChatTurn" /\ m.turn = t
  BY <1>1 DEF Asks
<1>3. toHost' = Append(toHost, m)
  BY <1>1
<1>4. /\ toHost' \in Seq(Asks) /\ Len(toHost) \in Nat
      /\ Len(toHost') = Len(toHost) + 1
      /\ \A i \in 1 .. Len(toHost) : \A u : Sends(i, u)' <=> Sends(i, u)
      /\ \A i \in 1 .. Len(toHost') : \A u :
           i \notin 1 .. Len(toHost) => (Sends(i, u)' <=> u = t)
  BY <1>2, <1>3, Queued
<1>5. \A u \in cards' \cap Turn : run'[u].pc = "asked"
  BY DEF EInv, Sent
<1>6. ASSUME NEW i \in 1 .. Len(toHost'), NEW u \in Turn, Sends(i, u)'
      PROVE  /\ run'[u].pc = "asked"
             /\ u \notin cards'
             /\ \A j \in 1 .. Len(toHost') : Sends(j, u)' => i = j
  <2>1. CASE i \in 1 .. Len(toHost)
    <3>1. Sends(i, u) /\ u # t
      BY <1>4, <1>6, <2>1
    <3>2. /\ run[u].pc = "asked" /\ u \notin cards
          /\ \A j \in 1 .. Len(toHost) : Sends(j, u) => i = j
      BY <2>1, <3>1 DEF EInv, Sent
    <3>3. \A j \in 1 .. Len(toHost') : Sends(j, u)' => i = j
      BY <1>4, <3>1, <3>2
    <3> QED
      BY <3>1, <3>2, <3>3
  <2>2. CASE i \notin 1 .. Len(toHost)
    <3>1. u = t /\ i = Len(toHost) + 1
      BY <1>4, <1>6, <2>2
    <3>2. \A j \in 1 .. Len(toHost') :
            Sends(j, u)' => j \notin 1 .. Len(toHost)
      BY <1>4, <3>1
    <3>3. \A j \in 1 .. Len(toHost') :
            j \notin 1 .. Len(toHost) => j = Len(toHost) + 1
      BY <1>4
    <3>4. u \notin cards'
      BY <3>1
    <3> QED
      BY <3>1, <3>2, <3>3, <3>4
  <2> QED
    BY <2>1, <2>2
<1> QED
  BY <1>4, <1>5, <1>6 DEF Sent

\* What is sent is no turn.
LEMMA SendsOther ==
  ASSUME EInv, NEW m \in Asks, m.kind # "sendChatTurn",
         toHost' = Append(toHost, m), run' = run, cards' \subseteq cards
  PROVE  Sent'
<1>1. /\ toHost' \in Seq(Asks) /\ Len(toHost) \in Nat
      /\ \A i \in 1 .. Len(toHost) : \A u : Sends(i, u)' <=> Sends(i, u)
      /\ \A i \in 1 .. Len(toHost') : \A u :
           i \notin 1 .. Len(toHost) => ~Sends(i, u)'
  BY Queued
<1>2. \A u \in cards' \cap Turn : run'[u].pc = "asked"
  BY DEF EInv, Sent
<1>3. ASSUME NEW i \in 1 .. Len(toHost'), NEW u \in Turn, Sends(i, u)'
      PROVE  /\ run'[u].pc = "asked"
             /\ u \notin cards'
             /\ \A j \in 1 .. Len(toHost') : Sends(j, u)' => i = j
  <2>1. i \in 1 .. Len(toHost) /\ Sends(i, u)
    BY <1>1, <1>3
  <2>2. /\ run[u].pc = "asked" /\ u \notin cards
        /\ \A j \in 1 .. Len(toHost) : Sends(j, u) => i = j
    BY <2>1 DEF EInv, Sent
  <2>3. \A j \in 1 .. Len(toHost') : Sends(j, u)' => i = j
    BY <1>1, <2>2
  <2> QED
    BY <2>2, <2>3
<1> QED
  BY <1>1, <1>2, <1>3 DEF Sent

LEMMA StaysTold ==
  ASSUME EInv, toView' = toView
  PROVE  toView' \in Seq(Tellings)
  BY DEF EInv, Shown

LEMMA ApproveEvidence ==
  ASSUME EInv, NEW t \in Turn, Approve(t)
  PROVE  EInv'
<1>1. /\ run' = run /\ record' = record /\ chatTurns' = chatTurns
      /\ toView' = toView /\ t \in cards /\ cards' = cards \ {t}
      /\ shown' = [shown EXCEPT ![t] = Blank]
      /\ toHost' = Append(toHost, [kind |-> "sendChatTurn", turn |-> t])
  BY DEF Approve, startTurn, Send, host
<1>2. run[t].pc = "asked" /\ \A i \in 1 .. Len(toHost) : ~Sends(i, t)
  BY <1>1 DEF EInv, Sent
<1>3. Sent'
  BY <1>1, <1>2, SendsTurn
<1>4. SameEvidence /\ chatTurns' \subseteq Turn
  BY <1>1, SameRecord DEF EInv, Targets
<1>5. /\ shown' = [u \in Turn |-> shown'[u]]
      /\ \A u \in Turn : shown'[u] \in ViewsOf(u, Known(u))
  BY <1>1, BlankKnown, ShowsOne
<1>6. AllRuns' /\ Streams' /\ Targets' /\ Records' /\ Shown'
  BY <1>1, <1>4, <1>5, StaysTold, ShowsKnown
<1> QED
  BY <1>3, <1>6 DEF EInv

LEMMA SubmitEvidence ==
  ASSUME EInv, NEW t \in Turn, Submit(t)
  PROVE  EInv'
<1>1. /\ record' = record /\ chatTurns' = chatTurns /\ toView' = toView
      /\ run[t].pc = "new" /\ t \in Run
      /\ run' = [run EXCEPT ![t].pc = "asked", ![t].number = nextTurn]
  BY DEF Submit, Run
<1>2. PICK y : y = run[t]
  OBVIOUS
<1>3. IsRun(y) /\ y.target \in Turn \cup {None}
  BY <1>1, <1>2 DEF EInv, AllRuns, Targets
<1>4. PICK x : x = [y EXCEPT !.pc = "asked", !.number = nextTurn]
  OBVIOUS
<1>5. /\ IsRun(x) /\ x.pc = "asked" /\ x.target = y.target
      /\ x.read = y.read /\ x.buffer = y.buffer
  BY <1>3, <1>4 DEF IsRun
<1>6. run' = [run EXCEPT ![t] = x]
  BY <1>1, <1>2, <1>4
<1>7. Moved(t, x)
  BY <1>1, <1>2, <1>3, <1>5, <1>6 DEF Moved
<1>8. SameEvidence /\ chatTurns' \subseteq Turn
  BY <1>1, SameRecord DEF EInv, Targets
<1>9. /\ AllRuns' /\ Streams' /\ Targets' /\ Records' /\ KnowsMore
      /\ run'[t] = x /\ \A s \in Run \ {t} : run'[s] = run[s]
  BY <1>1, <1>7, <1>8, OneMoves
<1>10. run'[t].pc = "asked" /\ \A u \in Turn \ {t} : run'[u] = run[u]
  BY <1>5, <1>9 DEF Run
<1>11. t \notin cards /\ \A i \in 1 .. Len(toHost) : ~Sends(i, t)
  BY <1>1 DEF EInv, Sent
<1>12. /\ Sent' /\ shown' = [u \in Turn |-> shown'[u]]
       /\ \A u \in Turn : shown'[u] \in ViewsOf(u, Known(u))
  <2>1. CASE startTurn(t) /\ UNCHANGED cards
    <3>1. /\ cards' \subseteq cards \ {t}
          /\ shown' = [shown EXCEPT ![t] = Blank]
          /\ toHost' = Append(toHost, [kind |-> "sendChatTurn", turn |-> t])
      BY <1>11, <2>1 DEF startTurn, Send
    <3> QED
      BY <1>10, <1>11, <3>1, SendsTurn, BlankKnown, ShowsOne
  <2>2. CASE cards' = cards \cup {t} /\ UNCHANGED <<turns, shown, busy, toHost>>
    <3>1. shown' = shown /\ toHost' = toHost
      BY <2>2
    <3>2. \A u \in cards' \cap Turn : run'[u].pc = "asked"
      BY <1>10, <2>2 DEF EInv, Sent
    <3>3. \A i : \A u : Sends(i, u)' <=> Sends(i, u)
      BY <3>1 DEF Sends
    <3>4. ASSUME NEW i \in 1 .. Len(toHost), NEW u \in Turn, Sends(i, u)
          PROVE  /\ run'[u].pc = "asked"
                 /\ u \notin cards'
                 /\ \A j \in 1 .. Len(toHost) : Sends(j, u) => i = j
      <4>1. u # t
        BY <1>11, <3>4
      <4>2. /\ run[u].pc = "asked" /\ u \notin cards
            /\ \A j \in 1 .. Len(toHost) : Sends(j, u) => i = j
        BY <3>4 DEF EInv, Sent
      <4> QED
        BY <1>10, <2>2, <4>1, <4>2
    <3>5. toHost' \in Seq(Asks)
      BY <3>1 DEF EInv, Sent
    <3>6. Sent'
      BY <3>1, <3>2, <3>3, <3>4, <3>5 DEF Sent
    <3> QED
      BY <3>1, <3>6, ShowsTheSame
  <2> QED
    BY <2>1, <2>2 DEF Submit
<1>13. Shown'
  <2>1. \A u \in Turn : Known(u)' = Known(u)
    BY <1>8, SameKnown
  <2>2. \A u \in Turn : shown'[u] \in ViewsOf(u, Known(u)')
    BY <1>12, <2>1
  <2>3. toView' \in Seq(Tellings')
    BY <1>1, <1>9, NoNotice, Posted
  <2> QED
    BY <1>12, <2>2, <2>3 DEF Shown
<1> QED
  BY <1>9, <1>12, <1>13 DEF EInv

LEMMA ClicksVerifyEvidence ==
  ASSUME EInv, NEW t \in Turn, ClicksVerify(t)
  PROVE  EInv'
<1>1. PICK m : m = [kind |-> "verifyChatTurn", turn |-> t]
  OBVIOUS
<1>2. m \in Asks /\ m.kind # "sendChatTurn"
  BY <1>1 DEF Asks
<1>3. /\ run' = run /\ record' = record /\ chatTurns' = chatTurns
      /\ toView' = toView /\ cards' = cards /\ shown' = shown
      /\ toHost' = Append(toHost, m)
  BY <1>1 DEF ClicksVerify, Send, view, host
<1>4. Sent'
  BY <1>2, <1>3, SendsOther
<1>5. SameEvidence /\ chatTurns' \subseteq Turn
  BY <1>3, SameRecord DEF EInv, Targets
<1>6. AllRuns' /\ Streams' /\ Targets' /\ Records' /\ Shown'
  BY <1>3, <1>5, ShowsTheSame, StaysTold, ShowsKnown
<1> QED
  BY <1>4, <1>6 DEF EInv

LEMMA requestNewSessionEvidence ==
  ASSUME EInv, requestNewSession
  PROVE  EInv'
<1>1. PICK m : m = [kind |-> "newSession", turn |-> None]
  OBVIOUS
<1>2. m \in Asks /\ m.kind # "sendChatTurn"
  BY <1>1 DEF Asks
<1>3. /\ run' = run /\ record' = record /\ chatTurns' = chatTurns
      /\ toView' = toView /\ cards' = {} /\ shown' = [t \in Turn |-> Blank]
      /\ toHost' = Append(toHost, m)
  BY <1>1 DEF requestNewSession, setEmpty, Forgets, Send, host
<1>4. Sent'
  BY <1>2, <1>3, SendsOther
<1>5. SameEvidence /\ chatTurns' \subseteq Turn
  BY <1>3, SameRecord DEF EInv, Targets
<1>6. AllRuns' /\ Streams' /\ Targets' /\ Records' /\ Shown'
  BY <1>3, <1>5, ShowsNothing, StaysTold, ShowsKnown
<1> QED
  BY <1>4, <1>6 DEF EInv

LEMMA ViewClosesEvidence ==
  ASSUME EInv, ViewCloses
  PROVE  EInv'
<1>1. /\ run' = run /\ record' = record /\ chatTurns' = chatTurns
      /\ toView' = <<>> /\ cards' = {} /\ shown' = [t \in Turn |-> Blank]
      /\ toHost' = <<>>
  BY DEF ViewCloses, setEmpty, Forgets
<1>2. Sent'
  BY <1>1 DEF Sent
<1>3. SameEvidence /\ chatTurns' \subseteq Turn
  BY <1>1, SameRecord DEF EInv, Targets
<1>4. toView' \in Seq(Tellings)
  BY <1>1
<1>5. AllRuns' /\ Streams' /\ Targets' /\ Records' /\ Shown'
  BY <1>1, <1>3, <1>4, ShowsNothing, ShowsKnown
<1> QED
  BY <1>2, <1>5 DEF EInv

\* What the webview is told of a turn is what the host has of it.
LEMMA Told ==
  ASSUME NEW m \in Tellings, m.kind \in Showings
  PROVE  m.turn \in Turn /\ m.view \in ViewsOf(m.turn, Known(m.turn))
  BY DEF Tellings, Showings, Notices

LEMMA ViewReceivesEvidence ==
  ASSUME EInv, ViewReceives
  PROVE  EInv'
<1>1. /\ run' = run /\ record' = record /\ chatTurns' = chatTurns
      /\ toView # <<>> /\ toView' = Tail(toView) /\ toHost' = toHost
  BY DEF ViewReceives, host
<1>2. Head(toView) \in Tellings /\ toView' \in Seq(Tellings)
  <2>1. toView \in Seq(Tellings)
    BY DEF EInv, Shown
  <2> QED
    BY <1>1, <2>1, HeadTailProperties
<1>3. PICK m \in Tellings : m = Head(toView)
  BY <1>2
<1>4. \/ m.kind \in Showings /\ Shows(m.turn, m.view) /\ cards' = cards
      \/ shown' = shown /\ cards' = cards
      \/ Forgets
  BY <1>3 DEF ViewReceives, setEmpty, Showings
<1>5. /\ shown' = [u \in Turn |-> shown'[u]]
      /\ \A u \in Turn : shown'[u] \in ViewsOf(u, Known(u))
  <2>1. CASE m.kind \in Showings /\ Shows(m.turn, m.view)
    <3>1. m.turn \in Turn /\ m.view \in ViewsOf(m.turn, Known(m.turn))
      BY <2>1, Told
    <3>2. \/ shown' = [shown EXCEPT ![m.turn] = m.view]
          \/ shown' = shown
      BY <2>1 DEF Shows
    <3> QED
      BY <3>1, <3>2, ShowsOne, ShowsTheSame
  <2>2. CASE shown' = shown
    BY <2>2, ShowsTheSame
  <2>3. CASE Forgets
    BY <2>3, ShowsNothing DEF Forgets
  <2> QED
    BY <1>4, <2>1, <2>2, <2>3
<1>6. Sent'
  <2>1. cards' \subseteq cards
    BY <1>4 DEF Forgets
  <2> QED
    BY <1>1, <2>1, SameSent
<1>7. SameEvidence /\ chatTurns' \subseteq Turn
  BY <1>1, SameRecord DEF EInv, Targets
<1>8. AllRuns' /\ Streams' /\ Targets' /\ Records' /\ Shown'
  BY <1>1, <1>2, <1>5, <1>7, ShowsKnown
<1> QED
  BY <1>6, <1>8 DEF EInv

-----------------------------------------------------------------------------
(* What the host does with a message.                                      *)

\* The host takes the first message, and at most its turn moves.
LEMMA TakesMessage ==
  ASSUME EInv, toHost # <<>>, toHost' = Tail(toHost), cards' = cards,
         \A t \in Turn : run'[t] = run[t] \/ Sends(1, t)
  PROVE  Sent'
<1>1. toHost \in Seq(Asks)
  BY DEF EInv, Sent
<1>2. /\ toHost' \in Seq(Asks) /\ Len(toHost') = Len(toHost) - 1
      /\ \A i \in 1 .. Len(toHost') : toHost'[i] = toHost[i + 1]
  BY <1>1, HeadTailProperties
<1>3. Len(toHost) \in Nat /\ Len(toHost) > 0
  BY <1>1
<1>4. \A i \in 1 .. Len(toHost') : \A t : Sends(i, t)' <=> Sends(i + 1, t)
  BY <1>2 DEF Sends
<1>5. 1 \in 1 .. Len(toHost)
      /\ \A i \in 1 .. Len(toHost') : i + 1 \in 1 .. Len(toHost) /\ i + 1 # 1
  BY <1>2, <1>3
<1>6. ASSUME NEW t \in cards' \cap Turn
      PROVE  run'[t].pc = "asked"
  <2>1. run[t].pc = "asked" /\ ~Sends(1, t)
    BY <1>5 DEF EInv, Sent
  <2> QED
    BY <2>1
<1>7. ASSUME NEW i \in 1 .. Len(toHost'), NEW t \in Turn, Sends(i, t)'
      PROVE  /\ run'[t].pc = "asked"
             /\ t \notin cards'
             /\ \A j \in 1 .. Len(toHost') : Sends(j, t)' => i = j
  <2>1. Sends(i + 1, t) /\ i + 1 \in 1 .. Len(toHost) /\ i + 1 # 1
    BY <1>4, <1>5, <1>7
  <2>2. /\ run[t].pc = "asked" /\ t \notin cards
        /\ \A j \in 1 .. Len(toHost) : Sends(j, t) => i + 1 = j
    BY <2>1 DEF EInv, Sent
  <2>3. ~Sends(1, t)
    BY <1>5, <2>1, <2>2
  <2>4. \A j \in 1 .. Len(toHost') : Sends(j, t)' => i + 1 = j + 1
    BY <1>4, <1>5, <2>2
  <2>5. \A j \in 1 .. Len(toHost') : Sends(j, t)' => i = j
    BY <2>4
  <2> QED
    BY <2>2, <2>3, <2>5
<1> QED
  BY <1>2, <1>6, <1>7 DEF Sent

LEMMA TakesTurnEvidence ==
  ASSUME EInv, NEW t \in Turn, TakesTurn(t), Sends(1, t),
         toHost # <<>>, toHost' = Tail(toHost), cards' = cards, shown' = shown
  PROVE  EInv'
<1>1. /\ t \in Run /\ record' = record /\ chatTurns' = chatTurns
      /\ toView' = toView
  BY DEF TakesTurn, Run
<1>2. SameEvidence /\ chatTurns' \subseteq Turn
  BY <1>1, SameRecord DEF EInv, Targets
<1>3. run[t].pc = "asked"
  <2>1. toHost \in Seq(Asks)
    BY DEF EInv, Sent
  <2>2. 1 \in 1 .. Len(toHost)
    BY <2>1
  <2> QED
    BY <2>2 DEF EInv, Sent
<1>4. PICK x : Moved(t, x)
  <2>1. CASE run' = [run EXCEPT ![t] = Ended(@.number)]
    BY <1>1, <2>1, Ending
  <2>2. CASE Goto(t, "tasks")
    BY <1>1, <1>3, <2>2, Going
  <2> QED
    BY <2>1, <2>2 DEF TakesTurn
<1>5. /\ AllRuns' /\ Streams' /\ Targets' /\ Records' /\ KnowsMore
      /\ \A s \in Run \ {t} : run'[s] = run[s]
  BY <1>1, <1>2, <1>4, OneMoves
<1>6. Sent'
  <2>1. \A u \in Turn : run'[u] = run[u] \/ Sends(1, u)
    BY <1>5 DEF Run
  <2> QED
    BY <2>1, TakesMessage
<1>7. Shown'
  BY <1>1, <1>5, NoNotice, Posted, ShownStays
<1> QED
  BY <1>5, <1>6, <1>7 DEF EInv

\* The host posts at most messages that it may, and leaves its runs alone.
LEMMA HostTells ==
  ASSUME EInv, run' = run, SameEvidence, chatTurns' \subseteq Turn,
         shown' = shown, NEW s \in Seq(Tellings'),
         \/ toView' = toView \o s
         \/ toView' = toView
  PROVE  AllRuns' /\ Streams' /\ Targets' /\ Records' /\ Shown'
<1>1. AllRuns' /\ Streams' /\ Targets' /\ Records' /\ KnowsMore
  BY SameRecords
<1>2. toView' \in Seq(Tellings')
  BY <1>1, Posted
<1>3. Shown'
  BY <1>1, <1>2, ShownStays
<1> QED
  BY <1>1, <1>3

LEMMA handleSessionMessageEvidence ==
  ASSUME EInv, handleSessionMessage
  PROVE  EInv'
<1>1. /\ toHost # <<>> /\ toHost' = Tail(toHost)
      /\ cards' = cards /\ shown' = shown
  BY DEF handleSessionMessage, view
<1>2. Head(toHost) \in Asks /\ Head(toHost) = toHost[1]
  <2>1. toHost \in Seq(Asks)
    BY DEF EInv, Sent
  <2> QED
    BY <1>1, <2>1, HeadTailProperties
<1>3. PICK m \in Asks : m = Head(toHost)
  BY <1>2
<1>4. \/ m.kind = "sendChatTurn" /\ TakesTurn(m.turn)
      \/ m.kind = "verifyChatTurn" /\ verifyChatTurn(m.turn)
      \/ m.kind = "newSession" /\ startNewChatSession
  BY <1>3 DEF handleSessionMessage
<1>5. CASE m.kind = "sendChatTurn" /\ TakesTurn(m.turn)
  <2>1. m.turn \in Turn
    BY <1>5 DEF Asks
  <2>2. Sends(1, m.turn)
    BY <1>2, <1>3, <1>5 DEF Sends
  <2> QED
    BY <1>1, <1>5, <2>1, <2>2, TakesTurnEvidence
<1>6. CASE m.kind = "verifyChatTurn" /\ verifyChatTurn(m.turn)
  <2>1. m.turn \in Turn
    BY <1>6 DEF Asks
  <2>2. /\ run' = run /\ record' = record /\ chatTurns' = chatTurns
        /\ \/ toView' = toView
           \/ toView' = toView \o <<Message("chatError", m.turn)>>
    BY <1>6 DEF verifyChatTurn, Post
  <2>3. <<Message("chatError", m.turn)>> \in Seq(Tellings')
    BY <2>1, NoticeLater DEF Notices
  <2>4. SameEvidence /\ chatTurns' \subseteq Turn
    BY <2>2, SameRecord DEF EInv, Targets
  <2>5. AllRuns' /\ Streams' /\ Targets' /\ Records' /\ Shown'
    BY <1>1, <2>2, <2>3, <2>4, HostTells
  <2>6. Sent'
    BY <1>1, <2>2, TakesMessage
  <2> QED
    BY <2>5, <2>6 DEF EInv
<1>7. CASE m.kind = "newSession" /\ startNewChatSession
  <2>1. /\ run' = run /\ record' = record /\ chatTurns' = {}
        /\ toView' = toView
    BY <1>7 DEF startNewChatSession
  <2>2. SameEvidence /\ chatTurns' \subseteq Turn
    BY <2>1, SameRecord
  <2>3. AllRuns' /\ Streams' /\ Targets' /\ Records' /\ Shown'
    BY <1>1, <2>1, <2>2, NoNotice, HostTells
  <2>4. Sent'
    BY <1>1, <2>1, TakesMessage
  <2> QED
    BY <2>3, <2>4 DEF EInv
<1> QED
  BY <1>4, <1>5, <1>6, <1>7

LEMMA TellsOfNewSessionEvidence ==
  ASSUME EInv, TellsOfNewSession
  PROVE  EInv'
<1>1. /\ run' = run /\ record' = record /\ chatTurns' = chatTurns
      /\ cards' = cards /\ shown' = shown /\ toHost' = toHost
  BY DEF TellsOfNewSession, view
<1>2. PICK kind \in Notices : toView' = toView \o <<Message(kind, None)>>
  BY DEF TellsOfNewSession, Post, Notices
<1>3. <<Message(kind, None)>> \in Seq(Tellings')
  BY NoticeLater
<1>4. SameEvidence /\ chatTurns' \subseteq Turn
  BY <1>1, SameRecord DEF EInv, Targets
<1>5. AllRuns' /\ Streams' /\ Targets' /\ Records' /\ Shown'
  BY <1>1, <1>2, <1>3, <1>4, HostTells
<1>6. Sent'
  BY <1>1, SameSent
<1> QED
  BY <1>5, <1>6 DEF EInv

LEMMA VerificationAnsweredEvidence ==
  ASSUME EInv, NEW t \in Turn, VerificationAnswered(t)
  PROVE  EInv'
<1>1. /\ run' = run /\ chatTurns' = chatTurns
      /\ cards' = cards /\ shown' = shown /\ toHost' = toHost
  BY DEF VerificationAnswered, view
<1>2. SameEvidence /\ \E s \in Seq(Tellings') : toView' = toView \o s
  <2>1. CASE Verified(t)
    BY <2>1, VerifiedEvidence
  <2>2. CASE Post(<<Message("error", None)>>) /\ UNCHANGED record
    <3>1. <<Message("error", None)>> \in Seq(Tellings')
      BY NoticeLater DEF Notices
    <3> QED
      BY <2>2, <3>1, SameRecord DEF Post
  <2> QED
    BY <2>1, <2>2 DEF VerificationAnswered
<1>3. chatTurns' \subseteq Turn
  BY <1>1 DEF EInv, Targets
<1>4. AllRuns' /\ Streams' /\ Targets' /\ Records' /\ Shown'
  BY <1>1, <1>2, <1>3, HostTells
<1>5. Sent'
  BY <1>1, SameSent
<1> QED
  BY <1>4, <1>5 DEF EInv

LEMMA runChatTurnEvidence ==
  ASSUME EInv, NEW t \in Turn, runChatTurn(t)
  PROVE  EInv'
  BY ResolvesAffordancesEvidence, RunsEvidence, VerifiesTargetEvidence
  DEF runChatTurn, Run

\* Nothing but the AbortControllers and the bound.
LEMMA LeavesEvidence ==
  ASSUME EInv, run' = run, record' = record, chatTurns' = chatTurns,
         cards' = cards, shown' = shown, toHost' = toHost, toView' = toView
  PROVE  EInv'
<1>1. SameEvidence /\ chatTurns' \subseteq Turn
  BY SameRecord DEF EInv, Targets
<1>2. AllRuns' /\ Streams' /\ Targets' /\ Records' /\ Shown'
  BY <1>1, NoNotice, HostTells
<1>3. Sent'
  BY SameSent
<1> QED
  BY <1>2, <1>3 DEF EInv

-----------------------------------------------------------------------------
LEMMA InitEvidence == Init => EInv
<1> SUFFICES ASSUME Init
             PROVE  EInv
  OBVIOUS
<1>1. /\ run = [r \in Run |-> NoRun] /\ cards = {} /\ chatTurns = {}
      /\ toHost = <<>> /\ toView = <<>> /\ shown = [t \in Turn |-> Blank]
      /\ record = [t \in Turn |-> [session |-> None, view |-> Blank]]
  BY DEF Init
<1>2. PICK x : x = NoRun
  OBVIOUS
<1>3. IsRun(x) /\ x.pc = "new" /\ x.read = 0 /\ x.buffer = <<>>
      /\ x.target = None
  BY <1>2 DEF NoRun, IsRun
<1>4. \A r \in Run : run[r] = x
  BY <1>1, <1>2
<1>5. AllRuns
  <2>1. run = [r \in Run |-> run[r]]
    BY <1>1
  <2> QED
    BY <1>3, <1>4, <2>1 DEF AllRuns
<1>6. Streams
  <2>1. \A r \in Run : Partly(r, 0) = <<>>
    BY DEF Partly
  <2> QED
    BY <1>3, <1>4, <2>1, EvidenceIsNat DEF Streams
<1>7. Targets
  BY <1>1, <1>3, <1>4 DEF Targets
<1>8. Records
  <2>1. record = [t \in Turn |-> record[t]]
    BY <1>1
  <2>2. PICK b : b = Blank
    OBVIOUS
  <2>3. b.events = <<>> /\ b.sealed = FALSE
    BY <2>2 DEF Blank
  <2>4. ASSUME NEW t \in Turn
        PROVE  /\ record[t] \in [session : {None, t},
                                 view : ViewsOf(t, Evidence)]
               /\ run[t].pc # "ended" =>
                    /\ record[t].view.events
                         = Events(t, Upto(Whole(run[t].read)))
                    /\ record[t].view.sealed <=> Whole(run[t].read) = Seal
    <3>1. record[t] = [session |-> None, view |-> b]
      BY <1>1, <2>2
    <3>2. b \in ViewsOf(t, Evidence)
      BY <2>2, BlankView, EvidenceIsNat
    <3>3. record[t] \in [session : {None, t}, view : ViewsOf(t, Evidence)]
      BY <3>1, <3>2
    <3>4. run[t].read = 0 /\ t \in Run
      BY <1>3, <1>4 DEF Run
    <3>5. Whole(0) = 0
      BY DEF Whole
    <3>6. Upto(0) = 0 /\ Seal # 0
      BY EvidenceIsNat DEF Upto, Seal
    <3>7. Events(t, 0) = <<>>
      BY DEF Events
    <3> QED
      BY <2>3, <3>1, <3>3, <3>4, <3>5, <3>6, <3>7
  <2> QED
    BY <2>1, <2>4 DEF Records
<1>9. Shown
  <2>1. toView \in Seq(Tellings)
    BY <1>1
  <2>2. \A t \in Turn : Known(t) \in Nat
    BY <1>8, KnownOf, EvidenceIsNat
  <2>3. \A t \in Turn : shown[t] \in ViewsOf(t, Known(t))
    BY <1>1, <2>2, BlankView
  <2>4. shown = [t \in Turn |-> shown[t]]
    BY <1>1
  <2> QED
    BY <2>1, <2>3, <2>4 DEF Shown
<1>10. Sent
  BY <1>1 DEF Sent
<1> QED
  BY <1>5, <1>6, <1>7, <1>8, <1>9, <1>10 DEF EInv

LEMMA StepEvidence == EInv /\ [Next]_vars => EInv'
<1> SUFFICES ASSUME EInv, [Next]_vars
             PROVE  EInv'
  OBVIOUS
<1>1. ASSUME NEW t \in Turn, Submit(t) \/ Approve(t) \/ ClicksVerify(t)
      PROVE  EInv'
  BY <1>1, SubmitEvidence, ApproveEvidence, ClicksVerifyEvidence
<1>2. CASE requestNewSession \/ ViewCloses \/ ViewReceives
  BY <1>2, requestNewSessionEvidence, ViewClosesEvidence, ViewReceivesEvidence
<1>3. CASE handleSessionMessage \/ TellsOfNewSession
  BY <1>3, handleSessionMessageEvidence, TellsOfNewSessionEvidence
<1>4. ASSUME NEW t \in Turn, VerificationAnswered(t)
      PROVE  EInv'
  BY <1>4, VerificationAnsweredEvidence
<1>5. ASSUME NEW t \in Turn, runChatTurn(t)
      PROVE  EInv'
  BY <1>5, runChatTurnEvidence
<1>6. ASSUME NEW k \in Task, runTask(k)
      PROVE  EInv'
  BY <1>6, RunsEvidence DEF runTask, Run
<1>7. ASSUME NEW r \in Run, Fails(r)
      PROVE  EInv'
  BY <1>7, FailsEvidence
<1>8. CASE Cancels
  BY <1>8, LeavesEvidence DEF Cancels, view
<1>9. CASE UNCHANGED vars
  BY <1>9, LeavesEvidence DEF vars, view, host
<1> QED
  BY <1>1, <1>2, <1>3, <1>4, <1>5, <1>6, <1>7, <1>8, <1>9 DEF Next

LEMMA EvidenceFollows == EInv => EvidenceInPlace
<1> SUFFICES ASSUME EInv, NEW t \in Turn
             PROVE  /\ IsOf(t, record[t].view)
                    /\ IsOf(t, shown[t])
                    /\ Len(shown[t].events) <= Len(record[t].view.events)
  BY DEF EvidenceInPlace
<1>1. ASSUME NEW v, NEW m \in 0 .. Evidence, v \in ViewsOf(t, m)
      PROVE  IsOf(t, v) /\ Len(v.events) <= m
  <2>1. PICK n \in 0 .. m : v.events = Events(t, n)
    BY <1>1, ViewFields, EvidenceIsNat
  <2>2. n \in Nat /\ n <= m
    BY <2>1
  <2>3. Len(v.events) = n
    BY <2>1, <2>2, EventsLength
  <2>4. v.events = [i \in 1 .. Len(v.events) |-> <<t, i>>]
    BY <2>1, <2>3 DEF Events
  <2>5. v.sealed => Len(v.events) = Evidence
    <3>1. v.sealed => v.events = Events(t, Evidence)
      BY <1>1, ViewFields, EvidenceIsNat
    <3> QED
      BY <3>1, EventsLength, EvidenceIsNat
  <2>6. v.verify \in {None, t}
    BY <1>1, ViewFields, EvidenceIsNat
  <2> QED
    BY <2>2, <2>3, <2>4, <2>5, <2>6 DEF IsOf
<1>2. record[t].view \in ViewsOf(t, Evidence) /\ Evidence \in 0 .. Evidence
  <2>1. record[t].view \in ViewsOf(t, Evidence)
    BY RecordFields DEF EInv
  <2>2. Evidence \in 0 .. Evidence
    BY EvidenceIsNat
  <2> QED
    BY <2>1, <2>2
<1>3. Known(t) \in 0 .. Evidence /\ shown[t] \in ViewsOf(t, Known(t))
  BY KnownOf DEF EInv, Shown
<1>4. IsOf(t, record[t].view)
  BY <1>1, <1>2
<1>5. IsOf(t, shown[t]) /\ Len(shown[t].events) <= Known(t)
  BY <1>1, <1>3
<1> QED
  BY <1>4, <1>5 DEF Known

\* However the daemon's stream is cut in chunks, in what order runs, aborts and
\* messages meet, and however often the view is closed or renewed: what the host
\* has of a turn and what the webview shows of it is that turn's evidence in
\* order, all of it once it is sealed, and the webview is never ahead of the
\* host (extension.ts and client.ts of the IDE).
THEOREM EvidenceStaysInPlace == Spec => []EvidenceInPlace
  BY InitEvidence, StepEvidence, EvidenceFollows, PTL DEF Spec
=============================================================================
