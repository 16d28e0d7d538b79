----------------------------- MODULE IdeClient -----------------------------
(***************************************************************************)
(* The chat of the VS Code extension: the webview (ide/media/webview.js),  *)
(* the extension host (ide/src/extension.ts) and the daemon's event stream *)
(* as the host reads it (ide/src/client.ts).                               *)
(*                                                                         *)
(* The host is one thread; a step of it runs from one await to the next.   *)
(* A chat turn is a run that the webview asks for, a task is a run of a    *)
(* command, and both share one AbortController, `abort`.  The two sides    *)
(* send each other messages that arrive in order.                          *)
(***************************************************************************)
EXTENDS Integers, Sequences, FiniteSets, TLC

CONSTANTS
  Turn,        \* the chat turns
  Task,        \* the runs of commands
  Evidence,    \* how many events a session has before its seal
  MaxClicks,   \* bounds the clicks on Verify and New Session, the views closed
               \* and the cancellations
  InFlight     \* bounds the messages on their way to the webview

ASSUME BoundsAssumption ==
  /\ Evidence \in Nat \ {0}
  /\ MaxClicks \in Nat
  /\ InFlight \in Nat \ {0}

ASSUME RunsAssumption ==
  /\ "none" \notin Turn \cup Task
  /\ Turn \cap Task = {}

VARIABLES
  \* The webview.
  busy,       \* is the composer disabled?
  nextTurn,   \* numbers the turns of a conversation
  cards,      \* the turns that wait for Approve and Run
  turns,      \* the turns it has
  shown,      \* what it shows of each
  legacy,     \* does it have a turn for the task of a command?
  \* The messages between the webview and the host.
  toHost, toView,
  \* The host.
  chatTurns,  \* the turns in its map
  record,     \* its record of each turn
  chatRun,    \* the turn it runs
  run,        \* where each run is
  abort,      \* the run that made the current AbortController
  aborted,    \* the runs whose AbortController was aborted
  renewing,   \* is it about to tell the webview of a new session?
  checking,   \* the turns whose verification the daemon has not answered
  \* The bound.
  clicks

view == <<busy, nextTurn, cards, turns, shown, legacy>>
host == <<chatTurns, record, chatRun, run, abort, aborted, renewing, checking>>
vars == <<view, toHost, toView, host, clicks>>

-----------------------------------------------------------------------------
Run == Turn \cup Task

None == "none"

\* What there is to show of a turn: its evidence, is it sealed, its verdict's
\* session.
Blank == [events |-> <<>>, sealed |-> FALSE, verify |-> None]

NoRun == [pc |-> "new", number |-> 0, target |-> None, signal |-> None,
          read |-> 0, buffer |-> <<>>]
Ended(number) == [NoRun EXCEPT !.pc = "ended", !.number = number]

Init ==
  /\ busy = FALSE
  /\ nextTurn = 1
  /\ cards = {}
  /\ turns = {}
  /\ shown = [t \in Turn |-> Blank]
  /\ legacy = FALSE
  /\ toHost = <<>>
  /\ toView = <<>>
  /\ chatTurns = {}
  /\ record = [t \in Turn |-> [session |-> None, view |-> Blank]]
  /\ chatRun = None
  /\ run = [r \in Run |-> NoRun]
  /\ abort = None
  /\ aborted = {}
  /\ renewing = FALSE
  /\ checking = {}
  /\ clicks = 0

-----------------------------------------------------------------------------
(* The event stream.                                                       *)

\* A session's frames, the last of which is its seal, in two characters each:
\* the data line with its newline, and the newline that ends the frame.
Seal == Evidence + 1
Wire(r) ==
  [i \in 1 .. 2 * Seal |-> <<r, IF i % 2 = 1 THEN i \div 2 + 1 ELSE 0>>]
EndsFrame(c) == c[2] = 0

\* The data line of a chunk, which may have none.
DataLine(chunk) == IF chunk = <<>> THEN <<>> ELSE <<Head(chunk)>>

\* The frames that end in the buffer, each the line before its end, and what
\* comes after the last of them.
Drained(buffer) ==
  LET upTo[i \in 0 .. Len(buffer)] ==
        IF i = 0 THEN [frames |-> <<>>, rest |-> <<>>]
        ELSE IF EndsFrame(buffer[i])
        THEN [frames |-> upTo[i - 1].frames \o DataLine(upTo[i - 1].rest),
              rest |-> <<>>]
        ELSE [frames |-> upTo[i - 1].frames,
              rest |-> Append(upTo[i - 1].rest, buffer[i])]
  IN upTo[Len(buffer)]

\* Mutant: a frame that is not complete is thrown away.
DrainForgets(buffer) == [Drained(buffer) EXCEPT !.rest = <<>>]

\* The frames in the buffer, and the tail to keep.
drainSSE(buffer) == Drained(buffer)

-----------------------------------------------------------------------------
(* The webview.                                                            *)

Send(message) == toHost' = Append(toHost, message)
Post(messages) ==
  /\ Len(toView) < InFlight
  /\ toView' = toView \o messages

Message(kind, t) == [kind |-> kind, turn |-> t, view |-> Blank]
Showing(kind, t, what) == [kind |-> kind, turn |-> t, view |-> what]

Goto(r, pc) == run' = [run EXCEPT ![r].pc = pc]

Clicks == clicks < MaxClicks /\ clicks' = clicks + 1

startTurn(t) ==
  /\ turns' = turns \cup {t}
  /\ shown' = [shown EXCEPT ![t] = Blank]
  /\ busy' = TRUE
  /\ Send([kind |-> "sendChatTurn", turn |-> t])

\* The form is submitted: a turn, or with autopilot off a card.
Submit(t) ==
  /\ ~busy
  /\ run[t].pc = "new"
  /\ nextTurn' = nextTurn + 1
  /\ run' = [run EXCEPT ![t].pc = "asked", ![t].number = nextTurn]
  /\ \/ startTurn(t) /\ UNCHANGED cards
     \/ cards' = cards \cup {t} /\ UNCHANGED <<turns, shown, busy, toHost>>
  /\ UNCHANGED <<legacy, toView, chatTurns, record, chatRun, abort, aborted,
                 renewing, checking, clicks>>

\* A card can be approved while another turn runs.
Approve(t) ==
  /\ t \in cards
  /\ cards' = cards \ {t}
  /\ startTurn(t)
  /\ UNCHANGED <<nextTurn, legacy, toView, host, clicks>>

ClicksVerify(t) ==
  /\ t \in turns
  /\ Clicks
  /\ Send([kind |-> "verifyChatTurn", turn |-> t])
  /\ UNCHANGED <<view, toView, host>>

Forgets ==
  /\ turns' = {}
  /\ shown' = [t \in Turn |-> Blank]
  /\ cards' = {}

setEmpty ==
  /\ Forgets
  /\ nextTurn' = 1
  /\ legacy' = FALSE
  /\ busy' = FALSE

requestNewSession ==
  /\ Clicks
  /\ setEmpty
  /\ Send([kind |-> "newSession", turn |-> None])
  /\ UNCHANGED <<toView, host>>

\* The messages about a turn that the webview does not have say nothing to it.
Shows(t, what) ==
  /\ shown' = IF t \in turns THEN [shown EXCEPT ![t] = what] ELSE shown
  /\ UNCHANGED turns

ViewReceives ==
  /\ toView # <<>>
  /\ toView' = Tail(toView)
  /\ LET message == Head(toView)
         t == message.turn
     IN
     \/ /\ message.kind \in {"chatTurnEvent", "chatTurnVerified"}
        /\ Shows(t, message.view)
        /\ UNCHANGED <<busy, nextTurn, cards, legacy>>
     \/ /\ message.kind = "chatTurnSealed"
        /\ Shows(t, message.view)
        /\ busy' = IF t \in turns THEN FALSE ELSE busy
        /\ UNCHANGED <<nextTurn, cards, legacy>>
     \/ /\ message.kind \in {"chatError", "error"}
        /\ busy' = FALSE
        /\ UNCHANGED <<nextTurn, cards, turns, shown, legacy>>
     \/ /\ message.kind = "chatSessionReset"
        /\ setEmpty
     \/ /\ message.kind = "reset"
        /\ Forgets
        /\ nextTurn' = 2
        /\ legacy' = TRUE
        /\ busy' = TRUE
     \/ /\ message.kind = "sealed"
        /\ busy' = IF legacy THEN FALSE ELSE busy
        /\ UNCHANGED <<nextTurn, cards, turns, shown, legacy>>
  /\ UNCHANGED <<toHost, host, clicks>>

-----------------------------------------------------------------------------
(* The host: what it does with a message.                                  *)

\* abort?.abort()
Aborts == IF abort = None THEN aborted ELSE aborted \cup {abort}

\* The view is closed, and opened again when it is shown.
ViewCloses ==
  /\ Clicks
  /\ setEmpty
  /\ toHost' = <<>>
  /\ toView' = <<>>
  /\ aborted' = Aborts
  /\ UNCHANGED <<chatTurns, record, chatRun, run, abort, renewing, checking>>

\* A turn that is sent while another one runs is dropped.
TakesTurn(t) ==
  /\ IF chatRun # None
     THEN run' = [run EXCEPT ![t] = Ended(@.number)] /\ UNCHANGED chatRun
     ELSE Goto(t, "tasks") /\ chatRun' = t
  /\ UNCHANGED <<toView, chatTurns, record, abort, aborted, renewing, checking>>

verifyChatTurn(t) ==
  /\ IF t \in chatTurns /\ record[t].session # None
     THEN checking' = checking \cup {t} /\ UNCHANGED toView
     ELSE Post(<<Message("chatError", t)>>) /\ UNCHANGED checking
  /\ UNCHANGED <<chatTurns, record, chatRun, run, abort, aborted, renewing>>

startNewChatSession ==
  /\ aborted' = Aborts
  /\ chatTurns' = {}
  /\ renewing' = TRUE
  /\ UNCHANGED <<toView, record, chatRun, run, abort, checking>>

handleSessionMessage ==
  /\ toHost # <<>>
  /\ toHost' = Tail(toHost)
  /\ LET message == Head(toHost) IN
       \/ message.kind = "sendChatTurn" /\ TakesTurn(message.turn)
       \/ message.kind = "verifyChatTurn" /\ verifyChatTurn(message.turn)
       \/ message.kind = "newSession" /\ startNewChatSession
  /\ UNCHANGED <<view, clicks>>

\* The files are written, or one could not be.
TellsOfNewSession ==
  /\ renewing
  /\ renewing' = FALSE
  /\ \E kind \in {"chatSessionReset", "error"} : Post(<<Message(kind, None)>>)
  /\ UNCHANGED <<view, toHost, chatTurns, record, chatRun, run, abort, aborted,
                 checking, clicks>>

\* The verdict is of the session that the record names.
Verified(t) ==
  /\ record' = [record EXCEPT ![t].view.verify = record[t].session]
  /\ Post(<<Showing("chatTurnVerified", t, record'[t].view)>>)

VerificationAnswered(t) ==
  /\ t \in checking
  /\ checking' = checking \ {t}
  /\ \/ Verified(t)
     \/ Post(<<Message("error", None)>>) /\ UNCHANGED record
  /\ UNCHANGED <<view, toHost, chatTurns, chatRun, run, abort, aborted, renewing,
                 clicks>>

-----------------------------------------------------------------------------
(* The host: its runs.                                                     *)

Elsewhere == UNCHANGED <<view, toHost, renewing, checking, clicks>>

\* The promise of a turn settles, and so chatRun is cleared.
Ends(r) ==
  /\ run' = [run EXCEPT ![r] = Ended(@.number)]
  /\ chatRun' = IF r \in Turn THEN None ELSE chatRun

\* The catch of a run.
Fails(r) ==
  /\ run[r].pc \in {"create", "saved", "stream", "verify"}
  /\ Ends(r)
  /\ Post(<<Message(IF r \in Turn THEN "chatError" ELSE "error",
                    IF r \in Turn THEN r ELSE None)>>)
  /\ UNCHANGED <<chatTurns, record, abort, aborted>>
  /\ Elsewhere

\* The turn whose session is the latest in the map.
Latest ==
  LET sealed == {t \in chatTurns : record[t].session # None}
  IN {t \in sealed : \A u \in sealed : run[u].number <= run[t].number}

\* The affordances resolve, and the turn is in the map: /verify has a target.
ResolvesAffordances(t) ==
  /\ run[t].pc = "tasks"
  /\ \/ /\ \E target \in {None} \cup Latest :
             run' = [run EXCEPT ![t].pc = "recorded", ![t].target = target]
        /\ chatTurns' = chatTurns \cup {t}
        /\ UNCHANGED <<toView, chatRun>>
     \/ /\ Ends(t)
        /\ Post(<<Message("chatError", t)>>)
        /\ UNCHANGED chatTurns
  /\ UNCHANGED <<record, abort, aborted>>
  /\ Elsewhere

\* Mutant: the run before it goes on.
AbortsNone == aborted

\* A run aborts the run before it.
AbortsLast == Aborts

\* The view is revealed; the session is asked for.
Starts(r) ==
  /\ \/ r \in Turn /\ run[r].pc = "recorded" /\ UNCHANGED toView
     \/ r \in Task /\ run[r].pc = "new" /\ Post(<<Message("reset", None)>>)
  /\ aborted' = AbortsLast
  /\ abort' = r
  /\ Goto(r, "create")
  /\ UNCHANGED <<chatTurns, record, chatRun>>
  /\ Elsewhere

createSession(r) ==
  /\ run[r].pc = "create"
  /\ Goto(r, "saved")
  /\ record' = IF r \in Turn THEN [record EXCEPT ![r].session = r] ELSE record
  /\ UNCHANGED <<toView, chatTurns, chatRun, abort, aborted>>
  /\ Elsewhere

\* The state is written.  It is only now that `abort.signal` is read: it may be
\* of a later run's controller.
OpensStream(r) ==
  /\ run[r].pc = "saved"
  /\ run' = [run EXCEPT ![r].pc = "stream", ![r].signal = abort]
  /\ UNCHANGED <<toView, chatTurns, record, chatRun, abort, aborted>>
  /\ Elsewhere

\* onEvent, frame by frame.
Recorded(what, frame) ==
  IF frame[2] = Seal
  THEN [what EXCEPT !.sealed = TRUE, !.verify = frame[1]]
  ELSE [what EXCEPT !.events = Append(@, frame)]

After(what, frames) ==
  LET upTo[i \in 0 .. Len(frames)] ==
        IF i = 0 THEN what ELSE Recorded(upTo[i - 1], frames[i])
  IN [i \in 1 .. Len(frames) |-> upTo[i]]

Onto(r, frames) ==
  LET after == After(record[r].view, frames)
  IN IF r \in Turn /\ frames # <<>>
     THEN /\ record' = [record EXCEPT ![r].view = after[Len(frames)]]
          /\ Post([i \in 1 .. Len(frames) |->
                     Showing(IF frames[i][2] = Seal THEN "chatTurnSealed"
                             ELSE "chatTurnEvent", r, after[i])])
     ELSE /\ Post(IF \E i \in DOMAIN frames : frames[i][2] = Seal
                  THEN <<Message("sealed", None)>> ELSE <<>>)
          /\ UNCHANGED record

\* A chunk of any length is read.
ReadsChunk(r) ==
  /\ run[r].pc = "stream" /\ run[r].signal \notin aborted
  /\ \E n \in 1 .. Len(Wire(r)) - run[r].read :
       LET chunk == SubSeq(Wire(r), run[r].read + 1, run[r].read + n)
           drained == drainSSE(run[r].buffer \o chunk)
       IN /\ run' = [run EXCEPT ![r].read = @ + n, ![r].buffer = drained.rest]
          /\ Onto(r, drained.frames)
  /\ UNCHANGED <<chatTurns, chatRun, abort, aborted>>
  /\ Elsewhere

\* The daemon closes the stream, after the seal or before it.
StreamEnds(r) ==
  /\ run[r].pc = "stream" /\ run[r].signal \notin aborted
  /\ IF run[r].target \in chatTurns
     THEN Goto(r, "verify") /\ UNCHANGED <<toView, chatRun>>
     ELSE /\ Ends(r)
          /\ IF run[r].target = None
             THEN UNCHANGED toView
             ELSE Post(<<Message("chatError", run[r].target)>>)
  /\ UNCHANGED <<chatTurns, record, abort, aborted>>
  /\ Elsewhere

\* /verify, once the turn's own session has ended and the daemon has answered.
VerifiesTarget(t) ==
  /\ run[t].pc = "verify"
  /\ Verified(run[t].target)
  /\ Ends(t)
  /\ UNCHANGED <<chatTurns, abort, aborted>>
  /\ Elsewhere

\* The caller of the chat participant cancels.
Cancels ==
  /\ \E k \in Task : run[k].pc \in {"create", "saved", "stream"}
  /\ Clicks
  /\ aborted' = Aborts
  /\ UNCHANGED <<view, toHost, toView, chatTurns, record, chatRun, run, abort,
                 renewing, checking>>

Runs(r) ==
  \/ Starts(r) \/ createSession(r) \/ OpensStream(r)
  \/ ReadsChunk(r) \/ StreamEnds(r)

runChatTurn(t) == ResolvesAffordances(t) \/ Runs(t) \/ VerifiesTarget(t)

runTask(k) == Runs(k)

-----------------------------------------------------------------------------
Next ==
  \/ \E t \in Turn : Submit(t) \/ Approve(t) \/ ClicksVerify(t)
  \/ requestNewSession \/ ViewCloses \/ ViewReceives
  \/ handleSessionMessage \/ TellsOfNewSession
  \/ \E t \in Turn : VerificationAnswered(t)
  \/ \E t \in Turn : runChatTurn(t)
  \/ \E k \in Task : runTask(k)
  \/ \E r \in Run : Fails(r)
  \/ Cancels

Spec == Init /\ [][Next]_vars

\* Turns differ in nothing but their ids.
Alike == Permutations(Turn)

-----------------------------------------------------------------------------
(* Properties.                                                             *)

\* The evidence of a turn, so far and in order; all of it before the seal.
IsOf(t, what) ==
  /\ what.events = [i \in 1 .. Len(what.events) |-> <<t, i>>]
  /\ what.sealed => Len(what.events) = Evidence
  /\ what.verify \in {None, t}

\* However the stream is cut in chunks, and whatever is aborted, renewed, closed
\* or verified meanwhile: the host's record of a turn and what the webview shows
\* of it are the turn's own evidence in order, none missing once it is sealed,
\* with a verdict of its own session; and the webview is never ahead of the host.
EvidenceInPlace ==
  \A t \in Turn :
    /\ IsOf(t, record[t].view)
    /\ IsOf(t, shown[t])
    /\ Len(shown[t].events) <= Len(record[t].view.events)

\* The one AbortController the host keeps reaches every open stream, also that
\* of a run whose session was created after a later run began: New Session, a
\* closed view and a cancellation silence them all.
OneAbortReachesAll ==
  \A r \in Run :
    run[r].pc = "stream" => run[r].signal \in aborted \cup {abort}
=============================================================================
