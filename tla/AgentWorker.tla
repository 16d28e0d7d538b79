---------------------------- MODULE AgentWorker ----------------------------
(***************************************************************************)
(* The two drivers Reef's own workers put into a governed session          *)
(* (packages/agent/src): AgentWorker, a loop of model turns and tool calls *)
(* over a rented provider, and CliDriver, one call of an external agent    *)
(* whose file effects are measured by a diff of the workspace.             *)
(*                                                                         *)
(* A step is the code between two awaits: the provider's fetch and the     *)
(* yield of an action to the session.  The session itself is reduced to    *)
(* what GovernedSession was shown to promise (AuditedWork): it records an  *)
(* action as executed or denied and answers the driver, or it breaks, and  *)
(* then the run ends as failed.                                            *)
(***************************************************************************)
EXTENDS Naturals, Sequences, FiniteSets, SequencesExt, FiniteSetsExt

CONSTANTS
  MaxTurns,     \* options.maxTurns
  MaxRetries,   \* the provider's options.maxRetries
  MaxUses,      \* bound: the tool uses of one reply
  File,         \* the files of the workspace
  Skipped       \* those under a directory the snapshot skips (SKIP)

ASSUME TurnsAssumption == MaxTurns \in Nat \ {0}
ASSUME RetriesAssumption == MaxRetries \in Nat
ASSUME UsesAssumption == MaxUses \in Nat
ASSUME FilesAssumption == IsFiniteSet(File) /\ Skipped \subseteq File

VARIABLES
  wpc,       \* the await the driver is suspended at, "idle" between runs
  turn,      \* model turns completed
  attempt,   \* retries of the current turn's request
  messages,  \* the conversation, as the next request sends it
  results,   \* tool results of the current turn so far
  verdict,   \* the outcome the session was sealed with
  slog,      \* history: what the session recorded of the driver's actions
  fetches,   \* history: requests sent to the provider in this run
  touched,   \* history: the files the external agent changed in this run
  measured   \* history: the files both snapshots of this run read

workerVars ==
  <<wpc, turn, attempt, messages, results, verdict, slog, fetches, touched,
    measured>>

-----------------------------------------------------------------------------
(* The tools a reply may use: one that maps to a governed action (a code   *)
(* tool, or an extra one of the options), one nobody registered, and the   *)
(* two that end the run.                                                   *)
Tool == {"act", "unknown", "done", "fail"}

\* What a tool use is answered with.
Says == {"denied", "ok", "FAILED", "unknown"}

Answer(use, says) == [use |-> use, says |-> says]
Assistant(uses) == [role |-> "assistant", uses |-> uses, results |-> <<>>]
User(answers) == [role |-> "user", uses |-> <<>>, results |-> answers]

\* A response: blocks without a type, an id or a name are dropped, so any
\* sequence of tool uses is left of it, none included.
Responses == UNION {[1 .. n -> Tool] : n \in 0 .. MaxUses}

WorkerIdle ==
  /\ wpc = "idle"
  /\ turn = 0
  /\ attempt = 0
  /\ messages = <<>>
  /\ results = <<>>
  /\ verdict = "none"
  /\ slog = <<>>
  /\ fetches = 0
  /\ touched = {}
  /\ measured = {}

\* A new session is created with its driver, and runs to the first await:
\* the agent's first request, or the action of the external call.
StartWorker(kind) ==
  /\ wpc' = IF kind = "cli" THEN "cli" ELSE "request"
  /\ turn' = 0
  /\ attempt' = 0
  /\ messages' = IF kind = "cli" THEN <<>> ELSE <<User(<<>>)>>
  /\ results' = <<>>
  /\ verdict' = "none"
  /\ slog' = <<>>
  /\ fetches' = IF kind = "cli" THEN 0 ELSE 1
  /\ touched' = {}
  /\ measured' = {}

\* The session and its driver are dropped once their result is handed over.
DropWorker ==
  /\ wpc' = "idle"
  /\ turn' = 0
  /\ attempt' = 0
  /\ messages' = <<>>
  /\ results' = <<>>
  /\ verdict' = "none"
  /\ slog' = <<>>
  /\ fetches' = 0
  /\ touched' = {}
  /\ measured' = {}

\* The driver yields done or fail, or is closed by the session: sealed.
Ends(outcome) ==
  /\ wpc' = "idle"
  /\ verdict' = outcome

-----------------------------------------------------------------------------
(* The provider: one completion is up to MaxRetries + 1 requests.          *)

\* A request that failed or met a 429 or a 503 is repeated after a pause.
MayRetry(n) == n < MaxRetries

FetchAgain ==
  /\ wpc = "request"
  /\ MayRetry(attempt)
  /\ attempt' = attempt + 1
  /\ fetches' = fetches + 1
  /\ UNCHANGED <<wpc, turn, messages, results, verdict, slog, touched,
                 measured>>

\* No key, the last attempt failed, another status, or an answer that is no
\* JSON: complete() throws, and the driver yields fail.
ProviderFails ==
  /\ wpc = "request"
  /\ Ends("failed")
  /\ UNCHANGED <<turn, attempt, messages, results, slog, fetches, touched,
                 measured>>

-----------------------------------------------------------------------------
(* The loop over the tool uses of a reply.                                 *)

\* Every use was answered: the results go back with the next request, unless
\* the turns are used up.
EndTurn(conversation, answers) ==
  /\ results' = <<>>
  /\ turn' = turn + 1
  /\ messages' = Append(conversation, User(answers))
  /\ \/ /\ turn + 1 < MaxTurns
        /\ wpc' = "request"
        /\ attempt' = 0
        /\ fetches' = fetches + 1
        /\ UNCHANGED verdict
     \/ /\ turn + 1 = MaxTurns
        /\ Ends("failed")
        /\ UNCHANGED <<attempt, fetches>>

\* Mutant: a tool nobody knows is passed over without a result.
SkipUnknown(answers, uses, n) == answers

\* A tool nobody knows is answered at once, without the session.
AnswerUnknown(answers, uses, n) ==
  answers \o [i \in 1 .. n - 1 - Len(answers) |->
                Answer(Len(answers) + i, "unknown")]

\* On from the first use without an answer: to the next one that is not
\* unknown, or to the end of the turn.
HandleUses(conversation, answers) ==
  LET uses == Last(conversation).uses
      known == {i \in DOMAIN uses : i > Len(answers) /\ uses[i] # "unknown"}
      next == IF known = {} THEN Len(uses) + 1 ELSE Min(known)
      seen == AnswerUnknown(answers, uses, next)
  IN \/ /\ known # {}
        /\ uses[next] = "act"
        /\ wpc' = "action"
        /\ messages' = conversation
        /\ results' = seen
        /\ UNCHANGED <<turn, attempt, verdict, fetches>>
     \/ /\ known # {}
        /\ uses[next] \in {"done", "fail"}
        /\ Ends(IF uses[next] = "done" THEN "completed" ELSE "failed")
        /\ messages' = conversation
        /\ results' = seen
        /\ UNCHANGED <<turn, attempt, fetches>>
     \/ /\ known = {}
        /\ EndTurn(conversation, seen)

\* A reply: text and usage are observed; without a tool use the agent has
\* stopped, and the driver yields fail.
Reply ==
  /\ wpc = "request"
  /\ \E uses \in Responses :
       LET conversation == Append(messages, Assistant(uses)) IN
       \/ /\ uses = <<>>
          /\ Ends("failed")
          /\ messages' = conversation
          /\ UNCHANGED <<turn, attempt, results, fetches>>
       \/ /\ uses # <<>>
          /\ HandleUses(conversation, <<>>)
  /\ UNCHANGED <<slog, touched, measured>>

\* What the session records of an action that was answered with s.
Kind(s) == IF s = "denied" THEN "action.denied" ELSE "action.executed"

\* observe: the text an action's result is fed back to the model as.
Render(s) == s

\* The session answers the action: denied, executed, or executed in vain.
SessionAnswers ==
  /\ wpc = "action"
  /\ \E s \in {"denied", "ok", "FAILED"} :
       /\ slog' = Append(slog, [kind |-> Kind(s), turn |-> turn,
                                use |-> Len(results) + 1, files |-> {}])
       /\ HandleUses(messages,
            Append(results, Answer(Len(results) + 1, Render(s))))
  /\ UNCHANGED <<touched, measured>>

\* The executor or the authorizer throws: the session closes the driver.
SessionBreaks ==
  /\ wpc \in {"action", "cli"}
  /\ Ends("failed")
  /\ touched' \in IF wpc = "cli" THEN SUBSET File ELSE {touched}
  /\ UNCHANGED <<turn, attempt, messages, results, slog, fetches, measured>>

-----------------------------------------------------------------------------
(* CliDriver: the external agent changes files, exits, and is measured.    *)

\* The tripwire gate denies the call: nothing is run.
CliDenied ==
  /\ wpc = "cli"
  /\ slog' = <<[kind |-> "action.denied", turn |-> 0, use |-> 1, files |-> {}]>>
  /\ Ends("failed")
  /\ UNCHANGED <<turn, attempt, messages, results, fetches, touched, measured>>

\* A snapshot reads the files that are in no skipped directory, save those it
\* cannot read.
Snapshots == SUBSET (File \ Skipped)

\* What the snapshots tell apart: a file that both read and that was changed,
\* and one that only one of them read, as added or deleted.
Diff(changed, before, after) ==
  (changed \cap before \cap after) \cup (before \ after) \cup (after \ before)

\* The agent ran.  After exit code 0 the driver records the diff; after any
\* other exit, or a timeout, it yields fail, and the diff was only part of
\* the output the session keeps a digest of.
CliRan ==
  /\ wpc = "cli"
  /\ touched' \in SUBSET File
  /\ LET ran == [kind |-> "action.executed", turn |-> 0, use |-> 1,
                 files |-> {}]
     IN \/ \E before, after \in Snapshots :
             /\ slog' = <<ran, [kind |-> "observation", turn |-> 0, use |-> 1,
                                files |-> Diff(touched', before, after)]>>
             /\ measured' = before \cap after
             /\ Ends("completed")
        \/ /\ slog' = <<ran>>
           /\ UNCHANGED measured
           /\ Ends("failed")
  /\ UNCHANGED <<turn, attempt, messages, results, fetches>>

WorkerNext ==
  FetchAgain \/ ProviderFails \/ Reply \/ SessionAnswers \/ SessionBreaks
    \/ CliDenied \/ CliRan

-----------------------------------------------------------------------------
\* Every request the provider gets is well formed: each reply in it is
\* followed by exactly one result for each of its tool uses, in order.
RequestsPaired ==
  wpc = "request" =>
    \A i \in DOMAIN messages :
      messages[i].role = "assistant" =>
        /\ i < Len(messages)
        /\ messages[i + 1].role = "user"
        /\ Len(messages[i + 1].results) = Len(messages[i].uses)
        /\ \A n \in DOMAIN messages[i].uses :
             messages[i + 1].results[n].use = n

\* What the model was told of turn t: after the task, a turn adds a reply and
\* its results to the conversation.
Told(t) == IF t = turn THEN results ELSE messages[2 * t + 3].results

\* What the model is told is what the session has on record: the same
\* actions, in the same order, a denied one never as executed.
ToldTheRecord ==
  messages # <<>> =>
    /\ \A i \in DOMAIN slog :
         /\ slog[i].turn \in 0 .. turn
         /\ slog[i].use \in DOMAIN Told(slog[i].turn)
         /\ LET says == Told(slog[i].turn)[slog[i].use].says IN
              says # "unknown" /\ Kind(says) = slog[i].kind
    /\ \A t \in 0 .. turn : \A n \in DOMAIN Told(t) :
         Told(t)[n].says # "unknown" =>
           \E i \in DOMAIN slog : slog[i].turn = t /\ slog[i].use = n
    /\ \A i, j \in DOMAIN slog :
         i < j => \/ slog[i].turn < slog[j].turn
                  \/ slog[i].turn = slog[j].turn /\ slog[i].use < slog[j].use

\* The conversation stays well formed and true, over all the turns, whatever
\* the replies, the denials and the failures in between.
ConversationFaithful == RequestsPaired /\ ToldTheRecord

\* The files a session's log says were changed.
Recorded(l) == UNION {l[i].files : i \in DOMAIN l}

\* It says so of those that were, among the files that were measured.
Notes(noted, changed, files) == \A f \in files : f \in noted <=> f \in changed
=============================================================================
