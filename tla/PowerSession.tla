---------------------------- MODULE PowerSession ----------------------------
(***************************************************************************)
(* One session of the daemon that uses a power: a tool of an MCP server    *)
(* over stdio (packages/server/src/mcp.ts) or the tools of a headless      *)
(* Chrome over CDP (browser.ts), from the request to the end of #run in    *)
(* server.ts.  A tool is a series of steps, most of them a request that    *)
(* the other process may answer late, twice, with an error or never, and   *)
(* it may exit at any moment.  Both clients keep a map of pending requests *)
(* with a timer each; what a step does here is the code between two        *)
(* events of the daemon's event loop.                                      *)
(***************************************************************************)
EXTENDS Integers, Sequences, FiniteSets, SequencesExt

CONSTANTS
  Duplicates   \* how many answers the other process repeats

ASSUME DuplicatesAssumption == Duplicates \in Nat

VARIABLES
  request,    \* what the session was asked to do
  tools,      \* the tools the driver has still to call, the current one first
  steps,      \* what the current tool has still to wait for, in order
  pc,         \* "driver", "tool", "result", "sealed" or "finished"
  result,     \* what the driver is handed: "ok", "error" or "denied"
  outcome,    \* the session's
  child,      \* the other process, if there is one: "none", "unspawned", "up",
              \* "stopping" (it was sent a signal) or "exited"
  profile,    \* Chrome's profile directory: "none", "made" or "left" behind
  connected,  \* is #cdp set?
  navigated,  \* has #currentUrl left about:blank?
  nextId,     \* #nextId of the client
  pending,    \* #pending: an id, and which request of the client it is for
  wire,       \* the answers on their way: an id, the request answered, and how
  repeated,   \* the answers repeated so far
  piped,      \* was the last request written to a process that had exited?
  daemon,     \* "up" or "down"
  sent,       \* history: the requests the client has sent
  settled,    \* history: <<request, the one its answer was for>>
  returned    \* history: the tools that returned what the other process gave

driver == <<tools, pc, result, outcome, returned>>
process == <<child, profile, connected, navigated>>
client == <<nextId, pending, sent, piped>>
vars == <<request, driver, steps, process, client, wire, repeated, daemon,
          settled>>

-----------------------------------------------------------------------------
(* What may be asked for.                                                  *)

BrowserTool == {"navigate", "annotate", "getDom", "getContent", "screenshot"}

\* The tools BrowserDemoDriver calls: the one asked for, those that follow an
\* annotation, or all that read.
BrowserPlans ==
  {<<t>> : t \in BrowserTool}
  \cup {<<"navigate", "annotate", "getDom">>, <<"annotate", "getDom">>,
        <<"navigate", "getDom", "getContent", "screenshot">>}

IsAnnotation(plan) == Len(plan) \in {2, 3}

\* url: was the runtime given an initial URL?  allowed: the allowlist.  An
\* annotation may come with a tool that is expected to be denied.
BrowserRequests ==
  {r \in [kind : {"browser"}, plan : BrowserPlans, url : BOOLEAN,
          expectDenied : BOOLEAN, allowed : SUBSET BrowserTool] :
     \/ r.allowed = BrowserTool /\ (r.expectDenied => Len(r.plan) # 1)
     \/ /\ r.expectDenied
        /\ \E t \in BrowserTool : /\ r.allowed = BrowserTool \ {t}
                                  /\ r.plan = <<t>> \/ IsAnnotation(r.plan)}

\* A power that is not installed, or lacks the tool, leaves nothing to call.
McpRequests ==
  [kind : {"mcp", "http"}, plan : {<<>>, <<"mcp">>}, url : {FALSE},
   expectDenied : BOOLEAN, allowed : {{}, {"mcp"}}]

Init ==
  /\ request \in BrowserRequests \cup McpRequests
  /\ tools = request.plan
  /\ steps = <<>>
  /\ pc = "driver"
  /\ result = "ok"
  /\ outcome = "running"
  /\ child = "none"
  /\ profile = "none"
  /\ connected = FALSE
  /\ navigated = FALSE
  /\ nextId = 1
  /\ pending = {}
  /\ wire = {}
  /\ repeated = 0
  /\ piped = FALSE
  /\ daemon = "up"
  /\ sent = 0
  /\ settled = {}
  /\ returned = {}

-----------------------------------------------------------------------------
(* A tool, as the steps it waits for.                                      *)

\* #ensure
Ensure == IF connected THEN <<>>
          ELSE <<"target", "connect", "Page.enable", "Runtime.enable">>

\* #navigate, behind #ensure.
Navigate == <<"Page.navigate", "load", "Runtime.evaluate">>

\* #ensureAtInitialUrl
AtInitialUrl ==
  Ensure \o (IF request.url /\ ~navigated THEN Navigate ELSE <<>>)

StepsOf(tool) ==
  CASE tool = "mcp"        -> <<"initialize", "tools/call">>
    [] tool = "navigate"   -> Ensure \o Navigate
    [] tool = "screenshot" -> AtInitialUrl \o <<"Page.captureScreenshot">>
    [] OTHER               -> AtInitialUrl \o <<"Runtime.evaluate">>

IsRequest(step) == step \notin {"target", "connect", "load"}

\* Mutant: an id is free again as soon as its request is settled.
FirstFreeId == Cardinality(pending) + 1

FreshId == nextId

\* request(), send(): the id, the timer and the map entry, then the write.
Send ==
  /\ pending' = {[id |-> FreshId, of |-> sent + 1]}
  /\ nextId' = nextId + 1
  /\ sent' = sent + 1
  /\ piped' = (child = "exited")

\* The tool awaits the first of s.
Await(s) ==
  /\ pc' = "tool"
  /\ steps' = s
  /\ IF IsRequest(Head(s)) THEN Send
     ELSE pending' = {} /\ UNCHANGED <<nextId, sent, piped>>
  /\ UNCHANGED <<tools, result, outcome, returned>>

\* kill() sends a signal, SIGTERM to a server and SIGKILL to Chrome, and waits
\* for nothing; a process that is not there gets none.
Kill == child' = IF child = "up" THEN "stopping" ELSE child

\* client.close() of callMcpTool: rejects what is pending, kills the server.
CloseClient == IF request.kind = "mcp" THEN Kill ELSE UNCHANGED child

\* The tool's promise settles, and the session hands the result on.
Return(how) ==
  /\ pc' = "result"
  /\ result' = how
  /\ steps' = <<>>
  /\ pending' = {}
  /\ returned' = IF how = "ok" THEN returned \cup {Head(tools)} ELSE returned
  /\ CloseClient
  /\ UNCHANGED <<tools, outcome, nextId, sent, piped>>

Fails ==
  /\ Return("error")
  /\ UNCHANGED <<profile, connected, navigated>>

\* The current step is done: the next one, or the end of the tool.
Proceed ==
  IF Tail(steps) = <<>> THEN Return("ok")
  ELSE Await(Tail(steps)) /\ UNCHANGED child

-----------------------------------------------------------------------------
(* The driver.                                                             *)

Seals(o) ==
  /\ pc' = "sealed"
  /\ outcome' = o
  /\ UNCHANGED <<tools, result, returned>>

\* Nothing between two tools touches the powers.
Powers == <<steps, process, client, wire, repeated, settled>>

\* ConfigurationFailureDriver; or every tool of the plan has returned.
Ends ==
  /\ pc = "driver"
  /\ tools = <<>>
  /\ Seals(IF request.plan = <<>> THEN "failed" ELSE "completed")
  /\ UNCHANGED <<request, Powers, daemon>>

\* The allowlist refuses the tool: a denied action, never executed.
Denied ==
  /\ pc = "driver"
  /\ tools # <<>>
  /\ Head(tools) \notin request.allowed
  /\ pc' = "result"
  /\ result' = "denied"
  /\ UNCHANGED <<request, tools, outcome, returned, Powers, daemon>>

\* The client is made and the other process spawned, unless the power speaks
\* HTTP, the URL is not local, or no port, profile or process can be had.
Calls ==
  /\ pc = "driver"
  /\ tools # <<>>
  /\ Head(tools) \in request.allowed
  /\ \/ Fails
     \/ /\ request.kind = "browser"
        /\ profile' = "made"
        /\ Return("error")
        /\ UNCHANGED <<connected, navigated>>
     \/ /\ request.kind # "http"
        /\ IF request.kind = "mcp" \/ ~connected
           THEN child' \in {"up", "unspawned"} ELSE UNCHANGED child
        /\ profile' = IF request.kind = "browser" THEN "made" ELSE "none"
        /\ Await(StepsOf(Head(tools)))
        /\ UNCHANGED <<connected, navigated>>
  /\ UNCHANGED <<request, wire, repeated, daemon, settled>>

ExpectsDenial == request.expectDenied /\ ~IsAnnotation(request.plan)

\* Mutant: McpDemoDriver and BrowserDemoDriver do not look at the error.
AnyResultWillDo ==
  /\ pc = "result"
  /\ IF ExpectsDenial
     THEN Seals(IF result = "denied" THEN "completed" ELSE "failed")
     ELSE /\ pc' = "driver"
          /\ tools' = Tail(tools)
          /\ UNCHANGED <<result, outcome, returned>>
  /\ UNCHANGED <<request, Powers, daemon>>

\* The driver looks at the result: a denial it expected, a failure, or the
\* next tool.  An annotation may resolve to no selector.
Judges ==
  /\ pc = "result"
  /\ IF ExpectsDenial
     THEN Seals(IF result = "denied" THEN "completed" ELSE "failed")
     ELSE \/ result # "ok" /\ Seals("failed")
          \/ /\ Head(tools) = "annotate" /\ IsAnnotation(request.plan)
             /\ Seals("failed")
          \/ /\ result = "ok"
             /\ pc' = "driver"
             /\ tools' = Tail(tools)
             /\ UNCHANGED <<result, outcome, returned>>
  /\ UNCHANGED <<request, Powers, daemon>>

\* Mutant: close() takes a runtime that never connected for an unused one.
CloseIfConnected ==
  IF connected
  THEN Kill /\ profile' = "none" /\ wire' = {}
  ELSE UNCHANGED <<child, profile, wire>>

\* BrowserPowerRuntime.close(), the cleanup of a browser session; an MCP
\* session has none.  Chrome may still hold files of the profile, and then it
\* stays and is forgotten.
Cleanup ==
  IF request.kind = "browser"
  THEN /\ Kill
       /\ \/ profile = "made" /\ profile' \in {"none", "left"}
          \/ profile # "made" /\ UNCHANGED profile
       /\ wire' = {}
  ELSE UNCHANGED <<child, profile, wire>>

\* The end of #run.
Finishes ==
  /\ pc = "sealed"
  /\ Cleanup
  /\ connected' = FALSE
  /\ pending' = {}
  /\ pc' = "finished"
  /\ UNCHANGED <<request, tools, result, outcome, returned, steps, navigated,
                 nextId, sent, piped, repeated, daemon, settled>>

-----------------------------------------------------------------------------
(* The steps of a tool.                                                    *)

AtStep(step) == pc = "tool" /\ Head(steps) = step

Elsewhere == UNCHANGED <<request, wire, repeated, daemon, settled>>

\* #waitForPageTarget: Chrome lists a page, or 15 s pass.
FindsTarget ==
  /\ AtStep("target")
  /\ \/ /\ child = "up"
        /\ Proceed
        /\ UNCHANGED <<profile, connected, navigated>>
     \/ Fails
  /\ Elsewhere

\* CdpClient.connect: the socket opens or fails.
Connects ==
  /\ AtStep("connect")
  /\ \/ /\ child = "up"
        /\ Proceed
        /\ connected' = TRUE
        /\ UNCHANGED <<profile, navigated>>
     \/ Fails
  /\ Elsewhere

\* waitFor: the load event, or its timer, which #navigate forgives.
Loads ==
  /\ AtStep("load")
  /\ Proceed
  /\ navigated' = TRUE
  /\ UNCHANGED <<profile, connected>>
  /\ Elsewhere

\* A line on stdout, a message of the socket: the entry its id has in the map
\* settles, and an answer whose id has none is dropped.
Settle(a) ==
  \E p \in pending :
    /\ p.id = a.id
    /\ settled' = settled \cup {<<p.of, a.of>>}
    /\ \/ a.how = "error" /\ Return("error")
       \/ a.how = "result" /\ Tail(steps) = <<>> /\ Return("ok")
       \/ /\ a.how = "result" /\ Tail(steps) # <<>>
          /\ Await(Tail(steps))
          /\ UNCHANGED child
    /\ UNCHANGED <<profile, connected, navigated>>

Drop(a) ==
  /\ \A p \in pending : p.id # a.id
  /\ UNCHANGED <<driver, steps, process, client, settled>>

Delivers ==
  /\ \E a \in wire : /\ Settle(a) \/ Drop(a)
                     /\ wire' = wire \ {a}
  /\ UNCHANGED <<request, repeated, daemon>>

\* Mutant: a request waits for its answer, or for the end of the server.
NoTimer == FALSE

\* The timer of a pending request: 8 s for MCP, 15 s for CDP.
TimesOut ==
  /\ pending # {}
  /\ Fails
  /\ Elsewhere

\* The child's "error" event.  BrowserPowerRuntime does not listen to it, and
\* an event nobody listens for ends the daemon.
SpawnFails ==
  /\ child = "unspawned"
  /\ pc = "tool"
  /\ IF request.kind = "mcp"
     THEN Fails /\ UNCHANGED daemon
     ELSE daemon' = "down" /\ UNCHANGED <<driver, steps, process, client>>
  /\ UNCHANGED <<request, wire, repeated, settled>>

\* The child's "close" event, after all it wrote: #rejectAll.
ServerClosed ==
  /\ request.kind = "mcp"
  /\ child = "exited"
  /\ wire = {}
  /\ pending # {}
  /\ Fails
  /\ Elsewhere

\* A write to a server that had exited: an "error" event of its stdin, which
\* nobody listens for, unless its end was noticed first.
PipeBreaks ==
  /\ request.kind = "mcp"
  /\ piped
  /\ pending # {}
  /\ daemon' = "down"
  /\ UNCHANGED <<request, driver, steps, process, client, wire, repeated,
                 settled>>

-----------------------------------------------------------------------------
(* The other process.                                                      *)

\* The answer to the pending request, with a result or an error, perhaps
\* twice; a result that says isError is an error to callMcpTool.
Answers ==
  /\ child = "up"
  /\ \E p \in pending, how \in {"result", "error"}, twice \in BOOLEAN :
       /\ \A a \in wire : a.of # p.of
       /\ wire' = wire \cup {[id |-> p.id, of |-> p.of, how |-> how, copy |-> c] :
                             c \in IF twice THEN {1, 2} ELSE {1}}
       /\ twice => repeated < Duplicates
       /\ repeated' = IF twice THEN repeated + 1 ELSE repeated
  /\ UNCHANGED <<request, driver, steps, process, client, daemon, settled>>

\* Of its own accord, or because it was told to; a server may take its time.
Exits ==
  /\ child \in {"up", "stopping"}
  /\ child' = "exited"
  /\ UNCHANGED <<request, driver, steps, profile, connected, navigated,
                 client, wire, repeated, daemon, settled>>

-----------------------------------------------------------------------------
Driver == Ends \/ Denied \/ Calls \/ Judges \/ Finishes
Tool == FindsTarget \/ Connects \/ Loads \/ TimesOut \/ SpawnFails
          \/ ServerClosed
Environment == Delivers \/ PipeBreaks \/ Answers \/ Exits

Next ==
  /\ daemon = "up"
  /\ Driver \/ Tool \/ Environment

Spec == Init /\ [][Next]_vars

\* Node runs what is ready, timers expire, and fetch and the WebSocket settle;
\* the other process owes nothing.
FairSpec ==
  /\ Spec
  /\ WF_vars(daemon = "up" /\ Driver)
  /\ WF_vars(daemon = "up" /\ Tool)

-----------------------------------------------------------------------------
(* Properties.                                                             *)

\* Whatever a server repeats or delays, a request of StdioMcpClient or
\* CdpClient is settled by the answer to that request and by no other.
OwnAnswers == \A s \in settled : s[1] = s[2]

\* When #run is over, wherever the tools failed: the server or Chrome has
\* exited or was told to, the removal of Chrome's profile was tried, and no
\* request is pending with its timer.
NothingOutlives ==
  daemon = "up" /\ pc = "finished" =>
    /\ child # "up"
    /\ profile # "made"
    /\ pending = {}

\* A session completed because the tool it expected to be denied was, and then
\* nothing was spawned for it, or because each tool of its plan returned what
\* the other process answered.
HonestOutcome ==
  outcome = "completed" =>
    IF request.expectDenied /\ result = "denied"
    THEN child = "none" /\ returned = {}
    ELSE returned = ToSet(request.plan) /\ request.plan # <<>>

\* A session with a power ends, even if the other process never answers or is
\* gone, unless the daemon itself is.
SessionFinishes == <>(pc = "finished" \/ daemon = "down")
=============================================================================
