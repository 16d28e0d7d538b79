# Verification of Octopus Reef

TLA+ models of the parts of Octopus Reef whose correctness depends on the
order in which things happen, the TLC runs that check them, and TLAPS proofs of
the properties that matter most. Every definition is translated from the code
under `packages/`; `PROJECT.json` maps each one to its lines.

## The system

Reef runs AI agents under governance: an agent (a *driver*) proposes actions,
each action passes a policy before it runs, every stage becomes a hash-chained
evidence record, and the finished session is sealed so that anybody can verify
it offline. A local daemon hosts sessions for the CLI, the IDE and the web. A
hosted gateway sells model completions and keeps a decision ledger of its own.

| Part | State | Operations | What makes it correct |
|---|---|---|---|
| Governed session (`engine/src/session.ts`, `log.ts`, `verify.ts`) | evidence log, work-item spine, counters, result owed to the driver, abort signal | `run`, `#handleAction`, `#advance`, `#emit`, `#finalize`; `verifyBinding` | every seal verifies and tells the truth; a denied action never runs; cancellation wins; the run ends |
| Session store and audit packs (`engine/src/persist.ts`, `replay.ts`, `cli/src/audit-pack.ts`, `cli.ts`) | the files of a session and of a pack | `persistSession`, `loadSession`, `replaySession`, `exportAuditPack`, `verifyAuditPack` | a crash leaves an old or a new session, or something the load rejects; a green pack proves one session |
| Action policy (`engine/src/authz.ts`, `gate.ts`, `tools.ts`) | none | `check`, `can` | the allowlist admits exactly what its patterns say |
| Executor, sandbox (`engine/src/executor.ts`, `sandbox.ts`) | the workspace | `execute`, `confine` | effects stay inside the workspace |
| Drivers (`engine/src/driver.ts`, `driver-claude`, `agent/src/worker.ts`, `provider.ts`, `cli.ts`) | conversation, retries, workspace diff | `run`, `complete` | every tool use is answered once, with what happened to it |
| Orchestrator and workers (`agent/src`) | task board, worker ledger | `orchestrate`, `#route`, `verifyLedger` | the ledger binds each subtask to its own sealed session |
| Gateway ledger (`gateway/src/ledger.ts`, `postgres.ts`, `sqlite.ts`) | `gateway_ledger`, the anchor row | `appendDecision`, `verify` | one chain; answered decisions are durable; audits are right |
| Gateway completions (`gateway/src/completion.ts`, `billing.ts`) | quotas, usage, billing | `complete` | nothing is routed without its trail; charges are justified |
| Gateway control plane (`gateway/src/http.ts`, `auth.ts`) | accounts, licences, teams | `provisionAccount`, `signup`, `login`, `ssoLogin`, `revokeLicense`, `teamAudit`, `quota`, `plan` | a revoked licence stays revoked; an account is whole |
| Daemon (`server/src/server.ts`) | session map, subscribers, fleets | `/sessions`, `/events`, `/verify`, `/manager/fleets`, `close` | bounded memory, complete streams, honest fleet verdicts |
| Specs (`server/src/specs.ts`) | two files a spec | `create`, `advance`, `#loadPersisted` | what cites a spec stays true |
| Account, hooks, steering, powers (`server/src/account.ts`, `hooks.ts`, `steering.ts`, `mcp.ts`) | a file each | sign-in, plan, add, activate | a restart finds what was acknowledged |
| Power clients (`server/src/mcp.ts`, `browser.ts`) | a child process, pending requests and timers | `request`, `close`, `#onStdout`, CDP `send` | each request settles once, by its own answer; nothing outlives the session |
| IDE chat (`ide/src/extension.ts`, `client.ts`, `ide/media/webview.js`) | turns, one AbortController, stream buffers | `runChatTurn`, `runTask`, `verifyChatTurn`, `drainSSE` | evidence stays with its turn; an abort reaches every open stream |
| Web, adapters, commercial stubs | little | | rendering or stateless |

How they interact: the daemon runs each session as a task of its event loop and
learns of it by two callbacks, `onEvent` and the settling of `run()`. A session
calls the policy, the executor and the driver and awaits each. The
orchestrator runs one worker's session after the other and pins each in its
ledger. The IDE reads a session's event stream and asks the daemon for
verdicts. The gateway's
handlers run interleaved at every `await`, and share only the database: a
completion appends up to six decisions to the ledger, and reads and writes the
account's licence, quota, usage and billing rows in between, with no
transaction anywhere. Several gateway processes may share one database.

What is hard: interleavings at awaits (all parts), requests racing on the ledger
and the quota, failures part of the way through a handler, abort signals, a
cache that evicts what a fleet still refers to, two stores of one truth
(memory and disk), crashes between two files, and child processes that answer
late, twice or never. `PROJECT.json` lists the hazards, line by line, with the
properties that watch each one.

## Modules

| Module | Models | Depends on |
|---|---|---|
| `AuditedWork` | abstract: what a session promises the readers of its record | |
| `GovernedSession` | one `GovernedSession.run()` and `verifyBinding` | implements `AuditedWork` |
| `GovernedSessionProofs` | its proofs | `GovernedSession` |
| `AppendOnlyLog` | abstract: what the gateway ledger promises its callers | |
| `GatewayLedger` | `appendDecision` and `verify` over the database | implements `AppendOnlyLog` |
| `GatewayAccount` | completions, provisioning and revocation of one account | takes a ledger append as one step, as `AppendOnlyLog` allows |
| `ControlPlane` | sign-up, provisioning, login, SSO, revocation, quota, plan, team audit | beside `GatewayAccount`, over the same tables |
| `GatewayProofs` | proofs of the ledger and the control plane | `GatewayLedger`, `ControlPlane` |
| `ReefServer` | the daemon's sessions, streams, eviction, fleets and verification | takes `GovernedSession!EventuallyEnds` as its fairness of `Step` |
| `ReefServerProofs` | its proofs | `ReefServer` |
| `PowerSession` | a session that uses an MCP server or headless Chrome | the runtimes `ReefServer` leaves out |
| `DaemonAccount` | account, hooks, steering and powers of the daemon, with its files | |
| `DaemonProofs` | proofs of the powers and of the account | `PowerSession`, `DaemonAccount` |
| `SpecSessions` | specs with their two files, the requests and sessions that advance and pin them | the eviction of `ReefServer`, reduced |
| `MeteringProofs` | proofs of the completions and of the specs | `GatewayAccount`, `SpecSessions` |
| `AgentWorker` | a worker's conversation with its provider; an external agent | a governed session is what `AuditedWork` promises |
| `Orchestration` | plan, routing, workers, judge and worker ledger | extends `AgentWorker` |
| `OrchestrationProofs` | proofs about both | `Orchestration` |
| `SessionStore` | session directories, replay and audit packs | |
| `SessionStoreProofs` | its proofs | `SessionStore` |
| `IdeClient` | webview, extension host and event stream of the chat | the stream `ReefServer` sends |
| `IdeClientProofs` | its proofs | `IdeClient` |

Three proof modules extend two models each, and so `ControlPlane`,
`DaemonAccount` and `SpecSessions` name their specifications `PlaneSpec`,
`AccountSpec` and `SpecSessionsSpec`, with the variables and actions after them.

### GovernedSession

A step is the code between two awaits, so `pc` names the await the run is
suspended at: `driver` (`it.next`), `authorize`, `execute`, `closing`
(`it.return`). `Abort` may happen at each. `log` is the evidence log, reduced to
what `verifyBinding` and the properties read; `spine` holds, for each
transition, the log head it commits. A head is the number of records under it:
hashing is collision free and both chains only grow. `Thrown` lets the event
sink throw on any emission (`SinkMayThrow`), which a surface's callback may. A
counter is raised before its record is minted, and minting may fail
(`MintMayFail`): `TripUnrecorded`, `RefusalUnrecorded` and `ExecutionUnrecorded`
count and lead to the loop's `catch`. Elsewhere a record that is not minted has changed
nothing before it, and leads where a throwing sink leads.
An executor that settles may or may not have acted (`ExecutorActs`), also when
it rejects. `effects` and `atAbort` are history variables.

### GatewayLedger

A step is one query with the code up to the next one. `ledger` is the table,
keyed by its primary key; `draft` is the link a request computed from the chain
it read; `anchor` is the row every append overwrites. A hash is the sequence of
evidence ids it commits to. `Fails` and the unanswered halves of `InsertRecord`
and `WriteAnchor` are a failed query, a lost answer or a dead process; what is
in the database stays. An audit takes two queries, with appends in between:
`audit` keeps what it listed and, once it has the anchor, what had been
answered by then. `since` and `raced` are history: the decisions answered while
a request was between its insert and its anchor, and those of the request whose
anchor is in the row. For them alone a green audit need not vouch.
`verifyEvidence` is not represented: records are not altered behind the
gateway's back here. The interleaving is that of Postgres or of several
processes; SQLite's queries are synchronous, but each still ends in an await.

### GatewayAccount

One account's rows, and one step per query, append or provider call. A ledger
append is one step that may fail: that is what `GatewayLedger` was shown to
implement. `trail` keeps each request's own decisions. A 500 at any point is
`CompletionFails`, which also stands for the stubbed Stripe adapter.
`standing`, `witnessed` and `debited` are history variables. `createdAt` is
taken when a provisioning begins, so the newest licence need not be the last
one inserted.

### ReefServer

A step is one callback of the event loop. `resident` is the session map in
insertion order; `record` keeps every session ever started, because closures
(`#run`, `#completeFleet`) keep records the map has dropped. A fleet's sessions
are looked up in the map in the callback that started them (`Found`), and what
was found is what it `waits` for and binds in its ledger, whatever eviction
does later; the ledger may also fail to be built. `close()` ends the streams,
and requests in flight are still served (`Serve`). `Admitted` is the
recursion of `#startSession` over a fleet's tasks, written as a function.
`Persisted` is what `persistSession` may leave: the log alone, when it throws
after its first file. `VerifySessionRecord` prefers the disk to memory, and
loads without the session's secret (`Keyed`), as the code does. The sessions a
client starts are anonymous: how the driver and its runtime are chosen is not
modelled beyond `StartFails`.

### ControlPlane

One action per query of each request, with the request's locals in
`request[r]`; a fresh id belongs to the request that makes it, so a token or an
id is named by its request. Sign-ups and provisionings are of one e-mail
address, which the account table holds once; an SSO user's address is his own.
Any query may fail and ends its request with a 500; what was written stays.
`owed`, `stale` and `revoked` are history variables. Routing, hashing of
passwords and the wording of answers are left out; a token is valid or not.

### PowerSession

A session is a plan of tools and a tool a series of steps (`StepsOf`), most of
which send a request to the other process and await the answer, a timer or its
exit. `pending` is the map of requests, `inbox` what the other process has
answered, in any order, late, or up to `Duplicates` times again. `Finishes` is
the `finally` of `#run`, which cleans up whatever happened. `Kill` only sends a
signal: the process is `stopping`, may still answer, and exits at some time or
not. The profile is removed while Chrome may hold files in it, and a removal
that fails is swallowed (`left`). Not caught by the
code, and modelled as the daemon going down: a Chrome that cannot be spawned
emits an unhandled `error`, and so does a write to an MCP server that has
exited. `fetch` and the WebSocket are assumed to settle.

### DaemonAccount

`memory` and `file` hold the account and three lists, and `acked` the items of
the lists (`Items`) that were acknowledged. A save may fail, and then the
change stays in memory and the answer is an error; files are written in place,
so that a crash may cut one short (`cut`), and then the start takes it for
empty. A power that is in memory is acknowledged when it is installed again,
with no save (`InstallAgain`); `unsaved` are those no save had written then.
A plan takes two requests to the gateway, with the account read once.

### SpecSessions

A spec is two files, its graph of workstates (`graph`) and `spec.json` (`meta`,
the transition its `updatedAt` is of). `Saves` writes them in that order and
`SaveFails` stops before, between or in the middle: a failed create leaves a
spec in the map (its list is then a 500), and a failed advance answers 400
though the graph may have advanced. Every session is one that advances a spec
or another one, within a conversation or not; a conversation may pin a task
(`Pinnable`) whatever the session does. Sessions are evicted for room; what is
persisted of them is read by nothing here.

### AgentWorker, Orchestration

`AgentWorker` has one action per await of the driver's loop: a fetch that
answers, is retried or fails, a reply with any mix of known tools, unknown
tools and `done`, and one governed action per tool use. `CliDriver` is one
action between two snapshots of the workspace, each of the files outside the
skipped directories that it could read: `Diff` notes a file that one of them
lacks as added or deleted, whether it was or not, and `measured` are the files
of both. What the
agent is told is stated by position: turn `t` adds the messages `2t + 2` (a
reply) and `2t + 3` (its results). So is the ledger: `At(kind)` is the set of
the places with a record of a kind.
`Orchestration` adds the awaits of `orchestrate`. A worker of the guest kind
is one given by the caller: it may return any result, or reject.

### SessionStore

A file is replaced at once (`atomicWrite`), a pack's files are copied one by
one; a process may die between any two. Two runs into one directory, exports
beside them, and one alteration of a file by somebody else. The sessions have
one id, the case in which two are most alike, and as many events as `Lengths`
allows, often the same number: the pack's proof records that number, and it is
all that `SessionsMatch` compares of it. A session is `readable` when it was run
with the secret its readers are given, or with none. `calm` says that nothing
touched a file since the export loaded the session.

### IdeClient

The host and the webview exchange messages in order; a step of the host runs
from one await to the next, and `pc` names the await. A run is a chat turn or
the task of a command; only turns go through `chatRun`, but both use `abort`.
The stream is read in chunks of any length; a frame is two characters, its line
and the newline that ends it. `drainSSE` (`Drained`) takes the frames that end
in the buffer, from its start to its end, and keeps what is not complete. `shown`
is what the webview has of each turn and `record` what the host has. Where a
session's files cannot be written, or a request or stream fails, the run ends
in its `catch` (`Fails`). A closed view is taken to be opened again.

## Runs

| Run | Instance | Shows |
|---|---|---|
| `session` | 4 steps, sink may throw, minting may fail | seals, counters, cancellation, feedback, the contract, termination |
| `ledger` | 2 requests, 3 decisions each, failures | one chain, trails, audits, refinement |
| `account_charges` | 2 completions, 1 provisioning, 1 revocation, failures | trails, entitlement, charges and debits |
| `control_plane` | any 4 of 8 requests, failures | an answer holds; a revocation does too |
| `server` | 2 clients, 3 sessions, a fleet of 2, room for 2 | memory, streams, fleets |
| `powers` | 1 session over any power, 2 repeated answers | own answers, nothing left behind, honest outcomes, an end |
| `daemon_account` | a sign-in, a session, a plan, 2 changes, 2 faults | one account a plan; restarts keep the items that were acknowledged |
| `spec_sessions` | 3 sessions in room for 2, 1 spec of 3 transitions, 2 faults | citations hold; a spec's two files agree |
| `orchestration` | 2 subtasks, 2 turns, 2 tool uses, 1 retry | conversations, the worker ledger, the result, an end |
| `store` | 2 runs, 2 exports, 1 alteration | loads, green packs, red packs |
| `ide` | 2 turns, 1 task, 1 click or close or cancellation | evidence in place; one abort for all streams |
| `server_fleet_evicted` | as `server`, no events | violation: the verdict leaves sessions out |

Bounds. Four driver steps cover every pair of step kinds with one before and
one after, which is as far as a session's state reaches back (one result, one
action). Two requests are enough for every conflict on the ledger's primary
key, and three decisions for a request to lose, or to be overtaken, after
others of its own are recorded; the proofs remove both bounds. Two completions
share one quota read and one debit order, and the provider may report less or
more than was asked. A provisioning and a revocation supersede and strike the
licence they run on. In `control_plane`, four requests give every pair that
races for the e-mail address with a revocation and a read after it. In
`server`, three sessions in a map for two force an eviction, a refused start
and a fleet that fails half way; one subscriber per session forces the 429; one
request after `close()` (`MaxLate`) is any of those in flight. In
`powers`, two repeated answers reach a request before and after the one they
belong to. Two faults are a failed save with a crash after it, or two crashes.
Two turns with two tool uses give replies with every mix of known, unknown and
`done`, after one another; two subtasks fail in any order. Two runs and two
exports overlap at every file, and two `Lengths` are sessions that the proof
tells apart and that it does not. In `ide`, one event and the seal can share a
chunk or be cut from each other and in themselves, and a turn can be approved,
sent or verified while another runs; `InFlight` keeps the host at most one
message (and the rest of its chunk) ahead of the webview. Every bound is a
constant with a named assumption. Deadlock checking is off where the system
may stop: a session runs once, requests end, and the bounds stop new ones.

Symmetry is used in runs without temporal properties, for requests or turns
that differ in nothing but their ids.

Fairness. `session` assumes that the event loop runs on and that every awaited
promise settles; the outcome is free, so no cooperation is assumed. `ledger`
checks safety alone: an append is three queries in a row, and waits for none.
`server` assumes that a started session ends, which `EventuallyEnds` shows, and
that a fleet's promise callbacks run. Clients are not fair: they need not
disconnect. `powers` assumes that Node runs what is ready and that timers
expire; the other process owes nothing. `orchestration` assumes that planner,
router, provider, sessions and judge settle, in whatever way. The gateway gives
its provider no timeout, so nothing is said of when a completion ends.

## What the code does otherwise than it says

A run shows the first; the others were met with the same models (by an
invariant of one line each) and are not among the runs.

1. `server_fleet_evicted`: a fleet's green verdict may cover a part of its
   sessions (`server.ts:1936`).
2. The second login of an SSO user is a 500: `ssoLogin` inserts a licence under
   a fresh id with the token's hash, which is UNIQUE, while `upsertLicense`
   resolves a conflict of the id only (`http.ts:439`, `migrations.ts:39`;
   `acceptance/G4.md:9`: "creates or updates").
3. An external agent that fails or times out leaves its changes unrecorded
   (`agent/src/cli.ts:176`; `docs/CONDUCTOR.md:73`). `ReturnsWhatItProves`
   states what does hold: a completed session has them.
4. Overlapping appends may write the anchor out of order, and then `/ready` is
   503 and `/v1/verify` red until the next append, though nothing is wrong with
   the ledger (`ledger.ts:58`; `CONFIG.md:29`).
5. The quota is checked before the provider call and debited after it, so
   concurrent requests overspend it (`completion.ts:125`); provisioning sums the
   usage and then overwrites the quota, so that a completion in between is
   counted twice (`http.ts:133`).
6. A failed persistence turns a good live session red (`server.ts:2496`). The
   same lines load a keyed session without its key, so it is red even when
   nothing fails.
7. In the IDE, overlapping runs share one last session, one last verdict and
   one turn for commands: `reef.verifySession` (`extension.ts:2633`) stores a
   verdict as that of whatever session is the last by then, and a task created
   after the next one began shows its evidence in the other's turn. A turn sent
   while `chatRun` is set is dropped, and leaves the composer disabled.
8. A power whose save failed is answered 500 and stays in memory; installing it
   again is answered 201 without a save (`mcp.ts:562`), and a restart loses it.
9. An overlapping append may write its anchor over a later one, so that a green
   audit read from an old listing misses decisions answered meanwhile
   (`ledger.ts:58`); `GreenVouches` states what holds of the others.
10. A denial or an execution whose record cannot be minted stays counted in the
   seal (`session.ts:332`); `SealCounts` allows that one action.

## Proofs

Each theorem holds for every value of the constants that the named assumptions
of the model's module allow: bounds are naturals, sets of requests, clients and
files are finite, `"none"` is no turn, no run is a turn and a task, no session
is called `"request"` (the author of a transition made by hand), and no request
is of two kinds (`RoutesAssumption`: a request has one route). The argument is
the same everywhere: an invariant `IInv` that implies the property
and that each action preserves, with one lemma per action. What `IInv` has to
add is the interest of the proof.

`GovernedSessionProofs`, for every `MaxSteps` and sink: `TypeOK`,
`SealVerifies`, `SealCounts`, `DeniedNeverExecuted`, `CompletedIsAccounted`,
`CancellationWins`, `AbortStopsEffects`, `TruthfulFeedback`, and `Spec =>
KeepsContract`. `IInv` adds that the records, the counters and the effects
belong to actions already proposed (`Ledger`), that an action in the pipeline is
new to all of them (`InFlight`), and that only an ended run is sealed
(`SealsAtEnd`). `Counted` says that the counters are `Level` with the log until
a record could not be minted, which ends the loop, so that they lead it by one
action at most and never in a run that completed. For `AbortStopsEffects`, `InFlightOnly` adds that
after the signal the driver is asked for no action any more: the one in the
pipeline has had no effect while it is authorized or executed, and no other will
have one. `TruthfulFeedback` needs only that what is on record stays there. The
refinement maps `Recorded`, `effects` and the seal to the contract's `done`,
`refused`, `world` and `verdict`; most steps stutter, and `Close` becomes `CloseAs` or `Abandon`.

`GatewayProofs`, of `GatewayLedger`, for every finite set of requests and every
number of decisions: `TypeOK`, `ChainIntact`, `AcksDurable`, `AnchorOnChain`,
`TrailsInOrder`, `GreenVouches`, and `Spec => IsAppendOnlyLog`. `IInv` adds
`Chained` (the table is one chain of `Size` links, stated by sequence and not
over the listing), `Drafts` (a link in the making extends a *prefix* of the
chain, so an insert that finds its key free extends the whole of it), and
`Trails` with `NotYet`, which say exactly which of its decisions a request has
in the ledger. Without `Drafts` an insert could break the chain; without
`NotYet` a decision could join twice. `GreenVouches` rests on an invariant
beside it, `Vouching`: what an audit listed is a prefix of the chain
(`ListedPrefix`), and the anchor is longer than every decision answered but
those of its writer's window (`AnchorCovers`, `Windows`). A green verdict says
that the list is as long as the anchor, so the list has them.

`GatewayProofs`, of `ControlPlane`, for any sign-ups, provisionings, logins,
SSO users, revocations and reads: `AnswersHold`, `ServedUntilRevoked`. Nothing
that a request goes by is taken back (`Grows`): an account, its password, a
licence's row, a quota, a membership, a revocation. Over that, `PlaneInv` says

- of the tables, that one account has the e-mail address, and that a token has
  one licence, active until it is revoked (`Accounts`, `Licenses`);
- of a grant, what it has written at each of its steps (`Granting`), and for an
  SSO login which users and members of the team it has still to see to
  (`Joining`): a grant that answers has done all of it, whoever it raced;
- of a login, that it compares the password of the account it found
  (`Entering`);
- of a read, that what was revoked when it began is none of what it is served
  on, and that a licence it was owed and did not find was revoked since
  (`Reading`). It rests on `Licenses`: were a revoked token granted again, the
  read could be served on it.

`MeteringProofs`, of `GatewayAccount`, for any completions, provisionings,
revocations, demands and quota: `TrailExplainsAnswer`, `ChargesInOrder`,
`EntitledWhenRouted`, `DebitsAddUp`.

- `TrailAt` says how many permissions a completion has at each await, and that
  an answer ends that run of permissions or refuses the next one. `ChargesAt`
  and `EntitledAt` tie the usage and billing rows, and the licences it has seen
  in force, to the same place. `Licensing` keeps `standing` the set of active
  rows, so that the licence a completion reads is one it has witnessed.
- `DebitsAddUp` is a sum over a set. Its invariant `Debits` says that the quota
  is the sum over the debited completions until a provisioning has read the
  usage. That adding a completion adds its tokens, in whatever order the sum is
  taken, is shown on a function that solves the recursion of the sum, which
  exists by induction on the size of the set (a least counterexample: the
  induction theorems of the library cannot be used here).
- That no request is both a completion and a provisioning or a revocation is an
  assumption the proof brought out. The handlers of `http.ts` are different
  routes; the instance had it all along.

`MeteringProofs`, of `SpecSessions`, for any specs, finite set of sessions,
room, transitions and faults: `CitationsHold`, `SpecFilesAgree`. `SpecsInv` says
that what is cited is in the graph at its place (`CitedHolds`), where
`GraphGrows` keeps it; that a session has made no transition before its driver
runs (`Unwritten`); and that one which completed made the one it was asked to
make (`Written`). A failed save leaves the graph as it was or longer, so neither
is lost. `MetaHolds` says that `spec.json` never runs ahead of the graph, which
the order of the two writes decides, and `CitedHolds` that it never falls behind
what was answered, though it may stay behind what was written.

`ReefServerProofs`, for any clients, fleets, sessions, events, capacity and
fleet size: `RunningStaysResident`, `StreamsFaithful`, `FleetBindsAll`. `IInv`
says of the map that it holds each session once, no more than fit, and every
running one (`Residents`; an eviction takes the first sealed one, and a start
is refused when there is none); of the subscribers that they watch a running
session (`Subscribers`); and of a stream that it is live and complete, cut off
after some event, or whole with its sealed frame (`Streams`); and of a fleet
that it waits for all of its sessions, and that a ledger it built binds each to
what it sealed with (`Fleets`). A fleet starts
several sessions in one step: `Admitted` is a recursive function, and
`AdmittedIs` shows that it has a solution before the proof can use its equation.
That the map holds all of them at the end of that step, where they are looked
up, follows from its keeping every session that runs: none of them can have
sealed to be displaced by the next.

`DaemonProofs`, of `PowerSession`, for any number of repeated answers:
`OwnAnswers`, `NothingOutlives`, `HonestOutcome`. An id is the number of the
request it was made for, wherever it is: pending, on the wire or settled (`Ids`). `Resources`
says which kind of session may have a process, a profile or something pending
at each await, and `Progress` that the tools behind the driver are those that
returned.

`DaemonProofs`, of `DaemonAccount`, for any sign-ins, sessions, plans, changes
and faults: `PlanOfOneAccount`, and the action property `RestartKeepsAcked`.
`FilesKeepAcked` says that memory holds what was acknowledged, and that a file
that was not cut short does too, but for the powers that were acknowledged from
memory alone: a start reads the files and nothing else. `PlansKeepAccount` says
that
the answers a plan has are of the account that it began with.

`SessionStoreProofs`, for any number of runs, exports and alterations:
`PersistedLoads`, `GreenPackProves`, `CalmExportIsGreen`, and the action
property `AlteredPackIsRed`. `Ordered` says that the files of a directory are
replaced in their order, so that the last is the newest only if all are;
`Exported` and `IsManifest` that what a manifest names was written by one
export; `Newer` that an export reads sessions in the order they were written, so
that what it copied is no older than what it replayed, and the manifest's pin,
read before both, can only be met by one session; and `Undisturbed` what an
export has copied so far when nothing touched the files since it loaded them.
That two exports' parts cannot pass for one pack
rests on this and on hashes that do not collide.

`OrchestrationProofs`, for any team, plan, number of turns and reply:
`ConversationFaithful`, `LedgerBindsWork`, `ReturnsWhatItProves`. The invariant
says where things are. A turn adds two messages, a reply and the results of its
tool uses (`Paired`); a subtask adds two records, a route and the result that
pins its session (`Pinned`), after one or two records of the plan. `Ending` says
what follows the last pinned subtask at each await: nothing, the open route of
the subtask being worked on, or the acceptance and the conclusion. The
properties, which speak of any two records, follow by arithmetic on their
places. `ToldTheRecord` is preserved because a message is never changed and
only grows the record; `Worker` carries the diff of an external agent, and the
files it was measured on, to the end of its subtask.

`IdeClientProofs`, for any turns, tasks and bounds: `OneAbortReachesAll`. `IInv`
adds that before the first AbortController is made no run asks for a session or
has one, so the run that replaces the controller has aborted whatever an open
stream holds. Most steps are `Quiet`: they start no run, open no stream and
replace no controller.

`IdeClientProofs`, for any number of events, chunks cut anywhere and messages
under way: `EvidenceInPlace`. Its invariant is `EInv`, every part of which is
stated by position:

- `Streams`: the buffer of a run that has read n characters is the one it has
  read of a frame that is not complete, or empty. With it, what `drainSSE`
  returns for a chunk is known in closed form (`DrainedFrames`): the frames from
  the one after the last that was read, each once. The recursion over the buffer
  is solved by the least position at which a solution would be wrong.
- `Records`: until a turn ends, the host's record is the events of the frames
  read in full, sealed if the last was among them; after it, some of them.
- `Shown`: what the webview shows, and every message on its way to it, is a view
  with no more events than the host has (`ViewsOf(t, Known(t))`). As the host
  only ever knows more (`KnowsMore`), a late or dropped message cannot put the webview ahead.
- `Sent`: a turn is on a card, or on its way to the host, once, and its run has
  not begun. Without it a turn could run twice and its evidence be added twice.

`TypeOK`, `DeniedNeverExecuted` and `CompletedIsAccounted` of a session, and
`TypeOK`, `AcksDurable` and `AnchorOnChain` of the ledger, are proved and are
not among the runs' properties. The inductive invariants of `GatewayAccount`,
`ReefServer`, `SessionStore`, `Orchestration`, `ControlPlane`, `SpecSessions`,
`DaemonAccount` and `IdeClient` (`EInv`) were also model-checked on the
instances of their runs; `Debits` is proved only.
Every invariant, action property and refinement that a run checks is proved.

Only model-checked is every liveness property: `EventuallyEnds`,
`StreamsEnd`, `FleetsSeal`, `SessionFinishes` and `Settles`.
Liveness under fairness is outside the prover's reach. The violation of
`server_fleet_evicted` is TLC's too: it is a behaviour, and needs no proof.

## Not modelled, and the plan

Abstracted throughout: JSON and hashing (collision-free), timestamps beyond
their order, wording, signatures. Not modelled, with the reason, in
`PROJECT.json`: rendering (web, CLI), stubs, adapters, and stateless
translations. Of the IDE, the Agent Focus panel, the status bar, the start of
the bundled daemon and the views that ask one request and show one answer. Of
`server.ts`, the drivers of demos, the tamper demo and route parsing. The
action policy is pure: it decides one action at a time from its arguments.

What is left, most important first:

1. The allowlist's decisions as functions, against a reference definition.
2. The Agent Focus panel beside the chat in `IdeClient`.
3. The audit of the ledger with records altered behind the gateway's back.
