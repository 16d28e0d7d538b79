---------------------------- MODULE SpecSessions ----------------------------
(***************************************************************************)
(* Specs (packages/server/src/specs.ts), the sessions and requests that    *)
(* advance them and the conversations that pin them (server.ts).  A spec   *)
(* lives in two files, its graph and its spec.json.  Requests interleave   *)
(* at their awaits, saves fail or are cut short, sessions are forgotten    *)
(* for want of room, and the daemon may die and start again on what is on  *)
(* disk.                                                                   *)
(***************************************************************************)
EXTENDS Integers, Sequences, FiniteSets, FiniteSetsExt, SequencesExt

CONSTANTS
  Session,      \* the sessions that requests create
  SpecId,       \* the specs that requests create
  Steps,        \* how many legal transitions a spec's task has
  MaxResident,  \* ReefServerOptions.maxSessions
  MaxFaults     \* bounds the failed saves and the deaths of the daemon

ASSUME BoundsAssumption ==
  /\ {Steps, MaxResident} \subseteq Nat \ {0}
  /\ MaxFaults \in Nat

\* A transition that a request makes has no session for its author.
ASSUME SessionsAssumption == IsFiniteSet(Session) /\ "request" \notin Session

VARIABLES
  up,        \* does the daemon run?
  known,     \* the specs in SpecRegistry's map
  seeded,    \* the specs with a graph on disk
  graph,     \* that graph: the author of each transition
  meta,      \* the spec.json files: the transition that updatedAt is of
  session,   \* the session records, also after the daemon forgot them
  resident,  \* the sessions in #sessions, oldest first
  faults,
  cited      \* history: the transitions an answer or a session refers to

files == <<seeded, graph, meta>>
specs == <<known, files, cited>>
sessions == <<session, resident>>
specsVars == <<up, specs, sessions, faults>>

-----------------------------------------------------------------------------
NoSession == [pc |-> "new", kind |-> "chat", spec |-> "none", to |-> 0,
              outcome |-> "running"]

NoMeta == -1  \* no spec.json; that of a new spec is of no transition

SpecsInit ==
  /\ up = TRUE
  /\ known = {}
  /\ seeded = {}
  /\ graph = [s \in SpecId |-> <<>>]
  /\ meta = [s \in SpecId |-> NoMeta]
  /\ session = [s \in Session |-> NoSession]
  /\ resident = <<>>
  /\ faults = 0
  /\ cited = {}

Fault == faults < MaxFaults /\ faults' = faults + 1

-----------------------------------------------------------------------------
(* The daemon's death and start.                                           *)

\* Dying while it saves a spec leaves what a failure of that save leaves.  A
\* session that has not sealed is lost.
Crash ==
  /\ up
  /\ Fault
  /\ up' = FALSE
  /\ session' = [s \in Session |->
       IF session[s].pc \in {"new", "sealed", "refused"} THEN session[s]
       ELSE [NoSession EXCEPT !.pc = "lost"]]
  /\ resident' = <<>>
  /\ UNCHANGED specs

\* SpecRegistry takes every directory with a readable spec.json.
Restart ==
  /\ ~up
  /\ up' = TRUE
  /\ known' = {s \in SpecId : meta[s] # NoMeta}
  /\ UNCHANGED <<files, cited, sessions, faults>>

-----------------------------------------------------------------------------
(* Specs.  A spec has one task here.  Each legal transition takes it to its *)
(* next state: the n-th transition of a graph, kept as its author, leads to *)
(* the n-th state.                                                         *)

\* SpecRegistry.create: the map, the graph and spec.json; a save that fails
\* leaves what was done before it.
CreateSpec ==
  /\ up
  /\ \E s \in SpecId \ (known \cup seeded) :
       /\ known' = known \cup {s}
       /\ \/ /\ seeded' = seeded \cup {s}
             /\ meta' = [meta EXCEPT ![s] = 0]
             /\ UNCHANGED faults
          \/ /\ Fault
             /\ seeded' \in {seeded, seeded \cup {s}}
             /\ UNCHANGED meta
  /\ UNCHANGED <<up, graph, cited, sessions>>

\* #loadGraph finds the graph, and graph.transition() takes the task to `to'.
Legal(s, to) == s \in known \cap seeded /\ to = Len(graph[s]) + 1

\* Mutant: the file is written with the new transition alone.
Overwrites(s, author) ==
  /\ graph' = [graph EXCEPT ![s] = <<author>>]
  /\ meta' = [meta EXCEPT ![s] = Len(graph[s]) + 1]
  /\ UNCHANGED faults

\* #save: the graph with the new transition, then spec.json with its time.
Saves(s, author) ==
  /\ graph' = [graph EXCEPT ![s] = Append(@, author)]
  /\ meta' = [meta EXCEPT ![s] = Len(graph[s]) + 1]
  /\ UNCHANGED faults

\* Mutant: spec.json is written first.
FailsAfterMeta(s, author) ==
  /\ Fault
  /\ meta' \in {meta, [meta EXCEPT ![s] = Len(graph[s]) + 1]}
  /\ UNCHANGED graph

\* A save that fails, or that the daemon's death ends, may have written the
\* graph: the task has advanced, though the answer is an error.
SaveFails(s, author) ==
  /\ Fault
  /\ graph' \in {graph, [graph EXCEPT ![s] = Append(@, author)]}
  /\ UNCHANGED meta

\* An answer refers to the n-th transition by its evidence id, or a
\* conversation pins it.
Cites(s, n, author, how) ==
  cited' = cited \cup {[spec |-> s, n |-> n, author |-> author, how |-> how]}

\* POST /specs/:id/advance
AdvanceRequest ==
  /\ up
  /\ \E s \in SpecId, to \in 1 .. Steps :
       /\ Legal(s, to)
       /\ \/ Saves(s, "request") /\ Cites(s, to, "request", "answer")
          \/ SaveFails(s, "request") /\ UNCHANGED cited
  /\ UNCHANGED <<up, known, seeded, sessions>>

-----------------------------------------------------------------------------
(* Sessions.                                                               *)

\* POST /sessions: the body has been read; the daemon may sign in first.
RequestSession ==
  /\ up
  /\ \E s \in Session : /\ session[s].pc = "new"
                        /\ session' = [session EXCEPT ![s].pc = "request"]
  /\ UNCHANGED <<up, specs, resident, faults>>

\* A taskRef names a spec whose task is not done.
Pinnable(s) == s \in known \cap seeded /\ Len(graph[s]) < Steps

\* #specRuntime, or another runtime, either within a conversation that may pin
\* a task: it records the task's last transition, or only says why it cannot
\* when there is no such open task.
Runs(s, kind, spec, to, pin) ==
  /\ session' = [session EXCEPT
       ![s] = [NoSession EXCEPT
         !.pc = IF pin # "none" /\ ~Pinnable(pin) THEN "misconfigured"
                ELSE kind,
         !.kind = kind, !.spec = spec, !.to = to]]
  /\ IF Pinnable(pin) /\ graph[pin] # <<>>
     THEN Cites(pin, Len(graph[pin]), Last(graph[pin]), "pin")
     ELSE UNCHANGED cited

Sealed == {n \in DOMAIN resident : session[resident[n]].pc = "sealed"}

\* At capacity the oldest sealed session makes room.
MakesRoom(s) ==
  resident' = Append(IF Len(resident) < MaxResident THEN resident
                     ELSE RemoveAt(resident, Min(Sealed)), s)

\* #startSession, all in one go.
Starts(s) ==
  IF Len(resident) >= MaxResident /\ Sealed = {}
  THEN /\ session' = [session EXCEPT ![s].pc = "refused"]
       /\ UNCHANGED <<resident, cited>>
  ELSE /\ MakesRoom(s)
       /\ \E pin \in SpecId \cup {"none"} :
            \/ \E spec \in SpecId, to \in 1 .. Steps :
                 Runs(s, "spec", spec, to, pin)
            \/ Runs(s, "chat", "none", 0, pin)

\* #createSession after its sign-in, however that ended.
StartSession ==
  /\ up
  /\ \E s \in Session : session[s].pc = "request" /\ Starts(s)
  /\ UNCHANGED <<up, known, files, faults>>

\* POST /hooks/:id/fire and POST /account/login start one with no sign-in.
StartAtOnce ==
  /\ up
  /\ \E s \in Session : session[s].pc = "new" /\ Starts(s)
  /\ UNCHANGED <<up, known, files, faults>>

\* The rest of #run; what is persisted of a session is read by none of these.
Seals(s, outcome) ==
  session' = [session EXCEPT ![s].pc = "sealed", ![s].outcome = outcome]

\* The default runtime, or a driver that only says why there is none.
Chats ==
  /\ up
  /\ \E s \in Session :
       \/ /\ session[s].pc = "chat"
          /\ \E outcome \in {"completed", "failed"} : Seals(s, outcome)
       \/ session[s].pc = "misconfigured" /\ Seals(s, "failed")
  /\ UNCHANGED <<up, specs, resident, faults>>

\* The tool reef-spec.advance, and what SpecAdvanceDriver makes of it.
ToolEnds(s, outcome) ==
  session' = [session EXCEPT ![s].pc = "told", ![s].outcome = outcome]

AdvanceSession ==
  /\ up
  /\ \E s \in Session :
       /\ session[s].pc = "spec"
       /\ LET spec == session[s].spec
              to == session[s].to
          IN \/ /\ Legal(spec, to)
                /\ \/ /\ Saves(spec, s)
                      /\ Cites(spec, to, s, "answer")
                      /\ ToolEnds(s, "completed")
                   \/ /\ SaveFails(spec, s)
                      /\ ToolEnds(s, "failed")
                      /\ UNCHANGED cited
             \/ /\ ~Legal(spec, to)
                /\ ToolEnds(s, "failed")
                /\ UNCHANGED <<graph, meta, cited, faults>>
  /\ UNCHANGED <<up, known, seeded, resident>>

SealAdvance ==
  /\ up
  /\ \E s \in Session : session[s].pc = "told" /\ Seals(s, session[s].outcome)
  /\ UNCHANGED <<up, specs, resident, faults>>

-----------------------------------------------------------------------------
SpecsNext ==
  \/ CreateSpec \/ AdvanceRequest
  \/ RequestSession \/ StartSession \/ StartAtOnce \/ Chats
  \/ AdvanceSession \/ SealAdvance
  \/ Crash \/ Restart

SpecSessionsSpec == SpecsInit /\ [][SpecsNext]_specsVars

\* Sessions are interchangeable.
SessionsAlike == Permutations(Session)

-----------------------------------------------------------------------------
(* Properties.                                                             *)

\* A transition that an answer acknowledged, that a session's log records as
\* its own, or that a conversation pinned, stays in its spec's graph at its
\* place, whoever else advances the spec and whatever fails or dies; and a
\* session that completed advanced the spec exactly once.
CitationsHold ==
  /\ \A c \in cited : /\ c.n <= Len(graph[c.spec])
                      /\ graph[c.spec][c.n] = c.author
  /\ \A s \in Session :
       session[s].kind = "spec" /\ session[s].outcome = "completed" =>
         {n \in DOMAIN graph[session[s].spec] :
            graph[session[s].spec][n] = s} = {session[s].to}

\* The two files of a spec agree, whatever fails or dies between them: spec.json
\* never dates a transition its graph lacks, so that a start finds the graph of
\* each spec it takes; and it has kept up with every advance an answer
\* acknowledged, so that a start finds the spec.
SpecFilesAgree ==
  /\ \A s \in SpecId :
       meta[s] # NoMeta => s \in seeded /\ meta[s] <= Len(graph[s])
  /\ \A c \in cited : c.how = "answer" => c.n <= meta[c.spec]
=============================================================================
