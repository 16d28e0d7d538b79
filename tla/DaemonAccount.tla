---------------------------- MODULE DaemonAccount ----------------------------
(***************************************************************************)
(* What the daemon keeps beside its sessions: the account with its sign-in *)
(* and its plan (packages/server/src/account.ts), hooks, steering and      *)
(* powers (hooks.ts, steering.ts, mcp.ts).  Requests interleave at their   *)
(* awaits, saves fail or are cut short, and the daemon may die and start   *)
(* again on what is on disk.  The edition is the commercial one and        *)
(* REEF_GATEWAY_URL is set.                                                *)
(***************************************************************************)
EXTENDS Integers, FiniteSets

CONSTANTS
  Login,        \* the POST /account/login requests
  Session,      \* the POST /sessions requests, which may sign in first
  Query,        \* the GET /account requests
  Hook, Steer, Power,  \* what requests add to the three lists
  MaxChanges,   \* bounds the changes to the lists, and the sign-outs
  MaxFaults     \* bounds the failed saves and the deaths of the daemon

ASSUME BoundsAssumption == {MaxChanges, MaxFaults} \subseteq Nat

VARIABLES
  up,        \* does the daemon run?
  memory,    \* what AccountStore and the registries hold
  file,      \* what their files hold; one that is absent or torn is empty
  signing,   \* what each sign-in awaits
  plan,      \* what each account plan awaits, and what it has read
  changes, faults,
  acked,     \* history: what was added to each list and acknowledged, or was
             \* in it when the daemon started
  cut,       \* history: the files whose last save was cut short
  unsaved    \* history: the powers acknowledged while their file lacked them

stores == <<memory, file, acked, cut, unsaved>>
counters == <<changes, faults>>
accountVars == <<up, stores, signing, plan, counters>>

-----------------------------------------------------------------------------
Signer == Login \cup Session
Planner == Query \cup Login \cup Session  \* a session's: AccountPlanDriver
Registry == {"account", "hooks", "steering", "powers"}

\* The account is known by the sign-in that set it.
Nobody == "nobody"

\* custom and activeIds of SteeringRegistry.
Available(steering) == steering.custom \cup {"built-in"}

Empty == [account |-> Nobody, hooks |-> {},
          steering |-> [custom |-> {}, active |-> {}], powers |-> {}]

\* The list in what a file holds; the account has none.
Items(r, value) ==
  CASE r = "account" -> {}
    [] r = "steering" -> value.custom
    [] OTHER -> value

NoPlan == [pc |-> "idle", account |-> Nobody, quota |-> Nobody,
           priority |-> Nobody]
Answered == [NoPlan EXCEPT !.pc = "over"]

AccountInit ==
  /\ up = TRUE
  /\ memory = Empty
  /\ file = Empty
  /\ signing = [x \in Signer |-> "idle"]
  /\ plan = [p \in Planner |-> NoPlan]
  /\ changes = 0
  /\ faults = 0
  /\ acked = [r \in Registry |-> {}]
  /\ cut = {}
  /\ unsaved = {}

Fault == faults < MaxFaults /\ faults' = faults + 1

-----------------------------------------------------------------------------
(* The daemon's death and start.                                           *)

\* The daemon dies, perhaps while it saves a file; so do its requests.
Crash ==
  /\ up
  /\ Fault
  /\ up' = FALSE
  /\ \/ UNCHANGED <<file, cut>>
     \/ \E r \in Registry : /\ file' = [file EXCEPT ![r] = Empty[r]]
                            /\ cut' = cut \cup {r}
  /\ memory' = Empty
  /\ signing' = [x \in Signer |->
                   IF signing[x] = "idle" THEN "idle" ELSE "over"]
  /\ plan' = [p \in Planner |->
                IF plan[p].pc = "idle" THEN NoPlan ELSE Answered]
  /\ UNCHANGED <<acked, unsaved, changes>>

\* #load: no file, and one that does not parse, is an empty one.
Load(r) == file[r]

\* The constructors.
Restart ==
  /\ ~up
  /\ up' = TRUE
  /\ memory' = [r \in Registry |-> Load(r)]
  /\ acked' = [r \in Registry |-> Items(r, memory'[r])]
  /\ unsaved' = {}
  /\ UNCHANGED <<file, cut, signing, plan, counters>>

-----------------------------------------------------------------------------
(* The four files.  A change is made in memory and then saved in place with *)
(* writeFileSync, which truncates the file before it writes.               *)

\* Mutant: the list is written before it is added to.
SavesTooEarly(r, value) ==
  /\ memory' = [memory EXCEPT ![r] = value]
  /\ file' = [file EXCEPT ![r] = memory[r]]
  /\ cut' = cut \ {r}
  /\ unsaved' = IF r = "powers" THEN {} ELSE unsaved
  /\ UNCHANGED faults

\* What an earlier save failed to write is written too.
Saves(r, value) ==
  /\ memory' = [memory EXCEPT ![r] = value]
  /\ file' = [file EXCEPT ![r] = value]
  /\ cut' = cut \ {r}
  /\ unsaved' = IF r = "powers" THEN {} ELSE unsaved
  /\ UNCHANGED faults

\* The save is refused, or cut short: the request fails, and the change stays
\* in memory.
SaveFails(r, value) ==
  /\ Fault
  /\ memory' = [memory EXCEPT ![r] = value]
  /\ \/ UNCHANGED <<file, cut>>
     \/ file' = [file EXCEPT ![r] = Empty[r]] /\ cut' = cut \cup {r}
  /\ UNCHANGED unsaved

\* The answer names the items added, if any, when the save succeeds.
Change(r, value, items) ==
  /\ up
  /\ changes < MaxChanges
  /\ changes' = changes + 1
  /\ \/ Saves(r, value) /\ acked' = [acked EXCEPT ![r] = @ \cup items]
     \/ SaveFails(r, value) /\ UNCHANGED acked
  /\ UNCHANGED <<up, signing, plan>>

\* HookRegistry.create
CreateHook ==
  \E h \in Hook \ memory["hooks"] :
    Change("hooks", memory["hooks"] \cup {h}, {h})

\* SteeringRegistry.addCustom
AddSteering ==
  \E c \in Steer \ memory["steering"].custom :
    Change("steering", [memory["steering"] EXCEPT !.custom = @ \cup {c}], {c})

\* SteeringRegistry.setActive, which throws on an id that is not available.
SetActive ==
  \E ids \in SUBSET Available(memory["steering"]) :
    Change("steering", [memory["steering"] EXCEPT !.active = ids], {})

\* McpPowerRegistry.installAvailable of a power it does not hold, and addCustom.
AddPower ==
  \E p \in Power \ memory["powers"] :
    Change("powers", memory["powers"] \cup {p}, {p})

\* installAvailable of a power it holds: acknowledged, and nothing is saved,
\* though the save that was to write it may have failed.
InstallAgain ==
  /\ up
  /\ \E p \in memory["powers"] :
       /\ acked' = [acked EXCEPT !["powers"] = @ \cup {p}]
       /\ unsaved' = unsaved \cup ({p} \ file["powers"])
  /\ UNCHANGED <<up, memory, file, cut, signing, plan, counters>>

\* AccountStore.logout
Logout == Change("account", Nobody, {})

-----------------------------------------------------------------------------
(* Signing in.                                                             *)

SignInStep(x, next) ==
  /\ signing' = [signing EXCEPT ![x] = next]
  /\ UNCHANGED <<up, plan, changes>>

\* The body of the request has been read.
BeginLogin ==
  /\ up
  /\ \E l \in Login : signing[l] = "idle" /\ SignInStep(l, "oidc")
  /\ UNCHANGED <<stores, faults>>

\* signInWithStubOidc has answered, or failed.
Identifies ==
  /\ up
  /\ \E x \in Signer, next \in {"gateway", "failed"} :
       signing[x] = "oidc" /\ SignInStep(x, next)
  /\ UNCHANGED <<stores, faults>>

\* #gatewayToken has answered, or failed and leaves the stub's token; the
\* account is replaced and saved.
SignsIn ==
  /\ up
  /\ \E x \in Signer :
       /\ signing[x] = "gateway"
       /\ \/ Saves("account", x) /\ SignInStep(x, "signed")
          \/ SaveFails("account", x) /\ SignInStep(x, "failed")
  /\ UNCHANGED acked

\* POST /sessions: nobody is signed in and the request has no token of its own,
\* so the daemon signs in first; or it goes on as it is.
BeginSession ==
  /\ up
  /\ \E s \in Session :
       /\ signing[s] = "idle"
       /\ \/ memory["account"] \notin Signer /\ SignInStep(s, "oidc")
          \/ SignInStep(s, "failed")
  /\ UNCHANGED <<stores, faults>>

-----------------------------------------------------------------------------
(* The account plan: two requests to the gateway, one after the other.     *)

\* #accountPlan takes the account once.
BeginsPlan(p) ==
  plan' = [plan EXCEPT ![p] = [NoPlan EXCEPT !.pc = "quota",
                                             !.account = memory["account"]]]

AskPlan ==
  /\ up
  /\ \E q \in Query : plan[q].pc = "idle" /\ BeginsPlan(q)
  /\ UNCHANGED <<up, stores, signing, counters>>

\* After its sign-in, however that ended, a session is started: one that asks
\* for the plan, or another, or none when there is no room.
StartSession ==
  /\ up
  /\ \E s \in Session :
       /\ signing[s] \in {"signed", "failed"}
       /\ signing' = [signing EXCEPT ![s] = "over"]
       /\ BeginsPlan(s) \/ UNCHANGED plan
  /\ UNCHANGED <<up, stores, counters>>

\* POST /account/login starts the evidence session of the sign-in, which is
\* refused when there is no room, and answers with the plan.
AnswerLogin ==
  /\ up
  /\ \E l \in Login :
       /\ signing[l] \in {"signed", "failed"}
       /\ signing' = [signing EXCEPT ![l] = "over"]
       /\ \/ signing[l] = "signed" /\ BeginsPlan(l)
          \/ UNCHANGED plan
  /\ UNCHANGED <<up, stores, counters>>

\* commercialQuota: whatever it meets is an answer.
ReadQuota ==
  /\ up
  /\ \E p \in Planner :
       /\ plan[p].pc = "quota"
       /\ plan' = [plan EXCEPT ![p].pc = "priority",
                               ![p].quota = plan[p].account]
  /\ UNCHANGED <<up, stores, signing, counters>>

\* Mutant: the tiers are read for whoever is signed in by then.
PriorityOfCurrent(p) == memory["account"]

\* The account priorityPlan is given.
PriorityAccount(p) == plan[p].account

ReadPriority ==
  /\ up
  /\ \E p \in Planner :
       /\ plan[p].pc = "priority"
       /\ plan' = [plan EXCEPT ![p].pc = "done",
                               ![p].priority = PriorityAccount(p)]
  /\ UNCHANGED <<up, stores, signing, counters>>

\* The answer to GET /account or to a login; the log of a session.
AnswerPlan ==
  /\ up
  /\ \E p \in Planner : plan[p].pc = "done"
                       /\ plan' = [plan EXCEPT ![p] = Answered]
  /\ UNCHANGED <<up, stores, signing, counters>>

-----------------------------------------------------------------------------
Registries == CreateHook \/ AddSteering \/ SetActive \/ AddPower
                \/ InstallAgain \/ Logout
SignIns == BeginLogin \/ Identifies \/ SignsIn \/ BeginSession
Plans == AskPlan \/ StartSession \/ AnswerLogin \/ ReadQuota \/ ReadPriority
           \/ AnswerPlan

AccountNext == Registries \/ SignIns \/ Plans \/ Crash \/ Restart

AccountSpec == AccountInit /\ [][AccountNext]_accountVars

-----------------------------------------------------------------------------
(* Properties.                                                             *)

\* The hooks, steering items and powers the daemon acknowledged are there when
\* it starts again, whatever saves failed in between, with two exceptions: the
\* last save of the file was cut short; or a power was acknowledged because it
\* was in memory, though no save has written it.
RestartKeepsAcked ==
  [][~up /\ up' =>
       \A r \in Registry \ cut :
         acked[r] \subseteq Items(r, memory'[r])
                              \cup (IF r = "powers" THEN unsaved ELSE {})
    ]_accountVars

\* An account plan is of one account, however sign-ins and sign-outs fall
\* between its two requests to the gateway.
PlanOfOneAccount ==
  \A p \in Planner :
    plan[p].pc = "done" => /\ plan[p].quota = plan[p].account
                           /\ plan[p].priority = plan[p].account
=============================================================================
