---------------------------- MODULE ControlPlane ----------------------------
(***************************************************************************)
(* The accounts of the gateway (packages/gateway/src/http.ts): sign-up,    *)
(* provisioning, login, SSO with its team, revocation, and what an account *)
(* reads of its plan, quota and team.  Every request is a series of        *)
(* queries with no transaction around them, each a step here, and any of   *)
(* them may fail and leave what was done before.  Completions are in       *)
(* GatewayAccount, the ledger in GatewayLedger.                            *)
(*                                                                         *)
(* Sign-ups and provisionings are of one e-mail address, and SSO users     *)
(* have theirs, userId@oidc.local, to themselves.                          *)
(***************************************************************************)
EXTENDS Integers, Sequences, FiniteSets, TLC

CONSTANTS
  Signup, Provision, Login, Sso, Revoke, Read,  \* the requests
  User,          \* whom the identity provider knows
  MaxRequests,   \* bounds how many of the requests are made
  QueryMayFail   \* may a query, an append or the identity provider fail?

ASSUME ConstantsAssumption ==
  /\ MaxRequests \in Nat
  /\ QueryMayFail \in BOOLEAN

VARIABLES
  accounts,   \* the accounts table: an id's password
  licenses,   \* the licenses table
  quotas,     \* the accounts with a row in the quotas table
  members,    \* the team_members table: the accounts in the team
  request,    \* the requests, with what each has read
  clock,      \* orders the created_at of licences
  revoked     \* history: the tokens of the licences there were at a revocation

tables == <<accounts, licenses, quotas, members>>
planeVars == <<tables, request, clock, revoked>>

-----------------------------------------------------------------------------
PlaneRequest == Signup \cup Provision \cup Login \cup Sso \cup Revoke \cup Read
Grant == Signup \cup Provision \cup Sso

\* An identity without a team of its own gets the default one, of the user and
\* a reviewer; bound: none comes with other members.  And its licence token.
Reviewer == "reef-stub-reviewer"
TeamOf(user) == <<user, Reviewer>>
SsoToken(user) == user

\* A fresh id belongs to the request that made it.
Local == Signup \cup Provision
Account == Local \cup User \cup {Reviewer}

None == "none"
Exists(a) == accounts[a] # None
Registered == {a \in Local : Exists(a)}

\* A request is made at one route, ids and tokens are not the words used here,
\* and a fresh id is not that of an SSO user.
Routes == <<Signup, Provision, Login, Sso, Revoke, Read>>
ASSUME RoutesAssumption ==
  /\ \A i, j \in 1 .. 6 : i # j => Routes[i] \cap Routes[j] = {}
  /\ Local \cap (User \cup {Reviewer}) = {}
  /\ {None, "member"} \cap (Local \cup User) = {}

NoRequest == [pc |-> "new", status |-> 0, account |-> None, row |-> None,
              todo |-> <<>>, at |-> 0, what |-> None, license |-> None,
              owed |-> {}, stale |-> {}]

PlaneInit ==
  /\ accounts = [a \in Account |-> None]
  /\ licenses = {}
  /\ quotas = {}
  /\ members = {}
  /\ request = [r \in PlaneRequest |-> NoRequest]
  /\ clock = 0
  /\ revoked = {}

-----------------------------------------------------------------------------
(* Steps of requests.                                                      *)

At(r, pc) == request[r].pc = pc

Becomes(r, record) == request' = [request EXCEPT ![r] = record]
Proceeds(r, pc) == Becomes(r, [request[r] EXCEPT !.pc = pc])

\* The request forgets what it has read.
Answers(r, status) ==
  Becomes(r, [NoRequest EXCEPT !.pc = "answered", !.status = status,
                !.account = request[r].account, !.what = request[r].what,
                !.license = request[r].license, !.owed = request[r].owed,
                !.stale = request[r].stale])

Succeeded(r) == request[r].status \in {200, 201}

\* A request is made.
MayBegin ==
  Cardinality({r \in PlaneRequest : ~At(r, "new")}) < MaxRequests

\* The body does not parse, or it is not the admin who asks.
Refuses(r) ==
  /\ At(r, "new") /\ MayBegin
  /\ r \notin Revoke \cup Read
  /\ \E status \in IF r \in Provision THEN {400, 403} ELSE {400} :
       Answers(r, status)
  /\ UNCHANGED <<tables, clock, revoked>>

\* A query rejects: GatewayHttpServer answers 500.
QueryFails(r) ==
  /\ QueryMayFail
  /\ ~At(r, "new") /\ ~At(r, "answered")
  /\ Becomes(r, [NoRequest EXCEPT !.pc = "answered", !.status = 500])
  /\ UNCHANGED <<tables, clock, revoked>>

-----------------------------------------------------------------------------
(* The queries that change a table.                                        *)

\* Mutant: ON CONFLICT(email) DO UPDATE.
UpsertByEmail(r, id, row, next) ==
  LET a == IF id \in Local /\ Registered # {}
           THEN CHOOSE b \in Registered : TRUE
           ELSE id
  IN /\ accounts' = [accounts EXCEPT ![a] = row]
     /\ Proceeds(r, next)

\* INSERT ... ON CONFLICT(id) DO UPDATE, of a table whose email is unique too.
UpsertAccount(r, id, row, next) ==
  IF id \in Local /\ Registered \ {id} # {}
  THEN Answers(r, 500) /\ UNCHANGED accounts
  ELSE /\ accounts' = [accounts EXCEPT ![id] = row]
       /\ Proceeds(r, next)

\* A licence has a fresh id; its token is unique, fresh or the identity's.
UpsertLicense(r, token) ==
  /\ At(r, "license")
  /\ IF token \in {l.token : l \in licenses}
     THEN Answers(r, 500) /\ UNCHANGED licenses
     ELSE /\ licenses' = licenses \cup
               {[account |-> request[r].account, token |-> token,
                 at |-> request[r].at, active |-> TRUE]}
          /\ Proceeds(r, "quota")
  /\ UNCHANGED <<accounts, quotas, members, clock, revoked>>

\* The sum that is written with it is GatewayAccount's matter.
UpsertQuota(r) ==
  /\ At(r, "quota")
  /\ quotas' = quotas \cup {request[r].account}
  /\ Proceeds(r, "record")
  /\ UNCHANGED <<accounts, licenses, members, clock, revoked>>

\* SELECT ... status = 'active' ORDER BY created_at DESC LIMIT 1
ActiveLicense(a) ==
  LET active == {l \in licenses : l.account = a /\ l.active}
  IN IF active = {} THEN None
     ELSE (CHOOSE l \in active : \A m \in active : m.at <= l.at).token

-----------------------------------------------------------------------------
(* POST /v1/signup, POST /v1/admin/accounts.                               *)

\* getAccountByEmail, and `now`.
SignupLooksUp(r) ==
  /\ At(r, "new") /\ MayBegin
  /\ IF Registered # {}
     THEN Answers(r, 409) /\ UNCHANGED clock
     ELSE /\ Becomes(r, [NoRequest EXCEPT
               !.pc = "account", !.account = r, !.at = clock,
               !.row = r])
          /\ clock' = clock + 1
  /\ UNCHANGED <<tables, revoked>>

\* localPasswordMaterial for a new account.
PasswordFor(existing) ==
  IF existing = {} THEN "local" ELSE CHOOSE password \in existing : TRUE

ProvisionLooksUp(r) ==
  /\ At(r, "new") /\ MayBegin
  /\ LET existing == {accounts[a] : a \in Registered} IN
       \E id \in IF Registered = {} THEN {r} ELSE Registered :
         Becomes(r, [NoRequest EXCEPT
           !.pc = "account", !.account = id, !.at = clock,
           !.row = PasswordFor(existing)])
  /\ clock' = clock + 1
  /\ UNCHANGED <<tables, revoked>>

SavesAccount(r, next) ==
  /\ At(r, "account")
  /\ UpsertAccount(r, request[r].account, request[r].row, next)
  /\ UNCHANGED <<licenses, quotas, members, clock, revoked>>

\* A sign-up is on the ledger before its licence is there.
RecordsSignup(r) ==
  /\ At(r, "signup")
  /\ Proceeds(r, "license")
  /\ UNCHANGED <<tables, clock, revoked>>

\* The last decision is on the ledger: the answer, with an access token.
RecordsGrant(r) ==
  /\ At(r, "record")
  /\ Answers(r, IF r \in Sso THEN 200 ELSE 201)
  /\ UNCHANGED <<tables, clock, revoked>>

Grants(r, token) == UpsertLicense(r, token) \/ UpsertQuota(r) \/ RecordsGrant(r)

SignsUp(r) ==
  \/ SignupLooksUp(r)
  \/ SavesAccount(r, "signup")
  \/ RecordsSignup(r)
  \/ Grants(r, r)

Provisions(r) ==
  ProvisionLooksUp(r) \/ SavesAccount(r, "license") \/ Grants(r, r)

-----------------------------------------------------------------------------
(* POST /v1/login.                                                         *)

\* getAccountByEmail and verifyPassword.
LoginLooksUp(r) ==
  /\ At(r, "new") /\ MayBegin
  /\ \E password \in Signup \cup {"local"} :
       LET allowed == {a \in Registered : accounts[a] = password} IN
         Becomes(r, [NoRequest EXCEPT
           !.pc = "auth", !.what = password,
           !.account = IF allowed = {} THEN None
                       ELSE CHOOSE a \in allowed : TRUE])
  /\ UNCHANGED <<tables, clock, revoked>>

LoginRecords(r) ==
  /\ At(r, "auth")
  /\ Answers(r, IF request[r].account = None THEN 401 ELSE 200)
  /\ UNCHANGED <<tables, clock, revoked>>

LogsIn(r) == LoginLooksUp(r) \/ LoginRecords(r)

-----------------------------------------------------------------------------
(* POST /v1/sso/login.                                                     *)

\* signInWithStubOidc: who signs in, and the team with its members.
Identifies(r) ==
  /\ At(r, "new") /\ MayBegin
  /\ \E user \in User :
       Becomes(r, [NoRequest EXCEPT
         !.pc = "find", !.account = user, !.at = clock,
         !.todo = <<user>> \o TeamOf(user)])
  /\ clock' = clock + 1
  /\ UNCHANGED <<tables, revoked>>

\* getAccount of the user, and later of each member.
FindsAccount(r) ==
  /\ At(r, "find")
  /\ LET a == Head(request[r].todo) IN
       Becomes(r, [request[r] EXCEPT
         !.pc = "upsert",
         !.row = IF Exists(a) THEN accounts[a] ELSE "local"])
  /\ UNCHANGED <<tables, clock, revoked>>

\* upsertAccount, and then upsertTeam or upsertTeamMember.
SavesMember(r) ==
  /\ At(r, "upsert")
  /\ UpsertAccount(r, Head(request[r].todo), request[r].row, "member")
  /\ UNCHANGED <<licenses, quotas, members, clock, revoked>>

\* The first time round it is the team that is saved.
JoinsTeam(r) ==
  /\ At(r, "member")
  /\ members' = IF Len(request[r].todo) = 3 THEN members
                ELSE members \cup {Head(request[r].todo)}
  /\ Becomes(r, [request[r] EXCEPT
       !.pc = IF Len(request[r].todo) = 1 THEN "license" ELSE "find",
       !.todo = Tail(@)])
  /\ UNCHANGED <<accounts, licenses, quotas, clock, revoked>>

SignsIn(r) ==
  \/ Identifies(r)
  \/ FindsAccount(r)
  \/ SavesMember(r)
  \/ JoinsTeam(r)
  \/ Grants(r, SsoToken(request[r].account))

-----------------------------------------------------------------------------
(* Requests with an access token.                                          *)

\* The accounts an answer gave a token of.
Principal ==
  {request[g].account : g \in {q \in Grant \cup Login : Succeeded(q)}}

\* The licence that a grant made.
TokenOf(g) == IF g \in Sso THEN SsoToken(request[g].account) ELSE g

Tokens(a) == {l.token : l \in {m \in licenses : m.account = a}}

\* The licences of an account that were granted in an answer, and not revoked.
Owed(a) ==
  {l.token : l \in {m \in licenses :
     /\ m.account = a
     /\ \E g \in Grant : /\ Succeeded(g)
                         /\ request[g].account = a
                         /\ m.token = TokenOf(g)}} \ revoked

\* verifyAccessToken, and the decision about it; a token may be bad or expired.
Authenticates(r, what) ==
  /\ At(r, "new") /\ MayBegin
  /\ \/ \E a \in Principal :
          Becomes(r, [NoRequest EXCEPT
            !.pc = what, !.account = a, !.what = what,
            !.owed = IF what = "audit" THEN members \cap {a} ELSE Owed(a),
            !.stale = revoked])
     \/ Becomes(r, [NoRequest EXCEPT
          !.pc = "answered", !.status = 401, !.what = what])
  /\ UNCHANGED <<tables, clock, revoked>>

\* Mutant: only the licence in use is revoked.
RevokesNewest(a) == {t \in Tokens(a) : t = ActiveLicense(a)}

\* UPDATE licenses ... WHERE account_id = ... AND status = 'active'
Revokes(a) == Tokens(a)

RevokesLicenses(r) ==
  /\ At(r, "revoke")
  /\ LET a == request[r].account IN
       /\ licenses' = {IF l.token \in Revokes(a)
                       THEN [l EXCEPT !.active = FALSE] ELSE l : l \in licenses}
       /\ revoked' = revoked \cup Tokens(a)
  /\ Proceeds(r, "revoked")
  /\ UNCHANGED <<accounts, quotas, members, clock>>

RecordsRevocation(r) ==
  /\ At(r, "revoked")
  /\ Answers(r, 200)
  /\ UNCHANGED <<tables, clock, revoked>>

ReadsLicense(r, what, next) ==
  /\ At(r, what)
  /\ Becomes(r, [request[r] EXCEPT
       !.license = ActiveLicense(request[r].account), !.pc = next])
  /\ UNCHANGED <<tables, clock, revoked>>

ReadsQuota(r) ==
  /\ At(r, "row")
  /\ IF request[r].account \in quotas THEN Proceeds(r, "tell")
     ELSE Becomes(r, [request[r] EXCEPT !.pc = "tell", !.license = None])
  /\ UNCHANGED <<tables, clock, revoked>>

\* getTeamForAccount, which joins the members with the accounts; the members
\* and their usage, which it reads then, change no answer.
ReadsTeam(r) ==
  /\ At(r, "audit")
  /\ LET a == request[r].account IN
       Becomes(r, [request[r] EXCEPT
         !.pc = "tell",
         !.license = IF a \in members /\ Exists(a) THEN "member" ELSE None])
  /\ UNCHANGED <<tables, clock, revoked>>

\* The decision is on the ledger.
Tells(r) ==
  /\ At(r, "tell")
  /\ Answers(r, IF request[r].license = None THEN 403 ELSE 200)
  /\ UNCHANGED <<tables, clock, revoked>>

\* POST /v1/license/revoke
RevokesLicense(r) ==
  Authenticates(r, "revoke") \/ RevokesLicenses(r) \/ RecordsRevocation(r)

\* GET /v1/quota
AsksQuota(r) ==
  \/ Authenticates(r, "quota")
  \/ ReadsLicense(r, "quota", "row")
  \/ ReadsQuota(r)
  \/ Tells(r)

\* GET /v1/plan
AsksPlan(r) ==
  Authenticates(r, "plan") \/ ReadsLicense(r, "plan", "tell") \/ Tells(r)

\* GET /v1/team/audit
AsksTeam(r) == Authenticates(r, "audit") \/ ReadsTeam(r) \/ Tells(r)

-----------------------------------------------------------------------------
PlaneNext ==
  \/ \E r \in Signup : SignsUp(r)
  \/ \E r \in Provision : Provisions(r)
  \/ \E r \in Login : LogsIn(r)
  \/ \E r \in Sso : SignsIn(r)
  \/ \E r \in Revoke : RevokesLicense(r)
  \/ \E r \in Read : AsksQuota(r) \/ AsksPlan(r) \/ AsksTeam(r)
  \/ \E r \in PlaneRequest : Refuses(r) \/ QueryFails(r)

PlaneSpec == PlaneInit /\ [][PlaneNext]_planeVars

\* Sign-ups differ in nothing but their ids, and so do SSO logins.
Alike == Permutations(Signup) \cup Permutations(Sso)

-----------------------------------------------------------------------------
(* Properties.                                                             *)

\* Whatever sign-ups, provisionings and logins raced it, and wherever they
\* failed: an account that was granted in an answer is there with its password,
\* its licence, its quota and its team, and no login with another password was
\* let in.
AnswersHold ==
  /\ \A g \in Grant : Succeeded(g) =>
       LET a == request[g].account IN
         /\ Exists(a)
         /\ a \in quotas
         /\ \E l \in licenses : l.account = a /\ l.token = TokenOf(g)
         /\ g \in Signup => accounts[a] = g
         /\ g \in Sso => {a, Reviewer} \subseteq members
  /\ \A r \in Login : request[r].status = 200 =>
       accounts[request[r].account] = request[r].what

\* An account is served the plan, the quota and the team that an answer
\* granted it, until it revokes its licence; and no request that authenticated
\* after a revocation is served on a licence from before it.
ServedUntilRevoked ==
  \A r \in Read :
    /\ request[r].status = 403 =>
         request[r].owed \subseteq
           IF request[r].what = "audit" THEN {} ELSE revoked
    /\ request[r].status = 200 => request[r].license \notin request[r].stale
=============================================================================
