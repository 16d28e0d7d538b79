--------------------------- MODULE GatewayAccount ---------------------------
(***************************************************************************)
(* One account of the gateway under concurrent requests: completions       *)
(* (packages/gateway/src/completion.ts), an administrator's provisioning   *)
(* and the owner's licence revocation (http.ts), over the tables licenses, *)
(* quotas, usage_records and billing_records (postgres.ts).                *)
(*                                                                         *)
(* No request runs in a transaction: a step of the model is one awaited    *)
(* query, ledger append or provider call with the code up to the next one. *)
(* A ledger append is one step of AppendOnlyLog, which GatewayLedger       *)
(* implements; it may fail, and then so does its request.  Of the log only *)
(* each request's own trail is kept.                                       *)
(***************************************************************************)
EXTENDS Integers, Sequences, FiniteSets, FiniteSetsExt, TLC

CONSTANTS
  Completion,   \* the POST /v1/completions requests
  Provision,    \* the POST /v1/admin/accounts requests for the account
  Revocation,   \* the POST /v1/license/revoke requests
  Demand,       \* the maxTokens a completion may ask for
  Metered,      \* the total tokens the provider may report
  Limit,        \* config.defaultQuotaTokens
  QueryMayFail  \* may a query, an append or the process fail?

ASSUME RequestsAssumption ==
  /\ IsFiniteSet(Completion)
  /\ IsFiniteSet(Provision)
  /\ IsFiniteSet(Revocation)
  /\ Completion \cap (Provision \cup Revocation) = {}
ASSUME TokensAssumption ==
  /\ Demand \subseteq Nat \ {0}
  /\ Metered \subseteq Nat
  /\ Limit \in Nat
ASSUME QueryAssumption == QueryMayFail \in BOOLEAN

VARIABLES
  licenses,   \* the account's rows of table licenses
  quota,      \* its row of table quotas
  usage,      \* its usage_records: the tokens of a request, -1 for no record
  billed,     \* the requests with a row in billing_records
  pc,         \* what each completion awaits
  request,    \* a completion's parsed request: its maxTokens and its tier
  license,    \* the licence #entitlementFor read
  remaining,  \* the tokens #quotaFor found remaining
  tokens,     \* the total of the usage the provider reported
  trail,      \* the decisions a completion has on the ledger
  status,     \* the HTTP status a request was answered with, 0 before
  admin,      \* what each provisioning awaits, and its locals
  owner,      \* what each revocation awaits
  standing,   \* history: the licences inserted since the last revocation
  witnessed,  \* history: the licences in force since a completion began
  debited     \* history: the completions whose debit was executed

charges == <<quota, usage, billed, debited>>
reads == <<license, remaining>>
completions == <<charges, reads, tokens, request, pc, trail>>
vars == <<completions, licenses, status, admin, owner, standing, witnessed>>

-----------------------------------------------------------------------------
Request == Completion \cup Provision \cup Revocation

\* Of a licence's entitlements: "inference:complete" and "priority:route".
\* created orders the rows as created_at does.
License == [created : 0 .. Cardinality(Provision),
            complete : BOOLEAN, priority : BOOLEAN]
NoLicense == [created |-> -1, complete |-> FALSE, priority |-> FALSE]

Tier == {"standard", "priority"}
NoRequest == [maxTokens |-> 0, tier |-> "standard"]
Decided == [decision : {"auth", "entitlement", "quota", "tier", "route",
                        "meter"},
            allowed : BOOLEAN]

Newest(set) ==
  IF set = {} THEN NoLicense
  ELSE CHOOSE l \in set : \A m \in set : m.created <= l.created

\* SELECT ... WHERE status = 'active' ORDER BY created_at DESC LIMIT 1
ActiveLicense == Newest({row.license : row \in {x \in licenses : x.active}})

\* SELECT SUM(total_tokens) FROM usage_records
SumUsage == MapThenSumSet(LAMBDA c : usage[c],
                          {c \in Completion : usage[c] # -1})

\* remaining()
Remaining == IF quota.limit > quota.used THEN quota.limit - quota.used ELSE 0

FirstLicense == [created |-> 0, complete |-> TRUE, priority |-> FALSE]

\* The account has been provisioned once.
Init ==
  /\ licenses = {[license |-> FirstLicense, active |-> TRUE]}
  /\ quota = [limit |-> Limit, used |-> 0]
  /\ usage = [c \in Completion |-> -1]
  /\ billed = {}
  /\ pc = [c \in Completion |-> "new"]
  /\ request = [c \in Completion |-> NoRequest]
  /\ license = [c \in Completion |-> NoLicense]
  /\ remaining = [c \in Completion |-> 0]
  /\ tokens = [c \in Completion |-> 0]
  /\ trail = [c \in Completion |-> <<>>]
  /\ status = [r \in Request |-> 0]
  /\ admin = [p \in Provision |-> [pc |-> "new", license |-> NoLicense,
                                   used |-> 0]]
  /\ owner = [o \in Revocation |-> "new"]
  /\ standing = {FirstLicense}
  /\ witnessed = [c \in Completion |-> {}]
  /\ debited = {}

-----------------------------------------------------------------------------
(* Completions.                                                            *)

Goto(c, where) ==
  /\ pc' = [pc EXCEPT ![c] = where]
  /\ UNCHANGED <<reads, status>>

\* Answered: what the request has read goes with its locals.
Answer(c, s) ==
  /\ pc' = [pc EXCEPT ![c] = "answered"]
  /\ status' = [status EXCEPT ![c] = s]
  /\ license' = [license EXCEPT ![c] = NoLicense]
  /\ remaining' = [remaining EXCEPT ![c] = 0]

\* A decision joins the ledger.
Decide(c, decision, allowed) ==
  trail' = [trail EXCEPT
    ![c] = Append(@, [decision |-> decision, allowed |-> allowed])]

\* ... and, when it is a denial, is the answer too.
DecideOrDeny(c, decision, allowed, next, denial) ==
  /\ Decide(c, decision, allowed)
  /\ IF allowed THEN Goto(c, next) ELSE Answer(c, denial)

\* What no step of a completion changes.
Elsewhere == UNCHANGED <<licenses, admin, owner, standing>>

\* The bearer token is verified, and the decision recorded.
Authenticate(c) ==
  /\ pc[c] = "new"
  /\ \E allowed \in BOOLEAN :
       DecideOrDeny(c, "auth", allowed, "license", 401)
  /\ witnessed' = [witnessed EXCEPT ![c] = {Newest(standing)}]
  /\ Elsewhere
  /\ UNCHANGED <<charges, tokens, request>>

\* #entitlementFor.  (The account row exists and stays active.)
ReadLicense(c) ==
  /\ pc[c] = "license"
  /\ license' = [license EXCEPT ![c] = ActiveLicense]
  /\ pc' = [pc EXCEPT ![c] = "entitlement"]
  /\ UNCHANGED <<remaining, status>>
  /\ Elsewhere
  /\ UNCHANGED <<charges, tokens, request, trail, witnessed>>

\* The entitlement decision; a malformed body is looked at only after it.
DecideEntitlement(c) ==
  /\ pc[c] = "entitlement"
  /\ Decide(c, "entitlement", license[c].complete)
  /\ IF license[c].complete
     THEN \/ /\ \E maxTokens \in Demand, tier \in Tier :
                  request' = [request EXCEPT
                    ![c] = [maxTokens |-> maxTokens, tier |-> tier]]
             /\ Goto(c, "quota.read")
          \/ Answer(c, 400) /\ UNCHANGED request
     ELSE Answer(c, 403) /\ UNCHANGED request
  /\ Elsewhere
  /\ UNCHANGED <<charges, tokens, witnessed>>

\* #quotaFor
ReadQuota(c) ==
  /\ pc[c] = "quota.read"
  /\ remaining' = [remaining EXCEPT ![c] = Remaining]
  /\ pc' = [pc EXCEPT ![c] = "quota"]
  /\ UNCHANGED <<license, status>>
  /\ Elsewhere
  /\ UNCHANGED <<charges, tokens, request, trail, witnessed>>

\* Mutant: the decision is recorded but not acted upon.
QuotaNotEnforced(c) ==
  /\ pc[c] = "quota"
  /\ Decide(c, "quota", remaining[c] >= request[c].maxTokens)
  /\ Goto(c, "tier")
  /\ Elsewhere
  /\ UNCHANGED <<charges, tokens, request, witnessed>>

\* The quota decision.
DecideQuota(c) ==
  /\ pc[c] = "quota"
  /\ DecideOrDeny(c, "quota", remaining[c] >= request[c].maxTokens,
                  "tier", 403)
  /\ Elsewhere
  /\ UNCHANGED <<charges, tokens, request, witnessed>>

\* priorityDecision
DecideTier(c) ==
  /\ pc[c] = "tier"
  /\ DecideOrDeny(c, "tier",
                  request[c].tier = "priority" => license[c].priority,
                  "route", 403)
  /\ Elsewhere
  /\ UNCHANGED <<charges, tokens, request, witnessed>>

\* The route is recorded, and then the provider is called.
Route(c) ==
  /\ pc[c] = "route"
  /\ Decide(c, "route", TRUE)
  /\ Goto(c, "provider")
  /\ Elsewhere
  /\ UNCHANGED <<charges, tokens, request, witnessed>>

ProviderAnswers(c) ==
  /\ pc[c] = "provider"
  /\ \E n \in Metered : tokens' = [tokens EXCEPT ![c] = n]
  /\ Goto(c, "meter")
  /\ Elsewhere
  /\ UNCHANGED <<charges, request, trail, witnessed>>

ProviderFails(c) ==
  /\ pc[c] = "provider"
  /\ Goto(c, "failure")
  /\ Elsewhere
  /\ UNCHANGED <<charges, tokens, request, trail, witnessed>>

RecordFailure(c) ==
  /\ pc[c] = "failure"
  /\ DecideOrDeny(c, "route", FALSE, "answered", 502)
  /\ Elsewhere
  /\ UNCHANGED <<charges, tokens, request, witnessed>>

RecordMeter(c) ==
  /\ pc[c] = "meter"
  /\ Decide(c, "meter", TRUE)
  /\ Goto(c, "usage")
  /\ Elsewhere
  /\ UNCHANGED <<charges, tokens, request, witnessed>>

\* Mutant: the usage is not written down, the quota alone keeps the count.
UsageSkipped(c) ==
  /\ pc[c] = "usage"
  /\ Goto(c, "debit")
  /\ Elsewhere
  /\ UNCHANGED <<charges, tokens, request, trail, witnessed>>

AppendUsage(c) ==
  /\ pc[c] = "usage"
  /\ usage' = [usage EXCEPT ![c] = tokens[c]]
  /\ Goto(c, "debit")
  /\ Elsewhere
  /\ UNCHANGED <<tokens, request, quota, billed, trail, witnessed, debited>>

\* Mutant: the used total is written from the value read with the quota.
DebitFromRead(c) ==
  /\ pc[c] = "debit"
  /\ quota' = [quota EXCEPT !.used = quota.limit - remaining[c] + tokens[c]]
  /\ debited' = debited \cup {c}
  /\ Goto(c, "billing")
  /\ Elsewhere
  /\ UNCHANGED <<tokens, request, usage, billed, trail, witnessed>>

\* UPDATE quotas SET used_tokens = used_tokens + ...
DebitQuota(c) ==
  /\ pc[c] = "debit"
  /\ quota' = [quota EXCEPT !.used = @ + tokens[c]]
  /\ debited' = debited \cup {c}
  /\ Goto(c, "billing")
  /\ Elsewhere
  /\ UNCHANGED <<tokens, request, usage, billed, trail, witnessed>>

\* LocalLedgerBillingAdapter.recordUsage; then the completion is returned.
RecordBilling(c) ==
  /\ pc[c] = "billing"
  /\ billed' = billed \cup {c}
  /\ Answer(c, 200)
  /\ Elsewhere
  /\ UNCHANGED <<tokens, request, quota, usage, trail, witnessed, debited>>

\* A query or an append rejects, or StripeBillingAdapter throws: a 500.
CompletionFails(c) ==
  /\ QueryMayFail
  /\ pc[c] # "answered"
  /\ Answer(c, 500)
  /\ Elsewhere
  /\ UNCHANGED <<charges, tokens, request, trail, witnessed>>

Complete(c) ==
  \/ Authenticate(c)
  \/ ReadLicense(c)
  \/ DecideEntitlement(c)
  \/ ReadQuota(c)
  \/ DecideQuota(c)
  \/ DecideTier(c)
  \/ Route(c)
  \/ ProviderAnswers(c)
  \/ ProviderFails(c)
  \/ RecordFailure(c)
  \/ RecordMeter(c)
  \/ AppendUsage(c)
  \/ DebitQuota(c)
  \/ RecordBilling(c)

-----------------------------------------------------------------------------
(* Provisioning.                                                           *)

\* The licence in force has changed under the completions in flight.
Witness ==
  witnessed' = [c \in Completion |->
    IF witnessed[c] = {} THEN {} ELSE witnessed[c] \cup {Newest(standing')}]

\* The account is read, the row rewritten, and createdAt is taken.
BeginProvision(p) ==
  /\ admin[p].pc = "new"
  /\ \E complete, priority \in BOOLEAN :
       admin' = [admin EXCEPT ![p] =
         [pc |-> "license", used |-> 0,
          license |-> [complete |-> complete, priority |-> priority,
                       created |-> Cardinality({q \in Provision :
                                     admin[q].license # NoLicense}) + 1]]]
  /\ UNCHANGED <<completions, licenses, status, owner, standing,
                 witnessed>>

\* upsertLicense, under a fresh id: the account's older licences stay active.
InsertLicense(p) ==
  /\ admin[p].pc = "license"
  /\ licenses' = licenses \cup {[license |-> admin[p].license, active |-> TRUE]}
  /\ standing' = standing \cup {admin[p].license}
  /\ Witness
  /\ admin' = [admin EXCEPT ![p].pc = "sum"]
  /\ UNCHANGED <<completions, status, owner>>

\* The argument of upsertQuota is read first ...
ReadUsageSum(p) ==
  /\ admin[p].pc = "sum"
  /\ admin' = [admin EXCEPT ![p].pc = "quota", ![p].used = SumUsage]
  /\ UNCHANGED <<completions, licenses, status, owner, standing,
                 witnessed>>

\* ... and the row is overwritten with it.
ResetQuota(p) ==
  /\ admin[p].pc = "quota"
  /\ quota' = [limit |-> Limit, used |-> admin[p].used]
  /\ admin' = [admin EXCEPT ![p].pc = "record"]
  /\ UNCHANGED <<usage, billed, debited, reads, tokens, request, pc, trail,
                 licenses, status, owner, standing, witnessed>>

RecordProvision(p) ==
  /\ admin[p].pc = "record"
  /\ admin' = [admin EXCEPT ![p].pc = "answered"]
  /\ status' = [status EXCEPT ![p] = 201]
  /\ UNCHANGED <<completions, licenses, owner, standing, witnessed>>

ProvisionFails(p) ==
  /\ QueryMayFail
  /\ admin[p].pc # "answered"
  /\ admin' = [admin EXCEPT ![p].pc = "answered"]
  /\ status' = [status EXCEPT ![p] = 500]
  /\ UNCHANGED <<completions, licenses, owner, standing, witnessed>>

ProvisionAccount(p) ==
  \/ BeginProvision(p)
  \/ InsertLicense(p)
  \/ ReadUsageSum(p)
  \/ ResetQuota(p)
  \/ RecordProvision(p)
  \/ ProvisionFails(p)

-----------------------------------------------------------------------------
(* Revocation.                                                             *)

AuthenticateOwner(o) ==
  /\ owner[o] = "new"
  /\ \/ /\ owner' = [owner EXCEPT ![o] = "revoke"]
        /\ UNCHANGED status
     \/ /\ owner' = [owner EXCEPT ![o] = "answered"]
        /\ status' = [status EXCEPT ![o] = 401]
  /\ UNCHANGED <<completions, licenses, admin, standing, witnessed>>

\* Mutant: only the licence in use is revoked.
RevokeNewest(o) ==
  /\ owner[o] = "revoke"
  /\ licenses' = {[row EXCEPT !.active = @ /\ row.license # ActiveLicense] :
                    row \in licenses}
  /\ standing' = {}
  /\ Witness
  /\ owner' = [owner EXCEPT ![o] = "record"]
  /\ UNCHANGED <<completions, status, admin>>

\* UPDATE licenses SET status = 'revoked' ... AND status = 'active'
RevokeLicense(o) ==
  /\ owner[o] = "revoke"
  /\ licenses' = {[row EXCEPT !.active = FALSE] : row \in licenses}
  /\ standing' = {}
  /\ Witness
  /\ owner' = [owner EXCEPT ![o] = "record"]
  /\ UNCHANGED <<completions, status, admin>>

RecordRevocation(o) ==
  /\ owner[o] = "record"
  /\ owner' = [owner EXCEPT ![o] = "answered"]
  /\ status' = [status EXCEPT ![o] = 200]
  /\ UNCHANGED <<completions, licenses, admin, standing, witnessed>>

RevocationFails(o) ==
  /\ QueryMayFail
  /\ owner[o] # "answered"
  /\ owner' = [owner EXCEPT ![o] = "answered"]
  /\ status' = [status EXCEPT ![o] = 500]
  /\ UNCHANGED <<completions, licenses, admin, standing, witnessed>>

Revoke(o) ==
  \/ AuthenticateOwner(o)
  \/ RevokeLicense(o)
  \/ RecordRevocation(o)
  \/ RevocationFails(o)

Next ==
  \/ \E c \in Completion : Complete(c) \/ CompletionFails(c)
  \/ \E p \in Provision : ProvisionAccount(p)
  \/ \E o \in Revocation : Revoke(o)

Spec == Init /\ [][Next]_vars

\* Completions differ in nothing but their names.
Alike == Permutations(Completion)

-----------------------------------------------------------------------------
Allowed(decision) == [decision |-> decision, allowed |-> TRUE]
Denied(decision) == [decision |-> decision, allowed |-> FALSE]

\* The decisions that must precede a call of the provider.
Permission == <<Allowed("auth"), Allowed("entitlement"), Allowed("quota"),
                Allowed("tier"), Allowed("route")>>

Routed(c) == \E i \in DOMAIN trail[c] : trail[c][i].decision = "route"

\* No request reaches the provider but over a complete trail of permissions
\* on the ledger, and the answer each request gets is the one its trail
\* accounts for.
TrailExplainsAnswer ==
  \A c \in Completion :
    LET last == trail[c][Len(trail[c])] IN
    /\ Routed(c) => SubSeq(trail[c], 1, 5) = Permission
    /\ status[c] = 200 => trail[c] = Permission \o <<Allowed("meter")>>
    /\ status[c] = 502 => trail[c] = Permission \o <<Denied("route")>>
    /\ status[c] = 401 => trail[c] = <<Denied("auth")>>
    /\ status[c] = 403 => ~last.allowed /\ ~Routed(c)

\* A completion is metered on the ledger before it has a usage record, has
\* its usage record before it is debited, is debited before it is billed,
\* and is billed when it is answered: a failure in between never leaves a
\* charge without the record that justifies it.
ChargesInOrder ==
  \A c \in Completion :
    /\ usage[c] # -1 =>
         Allowed("meter") \in {trail[c][i] : i \in DOMAIN trail[c]}
    /\ c \in debited => usage[c] = tokens[c]
    /\ c \in billed => c \in debited
    /\ status[c] = 200 => c \in billed

\* A routed request was entitled by the licence in force at some moment
\* since it began: the newest one that no revocation has struck.  A licence
\* revoked or superseded before the request began never comes back.
EntitledWhenRouted ==
  \A c \in Completion :
    Routed(c) =>
      \E l \in witnessed[c] :
        l.complete /\ (request[c].tier = "priority" => l.priority)

\* Until a provisioning rewrites it, the quota counts every debited completion
\* exactly once, however the completions' checks and debits interleave.
DebitsAddUp ==
  (\A p \in Provision : admin[p].pc \in {"new", "license", "sum", "quota"}) =>
    quota.used = MapThenSumSet(LAMBDA c : tokens[c], debited)
=============================================================================
