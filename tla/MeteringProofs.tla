--------------------------- MODULE MeteringProofs ---------------------------
(***************************************************************************)
(* The safety of GatewayAccount and SpecSessions, for all values of their  *)
(* constants.  GatewayAccount: the answer a completion gets is the one its *)
(* trail on the ledger accounts for, its charges come in order, a licence  *)
(* in force since it began entitled it when it reached the provider, and   *)
(* debits add up.  SpecSessions: the transitions that are cited stay, and  *)
(* the two files of a spec agree.                                          *)
(***************************************************************************)
EXTENDS GatewayAccount, SpecSessions, FiniteSetTheorems, SequenceTheorems,
        TLAPS

(***************************************************************************)
(* Completions, provisionings and revocations.                             *)
(***************************************************************************)
\* The decisions a completion that is granted everything has on the ledger.
Granted == <<Allowed("auth"), Allowed("entitlement"), Allowed("quota"),
             Allowed("tier"), Allowed("route"), Allowed("meter")>>

\* The trail s holds the first n permissions ...
Grants(s, n) ==
  /\ s \in Seq(Decided)
  /\ Len(s) = n
  /\ \A i \in 1 .. n : s[i] = Granted[i]

\* ... and then a refusal where the next would be: of the tier at the
\* latest, or the failure of the route that was granted.
Refuses(s, n) ==
  /\ s \in Seq(Decided)
  /\ Len(s) = n + 1
  /\ \A i \in 1 .. n : s[i] = Granted[i]
  /\ s[n + 1] = Denied(Granted[IF n = 5 THEN 5 ELSE n + 1].decision)

Decision == {"auth", "entitlement", "quota", "tier", "route", "meter"}

PC == {"new", "license", "entitlement", "quota.read", "quota", "tier",
       "route", "provider", "failure", "meter", "usage", "debit", "billing",
       "answered"}

\* How many permissions a completion has when it awaits w.
Permissions(w) ==
  CASE w = "new" -> 0
    [] w \in {"license", "entitlement"} -> 1
    [] w \in {"quota.read", "quota"} -> 2
    [] w = "tier" -> 3
    [] w = "route" -> 4
    [] w \in {"provider", "failure", "meter"} -> 5
    [] OTHER -> 6

TypeOK ==
  /\ pc \in [Completion -> PC]
  /\ request \in [Completion -> [maxTokens : Nat, tier : Tier]]
  /\ license \in [Completion -> License \cup {NoLicense}]
  /\ remaining = [c \in Completion |-> remaining[c]]
  /\ tokens \in [Completion -> Nat]
  /\ usage \in [Completion -> Nat \cup {-1}]
  /\ trail \in [Completion -> Seq(Decided)]
  /\ status \in [Request -> Nat]
  /\ witnessed \in [Completion -> SUBSET (License \cup {NoLicense})]

\* The trail of a completion is that of where it is.
TrailAt(c) ==
  IF pc[c] # "answered"
  THEN status[c] = 0 /\ Grants(trail[c], Permissions(pc[c]))
  ELSE \/ \E n \in 0 .. 6 :
            /\ Grants(trail[c], n)
            /\ \/ status[c] = 500
               \/ n = 2 /\ status[c] = 400
               \/ n = 6 /\ status[c] = 200
       \/ \E n \in {0, 1, 2, 3, 5} :
            /\ Refuses(trail[c], n)
            /\ status[c] = IF n = 0 THEN 401 ELSE IF n = 5 THEN 502 ELSE 403

\* The charges of a completion are those of where it is.
ChargesAt(c) ==
  /\ usage[c] # -1 \/ c \in debited \/ c \in billed =>
       /\ pc[c] \in {"debit", "billing", "answered"}
       /\ Grants(trail[c], 6)
  /\ c \in debited => usage[c] = tokens[c]
  /\ pc[c] = "debit" => usage[c] = tokens[c]
  /\ pc[c] = "billing" => c \in debited
  /\ c \in billed => c \in debited
  /\ status[c] = 200 => c \in billed

\* A licence seen since the completion began entitles it.
Entitled(c) ==
  \E l \in witnessed[c] :
    l.complete /\ (request[c].tier = "priority" => l.priority)

\* What a completion knows of the licences since it began.
EntitledAt(c) ==
  /\ witnessed[c] = {} => Len(trail[c]) = 0
  /\ pc[c] = "new" => witnessed[c] = {}
  /\ pc[c] \notin {"new", "answered"} => Newest(standing) \in witnessed[c]
  /\ pc[c] \in {"entitlement", "quota.read", "quota", "tier"} =>
       license[c] \in witnessed[c]
  /\ pc[c] \in {"quota.read", "quota", "tier"} => license[c].complete
  /\ Grants(trail[c], 4) \/ Len(trail[c]) > 4 => Entitled(c)

\* A row of table licenses, and the locals of a provisioning.
IsRow(x) == x = [f \in {"license", "active"} |-> x[f]]
IsLocals(x) == x = [f \in {"pc", "license", "used"} |-> x[f]]

\* The account's licences, inserted and about to be.
Licensing ==
  /\ \A row \in licenses :
       /\ IsRow(row)
       /\ row.license \in License
       /\ row.active \in BOOLEAN
  /\ standing = {row.license : row \in {x \in licenses : x.active}}
  /\ DOMAIN admin = Provision
  /\ \A p \in Provision :
       /\ IsLocals(admin[p])
       /\ admin[p].license \in License \cup {NoLicense}
       /\ admin[p].pc = "new" => admin[p].license = NoLicense
       /\ admin[p].pc = "license" => admin[p].license # NoLicense

IInv ==
  /\ TypeOK
  /\ Licensing
  /\ \A c \in Completion : TrailAt(c) /\ ChargesAt(c) /\ EntitledAt(c)

-----------------------------------------------------------------------------
(* Trails.                                                                 *)

\* One more permission.
LEMMA GrantsOneMore ==
  ASSUME NEW s, NEW n \in 0 .. 5, Grants(s, n)
  PROVE  Grants(Append(s, Granted[n + 1]), n + 1)
<1>1. Granted[n + 1] \in Decided
  <2>1. /\ Granted[1] = Allowed("auth")
        /\ Granted[2] = Allowed("entitlement")
        /\ Granted[3] = Allowed("quota")
        /\ Granted[4] = Allowed("tier")
        /\ Granted[5] = Allowed("route")
        /\ Granted[6] = Allowed("meter")
    BY DEF Granted
  <2>2. n + 1 \in {1, 2, 3, 4, 5, 6}
    OBVIOUS
  <2>3. \A d \in {"auth", "entitlement", "quota", "tier", "route", "meter"} :
          Allowed(d) \in Decided
    BY DEF Allowed, Decided
  <2> QED
    BY <2>1, <2>2, <2>3
<1> DEFINE g == Granted[n + 1]
<1> HIDE DEF g
<1>2. /\ Append(s, g) \in Seq(Decided)
      /\ Len(Append(s, g)) = n + 1
      /\ \A i \in 1 .. n : Append(s, g)[i] = s[i]
      /\ Append(s, g)[n + 1] = g
  BY <1>1 DEF Grants, g
<1> QED
  BY <1>2 DEF Grants, g

\* One refusal.
LEMMA RefusesAtLast ==
  ASSUME NEW s, NEW n \in {0, 1, 2, 3, 5}, Grants(s, n)
  PROVE  Refuses(Append(s, Denied(Granted[IF n = 5 THEN 5
                                           ELSE n + 1].decision)), n)
<1> DEFINE g == Denied(Granted[IF n = 5 THEN 5 ELSE n + 1].decision)
<1>1. g \in Decided
  BY DEF Granted, Allowed, Denied, Decided
<1> HIDE DEF g
<1>2. /\ Append(s, g) \in Seq(Decided)
      /\ Len(Append(s, g)) = n + 1
      /\ \A i \in 1 .. n : Append(s, g)[i] = s[i]
      /\ Append(s, g)[n + 1] = g
  BY <1>1 DEF Grants
<1> QED
  BY <1>2 DEF Grants, Refuses, g

\* A trail is of one length.
LEMMA TrailLength ==
  ASSUME NEW s, NEW n
  PROVE  /\ Grants(s, n) => Len(s) = n
         /\ Refuses(s, n) => Len(s) = n + 1
BY DEF Grants, Refuses

-----------------------------------------------------------------------------
(* The steps of a completion.                                              *)

\* Of the other completions a step of c changes nothing.
Others(c) ==
  \A d \in Completion \ {c} :
    /\ pc'[d] = pc[d]
    /\ request'[d] = request[d]
    /\ license'[d] = license[d]
    /\ tokens'[d] = tokens[d]
    /\ usage'[d] = usage[d]
    /\ trail'[d] = trail[d]
    /\ status'[d] = status[d]
    /\ witnessed'[d] = witnessed[d]
    /\ d \in debited' <=> d \in debited
    /\ d \in billed' <=> d \in billed

\* What a step of c has to show.
LEMMA OneMoves ==
  ASSUME IInv, NEW c \in Completion, TypeOK', Elsewhere, Others(c),
         TrailAt(c)', ChargesAt(c)', EntitledAt(c)'
  PROVE  IInv'
<1>1. Licensing'
  BY DEF IInv, Licensing, Elsewhere
<1>2. ASSUME NEW d \in Completion, d # c
      PROVE  TrailAt(d)' /\ ChargesAt(d)' /\ EntitledAt(d)'
  <2>1. TrailAt(d) /\ ChargesAt(d) /\ EntitledAt(d)
    BY DEF IInv
  <2>2. TrailAt(d)'
    <3>1. /\ pc'[d] = pc[d]
          /\ trail'[d] = trail[d]
          /\ status'[d] = status[d]
      BY <1>2 DEF Others
    <3> QED
      BY <2>1, <3>1 DEF TrailAt
  <2>3. ChargesAt(d)'
    BY <1>2, <2>1 DEF Others, ChargesAt, Grants
  <2>4. standing' = standing
    BY DEF Elsewhere
  <2>5. EntitledAt(d)'
    BY <1>2, <2>1, <2>4 DEF Others, EntitledAt, Entitled, Grants, Newest
  <2> QED
    BY <2>2, <2>3, <2>5
<1> QED
  BY <1>1, <1>2 DEF IInv

\* A decision is recorded.
LEMMA DecideForm ==
  ASSUME TypeOK, NEW c \in Completion, NEW d, NEW a \in BOOLEAN,
         Decide(c, d, a),
         d \in {"auth", "entitlement", "quota", "tier", "route", "meter"}
  PROVE  /\ trail' \in [Completion -> Seq(Decided)]
         /\ trail'[c] = Append(trail[c], [decision |-> d, allowed |-> a])
         /\ \A e \in Completion \ {c} : trail'[e] = trail[e]
<1>1. [decision |-> d, allowed |-> a] \in Decided
  BY DEF Decided
<1> DEFINE r == [decision |-> d, allowed |-> a]
<1> HIDE DEF r
<1>2. Append(trail[c], r) \in Seq(Decided)
  BY <1>1 DEF TypeOK, r
<1>3. trail' = [trail EXCEPT ![c] = Append(trail[c], r)]
  BY DEF Decide, r
<1>4. /\ trail' \in [Completion -> Seq(Decided)]
      /\ trail'[c] = Append(trail[c], r)
      /\ \A e \in Completion \ {c} : trail'[e] = trail[e]
  BY <1>2, <1>3 DEF TypeOK
<1> QED
  BY <1>4 DEF r

LEMMA DecideAllows ==
  ASSUME TypeOK, NEW c \in Completion, NEW d \in Decision, Decide(c, d, TRUE)
  PROVE  trail'[c] = Append(trail[c], Allowed(d))
BY DecideForm DEF Allowed, Decision

LEMMA DecideDenies ==
  ASSUME TypeOK, NEW c \in Completion, NEW d \in Decision, Decide(c, d, FALSE)
  PROVE  trail'[c] = Append(trail[c], Denied(d))
BY DecideForm DEF Denied, Decision

\* An answer and what is left of the locals.
LEMMA AnswerForm ==
  ASSUME TypeOK, NEW c \in Completion, NEW s \in Nat, Answer(c, s)
  PROVE  /\ pc' \in [Completion -> PC] /\ pc'[c] = "answered"
         /\ status' \in [Request -> Nat] /\ status'[c] = s
         /\ license' \in [Completion -> License \cup {NoLicense}]
         /\ remaining' = [d \in Completion |-> remaining'[d]]
         /\ \A d \in Completion \ {c} :
              /\ pc'[d] = pc[d]
              /\ status'[d] = status[d]
              /\ license'[d] = license[d]
BY DEF TypeOK, Answer, PC, Request

\* A move.
LEMMA GotoForm ==
  ASSUME TypeOK, NEW c \in Completion, NEW w \in PC, Goto(c, w)
  PROVE  /\ pc' \in [Completion -> PC] /\ pc'[c] = w
         /\ \A d \in Completion \ {c} : pc'[d] = pc[d]
         /\ UNCHANGED <<license, remaining, status>>
BY DEF TypeOK, Goto, reads

\* Where c is, what it has decided and what it was answered changes, within
\* their types, for c alone.
Moved(c) ==
  /\ trail' \in [Completion -> Seq(Decided)]
  /\ pc' \in [Completion -> PC]
  /\ status' \in [Request -> Nat]
  /\ license' \in [Completion -> License \cup {NoLicense}]
  /\ remaining' = [e \in Completion |-> remaining'[e]]
  /\ \A e \in Completion \ {c} :
       /\ pc'[e] = pc[e]
       /\ trail'[e] = trail[e]
       /\ status'[e] = status[e]
       /\ license'[e] = license[e]

\* The permission d, and what follows.
Permits(c, d, w) == Decide(c, d, TRUE) /\ Goto(c, w)

LEMMA PermitForm ==
  ASSUME TypeOK, NEW c \in Completion, NEW d \in Decision, NEW w \in PC,
         Permits(c, d, w)
  PROVE  /\ Moved(c)
         /\ trail'[c] = Append(trail[c], Allowed(d))
         /\ pc'[c] = w
         /\ UNCHANGED <<license, status>>
<1>1. Decide(c, d, TRUE) /\ Goto(c, w)
  BY DEF Permits
<1>2. /\ trail' \in [Completion -> Seq(Decided)]
      /\ trail'[c] = Append(trail[c], Allowed(d))
      /\ \A e \in Completion \ {c} : trail'[e] = trail[e]
  BY <1>1, DecideForm, DecideAllows DEF Decision
<1>3. /\ pc' \in [Completion -> PC] /\ pc'[c] = w
      /\ \A e \in Completion \ {c} : pc'[e] = pc[e]
      /\ UNCHANGED <<license, remaining, status>>
  BY <1>1, GotoForm
<1> QED
  BY <1>2, <1>3 DEF TypeOK, Moved

\* The denial of d, and the answer.
Denies(c, d, s) == Decide(c, d, FALSE) /\ Answer(c, s)

LEMMA DenyForm ==
  ASSUME TypeOK, NEW c \in Completion, NEW d \in Decision, NEW s \in Nat,
         Denies(c, d, s)
  PROVE  /\ Moved(c)
         /\ trail'[c] = Append(trail[c], Denied(d))
         /\ pc'[c] = "answered"
         /\ status'[c] = s
<1>1. Decide(c, d, FALSE) /\ Answer(c, s)
  BY DEF Denies
<1>2. /\ trail' \in [Completion -> Seq(Decided)]
      /\ trail'[c] = Append(trail[c], Denied(d))
      /\ \A e \in Completion \ {c} : trail'[e] = trail[e]
  BY <1>1, DecideForm, DecideDenies DEF Decision
<1>3. /\ pc' \in [Completion -> PC] /\ pc'[c] = "answered"
      /\ status' \in [Request -> Nat] /\ status'[c] = s
      /\ license' \in [Completion -> License \cup {NoLicense}]
      /\ remaining' = [e \in Completion |-> remaining'[e]]
      /\ \A e \in Completion \ {c} :
           /\ pc'[e] = pc[e]
           /\ status'[e] = status[e]
           /\ license'[e] = license[e]
  BY <1>1, AnswerForm
<1> QED
  BY <1>2, <1>3 DEF Moved

\* A decision that is acted upon is one of the two.
LEMMA DecisionActedUpon ==
  ASSUME NEW c, NEW d, NEW a \in BOOLEAN, NEW w, NEW s,
         DecideOrDeny(c, d, a, w, s)
  PROVE  IF a THEN Permits(c, d, w) ELSE Denies(c, d, s)
<1>1. CASE a = TRUE
  BY <1>1 DEF DecideOrDeny, Permits
<1>2. CASE a = FALSE
  BY <1>2 DEF DecideOrDeny, Denies
<1> QED
  BY <1>1, <1>2

LEMMA QuotaForm ==
  ASSUME NEW c, DecideQuota(c)
  PROVE  Permits(c, "quota", "tier") \/ Denies(c, "quota", 403)
<1> DEFINE enough == remaining[c] >= request[c].maxTokens
<1>1. DecideOrDeny(c, "quota", enough, "tier", 403)
  BY DEF DecideQuota
<1>2. enough \in BOOLEAN
  OBVIOUS
<1> HIDE DEF enough
<1>3. IF enough THEN Permits(c, "quota", "tier") ELSE Denies(c, "quota", 403)
  BY <1>1, <1>2, DecisionActedUpon, ZenonT(30)
<1> QED
  BY <1>2, <1>3

LEMMA LicenseBoolean ==
  ASSUME TypeOK, NEW c \in Completion
  PROVE  license[c].complete \in BOOLEAN
<1>1. license[c] \in License \/ license[c] = NoLicense
  BY DEF TypeOK
<1>2. \A l \in License : l.complete \in BOOLEAN
  BY DEF License
<1>3. NoLicense.complete = FALSE
  BY DEF NoLicense
<1> QED
  BY <1>1, <1>2, <1>3, Zenon

\* Of the largest licence there is one.
LEMMA NewestExists ==
  ASSUME NEW set \in SUBSET License
  PROVE  /\ Newest(set) \in License \cup {NoLicense}
         /\ set # {} => Newest(set) \in set
<1>1. CASE set = {}
  BY <1>1 DEF Newest
<1>2. CASE set # {}
  <2> DEFINE B == Cardinality(Provision)
             gaps == {B - l.created : l \in set}
             R == OpToRel(<, Nat)
  <2>1. B \in Nat
    BY RequestsAssumption, FS_CardinalityType
  <2>2. \A l \in set : l.created \in 0 .. B
    BY DEF License
  <2> HIDE DEF B
  <2>3. gaps \subseteq Nat /\ gaps # {}
    BY <1>2, <2>1, <2>2
  <2>4. IsWellFoundedOn(R, Nat)
    BY NatLessThanWellFounded
  <2>5. ASSUME NEW x \in Nat, NEW y \in Nat, x < y
        PROVE  <<x, y>> \in R
    BY <2>5 DEF OpToRel
  <2> HIDE DEF R
  <2> HIDE DEF gaps
  <2>6. PICK n \in gaps : \A m \in gaps : ~ (<<m, n>> \in R)
    BY <2>3, <2>4, WFMin
  <2>7. \A m \in gaps : n <= m
    <3>1. \A m \in gaps : ~ (m < n)
      BY <2>3, <2>5, <2>6
    <3> QED
      BY <2>3, <3>1
  <2>8. PICK l \in set : n = B - l.created
    BY <2>6 DEF gaps
  <2>9. \A m \in set : m.created <= l.created
    <3> SUFFICES ASSUME NEW m \in set
                 PROVE  m.created <= l.created
      OBVIOUS
    <3>1. B - m.created \in gaps
      BY DEF gaps
    <3>2. n <= B - m.created
      BY <2>7, <3>1
    <3> QED
      BY <2>1, <2>2, <2>8, <3>2
  <2>10. Newest(set) \in set
    BY <1>2, <2>8, <2>9 DEF Newest
  <2> QED
    BY <2>10
<1> QED
  BY <1>1, <1>2

\* The licence in use is the newest one that stands.
LEMMA ActiveIsNewest ==
  ASSUME Licensing
  PROVE  /\ standing \in SUBSET License
         /\ ActiveLicense = Newest(standing)
         /\ ActiveLicense \in License \cup {NoLicense}
<1>1. standing \in SUBSET License /\ ActiveLicense = Newest(standing)
  BY DEF Licensing, ActiveLicense
<1> QED
  BY <1>1, NewestExists

\* The forms of a completion's steps.
LEMMA StepForms ==
  ASSUME IInv, NEW c \in Completion, Complete(c) \/ CompletionFails(c)
  PROVE  TypeOK' /\ Others(c) /\ Elsewhere
<1>0. TypeOK /\ Licensing
  BY DEF IInv
<1> USE DEF Others, Elsewhere, charges
<1>1. CASE Authenticate(c)
  <2>1. Permits(c, "auth", "license") \/ Denies(c, "auth", 401)
    BY <1>1 DEF Authenticate, DecideOrDeny, Permits, Denies
  <2>2. Moved(c)
    BY <1>0, <2>1, PermitForm, DenyForm DEF PC, Decision
  <2>3. Newest(standing) \in License \cup {NoLicense}
    BY <1>0, ActiveIsNewest
  <2> QED
    BY <1>0, <1>1, <2>2, <2>3 DEF Authenticate, TypeOK, Moved
<1>2. CASE ReadLicense(c)
  BY <1>0, <1>2, ActiveIsNewest DEF ReadLicense, PC, TypeOK
<1>3. CASE DecideEntitlement(c)
  <2>1. license[c].complete \in BOOLEAN
    BY <1>0, LicenseBoolean
  <2>2. Decide(c, "entitlement", license[c].complete)
    BY <1>3 DEF DecideEntitlement
  <2>3. /\ trail' \in [Completion -> Seq(Decided)]
        /\ \A e \in Completion \ {c} : trail'[e] = trail[e]
    BY <1>0, <2>1, <2>2, DecideForm
  <2>4. Goto(c, "quota.read") \/ Answer(c, 400) \/ Answer(c, 403)
    BY <1>3 DEF DecideEntitlement
  <2>5. Moved(c)
    <3>1. CASE Goto(c, "quota.read")
      BY <1>0, <2>3, <3>1, GotoForm DEF Moved, PC, TypeOK
    <3>2. ASSUME NEW s \in {400, 403}, Answer(c, s)
          PROVE  Moved(c)
      <4>1. s \in Nat
        BY <3>2
      <4>2. /\ pc' \in [Completion -> PC]
            /\ status' \in [Request -> Nat]
            /\ license' \in [Completion -> License \cup {NoLicense}]
            /\ remaining' = [e \in Completion |-> remaining'[e]]
            /\ \A e \in Completion \ {c} :
                 /\ pc'[e] = pc[e]
                 /\ status'[e] = status[e]
                 /\ license'[e] = license[e]
        BY <1>0, <3>2, <4>1, AnswerForm
      <4> QED
        BY <2>3, <4>2 DEF Moved
    <3> QED
      BY <2>4, <3>1, <3>2
  <2>6. /\ request' \in [Completion -> [maxTokens : Nat, tier : Tier]]
        /\ \A d \in Completion \ {c} : request'[d] = request[d]
    <3>1. CASE UNCHANGED request
      BY <1>0, <3>1 DEF TypeOK
    <3>2. ASSUME NEW m \in Demand, NEW t \in Tier,
                 request' = [request EXCEPT
                               ![c] = [maxTokens |-> m, tier |-> t]]
          PROVE  /\ request' \in [Completion -> [maxTokens : Nat, tier : Tier]]
                 /\ \A d \in Completion \ {c} : request'[d] = request[d]
      BY <1>0, <3>2, TokensAssumption DEF TypeOK
    <3> QED
      BY <1>3, <3>1, <3>2 DEF DecideEntitlement
  <2> QED
    BY <1>0, <1>3, <2>5, <2>6 DEF DecideEntitlement, TypeOK, Moved
<1>4. CASE ReadQuota(c)
  BY <1>0, <1>4 DEF ReadQuota, PC, TypeOK
<1>5. CASE DecideQuota(c)
  <2>1. Permits(c, "quota", "tier") \/ Denies(c, "quota", 403)
    BY <1>5, QuotaForm
  <2>2. Moved(c)
    BY <1>0, <2>1, PermitForm, DenyForm DEF PC, Decision
  <2> QED
    BY <1>0, <1>5, <2>2 DEF DecideQuota, TypeOK, Moved
<1>6. CASE DecideTier(c)
  <2>1. Permits(c, "tier", "route") \/ Denies(c, "tier", 403)
    BY <1>6 DEF DecideTier, DecideOrDeny, Permits, Denies
  <2>2. Moved(c)
    BY <1>0, <2>1, PermitForm, DenyForm DEF PC, Decision
  <2> QED
    BY <1>0, <1>6, <2>2 DEF DecideTier, TypeOK, Moved
<1>7. CASE Route(c)
  BY <1>0, <1>7, DecideForm, GotoForm DEF Route, PC, TypeOK
<1>8. CASE ProviderAnswers(c)
  BY <1>0, <1>8, GotoForm, TokensAssumption DEF ProviderAnswers, PC, TypeOK
<1>9. CASE ProviderFails(c)
  BY <1>0, <1>9, GotoForm DEF ProviderFails, PC, TypeOK
<1>10. CASE RecordFailure(c)
  <2>1. Permits(c, "route", "answered") \/ Denies(c, "route", 502)
    BY <1>10 DEF RecordFailure, DecideOrDeny, Permits, Denies
  <2>2. Moved(c)
    BY <1>0, <2>1, PermitForm, DenyForm DEF PC, Decision
  <2> QED
    BY <1>0, <1>10, <2>2 DEF RecordFailure, TypeOK, Moved
<1>11. CASE RecordMeter(c)
  BY <1>0, <1>11, DecideForm, GotoForm DEF RecordMeter, PC, TypeOK
<1>12. CASE AppendUsage(c)
  BY <1>0, <1>12, GotoForm DEF AppendUsage, PC, TypeOK
<1>13. CASE DebitQuota(c)
  BY <1>0, <1>13, GotoForm DEF DebitQuota, PC, TypeOK
<1>14. CASE RecordBilling(c)
  <2>1. Answer(c, 200)
    BY <1>14 DEF RecordBilling
  <2>2. Moved(c)
    <3>1. trail' = trail /\ trail \in [Completion -> Seq(Decided)]
      BY <1>0, <1>14 DEF RecordBilling, TypeOK
    <3> QED
      BY <1>0, <2>1, <3>1, AnswerForm DEF Moved
  <2> QED
    BY <1>0, <1>14, <2>2 DEF RecordBilling, TypeOK, Moved
<1>15. CASE CompletionFails(c)
  <2>1. Answer(c, 500)
    BY <1>15 DEF CompletionFails
  <2>2. Moved(c)
    <3>1. trail' = trail /\ trail \in [Completion -> Seq(Decided)]
      BY <1>0, <1>15 DEF CompletionFails, TypeOK
    <3> QED
      BY <1>0, <2>1, <3>1, AnswerForm DEF Moved
  <2> QED
    BY <1>0, <1>15, <2>2 DEF CompletionFails, TypeOK, Moved
<1> QED
  BY <1>1, <1>2, <1>3, <1>4, <1>5, <1>6, <1>7, <1>8, <1>9, <1>10, <1>11,
     <1>12, <1>13, <1>14, <1>15 DEF Complete

-----------------------------------------------------------------------------
(* The trail explains the answer.                                          *)

LEMMA PermissionsAre ==
  /\ Permissions("new") = 0
  /\ Permissions("license") = 1
  /\ Permissions("entitlement") = 1
  /\ Permissions("quota.read") = 2
  /\ Permissions("quota") = 2
  /\ Permissions("tier") = 3
  /\ Permissions("route") = 4
  /\ Permissions("provider") = 5
  /\ Permissions("failure") = 5
  /\ Permissions("meter") = 5
  /\ Permissions("usage") = 6
  /\ Permissions("debit") = 6
  /\ Permissions("billing") = 6
BY DEF Permissions

LEMMA GrantedAre ==
  /\ Granted[1] = Allowed("auth")
  /\ Granted[2] = Allowed("entitlement")
  /\ Granted[3] = Allowed("quota")
  /\ Granted[4] = Allowed("tier")
  /\ Granted[5] = Allowed("route")
  /\ Granted[6] = Allowed("meter")
BY DEF Granted

\* The next permission, and the refusal in its place.
LEMMA TrailsGrow ==
  ASSUME NEW s
  PROVE  /\ Grants(s, 0) => /\ Grants(Append(s, Allowed("auth")), 1)
                            /\ Refuses(Append(s, Denied("auth")), 0)
         /\ Grants(s, 1) => /\ Grants(Append(s, Allowed("entitlement")), 2)
                            /\ Refuses(Append(s, Denied("entitlement")), 1)
         /\ Grants(s, 2) => /\ Grants(Append(s, Allowed("quota")), 3)
                            /\ Refuses(Append(s, Denied("quota")), 2)
         /\ Grants(s, 3) => /\ Grants(Append(s, Allowed("tier")), 4)
                            /\ Refuses(Append(s, Denied("tier")), 3)
         /\ Grants(s, 4) => Grants(Append(s, Allowed("route")), 5)
         /\ Grants(s, 5) => /\ Grants(Append(s, Allowed("meter")), 6)
                            /\ Refuses(Append(s, Denied("route")), 5)
<1>1. /\ Grants(s, 0) => Grants(Append(s, Granted[0 + 1]), 0 + 1)
      /\ Grants(s, 1) => Grants(Append(s, Granted[1 + 1]), 1 + 1)
      /\ Grants(s, 2) => Grants(Append(s, Granted[2 + 1]), 2 + 1)
      /\ Grants(s, 3) => Grants(Append(s, Granted[3 + 1]), 3 + 1)
      /\ Grants(s, 4) => Grants(Append(s, Granted[4 + 1]), 4 + 1)
      /\ Grants(s, 5) => Grants(Append(s, Granted[5 + 1]), 5 + 1)
  BY GrantsOneMore
<1>2. /\ Grants(s, 0) => Refuses(Append(s, Denied(Granted[1].decision)), 0)
      /\ Grants(s, 1) => Refuses(Append(s, Denied(Granted[2].decision)), 1)
      /\ Grants(s, 2) => Refuses(Append(s, Denied(Granted[3].decision)), 2)
      /\ Grants(s, 3) => Refuses(Append(s, Denied(Granted[4].decision)), 3)
      /\ Grants(s, 5) => Refuses(Append(s, Denied(Granted[5].decision)), 5)
  BY RefusesAtLast
<1>3. \A d : Allowed(d).decision = d
  BY DEF Allowed
<1> QED
  BY <1>1, <1>2, <1>3, GrantedAre

\* A completion that moves on has one permission more, or as many.
LEMMA TrailMoves ==
  ASSUME NEW c \in Completion, pc'[c] \in PC \ {"answered"}, status'[c] = 0,
         Grants(trail'[c], Permissions(pc'[c]))
  PROVE  TrailAt(c)'
BY DEF TrailAt

\* One that is answered with a refusal has it on record ...
LEMMA TrailRefused ==
  ASSUME NEW c \in Completion, pc'[c] = "answered",
         NEW n \in {0, 1, 2, 3, 5}, Refuses(trail'[c], n),
         status'[c] = IF n = 0 THEN 401 ELSE IF n = 5 THEN 502 ELSE 403
  PROVE  TrailAt(c)'
BY DEF TrailAt

\* ... and one that is answered without has the permissions it had.
LEMMA TrailEnds ==
  ASSUME NEW c \in Completion, pc'[c] = "answered",
         NEW n \in 0 .. 6, Grants(trail'[c], n),
         \/ status'[c] = 500
         \/ n = 2 /\ status'[c] = 400
         \/ n = 6 /\ status'[c] = 200
  PROVE  TrailAt(c)'
BY DEF TrailAt

\* Wherever a completion is, its trail is the one of that place.
LEMMA TrailStep ==
  ASSUME IInv, NEW c \in Completion, Complete(c) \/ CompletionFails(c)
  PROVE  TrailAt(c)'
<1>0. TypeOK /\ TypeOK' /\ TrailAt(c)
  BY StepForms DEF IInv
<1>16. ASSUME pc[c] # "answered"
      PROVE  status[c] = 0 /\ Grants(trail[c], Permissions(pc[c]))
  BY <1>0, <1>16 DEF TrailAt
<1> USE GrantedAre, PermissionsAre
<1>1. CASE Authenticate(c)
  <2>1. Permits(c, "auth", "license") \/ Denies(c, "auth", 401)
    BY <1>1 DEF Authenticate, DecideOrDeny, Permits, Denies
  <2>2. status[c] = 0 /\ Grants(trail[c], 0)
    BY <1>1, <1>16 DEF Authenticate
  <2>3. CASE Permits(c, "auth", "license")
    <3>1. trail'[c] = Append(trail[c], Allowed("auth"))
      BY <1>0, <2>3, DecideAllows DEF Permits, Decision
    <3>2. Grants(trail'[c], 1)
      BY <2>2, <3>1, TrailsGrow
    <3> QED
      BY <1>0, <2>2, <2>3, <3>2, PermitForm, TrailMoves DEF PC, Decision
  <2>4. CASE Denies(c, "auth", 401)
    <3>1. trail'[c] = Append(trail[c], Denied("auth"))
      BY <1>0, <2>4, DecideDenies DEF Denies, Decision
    <3>2. Refuses(trail'[c], 0)
      BY <2>2, <3>1, TrailsGrow
    <3> QED
      BY <1>0, <2>4, <3>2, DenyForm, TrailRefused DEF Decision
  <2> QED
    BY <2>1, <2>3, <2>4
<1>5. CASE DecideQuota(c)
  <2>1. Permits(c, "quota", "tier") \/ Denies(c, "quota", 403)
    BY <1>5, QuotaForm
  <2>2. status[c] = 0 /\ Grants(trail[c], 2)
    BY <1>5, <1>16 DEF DecideQuota
  <2>3. CASE Permits(c, "quota", "tier")
    <3>1. trail'[c] = Append(trail[c], Allowed("quota"))
      BY <1>0, <2>3, DecideAllows DEF Permits, Decision
    <3>2. Grants(trail'[c], 3)
      BY <2>2, <3>1, TrailsGrow
    <3> QED
      BY <1>0, <2>2, <2>3, <3>2, PermitForm, TrailMoves DEF PC, Decision
  <2>4. CASE Denies(c, "quota", 403)
    <3>1. trail'[c] = Append(trail[c], Denied("quota"))
      BY <1>0, <2>4, DecideDenies DEF Denies, Decision
    <3>2. Refuses(trail'[c], 2)
      BY <2>2, <3>1, TrailsGrow
    <3> QED
      BY <1>0, <2>4, <3>2, DenyForm, TrailRefused DEF Decision
  <2> QED
    BY <2>1, <2>3, <2>4
<1>6. CASE DecideTier(c)
  <2>1. Permits(c, "tier", "route") \/ Denies(c, "tier", 403)
    BY <1>6 DEF DecideTier, DecideOrDeny, Permits, Denies
  <2>2. status[c] = 0 /\ Grants(trail[c], 3)
    BY <1>6, <1>16 DEF DecideTier
  <2>3. CASE Permits(c, "tier", "route")
    <3>1. trail'[c] = Append(trail[c], Allowed("tier"))
      BY <1>0, <2>3, DecideAllows DEF Permits, Decision
    <3>2. Grants(trail'[c], 4)
      BY <2>2, <3>1, TrailsGrow
    <3> QED
      BY <1>0, <2>2, <2>3, <3>2, PermitForm, TrailMoves DEF PC, Decision
  <2>4. CASE Denies(c, "tier", 403)
    <3>1. trail'[c] = Append(trail[c], Denied("tier"))
      BY <1>0, <2>4, DecideDenies DEF Denies, Decision
    <3>2. Refuses(trail'[c], 3)
      BY <2>2, <3>1, TrailsGrow
    <3> QED
      BY <1>0, <2>4, <3>2, DenyForm, TrailRefused DEF Decision
  <2> QED
    BY <2>1, <2>3, <2>4
<1>3. CASE DecideEntitlement(c)
  <2>1. status[c] = 0 /\ Grants(trail[c], 1)
    BY <1>3, <1>16 DEF DecideEntitlement
  <2>2. license[c].complete \in BOOLEAN
    BY <1>0, LicenseBoolean
  <2>3. CASE license[c].complete = TRUE
    <3>1. Decide(c, "entitlement", TRUE)
      BY <1>3, <2>3 DEF DecideEntitlement
    <3>2. Grants(trail'[c], 2)
      BY <1>0, <2>1, <3>1, DecideAllows, TrailsGrow DEF Decision
    <3>3. Goto(c, "quota.read") \/ Answer(c, 400)
      BY <1>3, <2>3 DEF DecideEntitlement
    <3>4. CASE Goto(c, "quota.read")
      BY <1>0, <2>1, <3>2, <3>4, GotoForm, TrailMoves DEF PC
    <3>5. CASE Answer(c, 400)
      BY <1>0, <3>2, <3>5, AnswerForm, TrailEnds
    <3> QED
      BY <3>3, <3>4, <3>5
  <2>4. CASE license[c].complete = FALSE
    <3>1. Decide(c, "entitlement", FALSE) /\ Answer(c, 403)
      BY <1>3, <2>4 DEF DecideEntitlement
    <3>2. Refuses(trail'[c], 1)
      BY <1>0, <2>1, <3>1, DecideDenies, TrailsGrow DEF Decision
    <3> QED
      BY <1>0, <3>1, <3>2, AnswerForm, TrailRefused
  <2> QED
    BY <2>2, <2>3, <2>4
<1>2. CASE ReadLicense(c)
  BY <1>0, <1>2, <1>16, GotoForm, TrailMoves DEF ReadLicense, PC, TypeOK
<1>4. CASE ReadQuota(c)
  BY <1>0, <1>4, <1>16, GotoForm, TrailMoves DEF ReadQuota, PC, TypeOK
<1>8. CASE ProviderAnswers(c)
  BY <1>0, <1>8, <1>16, GotoForm, TrailMoves DEF ProviderAnswers, PC, TypeOK
<1>9. CASE ProviderFails(c)
  BY <1>0, <1>9, <1>16, GotoForm, TrailMoves DEF ProviderFails, PC, TypeOK
<1>12. CASE AppendUsage(c)
  <2>1. Goto(c, "debit") /\ trail' = trail /\ pc[c] = "usage"
    BY <1>12 DEF AppendUsage
  <2> QED
    BY <1>0, <1>16, <2>1, GotoForm, TrailMoves DEF PC
<1>13. CASE DebitQuota(c)
  <2>1. Goto(c, "billing") /\ trail' = trail /\ pc[c] = "debit"
    BY <1>13 DEF DebitQuota
  <2> QED
    BY <1>0, <1>16, <2>1, GotoForm, TrailMoves DEF PC
<1>7. CASE Route(c)
  <2>1. Decide(c, "route", TRUE) /\ Goto(c, "provider")
    BY <1>7 DEF Route
  <2>2. status[c] = 0 /\ Grants(trail[c], 4)
    BY <1>7, <1>16 DEF Route
  <2>3. Grants(trail'[c], 5)
    BY <1>0, <2>1, <2>2, DecideAllows, TrailsGrow DEF Decision
  <2> QED
    BY <1>0, <2>1, <2>2, <2>3, GotoForm, TrailMoves DEF PC
<1>11. CASE RecordMeter(c)
  <2>1. Decide(c, "meter", TRUE) /\ Goto(c, "usage")
    BY <1>11 DEF RecordMeter
  <2>2. status[c] = 0 /\ Grants(trail[c], 5)
    BY <1>11, <1>16 DEF RecordMeter
  <2>3. Grants(trail'[c], 6)
    BY <1>0, <2>1, <2>2, DecideAllows, TrailsGrow DEF Decision
  <2> QED
    BY <1>0, <2>1, <2>2, <2>3, GotoForm, TrailMoves DEF PC
<1>10. CASE RecordFailure(c)
  <2>1. Denies(c, "route", 502)
    BY <1>10 DEF RecordFailure, DecideOrDeny, Denies
  <2>2. Grants(trail[c], 5)
    BY <1>10, <1>16 DEF RecordFailure
  <2>3. Refuses(trail'[c], 5)
    <3>1. trail'[c] = Append(trail[c], Denied("route"))
      BY <1>0, <2>1, DecideDenies DEF Denies, Decision
    <3> QED
      BY <2>2, <3>1, TrailsGrow
  <2> QED
    BY <1>0, <2>1, <2>3, DenyForm, TrailRefused DEF Decision
<1>14. CASE RecordBilling(c)
  <2>1. Answer(c, 200) /\ Grants(trail'[c], 6)
    BY <1>14, <1>16 DEF RecordBilling
  <2> QED
    BY <1>0, <2>1, AnswerForm, TrailEnds
<1>15. CASE CompletionFails(c)
  <2>1. Answer(c, 500) /\ trail' = trail /\ pc[c] # "answered"
    BY <1>15 DEF CompletionFails
  <2>2. pc[c] \in PC
    BY <1>0 DEF TypeOK
  <2>3. PICK n \in 0 .. 6 : Grants(trail'[c], n)
    BY <1>16, <2>1, <2>2 DEF PC
  <2> QED
    BY <1>0, <2>1, <2>3, AnswerForm, TrailEnds
<1> QED
  BY <1>1, <1>2, <1>3, <1>4, <1>5, <1>6, <1>7, <1>8, <1>9, <1>10, <1>11,
     <1>12, <1>13, <1>14, <1>15 DEF Complete

-----------------------------------------------------------------------------
(* Charges.                                                                *)

\* What is charged to a completion is in order, wherever it is.
LEMMA ChargesStep ==
  ASSUME IInv, NEW c \in Completion, Complete(c) \/ CompletionFails(c)
  PROVE  ChargesAt(c)'
<1>0. TypeOK /\ ChargesAt(c) /\ TrailAt(c)
  BY DEF IInv
<1>1. ASSUME UNCHANGED charges,
             pc[c] \notin {"debit", "billing", "answered"},
             pc'[c] \notin {"debit", "billing"}, status'[c] # 200
      PROVE  ChargesAt(c)'
  BY <1>0, <1>1 DEF ChargesAt, charges
<1>2. \A s \in {400, 401, 403, 500, 502} :
        Answer(c, s) => pc'[c] = "answered" /\ status'[c] = s
  BY <1>0, AnswerForm
<1>3. \A w \in PC : Goto(c, w) => pc'[c] = w /\ status'[c] = status[c]
  BY <1>0, GotoForm
<1>4. pc[c] # "answered" => status[c] = 0
  BY <1>0 DEF TrailAt
<1>5. CASE Authenticate(c)
  <2>1. Goto(c, "license") \/ Answer(c, 401)
    BY <1>5 DEF Authenticate, DecideOrDeny
  <2> QED
    BY <1>1, <1>2, <1>3, <1>4, <1>5, <2>1 DEF Authenticate, PC
<1>6. CASE ReadLicense(c) \/ ReadQuota(c)
  BY <1>0, <1>1, <1>4, <1>6 DEF ReadLicense, ReadQuota, TypeOK
<1>7. CASE DecideEntitlement(c)
  <2>1. Goto(c, "quota.read") \/ Answer(c, 400) \/ Answer(c, 403)
    BY <1>7 DEF DecideEntitlement
  <2> QED
    BY <1>1, <1>2, <1>3, <1>4, <1>7, <2>1 DEF DecideEntitlement, PC
<1>8. CASE DecideQuota(c)
  <2>1. Goto(c, "tier") \/ Answer(c, 403)
    BY <1>8 DEF DecideQuota, DecideOrDeny
  <2> QED
    BY <1>1, <1>2, <1>3, <1>4, <1>8, <2>1 DEF DecideQuota, PC
<1>9. CASE DecideTier(c)
  <2>1. Goto(c, "route") \/ Answer(c, 403)
    BY <1>9 DEF DecideTier, DecideOrDeny
  <2> QED
    BY <1>1, <1>2, <1>3, <1>4, <1>9, <2>1 DEF DecideTier, PC
<1>10. CASE Route(c) \/ ProviderAnswers(c) \/ ProviderFails(c)
  <2>1. \/ pc[c] = "route" /\ Goto(c, "provider")
        \/ pc[c] = "provider" /\ Goto(c, "meter")
        \/ pc[c] = "provider" /\ Goto(c, "failure")
    BY <1>10 DEF Route, ProviderAnswers, ProviderFails
  <2>2. UNCHANGED charges
    BY <1>10 DEF Route, ProviderAnswers, ProviderFails
  <2> QED
    BY <1>1, <1>3, <1>4, <2>1, <2>2 DEF PC
<1>11. CASE RecordFailure(c)
  <2>1. Answer(c, 502)
    BY <1>11 DEF RecordFailure, DecideOrDeny
  <2> QED
    BY <1>1, <1>2, <1>11, <2>1 DEF RecordFailure
<1>12. CASE RecordMeter(c)
  BY <1>1, <1>3, <1>4, <1>12 DEF RecordMeter, PC
<1>13. CASE AppendUsage(c)
  <2>1. Grants(trail[c], 6)
    BY <1>0, <1>13, PermissionsAre DEF TrailAt, AppendUsage
  <2>2. pc'[c] = "debit" /\ status'[c] = 0 /\ trail'[c] = trail[c]
    BY <1>3, <1>4, <1>13 DEF AppendUsage, PC
  <2>3. usage'[c] = tokens'[c] /\ debited' = debited /\ billed' = billed
    BY <1>0, <1>13 DEF AppendUsage, TypeOK
  <2> QED
    BY <1>0, <1>13, <2>1, <2>2, <2>3 DEF ChargesAt, AppendUsage
<1>14. CASE DebitQuota(c)
  <2>1. Grants(trail[c], 6)
    BY <1>0, <1>14, PermissionsAre DEF TrailAt, DebitQuota
  <2>2. pc'[c] = "billing" /\ status'[c] = 0 /\ trail'[c] = trail[c]
    BY <1>3, <1>4, <1>14 DEF DebitQuota, PC
  <2>3. UNCHANGED <<usage, tokens, billed>> /\ debited' = debited \cup {c}
    BY <1>14 DEF DebitQuota
  <2> QED
    BY <1>0, <1>14, <2>1, <2>2, <2>3 DEF ChargesAt, DebitQuota
<1>15. CASE RecordBilling(c)
  <2>1. pc'[c] = "answered"
    BY <1>0, <1>15, AnswerForm DEF RecordBilling
  <2>2. /\ UNCHANGED <<usage, tokens, debited, trail>>
        /\ billed' = billed \cup {c} /\ pc[c] = "billing"
    BY <1>15 DEF RecordBilling
  <2> QED
    BY <1>0, <2>1, <2>2 DEF ChargesAt
<1>16. CASE CompletionFails(c)
  <2>1. pc'[c] = "answered" /\ status'[c] = 500
    BY <1>2, <1>16 DEF CompletionFails
  <2> QED
    BY <1>0, <1>16, <2>1 DEF ChargesAt, CompletionFails, charges
<1> QED
  BY <1>5, <1>6, <1>7, <1>8, <1>9, <1>10, <1>11, <1>12, <1>13, <1>14, <1>15,
     <1>16 DEF Complete

-----------------------------------------------------------------------------
(* Entitlement.                                                            *)

\* A trail of four that ends in a refusal grants no tier.
LEMMA RefusedTier ==
  ASSUME NEW s, Refuses(s, 3)
  PROVE  ~Grants(s, 4)
<1>1. s[4] = Denied("tier")
  <2>1. Granted[4].decision = "tier"
    BY GrantedAre DEF Allowed
  <2> QED
    BY <2>1 DEF Refuses
<1>2. Grants(s, 4) => s[4] = Allowed("tier")
  BY GrantedAre DEF Grants
<1>3. Denied("tier") # Allowed("tier")
  BY DEF Allowed, Denied
<1> QED
  BY <1>1, <1>2, <1>3

\* What a completion knows of the licences stays true as it goes on.
LEMMA EntitledStep ==
  ASSUME IInv, NEW c \in Completion, Complete(c) \/ CompletionFails(c)
  PROVE  EntitledAt(c)'
<1>0. TypeOK /\ Licensing /\ EntitledAt(c) /\ TrailAt(c) /\ TypeOK'
  BY StepForms DEF IInv
<1>1. standing' = standing /\ Newest(standing)' = Newest(standing)
  <2>1. standing' = standing
    BY StepForms DEF Elsewhere
  <2> QED
    BY <2>1
<1>2. TrailAt(c)'
  BY TrailStep
<1>3. \A w \in PC : Goto(c, w) => /\ pc'[c] = w /\ status'[c] = status[c]
                                  /\ license' = license
  BY <1>0, GotoForm
<1>4. \A s \in Nat : Answer(c, s) => pc'[c] = "answered" /\ status'[c] = s
  BY <1>0, AnswerForm
\* A completion that is not granted its tier need not be entitled.
<1>5. ASSUME \/ pc'[c] \in {"license", "entitlement", "quota.read", "quota",
                            "tier"}
             \/ pc'[c] = "answered" /\ status'[c] \in {400, 401, 403}
      PROVE  ~Grants(trail'[c], 4) /\ ~(Len(trail'[c]) > 4)
  <2>1. \/ \E n \in 0 .. 3 : Grants(trail'[c], n)
        \/ \E n \in 0 .. 3 : Refuses(trail'[c], n)
    <3>1. CASE pc'[c] \in {"license", "entitlement", "quota.read", "quota",
                           "tier"}
      BY <1>2, <3>1, PermissionsAre DEF TrailAt
    <3>2. CASE pc'[c] = "answered" /\ status'[c] \in {400, 401, 403}
      BY <1>2, <3>2 DEF TrailAt
    <3> QED
      BY <1>5, <3>1, <3>2
  <2>2. ASSUME NEW n \in 0 .. 3, Grants(trail'[c], n)
        PROVE  ~Grants(trail'[c], 4) /\ ~(Len(trail'[c]) > 4)
    BY <2>2, TrailLength
  <2>3. ASSUME NEW n \in 0 .. 3, Refuses(trail'[c], n)
        PROVE  ~Grants(trail'[c], 4) /\ ~(Len(trail'[c]) > 4)
    BY <2>3, TrailLength, RefusedTier
  <2> QED
    BY <2>1, <2>2, <2>3
\* Of one that stays entitled nothing is to be shown ...
<1>6. ASSUME UNCHANGED <<witnessed, request>>, Entitled(c),
             witnessed[c] # {}, Newest(standing) \in witnessed[c],
             pc'[c] \notin {"new", "entitlement", "quota.read", "quota", "tier"}
      PROVE  EntitledAt(c)'
  BY <1>1, <1>6 DEF EntitledAt, Entitled
\* ... and of one that is on its way, only what it has read.
<1>7. ASSUME witnessed'[c] # {}, Newest(standing) \in witnessed'[c],
             pc'[c] # "new",
             ~Grants(trail'[c], 4) /\ ~(Len(trail'[c]) > 4),
             pc'[c] \in {"entitlement", "quota.read", "quota", "tier"} =>
               license'[c] \in witnessed'[c],
             pc'[c] \in {"quota.read", "quota", "tier"} => license'[c].complete
      PROVE  EntitledAt(c)'
  BY <1>1, <1>7 DEF EntitledAt
<1>8. pc[c] \notin {"new", "answered"} =>
        Newest(standing) \in witnessed[c] /\ witnessed[c] # {}
  BY <1>0 DEF EntitledAt
<1>9. pc[c] \in {"route", "provider", "failure", "meter", "usage", "debit",
                 "billing"} => Entitled(c)
  <2>1. ASSUME NEW n \in 5 .. 6, Grants(trail[c], n)
        PROVE  Len(trail[c]) > 4
    BY <2>1, TrailLength
  <2> QED
    BY <1>0, <2>1, PermissionsAre DEF EntitledAt, TrailAt
<1>10. CASE Authenticate(c)
  <2>1. Goto(c, "license") \/ Answer(c, 401)
    BY <1>10 DEF Authenticate, DecideOrDeny
  <2>2. witnessed'[c] = {Newest(standing)}
    BY <1>0, <1>10 DEF Authenticate, TypeOK
  <2> QED
    BY <1>3, <1>4, <1>5, <1>7, <2>1, <2>2 DEF PC
<1>11. CASE ReadLicense(c)
  <2>1. /\ pc'[c] = "entitlement" /\ license'[c] = Newest(standing)
        /\ witnessed' = witnessed /\ pc[c] = "license"
    BY <1>0, <1>11, ActiveIsNewest DEF ReadLicense, TypeOK
  <2> QED
    BY <1>5, <1>7, <1>8, <2>1
<1>12. CASE DecideEntitlement(c)
  <2>1. /\ \/ Goto(c, "quota.read") /\ license[c].complete
           \/ Answer(c, 400) \/ Answer(c, 403)
        /\ witnessed' = witnessed /\ pc[c] = "entitlement"
    BY <1>12 DEF DecideEntitlement
  <2>2. license[c] \in witnessed[c]
    BY <1>0, <2>1 DEF EntitledAt
  <2>3. CASE Goto(c, "quota.read") /\ license[c].complete
    BY <1>3, <1>5, <1>7, <1>8, <2>1, <2>2, <2>3 DEF PC
  <2>4. CASE Answer(c, 400) \/ Answer(c, 403)
    BY <1>4, <1>5, <1>7, <1>8, <2>1, <2>4
  <2> QED
    BY <2>1, <2>3, <2>4
<1>13. CASE ReadQuota(c)
  <2>1. /\ pc'[c] = "quota" /\ license' = license
        /\ witnessed' = witnessed /\ pc[c] = "quota.read"
    BY <1>0, <1>13 DEF ReadQuota, TypeOK
  <2>2. license[c] \in witnessed[c] /\ license[c].complete
    BY <1>0, <2>1 DEF EntitledAt
  <2> QED
    BY <1>5, <1>7, <1>8, <2>1, <2>2
<1>14. CASE DecideQuota(c)
  <2>1. /\ Goto(c, "tier") \/ Answer(c, 403)
        /\ witnessed' = witnessed /\ pc[c] = "quota"
    BY <1>14 DEF DecideQuota, DecideOrDeny
  <2>2. license[c] \in witnessed[c] /\ license[c].complete
    BY <1>0, <2>1 DEF EntitledAt
  <2>3. CASE Goto(c, "tier")
    BY <1>3, <1>5, <1>7, <1>8, <2>1, <2>2, <2>3 DEF PC
  <2>4. CASE Answer(c, 403)
    BY <1>4, <1>5, <1>7, <1>8, <2>1, <2>4
  <2> QED
    BY <2>1, <2>3, <2>4
<1>15. CASE DecideTier(c)
  <2>1. /\ \/ /\ Goto(c, "route")
              /\ request[c].tier = "priority" => license[c].priority
           \/ Answer(c, 403)
        /\ UNCHANGED <<witnessed, request>> /\ pc[c] = "tier"
    BY <1>15 DEF DecideTier, DecideOrDeny
  <2>2. license[c] \in witnessed[c] /\ license[c].complete
    BY <1>0, <2>1 DEF EntitledAt
  <2>3. CASE Answer(c, 403)
    BY <1>4, <1>5, <1>7, <1>8, <2>1, <2>3
  <2>4. CASE ~Answer(c, 403)
    <3>1. /\ Goto(c, "route")
          /\ request[c].tier = "priority" => license[c].priority
      BY <2>1, <2>4
    <3>2. Entitled(c)
      BY <2>2, <3>1 DEF Entitled
    <3>3. pc'[c] = "route"
      BY <1>3, <3>1 DEF PC
    <3> QED
      BY <1>6, <1>8, <2>1, <3>2, <3>3
  <2> QED
    BY <2>3, <2>4
<1>16. CASE \/ Route(c) \/ ProviderAnswers(c) \/ ProviderFails(c)
            \/ RecordFailure(c) \/ RecordMeter(c) \/ AppendUsage(c)
            \/ DebitQuota(c) \/ RecordBilling(c)
  <2>1. /\ pc[c] \in {"route", "provider", "failure", "meter", "usage",
                      "debit", "billing"}
        /\ UNCHANGED <<witnessed, request>>
        /\ \/ Answer(c, 502)
           \/ Answer(c, 200)
           \/ \E w \in {"provider", "meter", "failure", "usage", "debit",
                        "billing"} : Goto(c, w)
    <3>1. CASE Route(c) \/ ProviderAnswers(c) \/ ProviderFails(c)
      BY <3>1 DEF Route, ProviderAnswers, ProviderFails
    <3>2. CASE RecordFailure(c) \/ RecordBilling(c)
      BY <3>2 DEF RecordFailure, RecordBilling, DecideOrDeny
    <3>3. CASE RecordMeter(c) \/ AppendUsage(c) \/ DebitQuota(c)
      BY <3>3 DEF RecordMeter, AppendUsage, DebitQuota
    <3> QED
      BY <1>16, <3>1, <3>2, <3>3
  <2>2. pc'[c] \in {"answered", "provider", "meter", "failure", "usage",
                    "debit", "billing"}
    BY <1>3, <1>4, <2>1 DEF PC
  <2> QED
    BY <1>6, <1>8, <1>9, <2>1, <2>2
<1>17. CASE CompletionFails(c)
  <2>1. pc'[c] = "answered" /\ UNCHANGED <<witnessed, request, trail>>
    BY <1>4, <1>17 DEF CompletionFails
  <2> QED
    BY <1>0, <1>1, <2>1 DEF EntitledAt, Entitled
<1> QED
  BY <1>10, <1>11, <1>12, <1>13, <1>14, <1>15, <1>16, <1>17 DEF Complete

-----------------------------------------------------------------------------
(* Provisioning and revocation.                                            *)

\* What they leave as it was, the quota and the completions' answers apart.
Untouched ==
  /\ UNCHANGED <<usage, billed, debited, reads, tokens, request, pc, trail>>
  /\ status' \in [Request -> Nat]
  /\ \A c \in Completion : status'[c] = status[c]

\* A step that leaves the licences in force as they were ...
LEMMA StandingStays ==
  ASSUME IInv, Untouched, UNCHANGED <<standing, witnessed>>
  PROVE  /\ TypeOK'
         /\ \A c \in Completion : TrailAt(c)' /\ ChargesAt(c)' /\ EntitledAt(c)'
<1>1. TypeOK'
  BY DEF IInv, TypeOK, Untouched, reads
<1>2. ASSUME NEW c \in Completion
      PROVE  TrailAt(c)' /\ ChargesAt(c)' /\ EntitledAt(c)'
  <2>1. TrailAt(c) /\ ChargesAt(c) /\ EntitledAt(c) /\ status'[c] = status[c]
    BY DEF IInv, Untouched
  <2>2. TrailAt(c)' /\ ChargesAt(c)'
    BY <2>1 DEF TrailAt, ChargesAt, Untouched
  <2>3. Newest(standing)' = Newest(standing)
    OBVIOUS
  <2>4. EntitledAt(c)'
    BY <2>1, <2>3 DEF EntitledAt, Entitled, Untouched, reads
  <2> QED
    BY <2>2, <2>4
<1> QED
  BY <1>1, <1>2

\* ... and one that every completion in flight witnesses.
LEMMA StandingChanges ==
  ASSUME IInv, Untouched, Witness, standing' \in SUBSET License
  PROVE  /\ TypeOK'
         /\ \A c \in Completion : TrailAt(c)' /\ ChargesAt(c)' /\ EntitledAt(c)'
<1>1. Newest(standing') \in License \cup {NoLicense}
  BY NewestExists
<1>2. TypeOK'
  <2>1. witnessed' \in [Completion -> SUBSET (License \cup {NoLicense})]
    BY <1>1 DEF IInv, TypeOK, Witness
  <2> QED
    BY <2>1 DEF IInv, TypeOK, Untouched, reads
<1>3. ASSUME NEW c \in Completion
      PROVE  TrailAt(c)' /\ ChargesAt(c)' /\ EntitledAt(c)'
  <2>1. TrailAt(c) /\ ChargesAt(c) /\ EntitledAt(c) /\ status'[c] = status[c]
    BY DEF IInv, Untouched
  <2>2. TrailAt(c)' /\ ChargesAt(c)'
    BY <2>1 DEF TrailAt, ChargesAt, Untouched
  <2>3. witnessed'[c] = IF witnessed[c] = {} THEN {}
                        ELSE witnessed[c] \cup {Newest(standing')}
    BY DEF Witness
  <2>4. pc[c] \notin {"new", "answered"} => witnessed[c] # {}
    BY <2>1 DEF EntitledAt
  <2>5. Newest(standing)' = Newest(standing')
    BY DEF Newest
  <2>6. EntitledAt(c)'
    BY <2>1, <2>3, <2>4, <2>5 DEF EntitledAt, Entitled, Untouched, reads
  <2> QED
    BY <2>2, <2>6
<1> QED
  BY <1>2, <1>3

\* An answer to another request than a completion.
LEMMA AnswerElsewhere ==
  ASSUME TypeOK, NEW r \in Provision \cup Revocation, NEW s \in Nat,
         status' = [status EXCEPT ![r] = s]
  PROVE  /\ status' \in [Request -> Nat]
         /\ \A c \in Completion : status'[c] = status[c]
<1>1. \A c \in Completion : c # r
  BY RequestsAssumption
<1> QED
  BY <1>1 DEF TypeOK, Request

\* A licence that is being provisioned is the account's next.
LEMMA NextCreated ==
  ASSUME NEW p \in Provision, admin[p].license = NoLicense
  PROVE  Cardinality({q \in Provision : admin[q].license # NoLicense}) + 1
           \in 0 .. Cardinality(Provision)
<1> DEFINE older == {q \in Provision : admin[q].license # NoLicense}
<1>1. older \in SUBSET Provision /\ older # Provision
  OBVIOUS
<1> HIDE DEF older
<1>2. IsFiniteSet(Provision)
  BY RequestsAssumption
<1>3. /\ Cardinality(older) <= Cardinality(Provision)
      /\ Cardinality(Provision) # Cardinality(older)
      /\ IsFiniteSet(older)
  BY <1>1, <1>2, FS_Subset
<1>4. Cardinality(older) \in Nat /\ Cardinality(Provision) \in Nat
  BY <1>2, <1>3, FS_CardinalityType
<1>5. Cardinality(older) + 1 \in 0 .. Cardinality(Provision)
  BY <1>3, <1>4
<1> QED
  BY <1>5 DEF older

\* Provisioning p alone has gone on to w.
Advanced(p, w) ==
  /\ DOMAIN admin' = Provision
  /\ \A q \in Provision \ {p} : admin'[q] = admin[q]
  /\ admin'[p].pc = w
  /\ admin'[p].license = admin[p].license
  /\ IsLocals(admin'[p])

\* It keeps its licence.
LEMMA AdvancedKeeps ==
  ASSUME Licensing, NEW p \in Provision, NEW w, w \notin {"new", "license"},
         Advanced(p, w), UNCHANGED <<licenses, standing>>
  PROVE  Licensing'
BY DEF Licensing, Advanced

\* A provisioning keeps the invariant.
LEMMA ProvisionStep ==
  ASSUME IInv, NEW p \in Provision, ProvisionAccount(p)
  PROVE  IInv'
<1>0. TypeOK /\ Licensing
  BY DEF IInv
<1>1. ASSUME Licensing', Untouched, UNCHANGED <<standing, witnessed>>
      PROVE  IInv'
  BY <1>1, StandingStays DEF IInv
<1>2. CASE BeginProvision(p)
  <2>1. Untouched /\ UNCHANGED <<standing, witnessed, licenses>>
    BY <1>0, <1>2
       DEF BeginProvision, Untouched, completions, charges, reads, TypeOK
  <2>2. admin[p].license = NoLicense
    BY <1>0, <1>2 DEF BeginProvision, Licensing
  <2> DEFINE n == Cardinality({q \in Provision :
                                 admin[q].license # NoLicense}) + 1
  <2>3. n \in 0 .. Cardinality(Provision)
    BY <2>2, NextCreated
  <2>4. PICK complete \in BOOLEAN, priority \in BOOLEAN :
          admin' = [admin EXCEPT ![p] =
            [pc |-> "license", used |-> 0,
             license |-> [complete |-> complete, priority |-> priority,
                          created |-> n]]]
    BY <1>2 DEF BeginProvision
  <2> HIDE DEF n
  <2> DEFINE l == [complete |-> complete, priority |-> priority,
                    created |-> n]
  <2>5. l \in License /\ l # NoLicense
    BY <2>3 DEF License, NoLicense
  <2>6. /\ DOMAIN admin' = Provision
        /\ \A q \in Provision \ {p} : admin'[q] = admin[q]
        /\ admin'[p] = [pc |-> "license", used |-> 0, license |-> l]
    BY <1>0, <2>4 DEF Licensing
  <2> HIDE DEF l
  <2>7. Licensing'
    <3>1. /\ IsLocals(admin'[p])
          /\ admin'[p].license = l /\ admin'[p].pc = "license"
      BY <2>6 DEF IsLocals
    <3> QED
      BY <1>0, <2>1, <2>5, <2>6, <3>1 DEF Licensing
  <2> QED
    BY <1>1, <2>1, <2>7
<1>3. CASE InsertLicense(p)
  <2> DEFINE l == admin[p].license
             row == [license |-> l, active |-> TRUE]
  <2>1. Untouched /\ Witness
    BY <1>0, <1>3
       DEF InsertLicense, Untouched, completions, charges, reads, TypeOK
  <2>2. l \in License
    BY <1>0, <1>3 DEF Licensing, InsertLicense
  <2>3. standing' = standing \cup {l} /\ licenses' = licenses \cup {row}
    BY <1>3 DEF InsertLicense
  <2>4. standing' \in SUBSET License
    BY <1>0, <2>2, <2>3, ActiveIsNewest
  <2>5. Licensing'
    <3>1. Advanced(p, "sum")
      BY <1>0, <1>3 DEF Advanced, Licensing, InsertLicense, IsLocals
    <3>2. row.license = l /\ row.active = TRUE
      OBVIOUS
    <3> HIDE DEF row, l
    <3>3. standing' = {x.license : x \in {y \in licenses' : y.active}}
      BY <1>0, <2>3, <3>2 DEF Licensing
    <3>4. \A x \in licenses' : /\ IsRow(x)
                               /\ x.license \in License
                               /\ x.active \in BOOLEAN
      <4>1. IsRow(row)
        BY DEF row, IsRow
      <4> QED
        BY <1>0, <2>2, <2>3, <3>2, <4>1 DEF Licensing
    <3> QED
      BY <1>0, <3>1, <3>3, <3>4 DEF Licensing, Advanced
  <2> QED
    BY <2>1, <2>4, <2>5, StandingChanges DEF IInv
<1>4. CASE ReadUsageSum(p)
  <2>1. Untouched /\ UNCHANGED <<standing, witnessed, licenses>>
    BY <1>0, <1>4
       DEF ReadUsageSum, Untouched, completions, charges, reads, TypeOK
  <2>2. Advanced(p, "quota")
    BY <1>0, <1>4 DEF ReadUsageSum, Advanced, Licensing, IsLocals
  <2>3. Licensing'
    BY <1>0, <2>1, <2>2, AdvancedKeeps
  <2> QED
    BY <1>1, <2>1, <2>3
<1>5. CASE ResetQuota(p)
  <2>1. Untouched /\ UNCHANGED <<standing, witnessed, licenses>>
    BY <1>0, <1>5 DEF ResetQuota, Untouched, reads, TypeOK
  <2>2. Advanced(p, "record")
    BY <1>0, <1>5 DEF ResetQuota, Advanced, Licensing, IsLocals
  <2>3. Licensing'
    BY <1>0, <2>1, <2>2, AdvancedKeeps
  <2> QED
    BY <1>1, <2>1, <2>3
<1>6. CASE RecordProvision(p) \/ ProvisionFails(p)
  <2>1. Untouched /\ UNCHANGED <<standing, witnessed, licenses>>
    BY <1>0, <1>6, AnswerElsewhere
       DEF RecordProvision, ProvisionFails, Untouched, completions, charges,
           reads
  <2>2. Advanced(p, "answered")
    BY <1>0, <1>6
    DEF RecordProvision, ProvisionFails, Advanced, Licensing, IsLocals
  <2>3. Licensing'
    BY <1>0, <2>1, <2>2, AdvancedKeeps
  <2> QED
    BY <1>1, <2>1, <2>3
<1> QED
  BY <1>2, <1>3, <1>4, <1>5, <1>6 DEF ProvisionAccount

\* A revocation keeps the invariant.
LEMMA RevocationStep ==
  ASSUME IInv, NEW o \in Revocation, Revoke(o)
  PROVE  IInv'
<1>0. TypeOK /\ Licensing
  BY DEF IInv
<1>1. CASE AuthenticateOwner(o) \/ RecordRevocation(o) \/ RevocationFails(o)
  <2>1. /\ Untouched
        /\ UNCHANGED <<standing, witnessed, licenses, admin>>
    <3>1. \/ status' = status
          \/ \E s \in {200, 401, 500} : status' = [status EXCEPT ![o] = s]
      BY <1>1 DEF AuthenticateOwner, RecordRevocation, RevocationFails
    <3>2. /\ status' \in [Request -> Nat]
          /\ \A c \in Completion : status'[c] = status[c]
      <4>1. CASE status' = status
        BY <1>0, <4>1 DEF TypeOK
      <4>2. ASSUME NEW s \in {200, 401, 500},
                   status' = [status EXCEPT ![o] = s]
            PROVE  /\ status' \in [Request -> Nat]
                   /\ \A c \in Completion : status'[c] = status[c]
        <5>1. \A c \in Completion : c # o
          BY RequestsAssumption
        <5> QED
          BY <1>0, <4>2, <5>1 DEF TypeOK, Request
      <4> QED
        BY <3>1, <4>1, <4>2
    <3> QED
      BY <1>1, <3>2
         DEF AuthenticateOwner, RecordRevocation, RevocationFails, Untouched,
             completions, charges, reads
  <2>2. Licensing'
    BY <1>0, <2>1 DEF Licensing
  <2> QED
    BY <2>1, <2>2, StandingStays DEF IInv
<1>2. CASE RevokeLicense(o)
  <2>1. Untouched /\ Witness /\ admin' = admin /\ standing' = {}
    BY <1>0, <1>2
       DEF RevokeLicense, Untouched, completions, charges, reads, TypeOK
  <2>2. licenses' = {[row EXCEPT !.active = FALSE] : row \in licenses}
    BY <1>2 DEF RevokeLicense
  <2>3. ASSUME NEW x \in licenses'
        PROVE  IsRow(x) /\ x.license \in License /\ x.active = FALSE
    <3>1. PICK row \in licenses : x = [row EXCEPT !.active = FALSE]
      BY <2>2
    <3>2. IsRow(row) /\ row.license \in License
      BY <1>0 DEF Licensing
    <3> QED
      BY <3>1, <3>2 DEF IsRow
  <2>4. Licensing'
    <3>1. standing' = {x.license : x \in {y \in licenses' : y.active}}
      BY <2>1, <2>3
    <3> QED
      BY <1>0, <2>1, <2>3, <3>1 DEF Licensing
  <2> QED
    BY <2>1, <2>4, StandingChanges DEF IInv
<1> QED
  BY <1>1, <1>2 DEF Revoke

-----------------------------------------------------------------------------
LEMMA IInvInit == Init => IInv
<1> SUFFICES ASSUME Init
             PROVE  IInv
  OBVIOUS
<1>1. FirstLicense \in License
  BY RequestsAssumption, FS_CardinalityType DEF FirstLicense, License
<1>2. TypeOK
  BY DEF Init, TypeOK, PC, NoRequest, Tier, Request
<1>3. Licensing
  <2> DEFINE row == [license |-> FirstLicense, active |-> TRUE]
  <2>1. IsRow(row)
        /\ row.license = FirstLicense /\ row.active = TRUE
    BY DEF IsRow
  <2>2. licenses = {row} /\ standing = {FirstLicense}
    BY DEF Init
  <2>3. /\ DOMAIN admin = Provision
        /\ \A p \in Provision :
             admin[p] = [pc |-> "new", license |-> NoLicense, used |-> 0]
    BY DEF Init
  <2>4. \A p \in Provision :
          /\ IsLocals(admin[p])
          /\ admin[p].license = NoLicense /\ admin[p].pc = "new"
    BY <2>3 DEF IsLocals
  <2> HIDE DEF row
  <2>5. standing = {x.license : x \in {y \in licenses : y.active}}
    BY <2>1, <2>2
  <2> QED
    BY <1>1, <2>1, <2>2, <2>3, <2>4, <2>5 DEF Licensing
<1>4. \A c \in Completion : TrailAt(c) /\ ChargesAt(c) /\ EntitledAt(c)
  <2>1. Grants(<<>>, 0) /\ ~Grants(<<>>, 4) /\ Len(<<>>) = 0
    BY DEF Grants
  <2>2. \A c \in Completion : trail[c] = <<>> /\ pc[c] = "new" /\ status[c] = 0
    BY DEF Init, Request
  <2>3. \A c \in Completion : TrailAt(c)
    BY <2>1, <2>2, PermissionsAre DEF TrailAt
  <2>4. \A c \in Completion : ChargesAt(c)
    BY <2>2 DEF Init, ChargesAt
  <2>5. \A c \in Completion : EntitledAt(c)
    BY <2>1, <2>2 DEF Init, EntitledAt
  <2> QED
    BY <2>3, <2>4, <2>5
<1> QED
  BY <1>2, <1>3, <1>4 DEF IInv

LEMMA IInvStep == IInv /\ [Next]_vars => IInv'
<1> SUFFICES ASSUME IInv, [Next]_vars
             PROVE  IInv'
  OBVIOUS
<1>1. ASSUME NEW c \in Completion, Complete(c) \/ CompletionFails(c)
      PROVE  IInv'
  BY <1>1, OneMoves, StepForms, TrailStep, ChargesStep, EntitledStep
<1>2. ASSUME NEW p \in Provision, ProvisionAccount(p)
      PROVE  IInv'
  BY <1>2, ProvisionStep
<1>3. ASSUME NEW o \in Revocation, Revoke(o)
      PROVE  IInv'
  BY <1>3, RevocationStep
<1>4. CASE UNCHANGED vars
  <2>1. Untouched /\ UNCHANGED <<standing, witnessed>> /\ Licensing'
    BY <1>4 DEF vars, completions, charges, reads, Untouched, IInv, TypeOK,
                Licensing
  <2> QED
    BY <2>1, StandingStays DEF IInv
<1> QED
  BY <1>1, <1>2, <1>3, <1>4 DEF Next

LEMMA Invariance == Spec => []IInv
BY IInvInit, IInvStep, PTL DEF Spec

-----------------------------------------------------------------------------
(* What the trails say.                                                    *)

\* The decisions of a trail that is routed.
IsRouted(s) == \E i \in DOMAIN s : s[i].decision = "route"

LEMMA GrantedRoute ==
  \A i \in 1 .. 6 : Granted[i].decision = "route" <=> i = 5
BY GrantedAre DEF Allowed

LEMMA FirstFive ==
  ASSUME NEW s \in Seq(Decided), Len(s) >= 5,
         \A i \in 1 .. 5 : s[i] = Granted[i]
  PROVE  SubSeq(s, 1, 5) = Permission
<1>1. /\ SubSeq(s, 1, 5) \in Seq(Decided)
      /\ Len(SubSeq(s, 1, 5)) = 5
      /\ \A i \in 1 .. 5 : SubSeq(s, 1, 5)[i] = s[i]
  BY SubSeqProperties
<1>2. /\ Len(Permission) = 5
      /\ Permission[1] = Allowed("auth")
      /\ Permission[2] = Allowed("entitlement")
      /\ Permission[3] = Allowed("quota")
      /\ Permission[4] = Allowed("tier")
      /\ Permission[5] = Allowed("route")
  BY DEF Permission
<1>3. Permission \in Seq(Decided)
  BY DEF Permission, Allowed, Decided
<1>4. \A i \in 1 .. 5 : SubSeq(s, 1, 5)[i] = Permission[i]
  <2>1. \A i \in 1 .. 5 : i \in {1, 2, 3, 4, 5}
    OBVIOUS
  <2>2. \A i \in {1, 2, 3, 4, 5} : Permission[i] = Granted[i]
    BY <1>2, GrantedAre
  <2> QED
    BY <1>1, <2>1, <2>2
<1> QED
  BY <1>1, <1>2, <1>3, <1>4, SeqEqual

\* The trails that are as long as a permission, and longer.
LEMMA GrantsTell ==
  ASSUME NEW s, NEW n \in 0 .. 6, Grants(s, n)
  PROVE  /\ IsRouted(s) => SubSeq(s, 1, 5) = Permission
         /\ n = 6 => s = Permission \o <<Allowed("meter")>>
<1>1. ASSUME IsRouted(s)
      PROVE  n >= 5
  BY <1>1, GrantedRoute DEF IsRouted, Grants
<1>2. n >= 5 => SubSeq(s, 1, 5) = Permission
  BY FirstFive DEF Grants
<1>3. ASSUME n = 6
      PROVE  s = Permission \o <<Allowed("meter")>>
  <2>1. /\ s \in Seq(Decided) /\ Len(s) = 6
        /\ s[1] = Allowed("auth") /\ s[2] = Allowed("entitlement")
        /\ s[3] = Allowed("quota") /\ s[4] = Allowed("tier")
        /\ s[5] = Allowed("route") /\ s[6] = Allowed("meter")
    BY <1>3, GrantedAre DEF Grants
  <2> QED
    BY <2>1 DEF Permission
<1> QED
  BY <1>1, <1>2, <1>3

LEMMA RefusesTell ==
  ASSUME NEW s, NEW n \in {0, 1, 2, 3, 5}, Refuses(s, n)
  PROVE  /\ ~s[Len(s)].allowed
         /\ n # 5 => ~IsRouted(s)
         /\ n = 0 => s = <<Denied("auth")>>
         /\ n = 5 => s = Permission \o <<Denied("route")>>
         /\ n = 5 => SubSeq(s, 1, 5) = Permission
<1>1. ~s[Len(s)].allowed
  BY DEF Refuses, Denied
<1>2. ASSUME n # 5, NEW i \in 1 .. n + 1
      PROVE  s[i].decision # "route"
  <2>1. CASE i \in 1 .. n
    BY <1>2, <2>1, GrantedRoute DEF Refuses
  <2>2. CASE i = n + 1
    <3>1. s[i].decision = Granted[n + 1].decision
      BY <1>2, <2>2 DEF Refuses, Denied
    <3>2. n + 1 \in 1 .. 6 /\ n + 1 # 5
      BY <1>2
    <3> QED
      BY <3>1, <3>2, GrantedRoute
  <2> QED
    BY <1>2, <2>1, <2>2
<1>3. n # 5 => ~IsRouted(s)
  BY <1>2 DEF IsRouted, Refuses
<1>4. n = 0 => s = <<Denied("auth")>>
  BY GrantedAre DEF Refuses, Allowed
<1>5. n = 5 => s[6] = Denied("route")
  BY GrantedAre DEF Refuses, Allowed
<1>6. n = 5 => s = Permission \o <<Denied("route")>>
  BY <1>5, GrantedAre DEF Refuses, Permission
<1>7. n = 5 => SubSeq(s, 1, 5) = Permission
  BY FirstFive DEF Refuses
<1> QED
  BY <1>1, <1>3, <1>4, <1>6, <1>7

\* No completion reaches the provider but over its five permissions, and its
\* answer is the one its trail on the ledger accounts for, whatever the other
\* requests do and wherever its queries fail.
THEOREM TrailsExplain == Spec => []TrailExplainsAnswer
<1>1. ASSUME IInv, NEW c \in Completion
      PROVE  LET last == trail[c][Len(trail[c])] IN
             /\ Routed(c) => SubSeq(trail[c], 1, 5) = Permission
             /\ status[c] = 200 => trail[c] = Permission \o <<Allowed("meter")>>
             /\ status[c] = 502 => trail[c] = Permission \o <<Denied("route")>>
             /\ status[c] = 401 => trail[c] = <<Denied("auth")>>
             /\ status[c] = 403 => ~last.allowed /\ ~Routed(c)
  <2>1. Routed(c) = IsRouted(trail[c])
    BY DEF Routed, IsRouted
  <2>2. TrailAt(c) /\ pc[c] \in PC
    BY <1>1 DEF IInv, TypeOK
  <2>3. ASSUME NEW n \in 0 .. 6, Grants(trail[c], n)
        PROVE  /\ Routed(c) => SubSeq(trail[c], 1, 5) = Permission
               /\ n = 6 => trail[c] = Permission \o <<Allowed("meter")>>
    BY <2>1, <2>3, GrantsTell
  <2>4. CASE pc[c] # "answered"
    <3>1. status[c] = 0
      BY <2>2, <2>4 DEF TrailAt
    <3>2. PICK n \in 0 .. 6 : Grants(trail[c], n)
      BY <2>2, <2>4, PermissionsAre DEF TrailAt, PC
    <3>3. Routed(c) => SubSeq(trail[c], 1, 5) = Permission
      BY <2>3, <3>2
    <3> QED
      BY <3>1, <3>3
  <2>5. ASSUME NEW n \in 0 .. 6, Grants(trail[c], n),
               \/ status[c] = 500
               \/ n = 2 /\ status[c] = 400
               \/ n = 6 /\ status[c] = 200
        PROVE  /\ Routed(c) => SubSeq(trail[c], 1, 5) = Permission
               /\ status[c] = 200 =>
                    trail[c] = Permission \o <<Allowed("meter")>>
               /\ status[c] \notin {401, 403, 502}
    BY <2>3, <2>5
  <2>6. ASSUME NEW n \in {0, 1, 2, 3, 5}, Refuses(trail[c], n),
               status[c] = IF n = 0 THEN 401 ELSE IF n = 5 THEN 502 ELSE 403
        PROVE  /\ ~trail[c][Len(trail[c])].allowed
               /\ Routed(c) => SubSeq(trail[c], 1, 5) = Permission
               /\ status[c] # 200
               /\ status[c] = 502 =>
                    trail[c] = Permission \o <<Denied("route")>>
               /\ status[c] = 401 => trail[c] = <<Denied("auth")>>
               /\ status[c] = 403 => ~Routed(c)
    <3>1. /\ ~trail[c][Len(trail[c])].allowed
          /\ n # 5 => ~IsRouted(trail[c])
          /\ n = 0 => trail[c] = <<Denied("auth")>>
          /\ n = 5 => trail[c] = Permission \o <<Denied("route")>>
          /\ n = 5 => SubSeq(trail[c], 1, 5) = Permission
      <4>1. /\ ~trail[c][Len(trail[c])].allowed
            /\ n # 5 => ~IsRouted(trail[c])
            /\ n = 0 => trail[c] = <<Denied("auth")>>
        BY <2>6, RefusesTell
      <4>2. n = 5 => trail[c] = Permission \o <<Denied("route")>>
        BY <2>6, RefusesTell
      <4>3. n = 5 => SubSeq(trail[c], 1, 5) = Permission
        BY <2>6, RefusesTell
      <4> QED
        BY <4>1, <4>2, <4>3
    <3>2. CASE n = 0
      <4>1. status[c] = 401 /\ n # 5
        BY <2>6, <3>2
      <4> QED
        BY <2>1, <3>1, <3>2, <4>1
    <3>3. CASE n = 5
      <4>1. status[c] = 502
        BY <2>6, <3>3
      <4> QED
        BY <2>1, <3>1, <3>3, <4>1
    <3>4. CASE n \in {1, 2, 3}
      <4>1. status[c] = 403 /\ n # 5
        BY <2>6, <3>4
      <4> QED
        BY <2>1, <3>1, <4>1
    <3> QED
      BY <3>2, <3>3, <3>4
  <2>7. CASE pc[c] = "answered"
    <3>1. CASE \E n \in 0 .. 6 :
                 /\ Grants(trail[c], n)
                 /\ \/ status[c] = 500
                    \/ n = 2 /\ status[c] = 400
                    \/ n = 6 /\ status[c] = 200
      BY <2>5, <3>1
    <3>2. CASE \E n \in {0, 1, 2, 3, 5} :
                 /\ Refuses(trail[c], n)
                 /\ status[c] = IF n = 0 THEN 401
                                ELSE IF n = 5 THEN 502 ELSE 403
      <4>1. PICK n \in {0, 1, 2, 3, 5} :
              /\ Refuses(trail[c], n)
              /\ status[c] = IF n = 0 THEN 401
                             ELSE IF n = 5 THEN 502 ELSE 403
        BY <3>2
      <4>2. /\ ~trail[c][Len(trail[c])].allowed
            /\ Routed(c) => SubSeq(trail[c], 1, 5) = Permission
            /\ status[c] # 200
            /\ status[c] = 502 => trail[c] = Permission \o <<Denied("route")>>
            /\ status[c] = 401 => trail[c] = <<Denied("auth")>>
            /\ status[c] = 403 => ~Routed(c)
        BY <2>6, <4>1
      <4> QED
        BY <4>2
    <3>3. \/ \E n \in 0 .. 6 :
               /\ Grants(trail[c], n)
               /\ \/ status[c] = 500
                  \/ n = 2 /\ status[c] = 400
                  \/ n = 6 /\ status[c] = 200
          \/ \E n \in {0, 1, 2, 3, 5} :
               /\ Refuses(trail[c], n)
               /\ status[c] = IF n = 0 THEN 401
                              ELSE IF n = 5 THEN 502 ELSE 403
      BY <2>2, <2>7 DEF TrailAt
    <3> QED
      BY <3>1, <3>2, <3>3, Zenon
  <2> QED
    BY <2>4, <2>7
<1>2. IInv => TrailExplainsAnswer
  BY <1>1 DEF TrailExplainsAnswer
<1> QED
  BY <1>2, Invariance, PTL

\* A completion is metered before it has a usage record, recorded before it
\* is debited, debited before it is billed and billed when it is answered.
THEOREM ChargesKeepOrder == Spec => []ChargesInOrder
<1>1. ASSUME NEW s, Grants(s, 6)
      PROVE  Allowed("meter") \in {s[i] : i \in DOMAIN s}
  BY <1>1, GrantedAre DEF Grants
<1>2. IInv => ChargesInOrder
  BY <1>1 DEF IInv, ChargesAt, ChargesInOrder
<1> QED
  BY <1>2, Invariance, PTL

\* A completion that was routed was entitled by a licence in force since it
\* began: neither a revoked nor a superseded one comes back.
THEOREM RoutedIsEntitled == Spec => []EntitledWhenRouted
<1>1. ASSUME IInv, NEW c \in Completion, Routed(c)
      PROVE  Entitled(c)
  <2>1. IsRouted(trail[c]) /\ EntitledAt(c) /\ TrailAt(c) /\ pc[c] \in PC
    BY <1>1 DEF Routed, IsRouted, IInv, TypeOK
  <2>2. \/ \E n \in 0 .. 6 : Grants(trail[c], n)
        \/ \E n \in {0, 1, 2, 3, 5} : Refuses(trail[c], n)
    BY <2>1, PermissionsAre DEF TrailAt, PC
  <2>3. ASSUME NEW n \in 0 .. 6, Grants(trail[c], n)
        PROVE  Len(trail[c]) > 4
    BY <2>1, <2>3, GrantedRoute DEF IsRouted, Grants
  <2>4. ASSUME NEW n \in {0, 1, 2, 3, 5}, Refuses(trail[c], n)
        PROVE  Len(trail[c]) > 4
    BY <2>1, <2>4, RefusesTell, TrailLength
  <2> QED
    BY <2>1, <2>2, <2>3, <2>4 DEF EntitledAt
<1>2. IInv => EntitledWhenRouted
  BY <1>1 DEF EntitledWhenRouted, Entitled
<1> QED
  BY <1>2, Invariance, PTL

-----------------------------------------------------------------------------
(* Sums.                                                                   *)

\* Every nonempty set of numbers has a least one.
LEMMA LeastNumber ==
  ASSUME NEW T, T \subseteq Nat, T # {}
  PROVE  \E n \in T : \A m \in T : n <= m
<1> DEFINE R == OpToRel(<, Nat)
<1>1. IsWellFoundedOn(R, Nat)
  BY NatLessThanWellFounded
<1>2. ASSUME NEW x \in Nat, NEW y \in Nat, x < y
      PROVE  <<x, y>> \in R
  BY <1>2 DEF OpToRel
<1> HIDE DEF R
<1>3. PICK n \in T : \A m \in T : ~ (<<m, n>> \in R)
  BY <1>1, WFMin
<1>4. \A m \in T : ~ (m < n)
  BY <1>2, <1>3
<1>5. \A m \in T : n <= m
  BY <1>4
<1> QED
  BY <1>5

\* The element a sum takes first, and the rest.
First(s) == CHOOSE x \in s : TRUE
Rest(s) == s \ {First(s)}

LEMMA RestIsSmaller ==
  ASSUME NEW s, IsFiniteSet(s), s # {}
  PROVE  /\ First(s) \in s
         /\ Rest(s) \subseteq s
         /\ IsFiniteSet(Rest(s))
         /\ Cardinality(s) \in Nat /\ Cardinality(Rest(s)) \in Nat
         /\ Cardinality(Rest(s)) = Cardinality(s) - 1
<1>1. First(s) \in s
  BY DEF First
<1> QED
  BY <1>1, FS_RemoveElement, FS_CardinalityType DEF Rest

\* The table f holds the sum of t over every subset of D.
Sums(f, t, D) ==
  /\ DOMAIN f = SUBSET D
  /\ \A s \in SUBSET D :
       f[s] = IF s = {} THEN 0 ELSE t[First(s)] + f[Rest(s)]

\* Two tables agree where their summands do.
LEMMA SumsAgree ==
  ASSUME NEW f, NEW t, NEW D, Sums(f, t, D), NEW g, NEW u, NEW E, Sums(g, u, E),
         NEW S, IsFiniteSet(S), S \subseteq D, S \subseteq E,
         \A x \in S : t[x] = u[x]
  PROVE  f[S] = g[S]
<1> DEFINE T == {Cardinality(s) : s \in {x \in SUBSET S : f[x] # g[x]}}
<1>1. \A s \in SUBSET S : IsFiniteSet(s) /\ Cardinality(s) \in Nat
  BY FS_Subset, FS_CardinalityType
<1>2. T \subseteq Nat
  BY <1>1
<1>3. SUFFICES ASSUME T # {}
               PROVE  FALSE
  OBVIOUS
<1>4. PICK n \in T : \A m \in T : n <= m
  <2> HIDE DEF T
  <2> QED
    BY <1>2, <1>3, LeastNumber
<1>5. PICK s \in SUBSET S : f[s] # g[s] /\ n = Cardinality(s)
  BY <1>4
<1>6. s # {}
  BY <1>5 DEF Sums
<1>7. /\ First(s) \in s
      /\ Rest(s) \subseteq s
      /\ Cardinality(Rest(s)) = Cardinality(s) - 1
  BY <1>1, <1>6, RestIsSmaller
<1>8. f[Rest(s)] = g[Rest(s)]
  <2>1. SUFFICES ASSUME f[Rest(s)] # g[Rest(s)]
                 PROVE  FALSE
    OBVIOUS
  <2>2. Rest(s) \in SUBSET S
    BY <1>7
  <2>3. Cardinality(Rest(s)) \in T
    BY <2>1, <2>2
  <2>4. n <= n - 1
    BY <1>4, <1>5, <1>7, <2>3
  <2> QED
    BY <1>2, <2>4
<1>9. /\ f[s] = t[First(s)] + f[Rest(s)]
      /\ g[s] = u[First(s)] + g[Rest(s)]
  <2>1. s \in SUBSET D /\ s \in SUBSET E
    OBVIOUS
  <2> QED
    BY <1>6, <2>1 DEF Sums
<1> QED
  BY <1>5, <1>7, <1>8, <1>9

\* There is a table.
LEMMA SumsExist ==
  ASSUME NEW D, IsFiniteSet(D), NEW t, \A x \in D : t[x] \in Nat
  PROVE  \E f \in [SUBSET D -> Nat] : Sums(f, t, D)
<1> DEFINE Small(n) == {s \in SUBSET D : Cardinality(s) <= n}
           Upto(n, f) ==
             \A s \in Small(n) :
               f[s] = IF s = {} THEN 0 ELSE t[First(s)] + f[Rest(s)]
           T == {n \in Nat : ~ \E f \in [SUBSET D -> Nat] : Upto(n, f)}
<1>1. \A s \in SUBSET D : IsFiniteSet(s) /\ Cardinality(s) \in Nat
  BY FS_Subset, FS_CardinalityType
<1>2. ASSUME T # {}
      PROVE  FALSE
  <2>1. PICK n \in T : \A m \in T : n <= m
    <3>1. T \subseteq Nat
      OBVIOUS
    <3> HIDE DEF T
    <3> QED
      BY <1>2, <3>1, LeastNumber
  <2>2. n # 0
    <3>1. SUFFICES ASSUME n = 0
                   PROVE  \E f \in [SUBSET D -> Nat] : Upto(n, f)
      BY <2>1
    <3>2. \A s \in Small(n) : s = {}
      BY <1>1, <3>1, FS_EmptySet
    <3>3. Upto(n, [s \in SUBSET D |-> 0])
      BY <3>2
    <3> QED
      BY <3>3
  <2>3. n - 1 \in Nat /\ n - 1 \notin T
    <3>1. n \in Nat
      BY <2>1
    <3> HIDE DEF T
    <3>2. n - 1 \in Nat /\ ~ (n <= n - 1)
      BY <2>2, <3>1
    <3> QED
      BY <2>1, <3>2
  <2>4. PICK f \in [SUBSET D -> Nat] : Upto(n - 1, f)
    BY <2>3
  <2> DEFINE g == [s \in SUBSET D |->
                     IF s = {} THEN 0 ELSE t[First(s)] + f[Rest(s)]]
  <2>5. g \in [SUBSET D -> Nat]
    <3> SUFFICES ASSUME NEW s \in SUBSET D, s # {}
                 PROVE  t[First(s)] + f[Rest(s)] \in Nat
      OBVIOUS
    <3>1. First(s) \in D /\ Rest(s) \in SUBSET D
      BY <1>1, RestIsSmaller
    <3> QED
      BY <3>1
  <2>6. Upto(n, g)
    <3> SUFFICES ASSUME NEW s \in Small(n), s # {}
                 PROVE  g[s] = t[First(s)] + g[Rest(s)]
      OBVIOUS
    <3>1. Rest(s) \in SUBSET D /\ Cardinality(Rest(s)) <= n - 1
      BY <1>1, <2>3, RestIsSmaller
    <3>2. g[Rest(s)] = f[Rest(s)]
      BY <2>4, <3>1
    <3> QED
      BY <3>2
  <2> HIDE DEF g
  <2> QED
    BY <2>1, <2>5, <2>6
<1>3. Cardinality(D) \in Nat /\ Cardinality(D) \notin T
  BY <1>2, FS_CardinalityType
<1>4. PICK f \in [SUBSET D -> Nat] : Upto(Cardinality(D), f)
  BY <1>3
<1>5. \A s \in SUBSET D : s \in Small(Cardinality(D))
  BY FS_Subset
<1> QED
  BY <1>4, <1>5 DEF Sums

\* A sum may begin anywhere.
Commutes(f, t, D) ==
  \A s \in SUBSET D : \A x \in s : f[s] = t[x] + f[s \ {x}]

LEMMA SumsCommute ==
  ASSUME NEW D, IsFiniteSet(D), NEW t, \A x \in D : t[x] \in Nat,
         NEW f \in [SUBSET D -> Nat], Sums(f, t, D)
  PROVE  Commutes(f, t, D)
<1> DEFINE Bad == {s \in SUBSET D : \E x \in s : f[s] # t[x] + f[s \ {x}]}
           T == {Cardinality(s) : s \in Bad}
<1>1. \A s \in SUBSET D : IsFiniteSet(s) /\ Cardinality(s) \in Nat
  BY FS_Subset, FS_CardinalityType
<1>2. T \subseteq Nat
  BY <1>1
<1>3. SUFFICES ASSUME T # {}
               PROVE  FALSE
  BY DEF Commutes
<1>4. PICK n \in T : \A m \in T : n <= m
  <2> HIDE DEF T
  <2> QED
    BY <1>2, <1>3, LeastNumber
<1>12. PICK s \in SUBSET D :
         n = Cardinality(s) /\ \E x \in s : f[s] # t[x] + f[s \ {x}]
  BY <1>4
<1>5. PICK x \in s : f[s] # t[x] + f[s \ {x}]
  BY <1>12
<1> DEFINE y == First(s)
<1>6. /\ y \in s /\ Rest(s) = s \ {y}
      /\ f[s] = t[y] + f[s \ {y}]
  BY <1>1, RestIsSmaller DEF Rest, Sums
<1> HIDE DEF y
<1>7. x # y
  BY <1>5, <1>6
<1>8. ASSUME NEW z \in s, NEW w \in s, z # w
      PROVE  f[s \ {z}] = t[w] + f[s \ {z, w}]
  <2>1. s \ {z} \in SUBSET D /\ w \in s \ {z}
        /\ (s \ {z}) \ {w} = s \ {z, w}
    BY <1>8
  <2>2. Cardinality(s \ {z}) = n - 1
    BY <1>1, <1>12, FS_RemoveElement
  <2>3. Cardinality(s \ {z}) \notin T
    <3>1. n \in Nat
      BY <1>1, <1>12
    <3> HIDE DEF T
    <3>2. ~ (n <= n - 1)
      BY <3>1
    <3> QED
      BY <1>4, <2>2, <3>2
  <2>4. s \ {z} \notin Bad
    BY <2>3
  <2> QED
    BY <2>1, <2>4
<1>9. s \ {y, x} = s \ {x, y}
  OBVIOUS
<1>10. /\ f[s \ {y}] = t[x] + f[s \ {x, y}]
       /\ f[s \ {x}] = t[y] + f[s \ {x, y}]
  BY <1>5, <1>6, <1>7, <1>8, <1>9
<1>11. /\ t[x] \in Nat /\ t[y] \in Nat /\ f[s \ {x, y}] \in Nat
  BY <1>5, <1>6
<1> QED
  BY <1>5, <1>6, <1>10, <1>11

\* MapThenSumSet finds a table.
Total(t, D) == MapThenSumSet(LAMBDA c : t[c], D)

LEMMA TotalIsSum ==
  ASSUME NEW D, IsFiniteSet(D), NEW t, \A x \in D : t[x] \in Nat
  PROVE  \E f \in [SUBSET D -> Nat] : Sums(f, t, D) /\ Total(t, D) = f[D]
<1> DEFINE Table(f) == [s \in SUBSET D |->
                          IF s = {} THEN 0 ELSE t[First(s)] + f[Rest(s)]]
           f == CHOOSE h : h = Table(h)
<1>1. Total(t, D) = f[D]
  BY DEF Total, MapThenSumSet, MapThenFoldSet, First, Rest
<1>2. PICK g \in [SUBSET D -> Nat] : Sums(g, t, D)
  BY SumsExist
<1>3. g = Table(g)
  BY <1>2 DEF Sums
<1>4. f = Table(f)
  BY <1>3
<1> HIDE DEF f
<1>5. Sums(f, t, D)
  BY <1>4 DEF Sums
<1>6. \A s \in SUBSET D : f[s] = g[s]
  <2> TAKE s \in SUBSET D
  <2>1. IsFiniteSet(s)
    BY FS_Subset
  <2> QED
    BY <1>2, <1>5, <2>1, SumsAgree
<1>7. f \in [SUBSET D -> Nat]
  BY <1>4, <1>6
<1> QED
  BY <1>1, <1>5, <1>7

\* What a total is: nothing of nothing, one more with one element more, and
\* the same for the same summands.
LEMMA TotalsAre ==
  ASSUME NEW D, IsFiniteSet(D), NEW t, \A x \in D : t[x] \in Nat
  PROVE  /\ Total(t, {}) = 0
         /\ Total(t, D) \in Nat
         /\ \A x \in D : Total(t, D) = t[x] + Total(t, D \ {x})
         /\ \A u : (\A x \in D : u[x] = t[x]) => Total(u, D) = Total(t, D)
<1>1. PICK f \in [SUBSET D -> Nat] : Sums(f, t, D) /\ Total(t, D) = f[D]
  BY TotalIsSum
<1>2. ASSUME NEW E \in SUBSET D, NEW u, \A x \in E : u[x] = t[x]
      PROVE  Total(u, E) = f[E]
  <2>1. IsFiniteSet(E) /\ \A x \in E : u[x] \in Nat
    BY <1>2, FS_Subset
  <2>2. PICK g \in [SUBSET E -> Nat] : Sums(g, u, E) /\ Total(u, E) = g[E]
    BY <2>1, TotalIsSum
  <2> QED
    BY <1>1, <1>2, <2>1, <2>2, SumsAgree
<1>3. Total(t, {}) = 0
  BY <1>1, <1>2 DEF Sums
<1>4. ASSUME NEW x \in D
      PROVE  Total(t, D) = t[x] + Total(t, D \ {x})
  <2>1. Commutes(f, t, D)
    BY <1>1, SumsCommute
  <2>2. f[D] = t[x] + f[D \ {x}]
    BY <2>1 DEF Commutes
  <2>3. Total(t, D \ {x}) = f[D \ {x}]
    BY <1>2
  <2> QED
    BY <1>1, <2>2, <2>3
<1> QED
  BY <1>1, <1>2, <1>3, <1>4

-----------------------------------------------------------------------------
(* Debits.                                                                 *)

\* The quota counts the completions that have been debited, and no other.
Debits ==
  /\ quota = [f \in {"limit", "used"} |-> quota[f]]
  /\ debited \subseteq Completion
  /\ \A c \in debited : pc[c] \in {"billing", "answered"}
  /\ (\A p \in Provision : admin[p].pc \in {"new", "license", "sum", "quota"})
       => quota.used = Total(tokens, debited)

LEMMA DebitedTotals ==
  ASSUME IInv, Debits
  PROVE  /\ IsFiniteSet(debited)
         /\ \A c \in debited : tokens[c] \in Nat
BY RequestsAssumption, FS_Subset DEF IInv, TypeOK, Debits

LEMMA DebitsOfCompletion ==
  ASSUME IInv, Debits, NEW c \in Completion,
         Complete(c) \/ CompletionFails(c)
  PROVE  Debits'
<1>0. TypeOK /\ IsFiniteSet(debited) /\ \A d \in debited : tokens[d] \in Nat
  BY DebitedTotals DEF IInv
<1>1. admin' = admin /\ \A d \in Completion \ {c} : pc'[d] = pc[d]
  BY StepForms DEF Elsewhere, Others
<1>2. CASE ProviderAnswers(c)
  <2>1. /\ UNCHANGED <<quota, debited>>
        /\ \A d \in Completion \ {c} : tokens'[d] = tokens[d]
        /\ c \notin debited
    BY <1>0, <1>2 DEF ProviderAnswers, charges, TypeOK, Debits
  <2>2. Total(tokens', debited) = Total(tokens, debited)
    <3>1. \A d \in debited : tokens'[d] = tokens[d]
      BY <2>1 DEF Debits
    <3> QED
      BY <1>0, <3>1, TotalsAre
  <2>3. Total(tokens, debited)' = Total(tokens', debited')
    OBVIOUS
  <2> QED
    BY <1>1, <2>1, <2>2, <2>3 DEF Debits
<1>3. CASE DebitQuota(c)
  <2>1. /\ quota' = [quota EXCEPT !.used = @ + tokens[c]]
        /\ debited' = debited \cup {c}
        /\ tokens' = tokens
        /\ c \notin debited
    BY <1>3 DEF DebitQuota, Debits
  <2>2. pc'[c] = "billing"
    BY <1>0, <1>3, GotoForm DEF DebitQuota, PC
  <2>3. tokens[c] \in Nat
    BY <1>0 DEF TypeOK
  <2>4. Total(tokens, debited') = tokens[c] + Total(tokens, debited)
    <3>1. IsFiniteSet(debited') /\ \A d \in debited' : tokens[d] \in Nat
      BY <1>0, <2>1, <2>3, FS_AddElement
    <3>2. c \in debited' /\ debited' \ {c} = debited
      BY <2>1
    <3> QED
      BY <3>1, <3>2, TotalsAre
  <2>5. Total(tokens, debited) \in Nat
    BY <1>0, TotalsAre
  <2>6. Total(tokens, debited)' = Total(tokens, debited')
    BY <2>1
  <2>7. /\ quota' = [f \in {"limit", "used"} |-> quota'[f]]
        /\ quota'.used = quota.used + tokens[c]
    BY <2>1 DEF Debits
  <2> QED
    BY <1>1, <2>1, <2>2, <2>3, <2>4, <2>5, <2>6, <2>7 DEF Debits
<1>4. CASE ~ProviderAnswers(c) /\ ~DebitQuota(c)
  <2>1. UNCHANGED <<quota, debited, tokens>>
    BY <1>4 DEF Complete, Authenticate, ReadLicense, DecideEntitlement,
                ReadQuota, DecideQuota, DecideTier, Route, ProviderFails,
                RecordFailure, RecordMeter, AppendUsage, RecordBilling,
                CompletionFails, charges
  <2>2. c \in debited => pc'[c] = "answered"
    <3>1. c \in debited => RecordBilling(c) \/ CompletionFails(c)
      BY <1>4 DEF Debits, Complete, Authenticate, ReadLicense,
                  DecideEntitlement, ReadQuota, DecideQuota, DecideTier, Route,
                  ProviderFails, RecordFailure, RecordMeter, AppendUsage
    <3>2. RecordBilling(c) \/ CompletionFails(c) =>
            Answer(c, 200) \/ Answer(c, 500)
      BY DEF RecordBilling, CompletionFails
    <3> QED
      BY <1>0, <3>1, <3>2, AnswerForm
  <2>3. Total(tokens, debited)' = Total(tokens, debited)
    BY <2>1
  <2> QED
    BY <1>1, <2>1, <2>2, <2>3 DEF Debits
<1> QED
  BY <1>2, <1>3, <1>4

LEMMA DebitsElsewhere ==
  ASSUME IInv, Debits, UNCHANGED <<quota, debited, tokens, pc>>,
         (\A p \in Provision :
            admin'[p].pc \in {"new", "license", "sum", "quota"}) =>
           \A p \in Provision : admin[p].pc \in {"new", "license", "sum", "quota"}
  PROVE  Debits'
<1>1. Total(tokens, debited)' = Total(tokens, debited)
  OBVIOUS
<1> QED
  BY <1>1 DEF Debits

LEMMA DebitsStep == IInv /\ Debits /\ [Next]_vars => Debits'
<1> SUFFICES ASSUME IInv, Debits, [Next]_vars
             PROVE  Debits'
  OBVIOUS
<1>1. ASSUME NEW c \in Completion, Complete(c) \/ CompletionFails(c)
      PROVE  Debits'
  BY <1>1, DebitsOfCompletion
<1>2. ASSUME NEW p \in Provision, ProvisionAccount(p)
      PROVE  Debits'
  <2>1. DOMAIN admin = Provision
    BY DEF IInv, Licensing
  <2>2. CASE ResetQuota(p)
    <3>1. /\ admin'[p].pc = "record"
          /\ quota' = [limit |-> Limit, used |-> admin[p].used]
          /\ UNCHANGED <<debited, pc>>
      BY <2>1, <2>2 DEF ResetQuota, IInv, Licensing, IsLocals
    <3> QED
      BY <3>1 DEF Debits
  <2>3. CASE ~ResetQuota(p)
    <3>1. UNCHANGED <<quota, debited, tokens, pc>>
      BY <1>2, <2>3 DEF ProvisionAccount, BeginProvision, InsertLicense,
           ReadUsageSum, RecordProvision, ProvisionFails, completions, charges
    <3>2. /\ \A q \in Provision \ {p} : admin'[q] = admin[q]
          /\ \/ admin[p].pc \in {"new", "license", "sum"}
             \/ admin'[p].pc = "answered"
      <4>1. \/ BeginProvision(p) \/ InsertLicense(p) \/ ReadUsageSum(p)
            \/ RecordProvision(p) \/ ProvisionFails(p)
        BY <1>2, <2>3 DEF ProvisionAccount
      <4>2. CASE BeginProvision(p)
        BY <2>1, <4>2 DEF BeginProvision
      <4>3. CASE InsertLicense(p) \/ ReadUsageSum(p)
        BY <2>1, <4>3 DEF InsertLicense, ReadUsageSum
      <4>4. CASE RecordProvision(p) \/ ProvisionFails(p)
        BY <2>1, <4>4
           DEF RecordProvision, ProvisionFails, IInv, Licensing, IsLocals
      <4> QED
        BY <4>1, <4>2, <4>3, <4>4
    <3> QED
      BY <3>1, <3>2, DebitsElsewhere
  <2> QED
    BY <2>2, <2>3
<1>3. ASSUME NEW o \in Revocation, Revoke(o)
      PROVE  Debits'
  <2>1. UNCHANGED <<quota, debited, tokens, pc, admin>>
    BY <1>3 DEF Revoke, AuthenticateOwner, RevokeLicense, RecordRevocation,
                RevocationFails, completions, charges
  <2> QED
    BY <2>1, DebitsElsewhere
<1>4. CASE UNCHANGED vars
  BY <1>4, DebitsElsewhere DEF vars, completions, charges
<1> QED
  BY <1>1, <1>2, <1>3, <1>4 DEF Next

\* Until a provisioning rewrites it, the quota is the sum of what the debited
\* completions used, each counted once, whatever the others read meanwhile.
THEOREM DebitsCountOnce == Spec => []DebitsAddUp
<1>1. Init => Debits
  <2> SUFFICES ASSUME Init
               PROVE  Debits
    OBVIOUS
  <2>1. Total(tokens, {}) = 0
    BY FS_EmptySet, TotalsAre
  <2> QED
    BY <2>1 DEF Init, Debits
<1>2. IInv /\ Debits /\ [Next]_vars => Debits'
  BY DebitsStep
<1>3. Debits => DebitsAddUp
  BY DEF Debits, DebitsAddUp, Total
<1> QED
  BY <1>1, <1>2, <1>3, Invariance, PTL DEF Spec

-----------------------------------------------------------------------------
(***************************************************************************)
(* The specs, and the sessions that advance and pin them.                  *)
(***************************************************************************)
\* A session is a record of these fields.
IsSession(x) ==
  x = [f \in {"pc", "kind", "spec", "to", "outcome"} |-> x[f]]

SpecTypes ==
  /\ known \subseteq SpecId /\ seeded \subseteq SpecId
  /\ graph \in [SpecId -> Seq(Session \cup {"request"})]
  /\ session = [s \in Session |-> session[s]]
  /\ \A s \in Session : IsSession(session[s])
  /\ resident \in Seq(Session)

\* A spec.json is of a transition the graph has, or of none.
Dated(s) == meta[s] = NoMeta \/ (s \in seeded /\ meta[s] \in 0 .. Len(graph[s]))

MetaHolds == meta = [s \in SpecId |-> meta[s]] /\ \A s \in SpecId : Dated(s)

\* What was cited is in its graph, and what an answer cited in spec.json.
CitedHolds ==
  \A c \in cited : /\ c.spec \in SpecId
                   /\ c.n \in 1 .. Len(graph[c.spec])
                   /\ graph[c.spec][c.n] = c.author
                   /\ c.how = "answer" => c.n <= meta[c.spec]

\* The transitions of a spec that a session made.
Authored(s, spec) == {n \in DOMAIN graph[spec] : graph[spec][n] = s}

\* A session that has not run its driver has made no transition.
Early == {"new", "request", "refused", "chat", "misconfigured", "spec"}
Unwritten(s) ==
  session[s].pc \in Early => \A spec \in SpecId : Authored(s, spec) = {}

\* Only a session of SpecAdvanceDriver completes as one, and it made the
\* transition that it was asked to make.
Written(s) ==
  /\ session[s].pc = "spec" => session[s].spec \in SpecId
  /\ session[s].pc \in {"new", "request", "chat"} => session[s].kind = "chat"
  /\ session[s].pc = "spec" => session[s].outcome = "running"
  /\ session[s].kind = "spec" /\ session[s].outcome = "completed" =>
       \E x \in SpecId : /\ x = session[s].spec
                         /\ Authored(s, x) = {session[s].to}

SpecsInv ==
  /\ SpecTypes
  /\ MetaHolds
  /\ CitedHolds
  /\ \A s \in Session : Unwritten(s) /\ Written(s)

-----------------------------------------------------------------------------
LEMMA SpecsStart == SpecsInit => SpecsInv
<1> SUFFICES ASSUME SpecsInit PROVE SpecsInv
  OBVIOUS
<1>1. SpecTypes /\ MetaHolds /\ CitedHolds
  BY DEF SpecsInit, SpecTypes, MetaHolds, Dated, CitedHolds, NoSession,
         IsSession
<1>2. \A s \in Session : Unwritten(s) /\ Written(s)
  BY DEF SpecsInit, Unwritten, Written, Authored, NoSession
<1> QED
  BY <1>1, <1>2 DEF SpecsInv

\* A transition more: those there were keep their places, and the new one is
\* its author's.
Grown(x, to, author) ==
  /\ graph' \in [SpecId -> Seq(Session \cup {"request"})]
  /\ \A p \in SpecId : \A n \in 1 .. Len(graph[p]) :
       n \in 1 .. Len(graph'[p]) /\ graph'[p][n] = graph[p][n]
  /\ to \in 1 .. Len(graph'[x]) /\ graph'[x][to] = author
  /\ \A p \in SpecId : 0 .. Len(graph[p]) \subseteq 0 .. Len(graph'[p])
  /\ \A s \in Session, p \in SpecId :
       Authored(s, p)' = IF p = x /\ s = author
                         THEN Authored(s, p) \cup {to}
                         ELSE Authored(s, p)

LEMMA GraphGrows ==
  ASSUME SpecTypes, NEW x \in SpecId, NEW to, to = Len(graph[x]) + 1,
         NEW author \in Session \cup {"request"},
         graph' = [graph EXCEPT ![x] = Append(@, author)]
  PROVE  Grown(x, to, author)
<1> DEFINE A == Session \cup {"request"}
<1>1. graph' = [graph EXCEPT ![x] = Append(graph[x], author)]
      /\ to = Len(graph[x]) + 1
  OBVIOUS
<1>2. /\ graph[x] \in Seq(A) /\ author \in A
      /\ \A p \in SpecId : graph[p] \in Seq(A)
  BY DEF SpecTypes
<1> HIDE DEF A
<1>3. /\ Append(graph[x], author) \in Seq(A)
      /\ Len(Append(graph[x], author)) = to
      /\ to \in Nat \ {0} /\ Len(graph[x]) = to - 1
      /\ \A n \in 1 .. Len(graph[x]) :
           Append(graph[x], author)[n] = graph[x][n]
      /\ Append(graph[x], author)[to] = author
  BY <1>1, <1>2
<1>4. /\ graph' \in [SpecId -> Seq(A)]
      /\ graph'[x] = Append(graph[x], author)
      /\ \A p \in SpecId \ {x} : graph'[p] = graph[p]
  BY <1>1, <1>3 DEF SpecTypes, A
<1>5. \A p \in SpecId : \A n \in 1 .. Len(graph[p]) :
        n \in 1 .. Len(graph'[p]) /\ graph'[p][n] = graph[p][n]
  <2> TAKE p \in SpecId
  <2> TAKE n \in 1 .. Len(graph[p])
  <2>1. CASE p = x
    BY <1>3, <1>4, <2>1
  <2>2. CASE p # x
    BY <1>4, <2>2
  <2> QED
    BY <2>1, <2>2
<1>6. to \in 1 .. Len(graph'[x]) /\ graph'[x][to] = author
  BY <1>3, <1>4
<1>8. \A p \in SpecId : 0 .. Len(graph[p]) \subseteq 0 .. Len(graph'[p])
  <2> TAKE p \in SpecId
  <2>1. CASE p = x
    BY <1>3, <1>4, <2>1
  <2>2. CASE p # x
    BY <1>4, <2>2
  <2> QED
    BY <2>1, <2>2
<1>7. ASSUME NEW s \in Session, NEW p \in SpecId
      PROVE  Authored(s, p)' = IF p = x /\ s = author
                               THEN Authored(s, p) \cup {to}
                               ELSE Authored(s, p)
  <2>1. CASE p # x
    BY <1>4, <2>1 DEF Authored
  <2>2. CASE p = x
    <3>1. DOMAIN graph[x] = 1 .. to - 1 /\ DOMAIN graph'[x] = 1 .. to
      BY <1>2, <1>3, <1>4
    <3>2. 1 .. to = (1 .. to - 1) \cup {to}
      BY <1>3
    <3>3. \A n \in 1 .. to - 1 : graph'[x][n] = graph[x][n]
      BY <1>3, <1>4
    <3> QED
      BY <2>2, <3>1, <3>2, <3>3, <1>6 DEF Authored
  <2> QED
    BY <2>1, <2>2
<1> QED
  BY <1>4, <1>5, <1>6, <1>7, <1>8 DEF A, Grown

\* What was cited stays ...
LEMMA CitationsStay ==
  ASSUME CitedHolds,
         \A p \in SpecId : \A n \in 1 .. Len(graph[p]) :
           n \in 1 .. Len(graph'[p]) /\ graph'[p][n] = graph[p][n],
         \A p \in SpecId : \A n \in Nat : n <= meta[p] => n <= meta'[p],
         NEW c \in cited
  PROVE  /\ c.spec \in SpecId
         /\ c.n \in 1 .. Len(graph'[c.spec])
         /\ graph'[c.spec][c.n] = c.author
         /\ c.how = "answer" => c.n <= meta'[c.spec]
<1>1. /\ c.spec \in SpecId /\ c.n \in 1 .. Len(graph[c.spec])
      /\ graph[c.spec][c.n] = c.author
      /\ c.how = "answer" => c.n <= meta[c.spec]
  BY DEF CitedHolds
<1>2. c.n \in Nat
  BY <1>1
<1> QED
  BY <1>1, <1>2

\* ... and a citation of a transition that is there is added.
LEMMA CitationsGrow ==
  ASSUME CitedHolds,
         \A p \in SpecId : \A n \in 1 .. Len(graph[p]) :
           n \in 1 .. Len(graph'[p]) /\ graph'[p][n] = graph[p][n],
         \A p \in SpecId : \A n \in Nat : n <= meta[p] => n <= meta'[p],
         NEW x \in SpecId, NEW n \in 1 .. Len(graph'[x]), NEW author, NEW how,
         graph'[x][n] = author, how = "answer" => n <= meta'[x],
         Cites(x, n, author, how)
  PROVE  CitedHolds'
<1> SUFFICES ASSUME NEW c \in cited'
             PROVE  /\ c.spec \in SpecId
                    /\ c.n \in 1 .. Len(graph'[c.spec])
                    /\ graph'[c.spec][c.n] = c.author
                    /\ c.how = "answer" => c.n <= meta'[c.spec]
  BY DEF CitedHolds
<1>1. CASE c \in cited
  BY <1>1, CitationsStay
<1>2. CASE c = [spec |-> x, n |-> n, author |-> author, how |-> how]
  BY <1>2
<1> QED
  BY <1>1, <1>2 DEF Cites

LEMMA SameGraphs ==
  ASSUME CitedHolds, graph' = graph, meta' = meta, cited' = cited
  PROVE  CitedHolds'
  BY DEF CitedHolds

\* The dates of spec.json, when the graphs stay or grow.
LEMMA SameMeta ==
  ASSUME MetaHolds, meta' = meta, seeded \subseteq seeded',
         \A p \in SpecId : 0 .. Len(graph[p]) \subseteq 0 .. Len(graph'[p])
  PROVE  MetaHolds'
<1>1. \A p \in SpecId : Dated(p)'
  BY DEF MetaHolds, Dated
<1> QED
  BY <1>1 DEF MetaHolds

\* An advance, saved or not: what the files hold then.
LEMMA SpecAdvances ==
  ASSUME SpecsInv, NEW x \in SpecId, NEW to,
         NEW author \in Session \cup {"request"}, Legal(x, to),
         seeded' = seeded, NEW saved \in BOOLEAN,
         IF saved THEN Saves(x, author) /\ Cites(x, to, author, "answer")
         ELSE SaveFails(x, author) /\ cited' = cited
  PROVE  /\ graph' \in [SpecId -> Seq(Session \cup {"request"})]
         /\ MetaHolds' /\ CitedHolds'
         /\ \A s \in Session, p \in SpecId :
              Authored(s, p)' = Authored(s, p)
                \/ (p = x /\ s = author)
         /\ saved => Authored(author, x)' = Authored(author, x) \cup {to}
                       \/ author \notin Session
<1>1. to = Len(graph[x]) + 1 /\ x \in seeded /\ x \in known
  BY DEF Legal
<1>2. /\ graph \in [SpecId -> Seq(Session \cup {"request"})]
      /\ SpecTypes /\ MetaHolds /\ CitedHolds
  BY DEF SpecsInv, SpecTypes
<1>3. CASE graph' = graph
  <2>1. ~saved
    <3>1. Len(Append(graph[x], author)) # Len(graph[x])
      BY <1>2
    <3> QED
      BY <1>2, <1>3, <3>1 DEF Saves
  <2>2. meta' = meta /\ cited' = cited
    BY <2>1 DEF SaveFails
  <2>3. MetaHolds' /\ CitedHolds'
    BY <1>2, <1>3, <2>2, SameMeta, SameGraphs
  <2>4. \A s \in Session, p \in SpecId : Authored(s, p)' = Authored(s, p)
    BY <1>3 DEF Authored
  <2> QED
    BY <1>2, <1>3, <2>1, <2>3, <2>4
<1>4. CASE graph' = [graph EXCEPT ![x] = Append(@, author)]
  <2>0. SpecTypes /\ to = Len(graph[x]) + 1
    BY <1>1, <1>2
  <2>1. /\ graph' \in [SpecId -> Seq(Session \cup {"request"})]
        /\ \A p \in SpecId : \A n \in 1 .. Len(graph[p]) :
             n \in 1 .. Len(graph'[p]) /\ graph'[p][n] = graph[p][n]
        /\ to \in 1 .. Len(graph'[x]) /\ graph'[x][to] = author
        /\ \A p \in SpecId : 0 .. Len(graph[p]) \subseteq 0 .. Len(graph'[p])
        /\ \A s \in Session, p \in SpecId :
             Authored(s, p)' = IF p = x /\ s = author
                               THEN Authored(s, p) \cup {to}
                               ELSE Authored(s, p)
    <3>1. Grown(x, to, author)
      BY <2>0, <1>4, GraphGrows
    <3> QED
      BY <3>1 DEF Grown
  <2>2. CASE saved
    <3>1. /\ meta' = [meta EXCEPT ![x] = to]
          /\ Cites(x, to, author, "answer")
      BY <1>1, <2>2 DEF Saves
    <3>2. /\ meta' = [p \in SpecId |-> meta'[p]] /\ meta'[x] = to
          /\ \A p \in SpecId \ {x} : meta'[p] = meta[p]
      BY <3>1, <1>2 DEF MetaHolds
    <3>3. \A p \in SpecId : Dated(p)'
      <4> TAKE p \in SpecId
      <4>1. CASE p = x
        BY <1>1, <2>1, <3>2, <4>1 DEF Dated
      <4>2. CASE p # x
        BY <1>2, <2>1, <3>2, <4>2 DEF MetaHolds, Dated
      <4> QED
        BY <4>1, <4>2
    <3>4. MetaHolds'
      BY <3>2, <3>3 DEF MetaHolds
    <3>5. \A n \in Nat : n <= meta[x] => n <= to
      BY <1>1, <1>2 DEF MetaHolds, Dated, NoMeta
    <3>6. \A p \in SpecId : \A n \in Nat : n <= meta[p] => n <= meta'[p]
      BY <3>2, <3>5
    <3>7. to <= meta'[x]
      BY <2>1, <3>2
    <3>8. CitedHolds'
      BY <1>2, <2>1, <3>1, <3>6, <3>7, CitationsGrow
    <3> QED
      BY <2>1, <3>4, <3>8
  <2>3. CASE ~saved
    <3>1. meta' = meta /\ cited' = cited
      BY <2>3 DEF SaveFails
    <3>2. MetaHolds'
      BY <1>2, <2>1, <3>1, SameMeta
    <3>3. CitedHolds'
      <4>1. \A p \in SpecId : \A n \in Nat : n <= meta[p] => n <= meta'[p]
        BY <3>1
      <4>2. CitedHolds /\ cited' = cited
        BY <1>2, <3>1
      <4> QED
        BY <2>1, <4>1, <4>2, CitationsStay DEF CitedHolds
    <3> QED
      BY <2>1, <2>3, <3>2, <3>3
  <2> QED
    BY <2>2, <2>3
<1> QED
  BY <1>3, <1>4 DEF Saves, SaveFails

\* The graphs are left alone: a session that is left alone keeps its part.
LEMMA SameAuthors ==
  ASSUME SpecsInv, graph' = graph, NEW s \in Session, session'[s] = session[s]
  PROVE  Unwritten(s)' /\ Written(s)'
  BY DEF SpecsInv, Unwritten, Written, Authored

\* A session that is left alone keeps its part when no transition of its is
\* added.
LEMMA KeepsAuthors ==
  ASSUME SpecsInv, NEW s \in Session, session'[s] = session[s],
         \A p \in SpecId : Authored(s, p)' = Authored(s, p)
  PROVE  Unwritten(s)' /\ Written(s)'
<1>1. Unwritten(s) /\ Written(s)
  BY DEF SpecsInv
<1>2. Unwritten(s)'
  BY <1>1 DEF Unwritten
<1>3. session[s].kind = "spec" /\ session[s].outcome = "completed" =>
        \E x \in SpecId : /\ x = session[s].spec
                          /\ Authored(s, x)' = {session[s].to}
  BY <1>1 DEF Written
<1>4. Written(s)'
  BY <1>1, <1>3 DEF Written
<1> QED
  BY <1>2, <1>4

\* The graphs are left alone, and one session becomes y.
LEMMA SessionBecomes ==
  ASSUME SpecsInv, graph' = graph, NEW s \in Session, NEW y,
         session' = [session EXCEPT ![s] = y],
         IsSession(y),
         y.pc \in Early => session[s].pc \in Early,
         y.pc = "spec" => y.spec \in SpecId /\ y.outcome = "running",
         y.pc \in {"new", "request", "chat"} => y.kind = "chat",
         y.kind = "spec" /\ y.outcome = "completed" =>
           /\ session[s].kind = "spec" /\ session[s].outcome = "completed"
           /\ y.spec = session[s].spec /\ y.to = session[s].to
  PROVE  /\ session' = [t \in Session |-> session'[t]]
         /\ \A t \in Session :
              /\ IsSession(session'[t])
              /\ Unwritten(t)' /\ Written(t)'
<1>1. /\ session' = [t \in Session |-> session'[t]]
      /\ \A t \in Session \ {s} : session'[t] = session[t]
      /\ session'[s] = y
  BY DEF SpecsInv, SpecTypes
<1>2. ASSUME NEW t \in Session, NEW spec \in SpecId
      PROVE  Authored(t, spec)' = Authored(t, spec)
  BY DEF Authored
<1>3. Unwritten(s)'
  BY <1>1, <1>2 DEF SpecsInv, Unwritten
<1>4. Written(s)'
  <2>1. Written(s)
    BY DEF SpecsInv
  <2>2. CASE y.kind = "spec" /\ y.outcome = "completed"
    BY <1>1, <1>2, <2>1, <2>2 DEF Written
  <2>3. CASE ~ (y.kind = "spec" /\ y.outcome = "completed")
    BY <1>1, <2>3 DEF Written
  <2> QED
    BY <2>2, <2>3
<1>5. \A t \in Session \ {s} : Unwritten(t)' /\ Written(t)'
  BY <1>1, SameAuthors
<1> QED
  BY <1>1, <1>3, <1>4, <1>5 DEF SpecsInv, SpecTypes

\* What stays when the specs and the resident sessions do.
LEMMA SameSpecs ==
  ASSUME SpecsInv, UNCHANGED <<specs, resident>>,
         session' = [t \in Session |-> session'[t]],
         \A t \in Session :
           /\ IsSession(session'[t])
           /\ Unwritten(t)' /\ Written(t)'
  PROVE  SpecsInv'
<1>1. UNCHANGED <<known, seeded, graph, meta, cited, resident>>
  BY DEF specs, files
<1>2. CitedHolds' /\ MetaHolds'
  BY <1>1, SameGraphs, SameMeta DEF SpecsInv
<1> QED
  BY <1>1, <1>2 DEF SpecsInv, SpecTypes

-----------------------------------------------------------------------------
\* The graphs, the citations and the sessions are left alone.
LEMMA SameSessions ==
  ASSUME SpecsInv, graph' = graph, cited' = cited, session' = session,
         known' \subseteq SpecId, seeded' \subseteq SpecId,
         resident' = resident, MetaHolds', CitedHolds'
  PROVE  SpecsInv'
<1>1. graph' = graph
  OBVIOUS
<1>2. \A s \in Session : Unwritten(s)' /\ Written(s)'
  BY SameAuthors
<1> QED
  BY <1>1, <1>2 DEF SpecsInv, SpecTypes

LEMMA CreateSpecStep == SpecsInv /\ CreateSpec => SpecsInv'
<1> SUFFICES ASSUME SpecsInv, CreateSpec PROVE SpecsInv'
  OBVIOUS
<1>1. PICK s \in SpecId \ (known \cup seeded) :
        /\ known' = known \cup {s}
        /\ \/ /\ seeded' = seeded \cup {s}
              /\ meta' = [meta EXCEPT ![s] = 0]
           \/ /\ seeded' \in {seeded, seeded \cup {s}}
              /\ meta' = meta
  BY DEF CreateSpec
<1>2. /\ UNCHANGED <<graph, cited, session, resident>>
      /\ known' \subseteq SpecId /\ seeded' \subseteq SpecId
      /\ seeded \subseteq seeded'
      /\ \A p \in SpecId : Len(graph[p]) \in Nat
  BY <1>1 DEF CreateSpec, sessions, SpecsInv, SpecTypes
<1>3. MetaHolds /\ CitedHolds
  BY DEF SpecsInv
<1>4. MetaHolds' /\ CitedHolds'
  <2>1. CASE meta' = meta
    BY <1>2, <1>3, <2>1, SameMeta, SameGraphs
  <2>2. CASE seeded' = seeded \cup {s} /\ meta' = [meta EXCEPT ![s] = 0]
    <3>1. /\ meta' = [p \in SpecId |-> meta'[p]] /\ meta'[s] = 0
          /\ \A p \in SpecId \ {s} : meta'[p] = meta[p]
      BY <1>3, <2>2 DEF MetaHolds
    <3>2. meta[s] = -1
      BY <1>1, <1>3 DEF MetaHolds, Dated, NoMeta
    <3>3. \A p \in SpecId : Dated(p)'
      BY <1>2, <1>3, <2>2, <3>1 DEF MetaHolds, Dated
    <3>4. ASSUME NEW c \in cited, c.how = "answer" PROVE c.spec # s
      <4>1. /\ c.spec \in SpecId /\ c.n \in 1 .. Len(graph[c.spec])
            /\ c.n <= meta[c.spec]
        BY <1>3, <3>4 DEF CitedHolds
      <4> QED
        BY <3>2, <4>1
    <3>5. CitedHolds'
      BY <1>2, <1>3, <3>1, <3>4 DEF CitedHolds
    <3> QED
      BY <3>1, <3>3, <3>5 DEF MetaHolds
  <2> QED
    BY <1>1, <2>1, <2>2
<1> QED
  BY <1>2, <1>4, SameSessions

LEMMA RestartSpecsStep == SpecsInv /\ Restart => SpecsInv'
<1> SUFFICES ASSUME SpecsInv, Restart PROVE SpecsInv'
  OBVIOUS
<1>1. /\ UNCHANGED <<seeded, graph, meta, cited, session, resident>>
      /\ known' \subseteq SpecId
  BY DEF Restart, files, sessions
<1>2. MetaHolds' /\ CitedHolds'
  BY <1>1, SameMeta, SameGraphs DEF SpecsInv
<1> QED
  BY <1>1, <1>2, SameSessions DEF SpecsInv, SpecTypes

LEMMA AdvanceRequestStep == SpecsInv /\ AdvanceRequest => SpecsInv'
<1> SUFFICES ASSUME SpecsInv, AdvanceRequest PROVE SpecsInv'
  OBVIOUS
<1>1. PICK x \in SpecId, to \in 1 .. Steps :
        /\ Legal(x, to)
        /\ \/ Saves(x, "request") /\ Cites(x, to, "request", "answer")
           \/ SaveFails(x, "request") /\ cited' = cited
  BY DEF AdvanceRequest
<1> DEFINE r == "request"
<1>2. r \in Session \cup {"request"} /\ r \notin Session
  BY SessionsAssumption
<1>3. PICK saved \in BOOLEAN :
        IF saved THEN Saves(x, r) /\ Cites(x, to, r, "answer")
        ELSE SaveFails(x, r) /\ cited' = cited
  BY <1>1, Zenon
<1>4. UNCHANGED <<known, seeded, session, resident>> /\ Legal(x, to)
  BY <1>1 DEF AdvanceRequest, sessions
<1> HIDE DEF r
<1>5. /\ graph' \in [SpecId -> Seq(Session \cup {"request"})]
      /\ MetaHolds' /\ CitedHolds'
      /\ \A s \in Session, p \in SpecId : Authored(s, p)' = Authored(s, p)
  <2>1. /\ graph' \in [SpecId -> Seq(Session \cup {"request"})]
        /\ MetaHolds' /\ CitedHolds'
        /\ \A s \in Session, p \in SpecId :
             Authored(s, p)' = Authored(s, p) \/ (p = x /\ s = r)
    BY <1>2, <1>3, <1>4, SpecAdvances, ZenonT(60)
  <2> QED
    BY <1>2, <2>1
<1>7. ASSUME NEW s \in Session
      PROVE  Unwritten(s)' /\ Written(s)'
  BY <1>4, <1>5, KeepsAuthors
<1> QED
  BY <1>4, <1>5, <1>7 DEF SpecsInv, SpecTypes

LEMMA RequestSessionStep == SpecsInv /\ RequestSession => SpecsInv'
<1> SUFFICES ASSUME SpecsInv, RequestSession PROVE SpecsInv'
  OBVIOUS
<1>1. PICK s \in Session : /\ session[s].pc = "new"
                           /\ session' = [session EXCEPT ![s].pc = "request"]
  BY DEF RequestSession
<1> DEFINE y == [session[s] EXCEPT !.pc = "request"]
<1>2. IsSession(session[s]) /\ Written(s)
  BY DEF SpecsInv, SpecTypes
<1>3. /\ session' = [session EXCEPT ![s] = y]
      /\ IsSession(y) /\ y.pc = "request"
      /\ y.kind = session[s].kind /\ y.outcome = session[s].outcome
      /\ y.spec = session[s].spec /\ y.to = session[s].to
  BY <1>1, <1>2 DEF IsSession
<1>4. y.kind = "chat" /\ session[s].pc \in Early
  BY <1>1, <1>2, <1>3 DEF Written, Early
<1>5. UNCHANGED <<specs, resident>> /\ graph' = graph
  BY DEF RequestSession, specs, files
<1> HIDE DEF y
<1> QED
  BY <1>3, <1>4, <1>5, SessionBecomes, SameSpecs

\* The session is sealed.
LEMMA SealsSession ==
  ASSUME SpecsInv, NEW s \in Session, NEW o, Seals(s, o),
         UNCHANGED <<specs, resident>>,
         session[s].kind = "spec" /\ o = "completed" =>
           o = session[s].outcome
  PROVE  SpecsInv'
<1>1. session' = [session EXCEPT ![s].pc = "sealed", ![s].outcome = o]
  BY DEF Seals
<1> DEFINE y == [session[s] EXCEPT !.pc = "sealed", !.outcome = o]
<1>2. IsSession(session[s])
  BY DEF SpecsInv, SpecTypes
<1>3. /\ session' = [session EXCEPT ![s] = y]
      /\ IsSession(y) /\ y.pc = "sealed"
      /\ y.kind = session[s].kind /\ y.outcome = o
      /\ y.spec = session[s].spec /\ y.to = session[s].to
  BY <1>1, <1>2 DEF IsSession, SpecsInv, SpecTypes
<1>4. graph' = graph
  BY DEF specs, files
<1>5. y.pc \notin Early
  BY <1>3 DEF Early
<1> HIDE DEF y
<1>6. y.pc # "spec" /\ y.pc \notin {"new", "request", "chat"}
  BY <1>3
<1> QED
  BY <1>3, <1>4, <1>5, <1>6, SessionBecomes, SameSpecs

LEMMA ChatsStep == SpecsInv /\ Chats => SpecsInv'
<1> SUFFICES ASSUME SpecsInv, Chats PROVE SpecsInv'
  OBVIOUS
<1>1. PICK s \in Session :
        \/ /\ session[s].pc = "chat"
           /\ \E outcome \in {"completed", "failed"} : Seals(s, outcome)
        \/ session[s].pc = "misconfigured" /\ Seals(s, "failed")
  BY DEF Chats
<1>2. session[s].pc = "chat" => session[s].kind = "chat"
  BY DEF SpecsInv, Written
<1>3. PICK o : Seals(s, o) /\ (session[s].kind = "spec" => o = "failed")
  BY <1>1, <1>2
<1>4. UNCHANGED <<specs, resident>>
  BY DEF Chats
<1> QED
  BY <1>3, <1>4, SealsSession

LEMMA SealAdvanceStep == SpecsInv /\ SealAdvance => SpecsInv'
  BY SealsSession DEF SealAdvance

-----------------------------------------------------------------------------
(* A session is started, advances a spec, or dies with the daemon.         *)

LEMMA RoomIsMade ==
  ASSUME SpecsInv, NEW s \in Session, MakesRoom(s),
         Len(resident) >= MaxResident => Sealed # {}
  PROVE  resident' \in Seq(Session)
<1>1. resident \in Seq(Session) /\ Len(resident) \in Nat
  BY DEF SpecsInv, SpecTypes
<1>2. CASE Len(resident) < MaxResident
  BY <1>1, <1>2 DEF MakesRoom
<1>3. CASE ~ (Len(resident) < MaxResident)
  <2>1. Sealed # {} /\ Sealed \subseteq 1 .. Len(resident)
    BY <1>1, <1>3, BoundsAssumption DEF Sealed
  <2>2. \E n \in Sealed : \A m \in Sealed : n <= m
    <3> HIDE DEF Sealed
    <3>1. Sealed \subseteq Nat
      BY <2>1
    <3> QED
      BY <2>1, <3>1, LeastNumber
  <2>3. Min(Sealed) \in 1 .. Len(resident)
    BY <2>1, <2>2 DEF Min
  <2> DEFINE i == Min(Sealed)
  <2>4. i \in 1 .. Len(resident)
    BY <2>3
  <2> HIDE DEF i
  <2>5. RemoveAt(resident, i) \in Seq(Session)
    BY <1>1, <2>4 DEF RemoveAt
  <2> QED
    BY <1>3, <2>5 DEF MakesRoom, i
<1> QED
  BY <1>2, <1>3

LEMMA StartsSession ==
  ASSUME SpecsInv, NEW s \in Session, Starts(s),
         session[s].pc \in {"new", "request"},
         UNCHANGED <<known, files>>
  PROVE  SpecsInv'
<1>0. UNCHANGED <<known, seeded, graph, meta>>
  BY DEF files
<1>1. CASE Len(resident) >= MaxResident /\ Sealed = {}
  <2> DEFINE y == [session[s] EXCEPT !.pc = "refused"]
  <2>1. IsSession(session[s]) /\ Written(s)
    BY DEF SpecsInv, SpecTypes
  <2>2. /\ session' = [session EXCEPT ![s] = y]
        /\ IsSession(y) /\ y.pc = "refused"
        /\ y.kind = session[s].kind /\ y.outcome = session[s].outcome
        /\ y.spec = session[s].spec /\ y.to = session[s].to
    BY <1>1, <2>1 DEF IsSession, Starts
  <2>3. y.kind = "chat" /\ session[s].pc \in Early
    BY <2>1, <2>2 DEF Written, Early
  <2>4. UNCHANGED <<specs, resident>>
    BY <1>1 DEF Starts, specs
  <2> HIDE DEF y
  <2> QED
    BY <1>0, <2>2, <2>3, <2>4, SessionBecomes, SameSpecs
<1>2. CASE ~ (Len(resident) >= MaxResident /\ Sealed = {})
  <2>1. /\ MakesRoom(s)
        /\ \E pin \in SpecId \cup {"none"} :
             \/ \E x \in SpecId, to \in 1 .. Steps : Runs(s, "spec", x, to, pin)
             \/ Runs(s, "chat", "none", 0, pin)
    BY <1>2 DEF Starts
  <2>2. resident' \in Seq(Session)
    BY <1>2, <2>1, RoomIsMade
  <2>3. PICK kind, x, to, pin :
          /\ kind \in {"spec", "chat"} /\ (kind = "spec" => x \in SpecId)
          /\ Runs(s, kind, x, to, pin)
    BY <2>1
  <2> DEFINE y == [NoSession EXCEPT
                     !.pc = IF pin # "none" /\ ~Pinnable(pin)
                            THEN "misconfigured" ELSE kind,
                     !.kind = kind, !.spec = x, !.to = to]
  <2>4. /\ session' = [session EXCEPT ![s] = y]
        /\ IsSession(y) /\ y.kind = kind
        /\ y.pc \in {kind, "misconfigured"}
        /\ y.outcome = "running" /\ y.spec = x
    BY <2>3 DEF Runs, NoSession, IsSession
  <2>5. CitedHolds'
    <3>1. /\ \A p \in SpecId : \A n \in 1 .. Len(graph[p]) :
               n \in 1 .. Len(graph'[p]) /\ graph'[p][n] = graph[p][n]
          /\ \A p \in SpecId : \A n \in Nat : n <= meta[p] => n <= meta'[p]
      BY <1>0
    <3>2. CASE Pinnable(pin) /\ graph[pin] # <<>>
      <4>1. pin \in SpecId /\ graph[pin] \in Seq(Session \cup {"request"})
        BY <3>2 DEF Pinnable, SpecsInv, SpecTypes
      <4>2. Len(graph[pin]) \in 1 .. Len(graph'[pin])
        BY <1>0, <3>2, <4>1
      <4>3. Cites(pin, Len(graph[pin]), Last(graph[pin]), "pin")
        BY <2>3, <3>2 DEF Runs
      <4>4. graph'[pin][Len(graph[pin])] = Last(graph[pin])
        BY <1>0 DEF Last
      <4> QED
        <5> DEFINE how == "pin"
                   n == Len(graph[pin])
                   author == Last(graph[pin])
        <5>1. how = "answer" => n <= meta'[pin]
          OBVIOUS
        <5>2. Cites(pin, n, author, how) /\ CitedHolds
          BY <4>3 DEF SpecsInv
        <5>3. n \in 1 .. Len(graph'[pin]) /\ graph'[pin][n] = author
          BY <4>2, <4>4
        <5> HIDE DEF how, n, author
        <5> QED
          BY <3>1, <4>1, <5>1, <5>2, <5>3, CitationsGrow
    <3>3. CASE ~ (Pinnable(pin) /\ graph[pin] # <<>>)
      <4>1. cited' = cited
        BY <2>3, <3>3 DEF Runs
      <4> QED
        BY <1>0, <4>1, SameGraphs DEF SpecsInv
    <3> QED
      BY <3>2, <3>3
  <2> HIDE DEF y
  <2>6. session[s].pc \in Early
    BY DEF Early
  <2>7. /\ session' = [t \in Session |-> session'[t]]
        /\ \A t \in Session :
             /\ IsSession(session'[t])
             /\ Unwritten(t)' /\ Written(t)'
    <3>1. /\ y.pc = "spec" => y.spec \in SpecId /\ y.outcome = "running"
          /\ y.pc \in {"new", "request", "chat"} => y.kind = "chat"
          /\ ~ (y.kind = "spec" /\ y.outcome = "completed")
      BY <2>3, <2>4
    <3> QED
      BY <1>0, <2>4, <2>6, <3>1, SessionBecomes
  <2>8. MetaHolds'
    BY <1>0, SameMeta DEF SpecsInv
  <2> QED
    BY <1>0, <2>2, <2>5, <2>7, <2>8 DEF SpecsInv, SpecTypes
<1> QED
  BY <1>1, <1>2

LEMMA StartSessionStep ==
  SpecsInv /\ (StartSession \/ StartAtOnce) => SpecsInv'
  BY StartsSession DEF StartSession, StartAtOnce

LEMMA AdvanceSessionStep == SpecsInv /\ AdvanceSession => SpecsInv'
<1> SUFFICES ASSUME SpecsInv, AdvanceSession PROVE SpecsInv'
  OBVIOUS
<1>1. PICK s, x, to :
        /\ s \in Session /\ session[s].pc = "spec"
        /\ x = session[s].spec /\ to = session[s].to
        /\ \/ /\ Legal(x, to)
              /\ \/ /\ Saves(x, s)
                    /\ Cites(x, to, s, "answer")
                    /\ ToolEnds(s, "completed")
                 \/ SaveFails(x, s) /\ ToolEnds(s, "failed") /\ cited' = cited
           \/ /\ ToolEnds(s, "failed")
              /\ UNCHANGED <<graph, meta, cited>>
  BY DEF AdvanceSession
<1>a. s \in Session
  BY <1>1
<1> USE <1>a
<1>2. /\ x \in SpecId /\ IsSession(session[s])
      /\ \A p \in SpecId : Authored(s, p) = {}
  BY <1>1 DEF SpecsInv, SpecTypes, Written, Unwritten, Early
<1>3. UNCHANGED <<known, seeded, resident>>
  BY DEF AdvanceSession
<1>4. ASSUME NEW o, ToolEnds(s, o)
      PROVE  /\ session' = [t \in Session |-> session'[t]]
             /\ \A t \in Session \ {s} : session'[t] = session[t]
             /\ IsSession(session'[s]) /\ session'[s].pc = "told"
             /\ session'[s].outcome = o
             /\ session'[s].spec = x /\ session'[s].to = to
             /\ \A t \in Session : IsSession(session'[t])
  <2> DEFINE y == [session[s] EXCEPT !.pc = "told", !.outcome = o]
  <2>1. /\ session' = [session EXCEPT ![s] = y]
        /\ IsSession(y) /\ y.pc = "told" /\ y.outcome = o
        /\ y.spec = x /\ y.to = to
    BY <1>1, <1>2, <1>4 DEF IsSession, ToolEnds, SpecsInv, SpecTypes
  <2> HIDE DEF y
  <2> QED
    BY <2>1 DEF SpecsInv, SpecTypes
<1>5. ASSUME NEW o, ToolEnds(s, o), o # "completed"
      PROVE  Unwritten(s)' /\ Written(s)'
  BY <1>4, <1>5 DEF Unwritten, Written, Early
<1>6. CASE ToolEnds(s, "failed") /\ UNCHANGED <<graph, meta, cited>>
  <2>1. \A t \in Session \ {s} : Unwritten(t)' /\ Written(t)'
    BY <1>4, <1>6, SameAuthors
  <2>2. MetaHolds' /\ CitedHolds'
    BY <1>3, <1>6, SameMeta, SameGraphs DEF SpecsInv
  <2> QED
    BY <1>3, <1>4, <1>5, <1>6, <2>1, <2>2 DEF SpecsInv, SpecTypes
<1>7. ASSUME Legal(x, to), NEW saved \in BOOLEAN,
             IF saved THEN Saves(x, s) /\ Cites(x, to, s, "answer")
             ELSE SaveFails(x, s) /\ cited' = cited,
             ToolEnds(s, IF saved THEN "completed" ELSE "failed")
      PROVE  SpecsInv'
  <2>1. /\ graph' \in [SpecId -> Seq(Session \cup {"request"})]
        /\ MetaHolds' /\ CitedHolds'
        /\ \A t \in Session, p \in SpecId :
             Authored(t, p)' = Authored(t, p) \/ (p = x /\ t = s)
        /\ saved => Authored(s, x)' = Authored(s, x) \cup {to}
    BY <1>2, <1>3, <1>7, SpecAdvances
  <2>2. ASSUME NEW t \in Session \ {s}
        PROVE  Unwritten(t)' /\ Written(t)'
    BY <1>4, <1>7, <2>1, KeepsAuthors
  <2>3. Unwritten(s)' /\ Written(s)'
    <3>1. CASE saved
      <4>1. Authored(s, x)' = {to}
        BY <1>2, <2>1, <3>1
      <4>2. Unwritten(s)'
        BY <1>4, <1>7 DEF Unwritten, Early
      <4>3. /\ session'[s].pc = "told" /\ session'[s].spec = x
            /\ session'[s].to = to
        BY <1>4, <1>7
      <4> QED
        BY <1>2, <4>1, <4>2, <4>3 DEF Written
    <3>2. CASE ~saved
      BY <1>5, <1>7, <3>2
    <3> QED
      BY <3>1, <3>2
  <2> QED
    BY <1>3, <1>4, <1>7, <2>1, <2>2, <2>3 DEF SpecsInv, SpecTypes
<1>8. CASE /\ Legal(x, to) /\ Saves(x, s) /\ Cites(x, to, s, "answer")
           /\ ToolEnds(s, "completed")
  BY <1>7, <1>8, TRUE \in BOOLEAN
<1>9. CASE /\ Legal(x, to) /\ SaveFails(x, s) /\ cited' = cited
           /\ ToolEnds(s, "failed")
  BY <1>7, <1>9, FALSE \in BOOLEAN
<1> QED
  BY <1>1, <1>6, <1>8, <1>9

LEMMA CrashSpecsStep == SpecsInv /\ Crash => SpecsInv'
<1> SUFFICES ASSUME SpecsInv, Crash PROVE SpecsInv'
  OBVIOUS
<1>1. /\ session' = [t \in Session |-> session'[t]]
      /\ \A t \in Session : /\ IsSession(session'[t])
                            /\ \/ session'[t] = session[t]
                               \/ /\ session'[t].pc = "lost"
                                  /\ session'[t].kind = "chat"
  BY DEF Crash, SpecsInv, SpecTypes, NoSession, IsSession
<1>2. UNCHANGED <<known, seeded, graph, meta, cited>> /\ resident' = <<>>
  BY DEF Crash, specs, files
<1>3. ASSUME NEW t \in Session
      PROVE  Unwritten(t)' /\ Written(t)'
  <2>1. CASE session'[t] = session[t]
    BY <1>2, <2>1, SameAuthors
  <2>2. CASE session'[t].pc = "lost" /\ session'[t].kind = "chat"
    BY <2>2 DEF Unwritten, Written, Early
  <2> QED
    BY <1>1, <2>1, <2>2
<1>4. MetaHolds' /\ CitedHolds'
  BY <1>2, SameMeta, SameGraphs DEF SpecsInv
<1>5. <<>> \in Seq(Session)
  OBVIOUS
<1> QED
  BY <1>1, <1>2, <1>3, <1>4, <1>5 DEF SpecsInv, SpecTypes

LEMMA SpecsStep == SpecsInv /\ [SpecsNext]_specsVars => SpecsInv'
<1> SUFFICES ASSUME SpecsInv, [SpecsNext]_specsVars PROVE SpecsInv'
  OBVIOUS
<1>1. CASE UNCHANGED specsVars
  <2>1. UNCHANGED <<known, seeded, graph, meta, cited, session, resident>>
    BY <1>1 DEF specsVars, specs, files, sessions
  <2>2. MetaHolds' /\ CitedHolds'
    BY <2>1, SameMeta, SameGraphs DEF SpecsInv
  <2> QED
    BY <2>1, <2>2, SameSessions DEF SpecsInv, SpecTypes
<1> QED
  BY <1>1, CreateSpecStep, AdvanceRequestStep, RequestSessionStep,
     StartSessionStep, ChatsStep, AdvanceSessionStep, SealAdvanceStep,
     CrashSpecsStep, RestartSpecsStep
  DEF SpecsNext

\* The invariant holds at every moment of the specs and their sessions.
THEOREM SpecsAreKept == SpecSessionsSpec => []SpecsInv
  BY SpecsStart, SpecsStep, PTL DEF SpecSessionsSpec

\* A transition that was cited stays in its graph at its place, and a session
\* that completed made one transition, the one it was asked to make
\* (SpecRegistry.advance, SpecAdvanceDriver), for any number of specs, sessions
\* and faults.
THEOREM CitationsAreHeld == SpecSessionsSpec => []CitationsHold
<1>1. ASSUME SpecsInv PROVE CitationsHold
  <2>1. \A c \in cited : /\ c.n <= Len(graph[c.spec])
                         /\ graph[c.spec][c.n] = c.author
    BY <1>1 DEF SpecsInv, CitedHolds, SpecTypes
  <2> QED
    BY <1>1, <2>1 DEF CitationsHold, SpecsInv, Written, Authored
<1> QED
  BY <1>1, SpecsAreKept, PTL

\* A spec.json dates no transition its graph lacks, and it has kept up with
\* every advance an answer acknowledged (SpecRegistry's #save and load),
\* wherever a save failed or the daemon died.
THEOREM SpecFilesKeepUp == SpecSessionsSpec => []SpecFilesAgree
<1>1. ASSUME SpecsInv PROVE SpecFilesAgree
  <2>1. \A s \in SpecId :
          meta[s] # NoMeta => s \in seeded /\ meta[s] <= Len(graph[s])
    <3> TAKE s \in SpecId
    <3>1. Dated(s) /\ Len(graph[s]) \in Nat
      BY <1>1 DEF SpecsInv, SpecTypes, MetaHolds
    <3> QED
      BY <3>1 DEF Dated
  <2>2. \A c \in cited : c.how = "answer" => c.n <= meta[c.spec]
    BY <1>1 DEF SpecsInv, CitedHolds
  <2> QED
    BY <2>1, <2>2 DEF SpecFilesAgree
<1> QED
  BY <1>1, SpecsAreKept, PTL
=============================================================================

