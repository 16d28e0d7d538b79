--------------------------- MODULE GatewayLedger ---------------------------
(***************************************************************************)
(* The gateway's decision ledger (packages/gateway/src/ledger.ts over      *)
(* postgres.ts).  Requests handled concurrently, by one gateway process or *)
(* by several over one database, append evidence-bound decisions to one    *)
(* hash chain without a transaction: they read the chain, insert the next  *)
(* link under the table's primary key, and overwrite the anchor row.  An   *)
(* audit (GET /ready, GET /v1/verify) reads the chain and then the anchor. *)
(*                                                                         *)
(* A step of the model is one database query with the code up to the next  *)
(* one.  Hashing is collision free, so a chain's head is modelled by what  *)
(* it commits to: the sequence of evidence ids hashed into it.             *)
(***************************************************************************)
EXTENDS Integers, Sequences, FiniteSets

CONSTANTS
  Request,       \* the requests in flight
  MaxDecisions,  \* bound: the decisions one request records
  StoreMayFail   \* may a query fail, its answer be lost, a process die?

ASSUME RequestAssumption == IsFiniteSet(Request)
ASSUME MaxDecisionsAssumption == MaxDecisions \in Nat
ASSUME StoreAssumption == StoreMayFail \in BOOLEAN

VARIABLES
  ledger,   \* table gateway_ledger: from a sequence to its record
  anchor,   \* the "gateway-ledger-anchor" row of gateway_meta, or NoAnchor
  pc,       \* the query each request's appendDecision awaits
  made,     \* how many decisions each request has begun to record
  draft,    \* the link each request has computed from the chain it read
  acks,     \* history: the decision records returned to callers
  since,    \* history: the records returned since each request's insert
  raced,    \* history: those returned between the insert and the anchor write
            \* of the request that wrote the anchor last
  audit     \* the audit in progress, or the last one

vars == <<ledger, anchor, pc, made, draft, acks, since, raced, audit>>

-----------------------------------------------------------------------------
\* The evidence id of a request's n-th decision.
Decision == Request \X (1 .. MaxDecisions)
ChainHash == Seq(Decision)
Genesis == <<>>

Link == [sequence : Nat, contentHash : Decision, hash : ChainHash]
StoredRecord == [evidence : Decision, link : Link]
Anchor == [head : ChainHash, length : Nat]
NoAnchor == [head |-> Genesis, length |-> -1]
Ack == [evidence : Decision, sequence : Nat, head : ChainHash]

\* SELECT ... ORDER BY sequence ASC.  (The sequences have no gap: see
\* ChainIntact.)
Listed(t) == [i \in 1 .. Cardinality(DOMAIN t) |-> t[i - 1]]

ChainHead(records) ==
  IF records = <<>> THEN Genesis ELSE records[Len(records)].link.hash

\* nextLink: the link that extends the chain read by evidence e.
NextLink(records, e) ==
  [sequence |-> Len(records), contentHash |-> e,
   hash |-> Append(ChainHead(records), e)]

\* The anchor appendDecision writes after its link.
AnchorOf(link) == [head |-> link.hash, length |-> link.sequence + 1]

\* verifyLinkBindings
VerifyLinkBindings(records) ==
  \A i \in DOMAIN records :
    records[i].link.contentHash = records[i].evidence

\* verifyChain without an anchor: the links are numbered from 0, and each
\* one's hash commits its content on top of the hash before it.
VerifyLinks(records) ==
  \A i \in DOMAIN records :
    /\ records[i].link.sequence = i - 1
    /\ records[i].link.hash
         = Append(IF i = 1 THEN Genesis ELSE records[i - 1].link.hash,
                  records[i].link.contentHash)

\* Mutant: the anchor that was read is not passed to verifyChain.
AnchorIgnored(records, a) == TRUE

\* verifyChain's expectedLength and expectedHead.
VerifyAnchor(records, a) ==
  a # NoAnchor => Len(records) = a.length /\ ChainHead(records) = a.head

\* verify() over what its two queries returned.
Verify(records, a) ==
  /\ VerifyLinkBindings(records)
  /\ VerifyLinks(records)
  /\ VerifyAnchor(records, a)

-----------------------------------------------------------------------------
NoLink == [sequence |-> -1, contentHash |-> <<>>, hash |-> Genesis]
NoAudit == [records |-> <<>>, answered |-> {}, raced |-> {}, verdict |-> "none"]

Init ==
  /\ ledger = [s \in {} |-> <<>>]
  /\ anchor = NoAnchor
  /\ pc = [r \in Request |-> "idle"]
  /\ made = [r \in Request |-> 0]
  /\ draft = [r \in Request |-> NoLink]
  /\ acks = {}
  /\ since = [r \in Request |-> {}]
  /\ raced = {}
  /\ audit = NoAudit

Goto(r, where) == pc' = [pc EXCEPT ![r] = where]

\* appendDecision returns or throws, and its locals are gone.
Leave(r, where) ==
  /\ Goto(r, where)
  /\ draft' = [draft EXCEPT ![r] = NoLink]

\* What the record of a link tells the caller of appendDecision.
AckOf(link) ==
  [evidence |-> link.contentHash, sequence |-> link.sequence, head |-> link.hash]

\* No decision is answered in this step (and the window of a request that
\* leaves is over).
AnswersNone(r) ==
  /\ since' = [since EXCEPT ![r] = {}]
  /\ UNCHANGED acks

\* The decision of link is answered: while the windows of others are open.
AnswersLink(r, link) ==
  /\ acks' = acks \cup {AckOf(link)}
  /\ since' = [q \in Request |->
       IF q # r /\ pc[q] = "anchor" THEN since[q] \cup {AckOf(link)} ELSE {}]

\* appendDecision: read the chain and compute the next link.
ListRecords(r) ==
  /\ pc[r] = "idle"
  /\ made[r] < MaxDecisions
  /\ made' = [made EXCEPT ![r] = @ + 1]
  /\ draft' = [draft EXCEPT
       ![r] = NextLink(Listed(ledger), <<r, made[r] + 1>>)]
  /\ Goto(r, "insert")
  /\ UNCHANGED <<ledger, anchor, acks, since, raced, audit>>

\* Whether a query's answer comes back.
Answered == {TRUE, ~StoreMayFail}

RecordOf(link) == [evidence |-> link.contentHash, link |-> link]

\* The table with the record of a link in it.
Stored(link) ==
  [s \in DOMAIN ledger \cup {link.sequence} |->
     IF s = link.sequence THEN RecordOf(link) ELSE ledger[s]]

\* Mutant: the insert overwrites a record that has its sequence.
Upsert(r) ==
  /\ pc[r] = "insert"
  /\ ledger' = Stored(draft[r])
  /\ Goto(r, "anchor")
  /\ UNCHANGED <<anchor, made, draft, acks, since, raced, audit>>

\* INSERT INTO gateway_ledger, with the sequence as its primary key.
InsertRecord(r) ==
  /\ pc[r] = "insert"
  /\ draft[r].sequence \notin DOMAIN ledger
  /\ ledger' = Stored(draft[r])
  /\ \E answered \in Answered :
       IF answered
       THEN Goto(r, "anchor") /\ UNCHANGED draft
       ELSE Leave(r, "failed")
  /\ UNCHANGED <<anchor, made, acks, since, raced, audit>>

\* Mutant: INSERT ... ON CONFLICT DO NOTHING.
ConflictIgnored(r) ==
  /\ pc[r] = "insert"
  /\ draft[r].sequence \in DOMAIN ledger
  /\ Goto(r, "anchor")
  /\ UNCHANGED <<ledger, anchor, made, draft, acks, since, raced, audit>>

\* Another request took the sequence: the query rejects, the request is a 500.
InsertConflict(r) ==
  /\ pc[r] = "insert"
  /\ draft[r].sequence \in DOMAIN ledger
  /\ Leave(r, "failed")
  /\ UNCHANGED <<ledger, anchor, made, acks, since, raced, audit>>

\* Overwrite the anchor row, whatever it holds, and return to the caller.
WriteAnchor(r) ==
  /\ pc[r] = "anchor"
  /\ anchor' = AnchorOf(draft[r])
  /\ raced' = since[r]
  /\ \E answered \in Answered :
       IF answered
       THEN Leave(r, "idle") /\ AnswersLink(r, draft[r])
       ELSE Leave(r, "failed") /\ AnswersNone(r)
  /\ UNCHANGED <<ledger, made, audit>>

\* The query is never executed, or the request's process dies.
Fails(r) ==
  /\ StoreMayFail
  /\ pc[r] # "failed"
  /\ Leave(r, "failed")
  /\ AnswersNone(r)
  /\ UNCHANGED <<ledger, anchor, made, raced, audit>>

\* verify(): its first query.
AuditLists ==
  /\ audit.verdict # "pending"
  /\ audit' = [NoAudit EXCEPT !.records = Listed(ledger), !.verdict = "pending"]
  /\ UNCHANGED <<ledger, anchor, pc, made, draft, acks, since, raced>>

\* ... and its second, later, with the verdict over both answers.
AuditReadsAnchor ==
  /\ audit.verdict = "pending"
  /\ audit' = [audit EXCEPT
       !.answered = acks,
       !.raced = raced,
       !.verdict = IF Verify(audit.records, anchor) THEN "green" ELSE "red"]
  /\ UNCHANGED <<ledger, anchor, pc, made, draft, acks, since, raced>>

\* A query of verify() rejects: "ledger store unreadable".
AuditUnreadable ==
  /\ StoreMayFail
  /\ audit' = [NoAudit EXCEPT !.verdict = "unreadable"]
  /\ UNCHANGED <<ledger, anchor, pc, made, draft, acks, since, raced>>

AppendDecision(r) ==
  \/ ListRecords(r)
  \/ InsertRecord(r)
  \/ InsertConflict(r)
  \/ WriteAnchor(r)

Next ==
  \/ \E r \in Request : AppendDecision(r) \/ Fails(r)
  \/ AuditLists
  \/ AuditReadsAnchor
  \/ AuditUnreadable

Spec == Init /\ [][Next]_vars

-----------------------------------------------------------------------------
TypeOK ==
  /\ DOMAIN ledger \subseteq Nat
  /\ \A s \in DOMAIN ledger : ledger[s] \in StoredRecord
  /\ anchor \in Anchor \cup {NoAnchor}
  /\ pc \in [Request -> {"idle", "insert", "anchor", "failed"}]
  /\ made \in [Request -> 0 .. MaxDecisions]
  /\ draft \in [Request -> Link \cup {NoLink}]
  /\ acks \subseteq Ack
  /\ since \in [Request -> SUBSET Ack]
  /\ raced \subseteq Ack
  /\ audit \in [records : Seq(StoredRecord),
                answered : SUBSET Ack, raced : SUBSET Ack,
                verdict : {"none", "pending", "green", "red", "unreadable"}]

\* However the requests interleave, conflict, fail and die, the table holds
\* one unbroken chain: no fork, no gap, every link over the one before it.
ChainIntact ==
  /\ DOMAIN ledger = 0 .. Cardinality(DOMAIN ledger) - 1
  /\ VerifyLinkBindings(Listed(ledger))
  /\ VerifyLinks(Listed(ledger))

\* An answered decision is in the ledger for good, at the position and under
\* the head its caller was given.
AcksDurable ==
  \A a \in acks :
    /\ a.sequence \in DOMAIN ledger
    /\ ledger[a.sequence].evidence = a.evidence
    /\ ledger[a.sequence].link.hash = a.head

\* The anchor may lag behind the chain, but it always names a head the chain
\* really had at that length: it never leads the chain, nor lies beside it.
AnchorOnChain ==
  anchor # NoAnchor =>
    /\ anchor.length - 1 \in DOMAIN ledger
    /\ ledger[anchor.length - 1].link.hash = anchor.head

\* A request's evidence trail is complete and in order: its decision stands
\* in the ledger only above all the decisions the request made before it.
TrailsInOrder ==
  \A s \in DOMAIN ledger :
    \A n \in 1 .. ledger[s].evidence[2] - 1 :
      \E t \in DOMAIN ledger :
        t < s /\ ledger[t].evidence = <<ledger[s].evidence[1], n>>

\* A green verdict, which mixes a chain read first with an anchor read later
\* while requests append, conflict and die, covers at its place every decision
\* answered until the anchor was read.  The one exception is an anchor that
\* was overwritten by a slower request: of the decisions answered while the
\* anchor's last writer was between its insert and its anchor, some may be
\* missing.  Without appends that overlap there are none of these, and green
\* covers all that was ever answered.
GreenVouches ==
  audit.verdict = "green" =>
    \A a \in audit.answered \ audit.raced :
      /\ a.sequence < Len(audit.records)
      /\ audit.records[a.sequence + 1].evidence = a.evidence

\* With no request in flight, and none that failed, an audit is green (and
\* GET /ready answers 200).
QuietIsReady ==
  (\A r \in Request : pc[r] = "idle") => Verify(Listed(ledger), anchor)

\* What the ledger is to its callers: the decisions by position, and the
\* positions callers were told.
Entries == [i \in 1 .. Cardinality(DOMAIN ledger) |-> ledger[i - 1].evidence]
Acked == {<<a.sequence + 1, a.evidence>> : a \in acks}

Log == INSTANCE AppendOnlyLog WITH entries <- Entries, acked <- Acked

\* The ledger is an append-only log of decisions to its callers: each joins
\* once, at the end, and what appendDecision answered is where it said.
IsAppendOnlyLog == Log!LSpec
=============================================================================
