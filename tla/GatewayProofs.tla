---------------------------- MODULE GatewayProofs ----------------------------
(***************************************************************************)
(* The safety of the gateway's ledger and of its control plane, for all    *)
(* values of their constants.  GatewayLedger: the chain is never broken,   *)
(* whatever was answered stays where it was, the anchor stays on the       *)
(* chain, every request's trail is in order, and the ledger implements     *)
(* AppendOnlyLog.  ControlPlane: what an answer granted an account is      *)
(* there, and is served until it is revoked and not after.                 *)
(***************************************************************************)
EXTENDS GatewayLedger, ControlPlane, FiniteSetTheorems, SequenceTheorems,
        NaturalsInduction, WellFoundedInduction, TLAPS

(***************************************************************************)
(* Requests that append decisions, and audits.                             *)
(***************************************************************************)
Size == Cardinality(DOMAIN ledger)

\* The head a link with sequence s extends.
HashBefore(t, s) == IF s = 0 THEN Genesis ELSE t[s - 1].link.hash

\* The table t holds one chain of n links.
Chained(t, n) ==
  /\ DOMAIN t = 0 .. n - 1
  /\ \A s \in 0 .. n - 1 :
       /\ t[s] \in StoredRecord
       /\ t[s].link.contentHash = t[s].evidence
       /\ t[s].link.sequence = s
       /\ t[s].link.hash = Append(HashBefore(t, s), t[s].evidence)

\* A link about to be inserted extends a prefix of the chain; one that was
\* inserted is in it.
Drafts ==
  \A r \in Request :
    /\ pc[r] \in {"insert", "anchor"} =>
         /\ draft[r] \in Link
         /\ made[r] >= 1
         /\ draft[r].contentHash = <<r, made[r]>>
    /\ pc[r] = "insert" =>
         /\ draft[r].sequence <= Size
         /\ draft[r].hash = Append(HashBefore(ledger, draft[r].sequence),
                                   draft[r].contentHash)
    /\ pc[r] = "anchor" =>
         /\ draft[r].sequence \in DOMAIN ledger
         /\ ledger[draft[r].sequence] = RecordOf(draft[r])

\* The decision a request is at, when it is not in the ledger for sure.
Unsettled(r, n) == n = made[r] /\ pc[r] \in {"insert", "failed"}

\* Of a request's decisions the ledger holds all it is done with ...
Trails ==
  \A r \in Request : \A n \in 1 .. made[r] :
    Unsettled(r, n) \/ \E t \in DOMAIN ledger : ledger[t].evidence = <<r, n>>

\* ... and none it has yet to insert.
NotYet ==
  \A r \in Request : \A t \in DOMAIN ledger :
    ledger[t].evidence[1] = r =>
      /\ ledger[t].evidence[2] <= made[r]
      /\ pc[r] = "insert" => ledger[t].evidence[2] # made[r]

IInv ==
  /\ TypeOK
  /\ Size \in Nat /\ Chained(ledger, Size)
  /\ Drafts
  /\ AcksDurable
  /\ AnchorOnChain
  /\ Trails
  /\ NotYet
  /\ TrailsInOrder

-----------------------------------------------------------------------------
(* The operators.                                                          *)

\* The cardinality of a chain's table is its length.
LEMMA ChainedSize ==
  ASSUME NEW t, NEW n \in Nat, Chained(t, n)
  PROVE  Cardinality(DOMAIN t) = n
<1>1. DOMAIN t = 0 .. n - 1
  BY DEF Chained
<1>2. 0 \in Int /\ n - 1 \in Int
  OBVIOUS
<1>3. Cardinality(0 .. n - 1) = IF 0 > n - 1 THEN 0 ELSE (n - 1) - 0 + 1
  BY <1>2, FS_Interval
<1> QED
  BY <1>1, <1>3

\* Listing the table gives its records in the order of their sequences.
LEMMA ListedChain ==
  ASSUME NEW t, NEW n \in Nat, Chained(t, n)
  PROVE  /\ Listed(t) = [i \in 1 .. n |-> t[i - 1]]
         /\ Listed(t) \in Seq(StoredRecord)
         /\ Len(Listed(t)) = n
<1>1. Listed(t) = [i \in 1 .. n |-> t[i - 1]]
  BY ChainedSize DEF Listed
<1>2. \A i \in 1 .. n : t[i - 1] \in StoredRecord
  <2> TAKE i \in 1 .. n
  <2>1. i - 1 \in 0 .. n - 1
    OBVIOUS
  <2> QED
    BY <2>1 DEF Chained
<1>3. [i \in 1 .. n |-> t[i - 1]] \in Seq(StoredRecord)
  BY <1>2
<1> QED
  BY <1>1, <1>3

\* A chain's head is what its next link extends.
LEMMA HeadOfChain ==
  ASSUME NEW t, NEW n \in Nat, Chained(t, n)
  PROVE  ChainHead(Listed(t)) = HashBefore(t, n)
<1>1. CASE n = 0
  BY <1>1, ListedChain DEF ChainHead, HashBefore
<1>2. CASE n # 0
  <2>1. Listed(t) # <<>>
    BY <1>2, ListedChain
  <2>2. Listed(t)[n] = t[n - 1]
    BY <1>2, ListedChain
  <2> QED
    BY <1>2, <2>1, <2>2, ListedChain DEF ChainHead, HashBefore
<1> QED
  BY <1>1, <1>2

\* A chain passes verify()'s checks.
LEMMA ChainVerifies ==
  ASSUME NEW t, NEW n \in Nat, Chained(t, n)
  PROVE  VerifyLinkBindings(Listed(t)) /\ VerifyLinks(Listed(t))
<1>1. /\ DOMAIN Listed(t) = 1 .. n
      /\ \A i \in 1 .. n : Listed(t)[i] = t[i - 1]
  BY ListedChain
<1>2. ASSUME NEW i \in 1 .. n
      PROVE  /\ t[i - 1].link.contentHash = t[i - 1].evidence
             /\ t[i - 1].link.sequence = i - 1
             /\ t[i - 1].link.hash
                  = Append(HashBefore(t, i - 1), t[i - 1].evidence)
  <2>1. i - 1 \in 0 .. n - 1
    OBVIOUS
  <2> QED
    BY <2>1 DEF Chained
<1>3. VerifyLinkBindings(Listed(t))
  BY <1>1, <1>2 DEF VerifyLinkBindings
<1>4. ASSUME NEW i \in 1 .. n
      PROVE  HashBefore(t, i - 1)
               = IF i = 1 THEN Genesis ELSE Listed(t)[i - 1].link.hash
  <2>1. CASE i = 1
    BY <2>1 DEF HashBefore
  <2>2. CASE i # 1
    <3>1. i - 1 \in 1 .. n /\ i - 1 # 0
      BY <2>2
    <3> QED
      BY <1>1, <2>2, <3>1 DEF HashBefore
  <2> QED
    BY <2>1, <2>2
<1>5. ASSUME NEW i \in 1 .. n
      PROVE  /\ Listed(t)[i].link.sequence = i - 1
             /\ Listed(t)[i].link.hash
                  = Append(IF i = 1 THEN Genesis
                           ELSE Listed(t)[i - 1].link.hash,
                           Listed(t)[i].link.contentHash)
  <2>1. Listed(t)[i] = t[i - 1]
    BY <1>1
  <2>2. /\ t[i - 1].link.contentHash = t[i - 1].evidence
        /\ t[i - 1].link.sequence = i - 1
        /\ t[i - 1].link.hash
             = Append(HashBefore(t, i - 1), t[i - 1].evidence)
    BY <1>2
  <2>3. HashBefore(t, i - 1)
          = IF i = 1 THEN Genesis ELSE Listed(t)[i - 1].link.hash
    BY <1>4
  <2> HIDE DEF Genesis
  <2> QED
    BY ONLY <2>1, <2>2, <2>3, Zenon
<1>6. VerifyLinks(Listed(t))
  BY <1>1, <1>5 DEF VerifyLinks
<1> QED
  BY <1>3, <1>6

\* Storing the next link makes the chain one longer, and moves nothing.
LEMMA StoredChain ==
  ASSUME NEW n \in Nat, Chained(ledger, n), NEW link \in Link,
         link.sequence = n,
         link.hash = Append(HashBefore(ledger, n), link.contentHash)
  PROVE  /\ Chained(Stored(link), n + 1)
         /\ Stored(link)[n] = RecordOf(link)
         /\ \A s \in DOMAIN ledger : Stored(link)[s] = ledger[s]
<1>1. DOMAIN Stored(link) = 0 .. n
  BY DEF Stored, Chained
<1>2. \A s \in 0 .. n - 1 : Stored(link)[s] = ledger[s]
  BY DEF Stored, Chained
<1>3. Stored(link)[n] = RecordOf(link)
  BY DEF Stored, Chained
<1>4. RecordOf(link) \in StoredRecord
  BY DEF RecordOf, StoredRecord, Link
<1>5. \A s \in 0 .. n : HashBefore(Stored(link), s) = HashBefore(ledger, s)
  <2> TAKE s \in 0 .. n
  <2>1. CASE s = 0
    BY <2>1 DEF HashBefore
  <2>2. CASE s # 0
    <3>1. s - 1 \in 0 .. n - 1
      BY <2>2
    <3> QED
      BY <1>2, <2>2, <3>1 DEF HashBefore
  <2> QED
    BY <2>1, <2>2
<1>6. ASSUME NEW s \in 0 .. n
      PROVE  /\ Stored(link)[s] \in StoredRecord
             /\ Stored(link)[s].link.contentHash = Stored(link)[s].evidence
             /\ Stored(link)[s].link.sequence = s
             /\ Stored(link)[s].link.hash
                  = Append(HashBefore(Stored(link), s),
                           Stored(link)[s].evidence)
  <2>1. CASE s = n
    BY <1>3, <1>4, <1>5, <2>1 DEF RecordOf
  <2>2. CASE s # n
    <3>1. s \in 0 .. n - 1
      BY <2>2
    <3>2. Stored(link)[s] = ledger[s]
      BY <1>2, <3>1
    <3> QED
      BY <1>5, <3>1, <3>2 DEF Chained
  <2> QED
    BY <2>1, <2>2
<1>7. 0 .. (n + 1) - 1 = 0 .. n
  OBVIOUS
<1>8. Chained(Stored(link), n + 1)
  BY <1>1, <1>6, <1>7 DEF Chained
<1>9. \A s \in DOMAIN ledger : Stored(link)[s] = ledger[s]
  BY <1>2 DEF Chained
<1> QED
  BY <1>3, <1>8, <1>9

-----------------------------------------------------------------------------
(* The invariant holds initially, and every step preserves it.             *)

\* The empty table is a chain of no links.
LEMMA IInvInit == Init => IInv
<1> SUFFICES ASSUME Init PROVE IInv
  OBVIOUS
<1> USE DEF Init
<1>1. DOMAIN ledger = {} /\ Size = 0
  BY FS_EmptySet DEF Size
<1>2. TypeOK
  BY <1>1, MaxDecisionsAssumption DEF TypeOK, NoAudit
<1>3. Chained(ledger, Size)
  BY <1>1 DEF Chained
<1>4. Drafts /\ Trails /\ NotYet /\ TrailsInOrder
  BY <1>1 DEF Drafts, Trails, NotYet, TrailsInOrder
<1>5. AcksDurable /\ AnchorOnChain
  BY DEF AcksDurable, AnchorOnChain
<1> QED
  BY <1>1, <1>2, <1>3, <1>4, <1>5 DEF IInv

\* A link computed from the chain extends it.
LEMMA ListKeepsIInv ==
  ASSUME IInv, NEW r \in Request, ListRecords(r)
  PROVE  IInv'
<1> DEFINE d == <<r, made[r] + 1>>
<1> DEFINE link == NextLink(Listed(ledger), d)
<1> USE DEF ListRecords, Goto
<1>1. TypeOK /\ Size \in Nat /\ Chained(ledger, Size)
  BY DEF IInv
<1>2. made[r] + 1 \in 1 .. MaxDecisions
  BY <1>1, MaxDecisionsAssumption DEF TypeOK
<1>3. d \in Decision
  BY <1>2 DEF Decision
<1>4. /\ link.sequence = Size
      /\ link.contentHash = d
      /\ link.hash = Append(HashBefore(ledger, Size), d)
  BY <1>1, ListedChain, HeadOfChain DEF NextLink
<1>5. HashBefore(ledger, Size) \in ChainHash
  <2>1. CASE Size = 0
    BY <2>1 DEF HashBefore, Genesis, ChainHash
  <2>2. CASE Size # 0
    <3>1. Size - 1 \in 0 .. Size - 1
      BY <1>1, <2>2
    <3>2. ledger[Size - 1] \in StoredRecord
      BY <1>1, <3>1 DEF Chained
    <3> QED
      BY <2>2, <3>2 DEF HashBefore, StoredRecord, Link
  <2> QED
    BY <2>1, <2>2
<1>6. link \in Link
  <2>1. Append(HashBefore(ledger, Size), d) \in ChainHash
    BY <1>3, <1>5 DEF ChainHash
  <2>2. link = [sequence |-> link.sequence, contentHash |-> link.contentHash,
                hash |-> link.hash]
    BY DEF NextLink
  <2> QED
    BY <1>1, <1>3, <1>4, <2>1, <2>2 DEF Link
<1>7. /\ draft' = [draft EXCEPT ![r] = link]
      /\ made' = [made EXCEPT ![r] = made[r] + 1]
      /\ pc' = [pc EXCEPT ![r] = "insert"]
      /\ UNCHANGED <<ledger, anchor, acks, since, raced, audit>>
      /\ pc[r] = "idle"
  OBVIOUS
<1> HIDE DEF ListRecords, Goto, link
<1>8. TypeOK'
  BY <1>1, <1>2, <1>6, <1>7 DEF TypeOK
<1>9. Size' = Size /\ Chained(ledger, Size)'
  BY <1>1, <1>7 DEF Size, Chained, HashBefore
<1>10. Drafts'
  <2> SUFFICES ASSUME NEW q \in Request PROVE Drafts!(q)'
    BY DEF Drafts
  <2>1. CASE q = r
    <3>1. draft'[r] = link /\ made'[r] = made[r] + 1 /\ pc'[r] = "insert"
      BY <1>1, <1>7 DEF TypeOK
    <3>2. /\ draft'[r] \in Link
          /\ draft'[r].sequence = Size
          /\ draft'[r].contentHash = <<r, made'[r]>>
          /\ draft'[r].hash = Append(HashBefore(ledger, Size), <<r, made'[r]>>)
      BY <1>4, <1>6, <3>1
    <3>3. ledger' = ledger /\ Size' = Size
      BY <1>7, <1>9
    <3>4. Size <= Size /\ made'[r] >= 1
      BY <1>1, <1>2, <3>1
    <3>5. HashBefore(ledger, draft[r].sequence)' = HashBefore(ledger, Size)
      BY <3>2, <3>3 DEF HashBefore
    <3> QED
      BY <2>1, <3>1, <3>2, <3>3, <3>4, <3>5, Zenon
  <2>2. CASE q # r
    <3>1. draft'[q] = draft[q] /\ made'[q] = made[q] /\ pc'[q] = pc[q]
      BY <1>1, <1>7, <2>2 DEF TypeOK
    <3>2. Drafts!(q)
      BY DEF IInv, Drafts
    <3> QED
      BY <1>7, <1>9, <3>1, <3>2 DEF HashBefore
  <2> QED
    BY <2>1, <2>2
<1>11. AcksDurable' /\ AnchorOnChain' /\ TrailsInOrder'
  <2>1. AcksDurable'
    BY <1>7 DEF IInv, AcksDurable
  <2>2. AnchorOnChain'
    BY <1>7 DEF IInv, AnchorOnChain
  <2>3. TrailsInOrder'
    BY <1>7 DEF IInv, TrailsInOrder
  <2> QED
    BY <2>1, <2>2, <2>3
<1>12. Trails'
  <2> SUFFICES ASSUME NEW q \in Request, NEW n \in 1 .. made'[q]
               PROVE  \/ Unsettled(q, n)'
                      \/ \E t \in DOMAIN ledger : ledger[t].evidence = <<q, n>>
    BY <1>7 DEF Trails
  <2>1. CASE q = r
    <3>1. made'[r] = made[r] + 1 /\ pc'[r] = "insert" /\ made[r] \in Nat
      BY <1>1, <1>7, MaxDecisionsAssumption DEF TypeOK
    <3>2. CASE n = made[r] + 1
      BY <2>1, <3>1, <3>2 DEF Unsettled
    <3>3. CASE n # made[r] + 1
      <4>1. n \in 1 .. made[r]
        BY <2>1, <3>1, <3>3
      <4>2. ~Unsettled(r, n)
        BY <1>7 DEF Unsettled
      <4> QED
        BY <2>1, <4>1, <4>2 DEF IInv, Trails
    <3> QED
      BY <3>2, <3>3
  <2>2. CASE q # r
    <3>1. made'[q] = made[q] /\ pc'[q] = pc[q]
      BY <1>1, <1>7, <2>2 DEF TypeOK
    <3> QED
      BY <3>1 DEF IInv, Trails, Unsettled
  <2> QED
    BY <2>1, <2>2
<1>13. NotYet'
  <2> SUFFICES ASSUME NEW q \in Request, NEW t \in DOMAIN ledger,
                      ledger[t].evidence[1] = q
               PROVE  /\ ledger[t].evidence[2] <= made'[q]
                      /\ pc'[q] = "insert" => ledger[t].evidence[2] # made'[q]
    BY <1>7 DEF NotYet
  <2>0. ledger[t].evidence[2] \in Nat /\ made[q] \in Nat
    BY <1>1, MaxDecisionsAssumption DEF TypeOK, StoredRecord, Decision
  <2>1. /\ ledger[t].evidence[2] <= made[q]
        /\ pc[q] = "insert" => ledger[t].evidence[2] # made[q]
    BY DEF IInv, NotYet
  <2>2. CASE q = r
    <3>1. made'[r] = made[r] + 1
      BY <1>1, <1>7 DEF TypeOK
    <3> QED
      BY <2>0, <2>1, <2>2, <3>1
  <2>3. CASE q # r
    <3>1. made'[q] = made[q] /\ pc'[q] = pc[q]
      BY <1>1, <1>7, <2>3 DEF TypeOK
    <3> QED
      BY <2>1, <3>1
  <2> QED
    BY <2>2, <2>3
<1> QED
  BY <1>1, <1>8, <1>9, <1>10, <1>11, <1>12, <1>13 DEF IInv

\* An insert makes the chain one longer: its sequence was free, so it is next.
LEMMA InsertExtends ==
  ASSUME IInv, NEW r \in Request, InsertRecord(r)
  PROVE  /\ draft[r] \in Link /\ draft[r].sequence = Size
         /\ draft[r].contentHash = <<r, made[r]>> /\ made[r] >= 1
         /\ Size' = Size + 1
         /\ Chained(ledger', Size + 1)
         /\ ledger'[Size] = RecordOf(draft[r])
         /\ DOMAIN ledger' = DOMAIN ledger \cup {Size}
         /\ Size \notin DOMAIN ledger
         /\ \A s \in DOMAIN ledger : ledger'[s] = ledger[s]
<1>1. TypeOK /\ Size \in Nat /\ Chained(ledger, Size)
  BY DEF IInv
<1>2. /\ draft[r] \in Link /\ draft[r].sequence <= Size
      /\ draft[r].contentHash = <<r, made[r]>> /\ made[r] >= 1
      /\ draft[r].hash = Append(HashBefore(ledger, draft[r].sequence),
                               draft[r].contentHash)
  BY DEF IInv, Drafts, InsertRecord
<1>3. draft[r].sequence = Size
  <2>1. draft[r].sequence \notin 0 .. Size - 1 /\ draft[r].sequence \in Nat
    BY <1>1, <1>2 DEF InsertRecord, Chained, Link
  <2> QED
    BY <1>1, <1>2, <2>1
<1>4. ledger' = Stored(draft[r])
  BY DEF InsertRecord
<1>5. /\ Chained(Stored(draft[r]), Size + 1)
      /\ Stored(draft[r])[Size] = RecordOf(draft[r])
      /\ \A s \in DOMAIN ledger : Stored(draft[r])[s] = ledger[s]
  BY <1>1, <1>2, <1>3, StoredChain
<1>6. Size' = Size + 1
  <2>1. Cardinality(DOMAIN Stored(draft[r])) = Size + 1
    BY <1>1, <1>5, ChainedSize
  <2> QED
    BY <1>4, <2>1 DEF Size
<1>7. DOMAIN Stored(draft[r]) = DOMAIN ledger \cup {Size}
  BY <1>3 DEF Stored
<1>8. Size \notin DOMAIN ledger
  BY <1>1 DEF Chained
<1> QED
  BY <1>2, <1>3, <1>4, <1>5, <1>6, <1>7, <1>8

\* An inserted record keeps the invariant, answered or not.
LEMMA InsertKeepsIInv ==
  ASSUME IInv, NEW r \in Request, InsertRecord(r)
  PROVE  IInv'
<1>1. TypeOK /\ Size \in Nat /\ Chained(ledger, Size)
  BY DEF IInv
<1>2. /\ draft[r] \in Link /\ draft[r].sequence = Size
      /\ draft[r].contentHash = <<r, made[r]>> /\ made[r] >= 1
      /\ Size' = Size + 1
      /\ Chained(ledger', Size + 1)
      /\ ledger'[Size] = RecordOf(draft[r])
      /\ DOMAIN ledger' = DOMAIN ledger \cup {Size}
      /\ Size \notin DOMAIN ledger
      /\ \A s \in DOMAIN ledger : ledger'[s] = ledger[s]
  BY InsertExtends
<1>3. PICK answered \in BOOLEAN :
        IF answered
        THEN Goto(r, "anchor") /\ UNCHANGED draft
        ELSE Leave(r, "failed")
  BY StoreAssumption DEF InsertRecord, Answered
<1>4. /\ UNCHANGED <<anchor, made, acks, since, raced, audit>>
      /\ pc[r] = "insert"
  BY DEF InsertRecord
<1>5. \/ pc' = [pc EXCEPT ![r] = "anchor"] /\ draft' = draft
      \/ /\ pc' = [pc EXCEPT ![r] = "failed"]
         /\ draft' = [draft EXCEPT ![r] = NoLink]
  BY <1>3 DEF Goto, Leave
<1>6. ASSUME NEW q \in Request, q # r
      PROVE  pc'[q] = pc[q] /\ draft'[q] = draft[q] /\ made'[q] = made[q]
  BY <1>1, <1>4, <1>5, <1>6 DEF TypeOK
<1>7. ledger'[Size].evidence = <<r, made[r]>>
  BY <1>2 DEF RecordOf
<1>8. TypeOK'
  <2>1. \A s \in DOMAIN ledger' : ledger'[s] \in StoredRecord
    <3>1. RecordOf(draft[r]) \in StoredRecord
      BY <1>2 DEF RecordOf, StoredRecord, Link
    <3>2. \A s \in DOMAIN ledger : ledger[s] \in StoredRecord
      BY <1>1 DEF TypeOK
    <3> QED
      BY <1>2, <3>1, <3>2
  <2>2. DOMAIN ledger' \subseteq Nat
    BY <1>1, <1>2 DEF TypeOK
  <2>3. pc' \in [Request -> {"idle", "insert", "anchor", "failed"}]
    BY <1>1, <1>5 DEF TypeOK
  <2>4. draft' \in [Request -> Link \cup {NoLink}]
    BY <1>1, <1>5 DEF TypeOK
  <2> QED
    BY <1>1, <1>4, <2>1, <2>2, <2>3, <2>4 DEF TypeOK
<1>9. Size' \in Nat /\ Chained(ledger, Size)'
  <2>1. Size' \in Nat /\ Chained(ledger', Size')
    BY <1>1, <1>2
  <2> QED
    BY <2>1 DEF Chained, HashBefore
<1>10. Drafts'
  <2> SUFFICES ASSUME NEW q \in Request PROVE Drafts!(q)'
    BY DEF Drafts
  <2>1. CASE q = r
    <3>1. \/ pc'[r] = "anchor" /\ draft'[r] = draft[r]
          \/ pc'[r] = "failed"
      BY <1>1, <1>5 DEF TypeOK
    <3>2. draft[r].sequence \in DOMAIN ledger'
      BY <1>2
    <3>3. made'[r] = made[r]
      BY <1>4
    <3>4. CASE pc'[r] = "anchor" /\ draft'[r] = draft[r]
      <4>1. RecordOf(draft[r])' = RecordOf(draft[r])
        BY <3>4 DEF RecordOf
      <4> QED
        BY <1>2, <2>1, <3>2, <3>3, <3>4, <4>1
    <3>5. CASE pc'[r] = "failed"
      BY <2>1, <3>5
    <3> QED
      BY <3>1, <3>4, <3>5
  <2>2. CASE q # r
    <3>1. draft'[q] = draft[q] /\ made'[q] = made[q] /\ pc'[q] = pc[q]
      BY <1>6, <2>2
    <3>2. Drafts!(q)
      BY DEF IInv, Drafts
    <3>3. CASE pc[q] = "insert"
      <4>1. draft[q] \in Link /\ draft[q].sequence \in Nat
        BY <3>2, <3>3 DEF Link
      <4>2. draft[q].sequence = 0 \/ draft[q].sequence - 1 \in DOMAIN ledger
        BY <1>1, <3>2, <3>3, <4>1, SMTT(30) DEF Chained
      <4>3. HashBefore(ledger, draft[q].sequence)'
              = HashBefore(ledger, draft[q].sequence)
        BY <1>2, <3>1, <4>2 DEF HashBefore
      <4>4. draft[q].sequence <= Size'
        BY <1>1, <1>2, <3>2, <3>3, <4>1
      <4>5. pc'[q] # "anchor"
        BY <3>1, <3>3
      <4> QED
        BY <3>1, <3>2, <3>3, <4>3, <4>4, <4>5, Zenon
    <3>4. CASE pc[q] = "anchor"
      <4>1. RecordOf(draft[q])' = RecordOf(draft[q])
        BY <3>1 DEF RecordOf
      <4> QED
        BY <1>2, <3>1, <3>2, <3>4, <4>1
    <3>5. CASE pc[q] \notin {"insert", "anchor"}
      BY <3>1, <3>5
    <3> QED
      BY <3>3, <3>4, <3>5
  <2> QED
    BY <2>1, <2>2
<1>11. AcksDurable' /\ AnchorOnChain'
  BY <1>2, <1>4 DEF IInv, AcksDurable, AnchorOnChain
<1>12. Trails'
  <2> SUFFICES ASSUME NEW q \in Request, NEW n \in 1 .. made'[q]
               PROVE  \/ Unsettled(q, n)'
                      \/ \E t \in DOMAIN ledger' :
                           ledger'[t].evidence = <<q, n>>
    BY DEF Trails
  <2>1. n \in 1 .. made[q]
    BY <1>4
  <2>2. \/ Unsettled(q, n)
        \/ \E t \in DOMAIN ledger : ledger[t].evidence = <<q, n>>
    BY <2>1 DEF IInv, Trails
  <2>3. CASE \E t \in DOMAIN ledger : ledger[t].evidence = <<q, n>>
    BY <1>2, <2>3
  <2>4. CASE Unsettled(q, n) /\ q = r
    <3>1. n = made[r]
      BY <2>4 DEF Unsettled
    <3> QED
      BY <1>2, <1>7, <2>4, <3>1
  <2>5. CASE Unsettled(q, n) /\ q # r
    BY <1>6, <2>5 DEF Unsettled
  <2> QED
    BY <2>2, <2>3, <2>4, <2>5
<1>13. NotYet'
  <2> SUFFICES ASSUME NEW q \in Request, NEW t \in DOMAIN ledger',
                      ledger'[t].evidence[1] = q
               PROVE  /\ ledger'[t].evidence[2] <= made'[q]
                      /\ pc'[q] = "insert" => ledger'[t].evidence[2] # made'[q]
    BY DEF NotYet
  <2>1. made[q] \in Nat
    BY <1>1, MaxDecisionsAssumption DEF TypeOK
  <2>2. CASE t = Size
    <3>1. q = r /\ ledger'[t].evidence[2] = made[r]
      BY <1>7, <2>2
    <3>2. pc'[r] # "insert"
      BY <1>1, <1>5 DEF TypeOK
    <3> QED
      BY <1>4, <2>1, <3>1, <3>2
  <2>3. CASE t # Size
    <3>1. t \in DOMAIN ledger /\ ledger'[t] = ledger[t]
      BY <1>2, <2>3
    <3>2. /\ ledger[t].evidence[2] <= made[q]
          /\ pc[q] = "insert" => ledger[t].evidence[2] # made[q]
      BY <3>1 DEF IInv, NotYet
    <3>3. pc'[q] = "insert" => pc[q] = "insert"
      BY <1>4, <1>6
    <3> QED
      BY <1>4, <3>1, <3>2, <3>3
  <2> QED
    BY <2>2, <2>3
<1>14. TrailsInOrder'
  <2> SUFFICES ASSUME NEW s \in DOMAIN ledger',
                      NEW n \in 1 .. ledger'[s].evidence[2] - 1
               PROVE  \E t \in DOMAIN ledger' :
                        /\ t < s
                        /\ ledger'[t].evidence = <<ledger'[s].evidence[1], n>>
    BY DEF TrailsInOrder
  <2>1. CASE s = Size
    <3>1. ledger'[s].evidence[1] = r /\ ledger'[s].evidence[2] = made[r]
      BY <1>7, <2>1
    <3>2. made[r] \in Nat
      BY <1>1, MaxDecisionsAssumption DEF TypeOK
    <3>3. n \in 1 .. made[r] /\ n # made[r]
      BY <3>1, <3>2
    <3>4. ~Unsettled(r, n)
      BY <3>3 DEF Unsettled
    <3>5. PICK t \in DOMAIN ledger : ledger[t].evidence = <<r, n>>
      BY <3>3, <3>4 DEF IInv, Trails
    <3>6. t < Size
      BY <1>1 DEF Chained
    <3> QED
      BY <1>2, <2>1, <3>1, <3>5, <3>6
  <2>2. CASE s # Size
    <3>1. s \in DOMAIN ledger /\ ledger'[s] = ledger[s]
      BY <1>2, <2>2
    <3>2. PICK t \in DOMAIN ledger :
            t < s /\ ledger[t].evidence = <<ledger[s].evidence[1], n>>
      BY <3>1 DEF IInv, TrailsInOrder
    <3> QED
      BY <1>2, <3>1, <3>2
  <2> QED
    BY <2>1, <2>2
<1> QED
  BY <1>8, <1>9, <1>10, <1>11, <1>12, <1>13, <1>14 DEF IInv

\* A request that leaves appendDecision, with no query done but perhaps the
\* anchor's, keeps the invariant.
LEMMA LeaveKeepsIInv ==
  ASSUME IInv, NEW r \in Request, NEW where \in {"idle", "failed"},
         Leave(r, where), UNCHANGED <<ledger, made>>,
         where = "idle" => pc[r] = "anchor",
         UNCHANGED audit, acks' \subseteq Ack, AcksDurable',
         since' \in [Request -> SUBSET Ack], raced' \subseteq Ack,
         anchor' \in Anchor \cup {NoAnchor}, AnchorOnChain'
  PROVE  IInv'
<1>1. TypeOK /\ Size \in Nat /\ Chained(ledger, Size)
  BY DEF IInv
<1>2. /\ pc' = [pc EXCEPT ![r] = where]
      /\ draft' = [draft EXCEPT ![r] = NoLink]
  BY DEF Leave, Goto
<1>3. pc'[r] = where
  BY <1>1, <1>2 DEF TypeOK
<1>4. ASSUME NEW q \in Request, q # r
      PROVE  pc'[q] = pc[q] /\ draft'[q] = draft[q]
  BY <1>1, <1>2, <1>4 DEF TypeOK
<1>5. TypeOK'
  <2>1. pc' \in [Request -> {"idle", "insert", "anchor", "failed"}]
    BY <1>1, <1>2 DEF TypeOK
  <2>2. draft' \in [Request -> Link \cup {NoLink}]
    BY <1>1, <1>2 DEF TypeOK
  <2> QED
    BY <1>1, <2>1, <2>2 DEF TypeOK
<1>6. Size' = Size /\ Chained(ledger, Size)'
  BY <1>1 DEF Size, Chained, HashBefore
<1>7. Drafts'
  <2> SUFFICES ASSUME NEW q \in Request PROVE Drafts!(q)'
    BY DEF Drafts
  <2>1. CASE q = r
    BY <1>3, <2>1
  <2>2. CASE q # r
    <3>1. draft'[q] = draft[q] /\ pc'[q] = pc[q]
      BY <1>4, <2>2
    <3>2. Drafts!(q)
      BY DEF IInv, Drafts
    <3>3. RecordOf(draft[q])' = RecordOf(draft[q])
      BY <3>1 DEF RecordOf
    <3>4. HashBefore(ledger, draft[q].sequence)'
            = HashBefore(ledger, draft[q].sequence)
      BY <3>1 DEF HashBefore
    <3> QED
      BY <1>6, <3>1, <3>2, <3>3, <3>4
  <2> QED
    BY <2>1, <2>2
<1>8. Trails'
  <2> SUFFICES ASSUME NEW q \in Request, NEW n \in 1 .. made[q]
               PROVE  \/ Unsettled(q, n)'
                      \/ \E t \in DOMAIN ledger : ledger[t].evidence = <<q, n>>
    BY DEF Trails
  <2>1. \/ Unsettled(q, n)
        \/ \E t \in DOMAIN ledger : ledger[t].evidence = <<q, n>>
    BY DEF IInv, Trails
  <2>2. Unsettled(q, n) => Unsettled(q, n)'
    BY <1>3, <1>4 DEF Unsettled
  <2> QED
    BY <2>1, <2>2
<1>9. NotYet'
  <2> SUFFICES ASSUME NEW q \in Request, NEW t \in DOMAIN ledger,
                      ledger[t].evidence[1] = q
               PROVE  /\ ledger[t].evidence[2] <= made[q]
                      /\ pc'[q] = "insert" => ledger[t].evidence[2] # made[q]
    BY DEF NotYet
  <2>1. pc'[q] = "insert" => pc[q] = "insert"
    BY <1>3, <1>4
  <2> QED
    BY <2>1 DEF IInv, NotYet
<1>10. TrailsInOrder'
  BY DEF IInv, TrailsInOrder
<1> QED
  BY <1>1, <1>5, <1>6, <1>7, <1>8, <1>9, <1>10 DEF IInv

\* The anchor a request writes names its own link, which is in the chain.
LEMMA AnchorOnLink ==
  ASSUME IInv, NEW r \in Request, WriteAnchor(r)
  PROVE  /\ draft[r] \in Link /\ draft[r].sequence \in DOMAIN ledger
         /\ ledger[draft[r].sequence] = RecordOf(draft[r])
         /\ anchor' = AnchorOf(draft[r])
         /\ anchor' \in Anchor
         /\ AnchorOnChain'
<1>1. /\ draft[r] \in Link /\ draft[r].sequence \in DOMAIN ledger
      /\ ledger[draft[r].sequence] = RecordOf(draft[r])
  BY DEF WriteAnchor, IInv, Drafts
<1>2. anchor' = AnchorOf(draft[r]) /\ ledger' = ledger
  BY DEF WriteAnchor
<1>3. anchor'.length - 1 = draft[r].sequence /\ anchor'.head = draft[r].hash
  BY <1>1, <1>2 DEF AnchorOf, Link
<1>4. anchor' \in Anchor
  BY <1>1, <1>2 DEF AnchorOf, Link, Anchor
<1>5. ledger[draft[r].sequence].link.hash = draft[r].hash
  BY <1>1 DEF RecordOf
<1> QED
  BY <1>1, <1>2, <1>3, <1>4, <1>5 DEF AnchorOnChain

\* What an anchor's write changes in the records of who was answered when.
LEMMA AnchorAnswers ==
  ASSUME NEW r \in Request, WriteAnchor(r)
  PROVE  /\ raced' = since[r]
         /\ \/ /\ Leave(r, "idle")
               /\ acks' = acks \cup {AckOf(draft[r])}
               /\ since' = [q \in Request |->
                    IF q # r /\ pc[q] = "anchor"
                    THEN since[q] \cup {AckOf(draft[r])} ELSE {}]
            \/ /\ Leave(r, "failed")
               /\ acks' = acks
               /\ since' = [since EXCEPT ![r] = {}]
<1>1. \/ Leave(r, "idle") /\ AnswersLink(r, draft[r])
      \/ Leave(r, "failed") /\ AnswersNone(r)
  BY DEF WriteAnchor
<1>2. raced' = since[r]
  BY DEF WriteAnchor
<1>3. CASE Leave(r, "idle") /\ AnswersLink(r, draft[r])
  <2>1. /\ acks' = acks \cup {AckOf(draft[r])}
        /\ since' = [q \in Request |->
             IF q # r /\ pc[q] = "anchor"
             THEN since[q] \cup {AckOf(draft[r])} ELSE {}]
    BY <1>3 DEF AnswersLink
  <2> QED
    BY <1>2, <1>3, <2>1, Zenon
<1>4. CASE Leave(r, "failed") /\ AnswersNone(r)
  <2>1. acks' = acks /\ since' = [since EXCEPT ![r] = {}]
    BY <1>4, Zenon DEF AnswersNone
  <2> QED
    BY <1>2, <1>4, <2>1, Zenon
<1> QED
  BY <1>1, <1>3, <1>4

\* An answer quotes the link the caller's record has in the chain.
LEMMA AnswerKeepsAcks ==
  ASSUME IInv, NEW r \in Request, WriteAnchor(r)
  PROVE  /\ AckOf(draft[r]) \in Ack
         /\ AckOf(draft[r]).sequence = draft[r].sequence
         /\ acks' \subseteq Ack /\ AcksDurable'
<1> DEFINE a == AckOf(draft[r])
<1> USE DEF AckOf
<1>1. acks' = acks \cup {a} \/ acks' = acks
  BY AnchorAnswers
<1>2. /\ draft[r] \in Link /\ draft[r].sequence \in DOMAIN ledger
      /\ ledger[draft[r].sequence] = RecordOf(draft[r])
  BY AnchorOnLink
<1>3. a \in Ack
  BY <1>2 DEF Link, Ack
<1>4. /\ a.sequence \in DOMAIN ledger
      /\ ledger[a.sequence].evidence = a.evidence
      /\ ledger[a.sequence].link.hash = a.head
  BY <1>2 DEF RecordOf
<1>5. ledger' = ledger
  BY DEF WriteAnchor
<1>6. acks \subseteq Ack /\ AcksDurable
  BY DEF IInv, TypeOK
<1>8. a.sequence = draft[r].sequence
  OBVIOUS
<1> HIDE DEF a, AckOf
<1>7. AcksDurable'
  BY <1>1, <1>4, <1>5, <1>6 DEF AcksDurable
<1>9. acks' \subseteq Ack
  BY <1>1, <1>3, <1>6
<1> QED
  BY <1>3, <1>7, <1>8, <1>9 DEF a

\* The record of who was answered when keeps its shape.
LEMMA WindowTypes ==
  ASSUME IInv, NEW r \in Request, WriteAnchor(r)
  PROVE  since' \in [Request -> SUBSET Ack] /\ raced' \subseteq Ack
<1>1. since \in [Request -> SUBSET Ack]
  BY DEF IInv, TypeOK
<1>2. AckOf(draft[r]) \in Ack
  BY AnswerKeepsAcks
<1>3. raced' \subseteq Ack
  BY <1>1, AnchorAnswers
<1>4. CASE since' = [since EXCEPT ![r] = {}]
  BY <1>1, <1>3, <1>4
<1>5. CASE since' = [q \in Request |->
             IF q # r /\ pc[q] = "anchor"
             THEN since[q] \cup {AckOf(draft[r])} ELSE {}]
  BY <1>1, <1>2, <1>3, <1>5
<1> QED
  BY <1>4, <1>5, AnchorAnswers, Zenon

\* A step of an audit keeps the invariant: it changes nothing else.
LEMMA AuditKeepsIInv ==
  ASSUME IInv, TypeOK',
         UNCHANGED <<ledger, anchor, pc, made, draft, acks, since, raced>>
  PROVE  IInv'
<1>2. Size' = Size /\ Chained(ledger, Size)' /\ Size \in Nat
  BY DEF IInv, Size, Chained, HashBefore
<1>3. Drafts'
  BY <1>2 DEF IInv, Drafts, RecordOf, HashBefore
<1>4. AcksDurable' /\ AnchorOnChain'
  BY DEF IInv, AcksDurable, AnchorOnChain
<1>5. Trails' /\ NotYet' /\ TrailsInOrder'
  BY DEF IInv, Trails, NotYet, TrailsInOrder, Unsettled
<1> QED
  BY <1>2, <1>3, <1>4, <1>5 DEF IInv

\* What an audit reads keeps its shape.
LEMMA AuditTypes ==
  ASSUME IInv, AuditLists \/ AuditReadsAnchor \/ AuditUnreadable
  PROVE  TypeOK'
<1>1. TypeOK /\ Size \in Nat /\ Chained(ledger, Size)
  BY DEF IInv
<1>2. UNCHANGED <<ledger, anchor, pc, made, draft, acks, since, raced>>
  BY DEF AuditLists, AuditReadsAnchor, AuditUnreadable
<1> DEFINE Audit == [records : Seq(StoredRecord),
                     answered : SUBSET Ack, raced : SUBSET Ack,
                     verdict : {"none", "pending", "green", "red", "unreadable"}]
<1> SUFFICES audit' \in Audit
  BY <1>1, <1>2 DEF TypeOK
<1>3. CASE AuditLists
  <2>1. Listed(ledger) \in Seq(StoredRecord)
    BY <1>1, ListedChain
  <2>2. audit' = [records |-> Listed(ledger), answered |-> {}, raced |-> {},
                  verdict |-> "pending"]
    BY <1>3 DEF AuditLists, NoAudit
  <2> QED
    BY <2>1, <2>2
<1>4. CASE AuditReadsAnchor
  <2>1. PICK v \in {"green", "red"} :
          audit' = [audit EXCEPT !.answered = acks, !.raced = raced,
                                 !.verdict = v]
    BY <1>4 DEF AuditReadsAnchor
  <2>2. audit \in Audit /\ acks \subseteq Ack /\ raced \subseteq Ack
    BY <1>1 DEF TypeOK
  <2> QED
    BY <2>1, <2>2
<1>5. CASE AuditUnreadable
  <2>1. audit' = [records |-> <<>>, answered |-> {}, raced |-> {},
                  verdict |-> "unreadable"]
    BY <1>5 DEF AuditUnreadable, NoAudit
  <2> QED
    BY <2>1
<1> QED
  BY <1>3, <1>4, <1>5

\* Every step preserves the invariant.
LEMMA IInvStep == IInv /\ [Next]_vars => IInv'
<1> SUFFICES ASSUME IInv, [Next]_vars PROVE IInv'
  OBVIOUS
<1>1. ASSUME NEW r \in Request, ListRecords(r) PROVE IInv'
  BY <1>1, ListKeepsIInv
<1>2. ASSUME NEW r \in Request, InsertRecord(r) PROVE IInv'
  BY <1>2, InsertKeepsIInv
<1>3. ASSUME NEW r \in Request, InsertConflict(r) PROVE IInv'
  <2>1. /\ Leave(r, "failed")
        /\ UNCHANGED <<ledger, anchor, made, acks, since, raced, audit>>
    BY <1>3 DEF InsertConflict
  <2>2. /\ acks' \subseteq Ack /\ anchor' \in Anchor \cup {NoAnchor}
        /\ since' \in [Request -> SUBSET Ack] /\ raced' \subseteq Ack
    BY <2>1 DEF IInv, TypeOK
  <2>3. AcksDurable' /\ AnchorOnChain'
    BY <2>1 DEF IInv, AcksDurable, AnchorOnChain
  <2> QED
    BY <2>1, <2>2, <2>3, LeaveKeepsIInv
<1>4. ASSUME NEW r \in Request, WriteAnchor(r) PROVE IInv'
  <2>1. PICK where \in {"idle", "failed"} : Leave(r, where)
    BY <1>4, AnchorAnswers
  <2>2. pc[r] = "anchor" /\ UNCHANGED <<ledger, made, audit>>
    BY <1>4 DEF WriteAnchor
  <2>3. anchor' \in Anchor /\ AnchorOnChain'
    BY <1>4, AnchorOnLink
  <2>4. acks' \subseteq Ack /\ AcksDurable'
    BY <1>4, AnswerKeepsAcks
  <2>5. since' \in [Request -> SUBSET Ack] /\ raced' \subseteq Ack
    BY <1>4, WindowTypes
  <2> QED
    BY <2>1, <2>2, <2>3, <2>4, <2>5, LeaveKeepsIInv
<1>5. ASSUME NEW r \in Request, Fails(r) PROVE IInv'
  <2>1. /\ Leave(r, "failed")
        /\ since' = [since EXCEPT ![r] = {}]
        /\ UNCHANGED <<ledger, anchor, made, acks, raced, audit>>
    BY <1>5 DEF Fails, AnswersNone
  <2>2. /\ acks' \subseteq Ack /\ anchor' \in Anchor \cup {NoAnchor}
        /\ since' \in [Request -> SUBSET Ack] /\ raced' \subseteq Ack
    BY <2>1 DEF IInv, TypeOK
  <2>3. AcksDurable' /\ AnchorOnChain'
    BY <2>1 DEF IInv, AcksDurable, AnchorOnChain
  <2> QED
    BY <2>1, <2>2, <2>3, LeaveKeepsIInv
<1>6. CASE AuditLists \/ AuditReadsAnchor \/ AuditUnreadable
  <2>1. UNCHANGED <<ledger, anchor, pc, made, draft, acks, since, raced>>
    BY <1>6 DEF AuditLists, AuditReadsAnchor, AuditUnreadable
  <2> QED
    BY <1>6, <2>1, AuditTypes, AuditKeepsIInv
<1>7. CASE UNCHANGED vars
  <2>1. UNCHANGED <<ledger, anchor, pc, made, draft, acks, since, raced, audit>>
    BY <1>7 DEF vars
  <2>2. TypeOK'
    BY <2>1 DEF IInv, TypeOK
  <2> QED
    BY <2>1, <2>2, AuditKeepsIInv
<1> QED
  BY <1>1, <1>2, <1>3, <1>4, <1>5, <1>6, <1>7 DEF Next, AppendDecision

\* The inductive invariant holds in every reachable state.
LEMMA Invariance == Spec => []IInv
BY IInvInit, IInvStep, PTL DEF Spec

-----------------------------------------------------------------------------
(* The properties.                                                         *)

\* The table, the requests' links and the audit keep their shapes.
THEOREM TypeCorrect == Spec => []TypeOK
<1>1. IInv => TypeOK
  BY DEF IInv
<1> QED
  BY <1>1, Invariance, PTL

\* Racing, conflicting, failing and dying requests never fork or break the
\* chain in gateway_ledger.
THEOREM ChainStaysIntact == Spec => []ChainIntact
<1>1. IInv => ChainIntact
  <2> SUFFICES ASSUME IInv PROVE ChainIntact
    OBVIOUS
  <2>1. Size \in Nat /\ Chained(ledger, Size)
    BY DEF IInv
  <2> QED
    BY <2>1, ChainVerifies DEF ChainIntact, Chained, Size
<1> QED
  BY <1>1, Invariance, PTL

\* What appendDecision answered stays in the ledger, where it was.
THEOREM AcksAreDurable == Spec => []AcksDurable
<1>1. IInv => AcksDurable
  BY DEF IInv
<1> QED
  BY <1>1, Invariance, PTL

\* The anchor row names a head the chain had at the anchored length.
THEOREM AnchorStaysOnChain == Spec => []AnchorOnChain
<1>1. IInv => AnchorOnChain
  BY DEF IInv
<1> QED
  BY <1>1, Invariance, PTL

\* A request's decisions join the ledger completely and in order.
THEOREM TrailsStayInOrder == Spec => []TrailsInOrder
<1>1. IInv => TrailsInOrder
  BY DEF IInv
<1> QED
  BY <1>1, Invariance, PTL

(* The anchor and the audits.                                              *)

\* Of the decisions answered so far, those that are not below a request's
\* link were answered after its insert.
Windows ==
  \A r \in Request :
    pc[r] = "anchor" =>
      \A a \in acks : a \in since[r] \/ a.sequence < draft[r].sequence

\* The anchor's length is above every answered decision, but for those that
\* were answered while its writer was about to write it.
AnchorCovers ==
  \A a \in acks : a \in raced \/ a.sequence < anchor.length

\* What an audit has listed is a prefix of the chain, however it has grown.
ListedPrefix ==
  \A i \in 1 .. Len(audit.records) :
    i - 1 \in DOMAIN ledger /\ audit.records[i] = ledger[i - 1]

Vouching ==
  /\ Windows
  /\ AnchorCovers
  /\ ListedPrefix
  /\ GreenVouches

\* There is nothing to vouch for at first.
LEMMA VouchingInit == Init => Vouching
BY DEF Init, NoAudit, Vouching, Windows, AnchorCovers, ListedPrefix, GreenVouches

\* An answered decision stands below the chain's length.
LEMMA AcksBelow ==
  ASSUME IInv
  PROVE  \A a \in acks : a.sequence \in Nat /\ a.sequence < Size
BY DEF IInv, AcksDurable, Chained

\* No step but an answer makes decisions answered: the windows of the
\* requests are as they were, for those that do not leave.
LEMMA QuietKeepsVouching ==
  ASSUME IInv, Vouching, NEW r \in Request,
         ListRecords(r) \/ InsertRecord(r) \/ InsertConflict(r) \/ Fails(r)
  PROVE  Vouching'
<1>1. TypeOK /\ Size \in Nat /\ Chained(ledger, Size)
  BY DEF IInv
<1>2. UNCHANGED <<anchor, acks, raced, audit>>
  BY DEF ListRecords, InsertRecord, InsertConflict, Fails, AnswersNone
<1>3. ASSUME NEW q \in Request, q # r
      PROVE  pc'[q] = pc[q] /\ draft'[q] = draft[q] /\ since'[q] = since[q]
  <2>1. /\ \E where \in {"insert", "anchor", "failed"} :
             pc' = [pc EXCEPT ![r] = where]
        /\ \E d \in {NoLink, draft[r],
                     NextLink(Listed(ledger), <<r, made[r] + 1>>)} :
             draft' = [draft EXCEPT ![r] = d]
        /\ \E s \in {since[r], {}} : since' = [since EXCEPT ![r] = s]
    BY <1>1 DEF ListRecords, InsertRecord, InsertConflict, Fails, AnswersNone,
                Goto, Leave, TypeOK
  <2> QED
    BY <1>1, <1>3, <2>1 DEF TypeOK
<1>4. pc'[r] = "anchor" => InsertRecord(r) /\ draft'[r] = draft[r]
  BY <1>1 DEF ListRecords, InsertRecord, InsertConflict, Fails, Goto, Leave,
              TypeOK
<1>5. Windows'
  <2> SUFFICES ASSUME NEW q \in Request, pc'[q] = "anchor", NEW a \in acks
               PROVE  a \in since'[q] \/ a.sequence < draft'[q].sequence
    BY <1>2 DEF Windows
  <2>1. CASE q = r
    BY <1>4, <2>1, InsertExtends, AcksBelow
  <2>2. CASE q # r
    BY <1>3, <2>2 DEF Vouching, Windows
  <2> QED
    BY <2>1, <2>2
<1>6. AnchorCovers' /\ GreenVouches'
  BY <1>2 DEF Vouching, AnchorCovers, GreenVouches
<1>7. \A s \in DOMAIN ledger : s \in DOMAIN ledger' /\ ledger'[s] = ledger[s]
  <2>1. CASE InsertRecord(r)
    BY <2>1, InsertExtends
  <2>2. CASE ListRecords(r) \/ InsertConflict(r) \/ Fails(r)
    BY <2>2 DEF ListRecords, InsertConflict, Fails
  <2> QED
    BY <2>1, <2>2
<1>8. ListedPrefix'
  BY <1>2, <1>7 DEF Vouching, ListedPrefix
<1> QED
  BY <1>5, <1>6, <1>8 DEF Vouching

\* An anchor may fall behind, but only behind decisions that were answered
\* between its writer's insert and its write.
LEMMA AnswerKeepsVouching ==
  ASSUME IInv, Vouching, NEW r \in Request, WriteAnchor(r)
  PROVE  Vouching'
<1> DEFINE new == AckOf(draft[r])
<1>1. TypeOK /\ pc[r] = "anchor" /\ UNCHANGED <<ledger, audit>>
  BY DEF IInv, WriteAnchor
<1>2. /\ draft[r].sequence \in Nat
      /\ anchor'.length = draft[r].sequence + 1
      /\ new.sequence = draft[r].sequence
  BY AnchorOnLink, AnswerKeepsAcks DEF AnchorOf, Link
<1> HIDE DEF new
<1>3. raced' = since[r] /\ (acks' = acks \/ acks' = acks \cup {new})
  BY AnchorAnswers DEF new
<1>4. AnchorCovers'
  <2> SUFFICES ASSUME NEW a \in acks'
               PROVE  a \in since[r] \/ a.sequence < draft[r].sequence + 1
    BY <1>2, <1>3 DEF AnchorCovers
  <2>1. CASE a = new
    BY <1>2, <2>1
  <2>2. CASE a \in acks
    <3>1. a.sequence \in Nat
      BY <2>2, AcksBelow
    <3> QED
      BY <1>1, <1>2, <2>2, <3>1 DEF Vouching, Windows
  <2> QED
    BY <1>3, <2>1, <2>2
<1>5. ASSUME NEW q \in Request, pc'[q] = "anchor"
      PROVE  /\ q # r /\ pc[q] = "anchor" /\ draft'[q] = draft[q]
             /\ since[q] \subseteq since'[q]
             /\ \A a \in acks' : a \in acks \/ a \in since'[q]
  <2>1. PICK where \in {"idle", "failed"} : Leave(r, where)
    BY AnchorAnswers
  <2>2. q # r /\ pc[q] = "anchor" /\ draft'[q] = draft[q]
    BY <1>1, <1>5, <2>1 DEF Leave, Goto, TypeOK
  <2>3. CASE acks' = acks /\ since' = [since EXCEPT ![r] = {}]
    BY <1>1, <2>2, <2>3 DEF TypeOK
  <2>4. CASE /\ acks' = acks \cup {new}
             /\ since' = [p \in Request |->
                  IF p # r /\ pc[p] = "anchor"
                  THEN since[p] \cup {new} ELSE {}]
    BY <2>2, <2>4
  <2> QED
    BY <2>3, <2>4, <2>2, AnchorAnswers, Zenon DEF new
<1>6. Windows'
  BY <1>5 DEF Vouching, Windows
<1>7. ListedPrefix' /\ GreenVouches'
  BY <1>1 DEF Vouching, ListedPrefix, GreenVouches
<1> QED
  BY <1>4, <1>6, <1>7 DEF Vouching

\* A verdict over a prefix of the chain and a later anchor is green only if
\* the prefix is as long as the anchor says.
LEMMA AuditKeepsVouching ==
  ASSUME IInv, Vouching, AuditLists \/ AuditReadsAnchor \/ AuditUnreadable
  PROVE  Vouching'
<1>1. TypeOK /\ Size \in Nat /\ Chained(ledger, Size)
  BY DEF IInv
<1>2. UNCHANGED <<ledger, anchor, pc, draft, acks, since, raced>>
  BY DEF AuditLists, AuditReadsAnchor, AuditUnreadable
<1>3. Windows' /\ AnchorCovers'
  BY <1>2 DEF Vouching, Windows, AnchorCovers
<1>4. CASE AuditLists
  <2>1. audit'.records = Listed(ledger) /\ audit'.verdict # "green"
    BY <1>4 DEF AuditLists, NoAudit
  <2>2. \A i \in 1 .. Size : i - 1 \in DOMAIN ledger
    BY <1>1 DEF Chained
  <2>3. /\ Len(Listed(ledger)) = Size
        /\ \A i \in 1 .. Size : Listed(ledger)[i] = ledger[i - 1]
    BY <1>1, ListedChain
  <2>4. ListedPrefix'
    BY <1>2, <2>1, <2>2, <2>3 DEF ListedPrefix
  <2> QED
    BY <1>3, <2>1, <2>4 DEF Vouching, GreenVouches
<1>5. CASE AuditReadsAnchor
  <2>1. /\ audit'.records = audit.records
        /\ audit'.answered = acks /\ audit'.raced = raced
        /\ audit'.verdict = "green" => VerifyAnchor(audit.records, anchor)
    BY <1>1, <1>5 DEF AuditReadsAnchor, TypeOK, Verify
  <2>2. ListedPrefix'
    BY <1>2, <2>1 DEF Vouching, ListedPrefix
  <2>3. ASSUME audit'.verdict = "green", NEW a \in acks, a \notin raced
        PROVE  /\ a.sequence < Len(audit.records)
               /\ audit.records[a.sequence + 1].evidence = a.evidence
    <3>1. a.sequence \in Nat /\ a.sequence < anchor.length
      BY <2>3, AcksBelow DEF Vouching, AnchorCovers
    <3>2. anchor # NoAnchor
      BY <3>1 DEF NoAnchor
    <3>3. Len(audit.records) = anchor.length
      BY <2>1, <2>3, <3>2 DEF VerifyAnchor
    <3>4. a.sequence + 1 \in 1 .. Len(audit.records)
      BY <1>1, <3>1, <3>3 DEF TypeOK
    <3>5. audit.records[a.sequence + 1] = ledger[(a.sequence + 1) - 1]
      BY <3>4 DEF Vouching, ListedPrefix
    <3>6. (a.sequence + 1) - 1 = a.sequence
      BY <3>1
    <3>7. ledger[a.sequence].evidence = a.evidence
      BY DEF IInv, AcksDurable
    <3> QED
      BY <3>1, <3>3, <3>5, <3>6, <3>7
  <2>4. GreenVouches'
    BY <2>1, <2>3 DEF GreenVouches
  <2> QED
    BY <1>3, <2>2, <2>4 DEF Vouching
<1>6. CASE AuditUnreadable
  <2>1. audit'.records = <<>> /\ audit'.verdict # "green"
    BY <1>6 DEF AuditUnreadable, NoAudit
  <2>2. ListedPrefix'
    BY <2>1 DEF ListedPrefix
  <2> QED
    BY <1>3, <2>1, <2>2 DEF Vouching, GreenVouches
<1> QED
  BY <1>4, <1>5, <1>6

\* Every step keeps what the anchor and the audits have to do with the chain.
LEMMA VouchingStep == IInv /\ Vouching /\ [Next]_vars => Vouching'
<1> SUFFICES ASSUME IInv, Vouching, [Next]_vars PROVE Vouching'
  OBVIOUS
<1>1. CASE UNCHANGED vars
  BY <1>1 DEF vars, Vouching, Windows, AnchorCovers, ListedPrefix, GreenVouches
<1> QED
  BY <1>1, QuietKeepsVouching, AnswerKeepsVouching, AuditKeepsVouching
  DEF Next, AppendDecision

\* An audit that ends green, over a chain and an anchor that were read at
\* different moments, covers every decision answered until then that the
\* anchor's last writer did not race with.
THEOREM GreenAuditVouches == Spec => []GreenVouches
<1>1. Vouching => GreenVouches
  BY DEF Vouching
<1>2. Spec => []Vouching
  BY VouchingInit, VouchingStep, Invariance, PTL DEF Spec
<1> QED
  BY <1>1, <1>2, PTL

-----------------------------------------------------------------------------
(* The ledger implements AppendOnlyLog.                                    *)

\* The log's entries are the decisions in the table.
LEMMA EntriesOfChain ==
  ASSUME TypeOK, Size \in Nat, Chained(ledger, Size)
  PROVE  /\ Entries \in Seq(Decision) /\ Len(Entries) = Size
         /\ DOMAIN Entries = 1 .. Size
         /\ \A i \in 1 .. Size : Entries[i] = ledger[i - 1].evidence
<1>1. Entries = [i \in 1 .. Size |-> ledger[i - 1].evidence]
  BY DEF Entries, Size
<1>2. \A i \in 1 .. Size : ledger[i - 1].evidence \in Decision
  <2> TAKE i \in 1 .. Size
  <2>1. i - 1 \in 0 .. Size - 1
    OBVIOUS
  <2>2. ledger[i - 1] \in StoredRecord
    BY <2>1 DEF Chained
  <2> QED
    BY <2>2 DEF StoredRecord
<1>3. [i \in 1 .. Size |-> ledger[i - 1].evidence] \in Seq(Decision)
  BY <1>2
<1> QED
  BY <1>1, <1>3

\* The empty ledger is the empty log.
LEMMA InitImplements == Init => Log!LInit
<1> SUFFICES ASSUME Init PROVE Log!LInit
  OBVIOUS
<1>1. DOMAIN ledger = {} /\ acks = {}
  BY DEF Init
<1>2. Cardinality(DOMAIN ledger) = 0
  BY <1>1, FS_EmptySet
<1>3. Entries = <<>>
  BY <1>2 DEF Entries
<1>4. Acked = {}
  BY <1>1 DEF Acked
<1> QED
  BY <1>3, <1>4 DEF Log!LInit

\* An insert is a decision that joins the log.
LEMMA InsertImplements ==
  ASSUME IInv, NEW r \in Request, InsertRecord(r)
  PROVE  Log!Join(<<r, made[r]>>) /\ <<r, made[r]>> \in Decision
<1> DEFINE d == <<r, made[r]>>
<1>1. TypeOK /\ Size \in Nat /\ Chained(ledger, Size)
  BY DEF IInv
<1>2. /\ draft[r] \in Link /\ draft[r].contentHash = d
      /\ Size' = Size + 1
      /\ ledger'[Size] = RecordOf(draft[r])
      /\ \A s \in DOMAIN ledger : ledger'[s] = ledger[s]
  BY InsertExtends
<1>3. d \in Decision
  BY <1>2 DEF Link
<1>4. d \notin Log!ToSet(Entries)
  <2> SUFFICES ASSUME NEW i \in 1 .. Size, ledger[i - 1].evidence = d
               PROVE  FALSE
    BY <1>1, EntriesOfChain DEF Log!ToSet
  <2>1. i - 1 \in DOMAIN ledger
    BY <1>1 DEF Chained
  <2> QED
    BY <2>1 DEF IInv, NotYet, InsertRecord
<1>5. Entries' = Append(Entries, d)
  <2>1. Entries' = [i \in 1 .. Size + 1 |-> ledger'[i - 1].evidence]
    BY <1>2 DEF Entries, Size
  <2>2. ASSUME NEW i \in 1 .. Size + 1
        PROVE  ledger'[i - 1].evidence = Append(Entries, d)[i]
    <3>1. CASE i = Size + 1
      <4>1. ledger'[i - 1].evidence = d
        BY <1>1, <1>2, <3>1 DEF RecordOf
      <4> QED
        BY <1>1, <1>3, <3>1, <4>1, EntriesOfChain
    <3>2. CASE i # Size + 1
      <4>1. i \in 1 .. Size /\ i - 1 \in DOMAIN ledger
        BY <1>1, <3>2 DEF Chained
      <4>2. ledger'[i - 1].evidence = Entries[i]
        BY <1>1, <1>2, <4>1, EntriesOfChain
      <4> QED
        BY <1>1, <1>3, <4>1, <4>2, EntriesOfChain
    <3> QED
      BY <3>1, <3>2
  <2>3. Append(Entries, d) \in [1 .. Size + 1 -> Decision]
    <3>1. Entries \in Seq(Decision) /\ Len(Entries) = Size
      BY <1>1, EntriesOfChain
    <3> HIDE DEF d
    <3> QED
      BY <1>3, <3>1, AppendProperties, LenProperties
  <2> HIDE DEF d
  <2> QED
    BY <2>1, <2>2, <2>3
<1>6. Acked' = Acked
  BY DEF Acked, InsertRecord
<1> QED
  BY <1>3, <1>4, <1>5, <1>6 DEF Log!Join

\* An answer is an acknowledgement of the decision's place in the log.
LEMMA AnswerImplements ==
  ASSUME IInv, NEW r \in Request, WriteAnchor(r)
  PROVE  Log!LNext \/ UNCHANGED Log!lvars
<1>1. TypeOK /\ Size \in Nat /\ Chained(ledger, Size)
  BY DEF IInv
<1>2. Entries' = Entries
  BY DEF Entries, WriteAnchor
<1> DEFINE a == AckOf(draft[r])
<1> DEFINE i == draft[r].sequence + 1
<1>3. CASE acks' = acks
  BY <1>2, <1>3 DEF Acked, Log!lvars
<1>4. CASE acks' = acks \cup {a}
  <2>1. /\ draft[r] \in Link /\ draft[r].sequence \in DOMAIN ledger
        /\ ledger[draft[r].sequence] = RecordOf(draft[r])
    BY AnchorOnLink
  <2>2. i \in 1 .. Size /\ i - 1 = draft[r].sequence
    BY <1>1, <2>1 DEF Chained
  <2>3. i \in DOMAIN Entries /\ Entries[i] = draft[r].contentHash
    BY <1>1, <2>1, <2>2, EntriesOfChain DEF RecordOf
  <2>4. Acked' = Acked \cup {<<i, draft[r].contentHash>>}
    <3>1. a.sequence + 1 = i /\ a.evidence = draft[r].contentHash
      BY DEF AckOf
    <3> HIDE DEF a, i
    <3> QED
      BY <1>4, <3>1 DEF Acked
  <2>5. draft[r].contentHash \in Decision
    BY <2>1 DEF Link
  <2> HIDE DEF i
  <2>6. Log!Acknowledge(draft[r].contentHash)
    BY <1>2, <2>3, <2>4 DEF Log!Acknowledge
  <2> QED
    BY <2>5, <2>6 DEF Log!LNext
<1> QED
  BY <1>3, <1>4, AnchorAnswers

\* Every step of the ledger is one of the log's, or changes nothing in it.
LEMMA StepImplements ==
  IInv /\ [Next]_vars => [Log!LNext]_(Log!lvars)
<1> SUFFICES ASSUME IInv, [Next]_vars
             PROVE  Log!LNext \/ UNCHANGED Log!lvars
  OBVIOUS
<1>1. ASSUME NEW r \in Request, InsertRecord(r)
      PROVE  Log!LNext
  BY <1>1, InsertImplements DEF Log!LNext
<1>2. ASSUME NEW r \in Request, WriteAnchor(r)
      PROVE  Log!LNext \/ UNCHANGED Log!lvars
  BY <1>2, AnswerImplements
<1>3. ASSUME UNCHANGED <<ledger, acks>>
      PROVE  UNCHANGED Log!lvars
  BY <1>3 DEF Log!lvars, Entries, Acked
<1>4. ASSUME NEW r \in Request,
             ListRecords(r) \/ InsertConflict(r) \/ Fails(r)
      PROVE  UNCHANGED <<ledger, acks>>
  BY <1>4 DEF ListRecords, InsertConflict, Fails, AnswersNone
<1>5. CASE AuditLists \/ AuditReadsAnchor \/ AuditUnreadable
  BY <1>3, <1>5 DEF AuditLists, AuditReadsAnchor, AuditUnreadable
<1>6. CASE UNCHANGED vars
  BY <1>3, <1>6 DEF vars
<1> QED
  BY <1>1, <1>2, <1>3, <1>4, <1>5, <1>6 DEF Next, AppendDecision

\* appendDecision, run by any number of racing requests, is an append-only
\* log: a decision joins once, at the end, and answers are never retracted.
THEOREM LedgerIsALog == Spec => IsAppendOnlyLog
<1> QED
  BY InitImplements, StepImplements, Invariance, PTL
  DEF Spec, IsAppendOnlyLog, Log!LSpec

-----------------------------------------------------------------------------
(***************************************************************************)
(* Sign-ups, logins, revocations and what an account reads.                *)
(***************************************************************************)
\* A request and a licence are records of these fields.
IsPlaneRequest(x) ==
  x = [f \in {"pc", "status", "account", "row", "todo", "at", "what",
              "license", "owed", "stale"} |-> x[f]]
IsLicense(l) == l = [f \in {"account", "token", "at", "active"} |-> l[f]]

PlaneTypes ==
  /\ accounts = [a \in Account |-> accounts[a]]
  /\ request = [r \in PlaneRequest |-> request[r]]
  /\ clock \in Nat
  /\ \A r \in PlaneRequest :
       IsPlaneRequest(request[r]) /\ request[r].at \in 0 .. clock

-----------------------------------------------------------------------------
(* The tables.                                                             *)

\* The password that an account has when it is there.
PasswordOf(a) == IF a \in Signup THEN a ELSE "local"

\* An account has its password, and there is one of the e-mail address.
Accounts ==
  /\ \A a \in Account : accounts[a] \in {None, PasswordOf(a)}
  /\ \A a, b \in Registered : a = b
  /\ \A a \in members : a \in Account /\ Exists(a)

\* A token is of one licence, which is in force until it is revoked.
Licenses ==
  /\ \A l \in licenses : /\ IsLicense(l)
                         /\ l.token \in Local \cup User
                         /\ l.at \in 0 .. clock
                         /\ l.active <=> l.token \notin revoked
  /\ \A l, m \in licenses : l.token = m.token => l = m
  /\ \A t \in revoked : \E l \in licenses : l.token = t

-----------------------------------------------------------------------------
(* The requests: q is what a request has reached and read.                 *)

\* It is at one of these steps, or it succeeded.
Past(q, steps) == q.pc \in steps \/ q.status \in {200, 201}

TokenFor(g, a) == IF g \in Sso THEN SsoToken(a) ELSE g

\* A grant has done what its step says.
Granting(g, q) ==
  /\ q.pc # "answered" => q.status = 0
  /\ q.pc = "account" => q.account \in Local /\ q.row = PasswordOf(q.account)
  /\ Past(q, {"account", "signup", "license", "quota", "record"}) =>
       /\ g \in Signup => q.account = g
       /\ g \in Provision => q.account \in Local
       /\ g \in Sso => q.account \in User
  /\ Past(q, {"signup", "license", "quota", "record"}) => Exists(q.account)
  /\ Past(q, {"quota", "record"}) =>
       \E l \in licenses :
         l.account = q.account /\ l.token = TokenFor(g, q.account)
  /\ Past(q, {"record"}) => q.account \in quotas
  /\ g \in Sso /\ Past(q, {"license", "quota", "record"}) =>
       q.account \in members /\ Reviewer \in members

\* An SSO login has still to see to the user of the team, or to a member.
Joining(q) ==
  q.pc \in {"find", "upsert", "member"} =>
    /\ q.account \in User
    /\ \/ q.todo = <<q.account, q.account, Reviewer>>
       \/ q.todo = <<q.account, Reviewer>> /\ Exists(q.account)
       \/ /\ q.todo = <<Reviewer>>
          /\ Exists(q.account) /\ q.account \in members
    /\ q.pc = "upsert" => q.row = "local"
    /\ q.pc = "member" => Exists(Head(q.todo))

\* A login that is let in knows the password.
Entering(q) ==
  q.status = 200 \/ (q.pc = "auth" /\ q.account # None) =>
    /\ q.account \in Local
    /\ Exists(q.account)
    /\ accounts[q.account] = q.what

\* What a request with a token was owed, and what it has read of it.
Reading(q) ==
  /\ q.pc \notin {"new", "answered"} => q.status = 0
  /\ q.pc \in {"quota", "plan", "audit"} => q.what = q.pc
  /\ q.pc = "row" => q.what = "quota"
  /\ q.stale \subseteq revoked
  /\ q.owed \subseteq IF q.what = "audit" THEN members \cap {q.account}
                      ELSE Tokens(q.account)
  /\ q.pc \in {"quota", "row"} /\ q.owed # {} => q.account \in quotas
  /\ (q.pc \in {"row", "tell"} \/ q.status = 403) /\ q.license = None =>
       q.owed \subseteq IF q.what = "audit" THEN {} ELSE revoked
  /\ (q.pc \in {"row", "tell"} \/ q.status = 200) /\ q.license # None =>
       q.license \notin q.stale
  /\ q.status = 403 => q.license = None
  /\ q.status = 200 => q.license # None

PlaneInv ==
  /\ PlaneTypes
  /\ Accounts
  /\ Licenses
  /\ \A g \in Grant : Granting(g, request[g])
  /\ \A g \in Sso : Joining(request[g])
  /\ \A r \in Login : Entering(request[r])
  /\ \A r \in Read : Reading(request[r])

-----------------------------------------------------------------------------
(* What a step keeps.                                                      *)

\* Nothing that a request goes by is taken back.
Grows ==
  /\ accounts' = [a \in Account |-> accounts'[a]]
  /\ \A a \in Account : Exists(a) => accounts'[a] = accounts[a]
  /\ \A l \in licenses : \E m \in licenses' :
       m.account = l.account /\ m.token = l.token
  /\ quotas \subseteq quotas'
  /\ members \subseteq members'
  /\ revoked \subseteq revoked'
  /\ clock' \in Nat /\ clock <= clock'

LEMMA ExistsStays ==
  ASSUME Grows, NEW a \in Account, Exists(a)
  PROVE  Exists(a)' /\ accounts'[a] = accounts[a]
  BY DEF Grows, Exists

\* The ids that requests go by.
LEMMA Ids ==
  /\ Local \subseteq Account /\ User \subseteq Account /\ Reviewer \in Account
  /\ \A r \in Signup : r # None /\ r \in Local
  /\ \A r \in Provision : r \notin Signup /\ r \in Local
  /\ \A a \in User \cup {Reviewer} : a \notin Local
  BY RoutesAssumption DEF Account, Local, Routes, None

LEMMA GrantingStays ==
  ASSUME PlaneInv, Grows, NEW g, NEW q, g \in Grant, Granting(g, q)
  PROVE  Granting(g, q)'
<1>1. Past(q, {"signup", "license", "quota", "record"}) => Exists(q.account)'
  <2>1. SUFFICES ASSUME Past(q, {"signup", "license", "quota", "record"})
                 PROVE  Exists(q.account)'
    OBVIOUS
  <2>2. Exists(q.account)
    BY <2>1 DEF Granting
  <2>3. g \in Signup \/ g \in Provision \/ g \in Sso
    BY DEF Grant
  <2>4. q.account \in Account
    BY <2>1, <2>3, Ids DEF Granting, Past
  <2> QED
    BY <2>2, <2>4, ExistsStays
<1>2. Past(q, {"quota", "record"}) =>
        \E l \in licenses' :
          l.account = q.account /\ l.token = TokenFor(g, q.account)
  <2>1. SUFFICES ASSUME Past(q, {"quota", "record"})
                 PROVE  \E l \in licenses' :
                    l.account = q.account /\ l.token = TokenFor(g, q.account)
    OBVIOUS
  <2>2. PICK l \in licenses :
          l.account = q.account /\ l.token = TokenFor(g, q.account)
    BY <2>1 DEF Granting
  <2> QED
    BY <2>2 DEF Grows
<1>3. Past(q, {"record"}) => q.account \in quotas'
  BY DEF Granting, Grows
<1>4. g \in Sso /\ Past(q, {"license", "quota", "record"}) =>
        q.account \in members' /\ Reviewer \in members'
  BY DEF Granting, Grows
<1> QED
  BY <1>1, <1>2, <1>3, <1>4 DEF Granting

LEMMA JoiningStays ==
  ASSUME PlaneInv, Grows, NEW q, Joining(q)
  PROVE  Joining(q)'
<1> SUFFICES ASSUME q.pc \in {"find", "upsert", "member"}
             PROVE  Joining(q)'
  BY DEF Joining
<1>1. q.account \in User /\ q.account \in Account /\ Reviewer \in Account
  BY Ids DEF Joining
<1>2. Exists(q.account) => Exists(q.account)'
  BY <1>1, ExistsStays
<1>3. Head(q.todo) \in {q.account, Reviewer}
  BY DEF Joining
<1>4. Exists(Head(q.todo)) => Exists(Head(q.todo))'
  <2>1. PICK a : a = Head(q.todo)
    OBVIOUS
  <2>2. a \in Account
    BY <1>1, <1>3, <2>1
  <2> QED
    BY <2>1, <2>2, ExistsStays
<1>5. q.account \in members => q.account \in members'
  BY DEF Grows
<1> QED
  BY <1>1, <1>2, <1>4, <1>5 DEF Joining

LEMMA EnteringStays ==
  ASSUME PlaneInv, Grows, NEW q, Entering(q)
  PROVE  Entering(q)'
<1> SUFFICES ASSUME q.status = 200 \/ (q.pc = "auth" /\ q.account # None)
             PROVE  Entering(q)'
  BY DEF Entering
<1>1. /\ q.account \in Local /\ q.account \in Account
      /\ Exists(q.account) /\ accounts[q.account] = q.what
  BY Ids DEF Entering
<1> QED
  BY <1>1, ExistsStays DEF Entering

LEMMA ReadingStays ==
  ASSUME PlaneInv, Grows, NEW q, Reading(q)
  PROVE  Reading(q)'
<1>1. \A a : Tokens(a) \subseteq Tokens(a)'
  BY DEF Tokens, Grows
<1>2. Tokens(q.account) \subseteq Tokens(q.account)'
  BY <1>1
<1>3. q.owed \subseteq IF q.what = "audit" THEN members' \cap {q.account}
                       ELSE Tokens(q.account)'
  BY <1>2 DEF Reading, Grows
<1>4. /\ q.stale \subseteq revoked'
      /\ q.pc \in {"quota", "row"} /\ q.owed # {} => q.account \in quotas'
      /\ (q.pc \in {"row", "tell"} \/ q.status = 403) /\ q.license = None =>
           q.owed \subseteq IF q.what = "audit" THEN {} ELSE revoked'
  BY DEF Reading, Grows
<1> QED
  BY <1>3, <1>4 DEF Reading

\* One request becomes q, and the tables grow.
LEMMA Becoming ==
  ASSUME PlaneInv, Grows, Accounts', Licenses',
         NEW r, r \in PlaneRequest, NEW q, Becomes(r, q),
         IsPlaneRequest(q), q.at \in 0 .. clock',
         r \in Grant => Granting(r, q)',
         r \in Sso => Joining(q)',
         r \in Login => Entering(q)',
         r \in Read => Reading(q)'
  PROVE  PlaneInv'
<1>1. /\ request' = [s \in PlaneRequest |-> request'[s]]
      /\ \A s \in PlaneRequest \ {r} : request'[s] = request[s]
      /\ request'[r] = q
  BY DEF PlaneInv, PlaneTypes, Becomes
<1>2. PlaneTypes'
  <2>1. ASSUME NEW s \in PlaneRequest
        PROVE  IsPlaneRequest(request'[s]) /\ request'[s].at \in 0 .. clock'
    <3>1. CASE s = r
      BY <1>1, <3>1
    <3>2. CASE s # r
      BY <1>1, <3>2 DEF PlaneInv, PlaneTypes, Grows
    <3> QED
      BY <3>1, <3>2
  <2> QED
    BY <1>1, <2>1 DEF PlaneTypes, Grows
<1>3. ASSUME NEW g \in Grant
      PROVE  Granting(g, request[g])'
  <2>1. PICK x : x = request'[g]
    OBVIOUS
  <2>2. Granting(g, x)'
    <3>1. CASE g = r
      BY <1>1, <2>1, <3>1
    <3>2. CASE g # r
      <4>1. x = request[g]
        BY <1>1, <2>1, <3>2 DEF Grant, PlaneRequest
      <4> QED
        BY <4>1, GrantingStays DEF PlaneInv
    <3> QED
      BY <3>1, <3>2
  <2> QED
    BY <2>1, <2>2
<1>4. ASSUME NEW g \in Sso
      PROVE  Joining(request[g])'
  <2>1. PICK x : x = request'[g]
    OBVIOUS
  <2>2. Joining(x)'
    <3>1. CASE g = r
      BY <1>1, <2>1, <3>1
    <3>2. CASE g # r
      <4>1. x = request[g]
        BY <1>1, <2>1, <3>2 DEF PlaneRequest
      <4> QED
        BY <4>1, JoiningStays DEF PlaneInv
    <3> QED
      BY <3>1, <3>2
  <2> QED
    BY <2>1, <2>2
<1>5. ASSUME NEW g \in Login
      PROVE  Entering(request[g])'
  <2>1. PICK x : x = request'[g]
    OBVIOUS
  <2>2. Entering(x)'
    <3>1. CASE g = r
      BY <1>1, <2>1, <3>1
    <3>2. CASE g # r
      <4>1. x = request[g]
        BY <1>1, <2>1, <3>2 DEF PlaneRequest
      <4> QED
        BY <4>1, EnteringStays DEF PlaneInv
    <3> QED
      BY <3>1, <3>2
  <2> QED
    BY <2>1, <2>2
<1>6. ASSUME NEW g \in Read
      PROVE  Reading(request[g])'
  <2>1. PICK x : x = request'[g]
    OBVIOUS
  <2>2. Reading(x)'
    <3>1. CASE g = r
      BY <1>1, <2>1, <3>1
    <3>2. CASE g # r
      <4>1. x = request[g]
        BY <1>1, <2>1, <3>2 DEF PlaneRequest
      <4> QED
        BY <4>1, ReadingStays DEF PlaneInv
    <3> QED
      BY <3>1, <3>2
  <2> QED
    BY <2>1, <2>2
<1> QED
  BY <1>2, <1>3, <1>4, <1>5, <1>6 DEF PlaneInv

\* No table changes.
LEMMA SameTables ==
  ASSUME PlaneInv, UNCHANGED <<tables, revoked>>, clock' \in {clock, clock + 1}
  PROVE  Grows /\ Accounts' /\ Licenses'
<1>1. Grows
  BY DEF PlaneInv, PlaneTypes, Grows, tables
<1>2. Accounts'
  BY DEF PlaneInv, Accounts, Registered, Exists, tables
<1>3. Licenses'
  BY DEF PlaneInv, PlaneTypes, Licenses, tables
<1> QED
  BY <1>1, <1>2, <1>3

\* One request becomes q, and no table changes.
LEMMA Quietly ==
  ASSUME PlaneInv, UNCHANGED <<tables, revoked>>, clock' \in {clock, clock + 1},
         NEW r, r \in PlaneRequest, NEW q, Becomes(r, q),
         IsPlaneRequest(q), q.at \in 0 .. clock',
         r \in Grant => Granting(r, q),
         r \in Sso => Joining(q),
         r \in Login => Entering(q),
         r \in Read => Reading(q)
  PROVE  PlaneInv'
<1>1. Grows /\ Accounts' /\ Licenses'
  BY SameTables
<1>2. r \in Grant => Granting(r, q)'
  BY <1>1, GrantingStays
<1>3. /\ r \in Sso => Joining(q)'
      /\ r \in Login => Entering(q)'
      /\ r \in Read => Reading(q)'
  BY <1>1, JoiningStays, EnteringStays, ReadingStays
<1> QED
  BY <1>1, <1>2, <1>3, Becoming

-----------------------------------------------------------------------------
(* The forms of a request's steps.                                         *)

LEMMA Kinds ==
  /\ Grant \cap Login = {} /\ Grant \cap Revoke = {} /\ Grant \cap Read = {}
  /\ Login \cap Revoke = {} /\ Login \cap Read = {} /\ Revoke \cap Read = {}
  /\ Signup \cap Provision = {} /\ Signup \cap Sso = {}
  /\ Provision \cap Sso = {}
  /\ Grant \subseteq PlaneRequest /\ Login \subseteq PlaneRequest
  /\ Revoke \subseteq PlaneRequest /\ Read \subseteq PlaneRequest
<1>1. /\ Routes[1] = Signup /\ Routes[2] = Provision /\ Routes[3] = Login
      /\ Routes[4] = Sso /\ Routes[5] = Revoke /\ Routes[6] = Read
  BY DEF Routes
<1>2. \A i, j \in 1 .. 6 : i # j => Routes[i] \cap Routes[j] = {}
  BY RoutesAssumption
<1>3. /\ Signup \cap Provision = {} /\ Signup \cap Login = {}
      /\ Signup \cap Sso = {} /\ Signup \cap Revoke = {}
      /\ Signup \cap Read = {}
  BY <1>1, <1>2
<1>4. /\ Provision \cap Login = {} /\ Provision \cap Sso = {}
      /\ Provision \cap Revoke = {} /\ Provision \cap Read = {}
  BY <1>1, <1>2
<1>5. /\ Login \cap Sso = {} /\ Login \cap Revoke = {} /\ Login \cap Read = {}
  BY <1>1, <1>2
<1>6. Sso \cap Revoke = {} /\ Sso \cap Read = {} /\ Revoke \cap Read = {}
  BY <1>1, <1>2
<1> QED
  BY <1>3, <1>4, <1>5, <1>6 DEF Grant, PlaneRequest

\* The request of r with another step, or with an answer.
Stepped(r, q, step) ==
  /\ Becomes(r, q) /\ IsPlaneRequest(q) /\ q.pc = step
  /\ q.status = request[r].status /\ q.account = request[r].account
  /\ q.row = request[r].row /\ q.todo = request[r].todo
  /\ q.at = request[r].at /\ q.what = request[r].what
  /\ q.license = request[r].license /\ q.owed = request[r].owed
  /\ q.stale = request[r].stale

Concluded(r, q, status) ==
  /\ Becomes(r, q) /\ IsPlaneRequest(q) /\ q.pc = "answered"
  /\ q.status = status /\ q.at = 0
  /\ q.account = request[r].account /\ q.what = request[r].what
  /\ q.license = request[r].license /\ q.owed = request[r].owed
  /\ q.stale = request[r].stale

LEMMA ProceedsTo ==
  ASSUME PlaneInv, NEW r, r \in PlaneRequest, NEW step, Proceeds(r, step)
  PROVE  \E q : Stepped(r, q, step)
<1> DEFINE y == [request[r] EXCEPT !.pc = step]
<1>1. PICK q : q = y
  OBVIOUS
<1>2. IsPlaneRequest(request[r])
  BY DEF PlaneInv, PlaneTypes
<1>3. Stepped(r, q, step)
  BY <1>1, <1>2 DEF Stepped, Proceeds, Becomes, IsPlaneRequest
<1> QED
  BY <1>3

LEMMA AnswersWith ==
  ASSUME PlaneInv, NEW r, r \in PlaneRequest, NEW status, Answers(r, status)
  PROVE  \E q : Concluded(r, q, status)
<1> DEFINE y == [NoRequest EXCEPT !.pc = "answered", !.status = status,
                   !.account = request[r].account, !.what = request[r].what,
                   !.license = request[r].license, !.owed = request[r].owed,
                   !.stale = request[r].stale]
<1>1. PICK q : q = y
  OBVIOUS
<1>2. Concluded(r, q, status)
  BY <1>1 DEF Concluded, Answers, Becomes, IsPlaneRequest, NoRequest
<1> QED
  BY <1>2

\* A refusal leaves nothing to show of a grant or a login.
LEMMA Refused ==
  ASSUME NEW q, q.pc = "answered", q.status \in {400, 401, 403, 409, 500}
  PROVE  (\A g : Granting(g, q)) /\ Joining(q) /\ Entering(q)
  BY DEF Granting, Joining, Entering, Past

LEMMA RefusesPlane ==
  ASSUME PlaneInv, NEW r \in Grant \cup Login,
         NEW status \in {400, 401, 403, 409, 500},
         Answers(r, status), UNCHANGED <<tables, revoked>>,
         clock' \in {clock, clock + 1}
  PROVE  PlaneInv'
<1>1. r \in PlaneRequest /\ r \notin Read
  BY Kinds
<1>2. PICK q : Concluded(r, q, status)
  BY <1>1, AnswersWith
<1>3. (\A g : Granting(g, q)) /\ Joining(q) /\ Entering(q)
  BY <1>2, Refused DEF Concluded
<1>4. q.at \in 0 .. clock'
  BY <1>2 DEF Concluded, PlaneInv, PlaneTypes
<1> QED
  BY <1>1, <1>2, <1>3, <1>4, Quietly DEF Concluded

LEMMA RefusesStep ==
  ASSUME PlaneInv, NEW r \in PlaneRequest, Refuses(r)
  PROVE  PlaneInv'
<1>1. r \in Grant \cup Login
  BY DEF Refuses, PlaneRequest, Grant
<1>2. \E status \in {400, 401, 403, 409, 500} : Answers(r, status)
  BY DEF Refuses
<1> QED
  BY <1>1, <1>2, RefusesPlane DEF Refuses

LEMMA Failed ==
  ASSUME NEW status, NEW q,
         q = [NoRequest EXCEPT !.pc = "answered", !.status = status]
  PROVE  /\ IsPlaneRequest(q) /\ q.at = 0
         /\ q.pc = "answered" /\ q.status = status
         /\ q.owed = {} /\ q.stale = {} /\ q.license = None
  BY DEF NoRequest, IsPlaneRequest

LEMMA QueryFailsStep ==
  ASSUME PlaneInv, NEW r \in PlaneRequest, QueryFails(r)
  PROVE  PlaneInv'
<1>0. PICK status : status = 500
  OBVIOUS
<1>1. PICK q : q = [NoRequest EXCEPT !.pc = "answered", !.status = status]
  OBVIOUS
<1>2. /\ Becomes(r, q) /\ IsPlaneRequest(q) /\ q.at = 0
      /\ q.pc = "answered" /\ q.status = 500
      /\ q.owed = {} /\ q.stale = {}
  <2>1. Becomes(r, q)
    BY <1>0, <1>1 DEF QueryFails
  <2>2. /\ IsPlaneRequest(q) /\ q.at = 0
        /\ q.pc = "answered" /\ q.status = status
        /\ q.owed = {} /\ q.stale = {}
    BY <1>1, Failed
  <2> QED
    BY <1>0, <2>1, <2>2
<1>3. (\A g : Granting(g, q)) /\ Joining(q) /\ Entering(q)
  BY <1>2, Refused
<1>4. Reading(q)
  BY <1>2 DEF Reading
<1>5. q.at \in 0 .. clock'
  BY <1>2 DEF QueryFails, PlaneInv, PlaneTypes
<1> QED
  BY <1>2, <1>3, <1>4, <1>5, Quietly DEF QueryFails

-----------------------------------------------------------------------------
(* Sign-ups and provisionings.                                             *)

LEMMA SignupLooksUpStep ==
  ASSUME PlaneInv, NEW r \in Signup, SignupLooksUp(r)
  PROVE  PlaneInv'
<1>1. r \in Grant /\ r \in PlaneRequest /\ r \notin Sso /\ r \notin Provision
      /\ r \notin Login /\ r \notin Read /\ r \in Local
  BY Kinds DEF Grant, Local
<1>2. clock \in Nat
  BY DEF PlaneInv, PlaneTypes
<1>3. CASE Answers(r, 409) /\ UNCHANGED clock
  BY <1>1, <1>3, RefusesPlane DEF SignupLooksUp
<1>4. CASE /\ Becomes(r, [NoRequest EXCEPT !.pc = "account", !.account = r,
                                           !.at = clock, !.row = r])
           /\ clock' = clock + 1
  <2>1. PICK q : q = [NoRequest EXCEPT !.pc = "account", !.account = r,
                                       !.at = clock, !.row = r]
    OBVIOUS
  <2>2. /\ Becomes(r, q) /\ IsPlaneRequest(q) /\ q.at \in 0 .. clock'
        /\ q.pc = "account" /\ q.status = 0 /\ q.account = r /\ q.row = r
    <3>1. Becomes(r, q)
      BY <1>4, <2>1
    <3>2. /\ IsPlaneRequest(q) /\ q.at = clock
          /\ q.pc = "account" /\ q.status = 0 /\ q.account = r /\ q.row = r
      BY <2>1 DEF NoRequest, IsPlaneRequest
    <3> QED
      BY <1>2, <1>4, <3>1, <3>2
  <2>3. Granting(r, q)
    BY <1>1, <2>2 DEF Granting, Past, PasswordOf
  <2> QED
    BY <1>1, <1>4, <2>2, <2>3, Quietly DEF SignupLooksUp
<1> QED
  BY <1>3, <1>4 DEF SignupLooksUp

LEMMA ProvisionLooksUpStep ==
  ASSUME PlaneInv, NEW r \in Provision, ProvisionLooksUp(r)
  PROVE  PlaneInv'
<1>1. r \in Grant /\ r \in PlaneRequest /\ r \notin Sso /\ r \notin Signup
      /\ r \notin Login /\ r \notin Read /\ r \in Local
  BY Kinds DEF Grant, Local
<1>2. clock \in Nat
  BY DEF PlaneInv, PlaneTypes
<1>3. PICK id \in IF Registered = {} THEN {r} ELSE Registered :
        Becomes(r, [NoRequest EXCEPT
          !.pc = "account", !.account = id, !.at = clock,
          !.row = PasswordFor({accounts[a] : a \in Registered})])
  BY DEF ProvisionLooksUp
<1>4. id \in Local
  BY <1>1, <1>3 DEF Registered
<1>5. PasswordFor({accounts[a] : a \in Registered}) = PasswordOf(id)
  <2>1. CASE Registered = {}
    BY <1>1, <1>3, <2>1 DEF PasswordFor, PasswordOf
  <2>2. CASE Registered # {}
    <3>1. id \in Registered /\ \A a \in Registered : a = id
      BY <1>3, <2>2 DEF PlaneInv, Accounts
    <3>2. accounts[id] = PasswordOf(id)
      BY <3>1, Ids DEF Registered, Exists, PlaneInv, Accounts
    <3>3. {accounts[a] : a \in Registered} = {PasswordOf(id)}
      BY <3>1, <3>2
    <3> QED
      BY <3>3 DEF PasswordFor
  <2> QED
    BY <2>1, <2>2
<1>6. PICK q : q = [NoRequest EXCEPT
                      !.pc = "account", !.account = id, !.at = clock,
                      !.row = PasswordFor({accounts[a] : a \in Registered})]
  OBVIOUS
<1>7. clock' = clock + 1 /\ UNCHANGED <<tables, revoked>>
  BY DEF ProvisionLooksUp
<1>8. /\ Becomes(r, q) /\ IsPlaneRequest(q) /\ q.at \in 0 .. clock'
      /\ q.pc = "account" /\ q.status = 0 /\ q.account = id
      /\ q.row = PasswordOf(id)
  <2>1. Becomes(r, q)
    BY <1>3, <1>6
  <2>2. /\ IsPlaneRequest(q) /\ q.at = clock
        /\ q.pc = "account" /\ q.status = 0 /\ q.account = id
        /\ q.row = PasswordOf(id)
    BY <1>5, <1>6 DEF NoRequest, IsPlaneRequest
  <2> QED
    BY <1>2, <1>7, <2>1, <2>2
<1>9. Granting(r, q)
  BY <1>1, <1>4, <1>8 DEF Granting, Past
<1> QED
  BY <1>1, <1>7, <1>8, <1>9, Quietly

\* An account is saved with its password.
LEMMA SavesPassword ==
  ASSUME PlaneInv, NEW id \in Account, NEW row, row = PasswordOf(id),
         id \in Local => Registered \ {id} = {},
         accounts' = [accounts EXCEPT ![id] = row],
         UNCHANGED <<licenses, quotas, members, clock, revoked>>
  PROVE  Grows /\ Accounts' /\ Licenses' /\ Exists(id)'
<1>1. /\ accounts' = [a \in Account |-> accounts'[a]]
      /\ accounts'[id] = row
      /\ \A a \in Account \ {id} : accounts'[a] = accounts[a]
  BY DEF PlaneInv, PlaneTypes
<1>2. row # None
  BY Ids DEF PasswordOf, None
<1>3. \A a \in Account : Exists(a) => accounts'[a] = accounts[a]
  BY <1>1 DEF Exists, PlaneInv, Accounts
<1>4. clock \in Nat
  BY DEF PlaneInv, PlaneTypes
<1>5. Grows
  BY <1>1, <1>3, <1>4 DEF Grows
<1>6. Accounts'
  <2>1. \A a \in Account : accounts'[a] \in {None, PasswordOf(a)}
    BY <1>1 DEF PlaneInv, Accounts
  <2>2. \A a \in members' : a \in Account /\ Exists(a)'
    BY <1>3 DEF Exists, PlaneInv, Accounts
  <2>3. \A a, b \in Registered' : a = b
    <3>1. Registered' \subseteq Registered \cup {id}
      BY <1>1, Ids DEF Registered, Exists
    <3>2. CASE id \in Local
      BY <3>1, <3>2
    <3>3. CASE id \notin Local
      <4>1. Registered' \subseteq Registered
        BY <3>1, <3>3 DEF Registered
      <4> QED
        BY <4>1 DEF PlaneInv, Accounts
    <3> QED
      BY <3>2, <3>3
  <2> QED
    BY <2>1, <2>2, <2>3 DEF Accounts
<1>7. Licenses'
  BY DEF PlaneInv, Licenses
<1> QED
  BY <1>1, <1>2, <1>5, <1>6, <1>7 DEF Exists

LEMMA SavesAccountStep ==
  ASSUME PlaneInv, NEW r \in Local, NEW next,
         \/ r \in Signup /\ next = "signup"
         \/ r \in Provision /\ next = "license",
         SavesAccount(r, next)
  PROVE  PlaneInv'
<1>1. r \in Grant /\ r \in PlaneRequest /\ r \notin Sso
      /\ r \notin Login /\ r \notin Read
  BY Kinds DEF Grant, Local
<1>2. Granting(r, request[r])
  BY <1>1 DEF PlaneInv
<1> DEFINE id == request[r].account
<1>3. /\ id \in Local /\ request[r].row = PasswordOf(id)
      /\ request[r].status = 0 /\ id \in Account
      /\ r \in Signup => id = r
  BY <1>2, Ids DEF SavesAccount, At, Granting, Past
<1>4. CASE Answers(r, 500) /\ UNCHANGED accounts
  BY <1>1, <1>4, RefusesPlane DEF SavesAccount, tables
<1>5. CASE /\ Registered \ {id} = {}
           /\ accounts' = [accounts EXCEPT ![id] = request[r].row]
           /\ Proceeds(r, next)
  <2>1. UNCHANGED <<licenses, quotas, members, clock, revoked>>
    BY DEF SavesAccount
  <2>2. PICK a : a = id
    OBVIOUS
  <2>3. Grows /\ Accounts' /\ Licenses' /\ Exists(a)'
    BY <1>3, <1>5, <2>1, <2>2, SavesPassword
  <2>4. PICK q : Stepped(r, q, next)
    BY <1>1, <1>5, ProceedsTo
  <2>5. /\ q.pc \in {"signup", "license"} /\ q.status = 0 /\ q.account = a
        /\ q.at \in 0 .. clock'
    BY <1>1, <1>3, <2>1, <2>2, <2>4 DEF Stepped, PlaneInv, PlaneTypes
  <2>6. Granting(r, q)'
    BY <1>1, <1>3, <2>2, <2>3, <2>5 DEF Granting, Past
  <2> QED
    BY <1>1, <2>3, <2>4, <2>5, <2>6, Becoming DEF Stepped
<1> QED
  BY <1>3, <1>4, <1>5 DEF SavesAccount, UpsertAccount

LEMMA RecordsSignupStep ==
  ASSUME PlaneInv, NEW r \in Signup, RecordsSignup(r)
  PROVE  PlaneInv'
<1>1. r \in Grant /\ r \in PlaneRequest /\ r \notin Sso
      /\ r \notin Login /\ r \notin Read
  BY Kinds DEF Grant
<1>2. Granting(r, request[r])
  BY <1>1 DEF PlaneInv
<1>3. PICK q : Stepped(r, q, "license")
  BY <1>1, ProceedsTo DEF RecordsSignup
<1>4. q.at \in 0 .. clock'
  BY <1>1, <1>3 DEF RecordsSignup, Stepped, PlaneInv, PlaneTypes
<1>5. Granting(r, q)
  BY <1>1, <1>2, <1>3 DEF RecordsSignup, At, Stepped, Granting, Past
<1> QED
  BY <1>1, <1>3, <1>4, <1>5, Quietly DEF RecordsSignup, Stepped

-----------------------------------------------------------------------------
(* What every grant does.                                                  *)

LEMMA UpsertLicenseStep ==
  ASSUME PlaneInv, NEW r \in Grant, NEW token,
         token = TokenFor(r, request[r].account), UpsertLicense(r, token)
  PROVE  PlaneInv'
<1>1. r \in PlaneRequest /\ r \notin Login /\ r \notin Read
  BY Kinds
<1>2. /\ Granting(r, request[r]) /\ request[r].pc = "license"
      /\ request[r].status = 0
  BY DEF PlaneInv, UpsertLicense, At, Granting
<1>3. PICK a : a = request[r].account
  OBVIOUS
<1>4. UNCHANGED <<accounts, quotas, members, clock, revoked>>
  BY DEF UpsertLicense
<1>5. CASE Answers(r, 500) /\ UNCHANGED licenses
  BY <1>4, <1>5, RefusesPlane DEF tables
<1>6. CASE /\ token \notin {l.token : l \in licenses}
           /\ licenses' = licenses \cup
                {[account |-> request[r].account, token |-> token,
                  at |-> request[r].at, active |-> TRUE]}
           /\ Proceeds(r, "quota")
  <2>1. PICK n : n = [account |-> a, token |-> token,
                      at |-> request[r].at, active |-> TRUE]
    OBVIOUS
  <2>2. /\ IsLicense(n) /\ n.account = a /\ n.token = token
        /\ n.at = request[r].at /\ n.active = TRUE
    BY <2>1 DEF IsLicense
  <2>3. licenses' = licenses \cup {n}
    BY <1>3, <1>6, <2>1
  <2>4. token \in Local \cup User
    <3>1. /\ r \in Signup => a = r
          /\ r \in Sso => a \in User
      BY <1>2, <1>3 DEF Granting, Past
    <3> QED
      BY <1>3, <3>1 DEF Grant, TokenFor, SsoToken, Local
  <2>5. token \notin revoked
    BY <1>6 DEF PlaneInv, Licenses
  <2>6. request[r].at \in 0 .. clock /\ clock \in Nat
    BY <1>1 DEF PlaneInv, PlaneTypes
  <2>7. Licenses'
    <3>1. ASSUME NEW l \in licenses'
          PROVE  /\ IsLicense(l)
                 /\ l.token \in Local \cup User
                 /\ l.at \in 0 .. clock'
                 /\ l.active <=> l.token \notin revoked'
      <4>1. CASE l = n
        BY <1>4, <2>2, <2>4, <2>5, <2>6, <4>1
      <4>2. CASE l \in licenses
        BY <1>4, <4>2 DEF PlaneInv, Licenses
      <4> QED
        BY <2>3, <4>1, <4>2
    <3>2. \A l, m \in licenses' : l.token = m.token => l = m
      BY <1>6, <2>2, <2>3 DEF PlaneInv, Licenses
    <3>3. \A t \in revoked' : \E l \in licenses' : l.token = t
      BY <1>4, <2>3 DEF PlaneInv, Licenses
    <3> QED
      BY <3>1, <3>2, <3>3 DEF Licenses
  <2>8. Accounts'
    BY <1>4 DEF PlaneInv, Accounts, Registered, Exists
  <2>9. Grows
    BY <1>4, <2>3, <2>6 DEF PlaneInv, PlaneTypes, Grows
  <2>10. PICK q : Stepped(r, q, "quota")
    BY <1>1, <1>6, ProceedsTo
  <2>11. PICK x : x = request[r]
    OBVIOUS
  <2>12. Granting(r, x)'
    BY <1>2, <2>9, <2>11, GrantingStays
  <2>13. \E l \in licenses' :
           l.account = q.account /\ l.token = TokenFor(r, q.account)
    BY <1>3, <2>2, <2>3, <2>10 DEF Stepped
  <2>14. Granting(r, q)'
    BY <1>2, <2>10, <2>11, <2>12, <2>13 DEF Stepped, Granting, Past
  <2>15. Joining(q)'
    BY <2>10 DEF Stepped, Joining
  <2>16. q.at \in 0 .. clock'
    BY <1>4, <2>6, <2>10 DEF Stepped
  <2> QED
    BY <1>1, <2>7, <2>8, <2>9, <2>10, <2>14, <2>15, <2>16, Becoming DEF Stepped
<1> QED
  BY <1>5, <1>6 DEF UpsertLicense

LEMMA UpsertQuotaStep ==
  ASSUME PlaneInv, NEW r \in Grant, UpsertQuota(r)
  PROVE  PlaneInv'
<1>1. r \in PlaneRequest /\ r \notin Login /\ r \notin Read
  BY Kinds
<1>2. /\ Granting(r, request[r]) /\ request[r].pc = "quota"
      /\ request[r].status = 0
  BY DEF PlaneInv, UpsertQuota, At, Granting
<1>3. /\ quotas' = quotas \cup {request[r].account}
      /\ UNCHANGED <<accounts, licenses, members, clock, revoked>>
  BY DEF UpsertQuota
<1>4. /\ request[r].at \in 0 .. clock /\ clock \in Nat
  BY <1>1 DEF PlaneInv, PlaneTypes
<1>5. Grows
  BY <1>3, <1>4 DEF PlaneInv, PlaneTypes, Grows
<1>6. Accounts'
  BY <1>3 DEF PlaneInv, Accounts, Registered, Exists
<1>7. Licenses'
  BY <1>3 DEF PlaneInv, Licenses
<1>8. PICK q : Stepped(r, q, "record")
  BY <1>1, ProceedsTo DEF UpsertQuota
<1>9. PICK x : x = request[r]
  OBVIOUS
<1>10. Granting(r, x)'
  BY <1>2, <1>5, <1>9, GrantingStays
<1>11. Granting(r, q)'
  BY <1>2, <1>3, <1>8, <1>9, <1>10 DEF Stepped, Granting, Past
<1>12. Joining(q)'
  BY <1>8 DEF Stepped, Joining
<1>13. q.at \in 0 .. clock'
  BY <1>3, <1>4, <1>8 DEF Stepped
<1> QED
  BY <1>1, <1>5, <1>6, <1>7, <1>8, <1>11, <1>12, <1>13, Becoming DEF Stepped

LEMMA RecordsGrantStep ==
  ASSUME PlaneInv, NEW r \in Grant, RecordsGrant(r)
  PROVE  PlaneInv'
<1>1. r \in PlaneRequest /\ r \notin Login /\ r \notin Read
  BY Kinds
<1>2. /\ Granting(r, request[r]) /\ request[r].pc = "record"
  BY DEF PlaneInv, RecordsGrant, At
<1>3. PICK status \in {200, 201} : Answers(r, status)
  BY DEF RecordsGrant
<1>4. PICK q : Concluded(r, q, status)
  BY <1>1, <1>3, AnswersWith
<1>5. Granting(r, q)
  BY <1>2, <1>4 DEF Concluded, Granting, Past
<1>6. Joining(q)
  BY <1>4 DEF Concluded, Joining
<1>7. UNCHANGED <<tables, clock, revoked>> /\ clock \in Nat
  BY DEF RecordsGrant, PlaneInv, PlaneTypes
<1> QED
  BY <1>1, <1>4, <1>5, <1>6, <1>7, Quietly DEF Concluded

LEMMA GrantsStep ==
  ASSUME PlaneInv, NEW r \in Grant, NEW token,
         token = TokenFor(r, request[r].account), Grants(r, token)
  PROVE  PlaneInv'
  BY UpsertLicenseStep, UpsertQuotaStep, RecordsGrantStep DEF Grants

LEMMA SignsUpStep ==
  ASSUME PlaneInv, NEW r \in Signup, SignsUp(r)
  PROVE  PlaneInv'
<1>1. r \in Grant /\ r \in Local /\ r \notin Sso
  BY Kinds DEF Grant, Local
<1> QED
  BY <1>1, SignupLooksUpStep, SavesAccountStep, RecordsSignupStep, GrantsStep
  DEF SignsUp, TokenFor

LEMMA ProvisionsStep ==
  ASSUME PlaneInv, NEW r \in Provision, Provisions(r)
  PROVE  PlaneInv'
<1>1. r \in Grant /\ r \in Local /\ r \notin Sso
  BY Kinds DEF Grant, Local
<1> QED
  BY <1>1, ProvisionLooksUpStep, SavesAccountStep, GrantsStep
  DEF Provisions, TokenFor

-----------------------------------------------------------------------------
(* Logins.                                                                 *)

LEMMA LoginLooksUpStep ==
  ASSUME PlaneInv, NEW r \in Login, LoginLooksUp(r)
  PROVE  PlaneInv'
<1>1. r \in PlaneRequest /\ r \notin Grant /\ r \notin Sso /\ r \notin Read
  BY Kinds DEF Grant
<1>2. PICK password \in Signup \cup {"local"} :
        LET allowed == {a \in Registered : accounts[a] = password} IN
          Becomes(r, [NoRequest EXCEPT
            !.pc = "auth", !.what = password,
            !.account = IF allowed = {} THEN None
                        ELSE CHOOSE a \in allowed : TRUE])
  BY DEF LoginLooksUp
<1> DEFINE allowed == {a \in Registered : accounts[a] = password}
<1>3. PICK a : a = IF allowed = {} THEN None ELSE CHOOSE b \in allowed : TRUE
  OBVIOUS
<1>4. PICK q : q = [NoRequest EXCEPT !.pc = "auth", !.what = password,
                                     !.account = a]
  OBVIOUS
<1>5. Becomes(r, q)
  BY <1>2, <1>3, <1>4
<1>6. /\ IsPlaneRequest(q) /\ q.pc = "auth" /\ q.status = 0 /\ q.at = 0
      /\ q.what = password /\ q.account = a
  BY <1>4 DEF NoRequest, IsPlaneRequest
<1>7. a = None \/ a \in allowed
  BY <1>3
<1>8. Entering(q)
  BY <1>6, <1>7 DEF Entering, Registered
<1>9. UNCHANGED <<tables, clock, revoked>> /\ clock \in Nat
  BY DEF LoginLooksUp, PlaneInv, PlaneTypes
<1> QED
  BY <1>1, <1>5, <1>6, <1>8, <1>9, Quietly

LEMMA LoginRecordsStep ==
  ASSUME PlaneInv, NEW r \in Login, LoginRecords(r)
  PROVE  PlaneInv'
<1>1. r \in PlaneRequest /\ r \notin Grant /\ r \notin Sso /\ r \notin Read
  BY Kinds DEF Grant
<1>2. UNCHANGED <<tables, clock, revoked>> /\ clock \in Nat
  BY DEF LoginRecords, PlaneInv, PlaneTypes
<1>3. CASE request[r].account = None
  BY <1>2, <1>3, RefusesPlane DEF LoginRecords
<1>4. CASE request[r].account # None
  <2>1. PICK q : Concluded(r, q, 200)
    BY <1>1, <1>4, AnswersWith DEF LoginRecords
  <2>2. Entering(request[r])
    BY DEF PlaneInv
  <2>3. Entering(q)
    BY <1>4, <2>1, <2>2 DEF LoginRecords, At, Concluded, Entering
  <2> QED
    BY <1>1, <1>2, <2>1, <2>3, Quietly DEF Concluded
<1> QED
  BY <1>3, <1>4

-----------------------------------------------------------------------------
(* SSO logins.                                                             *)

LEMMA IdentifiesStep ==
  ASSUME PlaneInv, NEW r \in Sso, Identifies(r)
  PROVE  PlaneInv'
<1>1. r \in PlaneRequest /\ r \notin Login /\ r \notin Read
  BY Kinds DEF Grant
<1>2. PICK user \in User :
        Becomes(r, [NoRequest EXCEPT
          !.pc = "find", !.account = user, !.at = clock,
          !.todo = <<user>> \o TeamOf(user)])
  BY DEF Identifies
<1>3. PICK todo : todo = <<user>> \o TeamOf(user)
  OBVIOUS
<1>4. PICK q : q = [NoRequest EXCEPT !.pc = "find", !.account = user,
                                     !.at = clock, !.todo = todo]
  OBVIOUS
<1>5. Becomes(r, q)
  BY <1>2, <1>3, <1>4
<1>6. /\ IsPlaneRequest(q) /\ q.pc = "find" /\ q.status = 0 /\ q.at = clock
      /\ q.account = user /\ q.todo = todo
  BY <1>4 DEF NoRequest, IsPlaneRequest
<1>7. todo = <<user, user, Reviewer>>
  <2>1. PICK reviewer : reviewer = Reviewer
    OBVIOUS
  <2>2. todo = <<user>> \o <<user, reviewer>>
    BY <1>3, <2>1 DEF TeamOf
  <2>3. <<user>> \o <<user, reviewer>> = <<user, user, reviewer>>
    <3> DEFINE Both == {user, reviewer}
    <3>1. /\ <<user>> \in Seq(Both) /\ <<user, reviewer>> \in Seq(Both)
          /\ <<user, user, reviewer>> \in Seq(Both)
      OBVIOUS
    <3>2. PICK s : s = <<user>> \o <<user, reviewer>>
      OBVIOUS
    <3>3. /\ s \in Seq(Both) /\ Len(s) = 3
          /\ s[1] = user /\ s[2] = user /\ s[3] = reviewer
      BY <3>1, <3>2
    <3>4. PICK u : u = <<user, user, reviewer>>
      OBVIOUS
    <3>5. /\ u \in Seq(Both) /\ Len(u) = 3
          /\ u[1] = user /\ u[2] = user /\ u[3] = reviewer
      BY <3>1, <3>4
    <3>6. \A i \in 1 .. Len(s) : s[i] = u[i]
      BY <3>3, <3>5
    <3>7. s = u
      BY <3>3, <3>5, <3>6, SeqEqual
    <3> QED
      BY <3>2, <3>4, <3>7
  <2> QED
    BY <2>1, <2>2, <2>3
<1>8. Joining(q)
  BY <1>6, <1>7 DEF Joining
<1>9. Granting(r, q)
  BY <1>6 DEF Granting, Past
<1>10. /\ UNCHANGED <<tables, revoked>> /\ clock' = clock + 1
       /\ clock \in Nat
  BY DEF Identifies, PlaneInv, PlaneTypes
<1>11. q.at \in 0 .. clock'
  BY <1>6, <1>10
<1> QED
  BY <1>1, <1>5, <1>6, <1>8, <1>9, <1>10, <1>11, Quietly

\* The account that an SSO login is at: the user's, or the reviewer's.
LEMMA JoiningOf ==
  ASSUME NEW q, Joining(q), q.pc \in {"find", "upsert", "member"}
  PROVE  /\ q.account \in User
         /\ Head(q.todo) \in {q.account, Reviewer}
         /\ Head(q.todo) \in Account /\ Head(q.todo) \notin Local
         /\ PasswordOf(Head(q.todo)) = "local"
<1>1. q.account \in User /\ Head(q.todo) \in {q.account, Reviewer}
  BY DEF Joining
<1> QED
  BY <1>1, Ids DEF PasswordOf

LEMMA FindsAccountStep ==
  ASSUME PlaneInv, NEW r \in Sso, FindsAccount(r)
  PROVE  PlaneInv'
<1>1. r \in PlaneRequest /\ r \in Grant /\ r \notin Login /\ r \notin Read
  BY Kinds DEF Grant
<1>2. PICK x : x = request[r]
  OBVIOUS
<1>3. /\ Joining(x) /\ x.pc = "find" /\ x.status = 0 /\ IsPlaneRequest(x)
      /\ x.at \in 0 .. clock
  BY <1>1, <1>2
  DEF PlaneInv, PlaneTypes, FindsAccount, At, Granting
<1>4. PICK a : a = Head(x.todo)
  OBVIOUS
<1>5. a \in Account /\ PasswordOf(a) = "local"
  BY <1>3, <1>4, JoiningOf
<1>6. PICK row : row = IF Exists(a) THEN accounts[a] ELSE "local"
  OBVIOUS
<1>7. row = "local"
  BY <1>5, <1>6 DEF Exists, PlaneInv, Accounts
<1>8. PICK q : q = [x EXCEPT !.pc = "upsert", !.row = row]
  OBVIOUS
<1>9. Becomes(r, q)
  BY <1>2, <1>4, <1>6, <1>8 DEF FindsAccount
<1>10. /\ IsPlaneRequest(q) /\ q.pc = "upsert" /\ q.row = row
       /\ q.status = x.status /\ q.account = x.account /\ q.todo = x.todo
       /\ q.at = x.at
  BY <1>3, <1>8 DEF IsPlaneRequest
<1>11. Joining(q)
  BY <1>3, <1>7, <1>10 DEF Joining
<1>12. Granting(r, q)
  BY <1>3, <1>10 DEF Granting, Past
<1>13. UNCHANGED <<tables, clock, revoked>>
  BY DEF FindsAccount
<1> QED
  BY <1>1, <1>3, <1>9, <1>10, <1>11, <1>12, <1>13, Quietly

LEMMA SavesMemberStep ==
  ASSUME PlaneInv, NEW r \in Sso, SavesMember(r)
  PROVE  PlaneInv'
<1>1. r \in PlaneRequest /\ r \in Grant /\ r \notin Login /\ r \notin Read
  BY Kinds DEF Grant
<1>2. PICK x : x = request[r]
  OBVIOUS
<1>3. /\ Joining(x) /\ x.pc = "upsert" /\ x.status = 0 /\ x.row = "local"
      /\ x.at \in 0 .. clock
  BY <1>1, <1>2
  DEF PlaneInv, PlaneTypes, SavesMember, At, Granting, Joining
<1>4. PICK a : a = Head(x.todo)
  OBVIOUS
<1>5. a \in Account /\ a \notin Local /\ PasswordOf(a) = "local"
  BY <1>3, <1>4, JoiningOf
<1>6. UNCHANGED <<licenses, quotas, members, clock, revoked>>
  BY DEF SavesMember
<1>7. /\ accounts' = [accounts EXCEPT ![a] = x.row]
      /\ Proceeds(r, "member")
  BY <1>2, <1>4, <1>5 DEF SavesMember, UpsertAccount
<1>8. Grows /\ Accounts' /\ Licenses' /\ Exists(a)'
  BY <1>3, <1>5, <1>6, <1>7, SavesPassword
<1>9. PICK q : Stepped(r, q, "member")
  BY <1>1, <1>7, ProceedsTo
<1>10. Joining(x)'
  BY <1>3, <1>8, JoiningStays
<1>11. /\ q.pc = "member" /\ q.status = 0 /\ q.account = x.account
       /\ q.todo = x.todo /\ q.at = x.at
  BY <1>2, <1>3, <1>9 DEF Stepped
<1>12. Joining(q)'
  BY <1>3, <1>4, <1>8, <1>10, <1>11 DEF Joining
<1>13. Granting(r, q)'
  BY <1>11 DEF Granting, Past
<1> QED
  BY <1>1, <1>3, <1>6, <1>8, <1>9, <1>11, <1>12, <1>13, Becoming DEF Stepped

LEMMA JoinsTeamStep ==
  ASSUME PlaneInv, NEW r \in Sso, JoinsTeam(r)
  PROVE  PlaneInv'
<1>1. r \in PlaneRequest /\ r \in Grant /\ r \notin Login /\ r \notin Read
  BY Kinds DEF Grant
<1>2. PICK x : x = request[r]
  OBVIOUS
<1>3. /\ Joining(x) /\ x.pc = "member" /\ x.status = 0 /\ IsPlaneRequest(x)
      /\ x.at \in 0 .. clock
  BY <1>1, <1>2
  DEF PlaneInv, PlaneTypes, JoinsTeam, At, Granting
<1>4. PICK a : a = Head(x.todo)
  OBVIOUS
<1>5. a \in Account /\ Exists(a) /\ x.account \in User
  BY <1>3, <1>4, JoiningOf DEF Joining
<1>6. /\ members' = IF Len(x.todo) = 3 THEN members ELSE members \cup {a}
      /\ UNCHANGED <<accounts, licenses, quotas, clock, revoked>>
  BY <1>2, <1>4 DEF JoinsTeam
<1>7. Grows
  BY <1>6 DEF PlaneInv, PlaneTypes, Grows
<1>8. Accounts'
  BY <1>5, <1>6 DEF PlaneInv, Accounts, Registered, Exists
<1>9. Licenses'
  BY <1>6 DEF PlaneInv, Licenses
<1>10. PICK next : next = IF Len(x.todo) = 1 THEN "license" ELSE "find"
  OBVIOUS
<1>11. PICK todo : todo = Tail(x.todo)
  OBVIOUS
<1>12. PICK q : q = [x EXCEPT !.pc = next, !.todo = todo]
  OBVIOUS
<1>13. Becomes(r, q)
  BY <1>2, <1>10, <1>11, <1>12 DEF JoinsTeam
<1>14. /\ IsPlaneRequest(q) /\ q.pc = next /\ q.todo = todo
       /\ q.status = 0 /\ q.account = x.account /\ q.at = x.at
  BY <1>3, <1>12 DEF IsPlaneRequest
<1>15. Joining(q)' /\ Granting(r, q)'
  <2>1. r \notin Signup /\ r \notin Provision
    BY Kinds
  <2>2. PICK u : u = x.account
    OBVIOUS
  <2>3. u \in User /\ u \in Account
    BY <1>5, <2>2, Ids
  <2>4. Exists(u) => Exists(u)'
    BY <1>7, <2>3, ExistsStays
  <2>5. CASE x.todo = <<u, u, Reviewer>>
    <3>1. a = u /\ Len(x.todo) = 3 /\ todo = <<u, Reviewer>>
      BY <1>4, <1>11, <2>5
    <3>2. next = "find"
      BY <1>10, <3>1
    <3>3. Joining(q)'
      BY <1>5, <1>14, <2>2, <2>3, <2>4, <3>1, <3>2 DEF Joining
    <3>4. Granting(r, q)'
      BY <1>14, <3>2 DEF Granting, Past
    <3> QED
      BY <3>3, <3>4
  <2>6. CASE x.todo = <<u, Reviewer>> /\ Exists(u)
    <3>1. a = u /\ Len(x.todo) = 2 /\ todo = <<Reviewer>>
      BY <1>4, <1>11, <2>6
    <3>2. next = "find" /\ u \in members'
      BY <1>6, <1>10, <3>1
    <3>3. Joining(q)'
      BY <1>14, <2>2, <2>3, <2>4, <2>6, <3>1, <3>2 DEF Joining
    <3>4. Granting(r, q)'
      BY <1>14, <3>2 DEF Granting, Past
    <3> QED
      BY <3>3, <3>4
  <2>7. CASE x.todo = <<Reviewer>> /\ Exists(u) /\ u \in members
    <3>1. a = Reviewer /\ Len(x.todo) = 1
      BY <1>4, <2>7
    <3>2. next = "license" /\ u \in members' /\ Reviewer \in members'
      BY <1>6, <1>10, <2>7, <3>1
    <3>3. Joining(q)'
      BY <1>14, <3>2 DEF Joining
    <3>4. Granting(r, q)'
      BY <1>14, <2>1, <2>2, <2>3, <2>4, <2>7, <3>2 DEF Granting, Past
    <3> QED
      BY <3>3, <3>4
  <2> QED
    BY <1>3, <2>2, <2>5, <2>6, <2>7 DEF Joining
<1> QED
  BY <1>1, <1>3, <1>6, <1>7, <1>8, <1>9, <1>13, <1>14, <1>15, Becoming

LEMMA SignsInStep ==
  ASSUME PlaneInv, NEW r \in Sso, SignsIn(r)
  PROVE  PlaneInv'
<1>1. r \in Grant
  BY DEF Grant
<1>2. SsoToken(request[r].account) = TokenFor(r, request[r].account)
  BY DEF TokenFor
<1> QED
  BY <1>1, <1>2, IdentifiesStep, FindsAccountStep, SavesMemberStep,
     JoinsTeamStep, GrantsStep
  DEF SignsIn

-----------------------------------------------------------------------------
(* Requests with an access token.                                          *)

\* Of the licences of a finite past, one is the newest.
LEMMA NewestLicense ==
  ASSUME PlaneInv, NEW S, S \subseteq licenses, S # {}
  PROVE  \E l \in S : \A m \in S : m.at <= l.at
<1>1. clock \in Nat /\ \A l \in S : l.at \in 0 .. clock
  BY DEF PlaneInv, PlaneTypes, Licenses
<1> DEFINE Gaps == {clock - l.at : l \in S}
<1>2. Gaps \subseteq Nat /\ Gaps # {}
  BY <1>1
<1> DEFINE R == OpToRel(<, Nat)
<1>3. IsWellFoundedOn(R, Nat)
  BY NatLessThanWellFounded
<1>4. ASSUME NEW x \in Nat, NEW y \in Nat, x < y
      PROVE  <<x, y>> \in R
  BY <1>4 DEF OpToRel
<1> HIDE DEF R, Gaps
<1>5. PICK n \in Gaps : \A k \in Gaps : ~ (<<k, n>> \in R)
  BY <1>2, <1>3, WFMin
<1>6. \A k \in Gaps : n <= k
  <2>1. \A k \in Gaps : ~ (k < n)
    BY <1>2, <1>4, <1>5
  <2> QED
    BY <1>2, <2>1
<1>7. PICK l \in S : n = clock - l.at
  BY <1>5 DEF Gaps
<1>8. ASSUME NEW m \in S
      PROVE  m.at <= l.at
  <2>1. clock - m.at \in Gaps
    BY DEF Gaps
  <2>2. n <= clock - m.at
    BY <1>6, <2>1
  <2> QED
    BY <1>1, <1>7, <2>2
<1> QED
  BY <1>8

\* What getActiveLicense answers: a licence in force, if there is one.
LEMMA ActiveLicenseOf ==
  ASSUME PlaneInv, NEW a
  PROVE  /\ ActiveLicense(a) = None => Tokens(a) \subseteq revoked
         /\ ActiveLicense(a) # None => ActiveLicense(a) \notin revoked
<1> DEFINE active == {l \in licenses : l.account = a /\ l.active}
<1>1. CASE active = {}
  <2>1. ActiveLicense(a) = None
    BY <1>1 DEF ActiveLicense
  <2>2. \A l \in licenses : l.account = a => l.token \in revoked
    BY <1>1 DEF PlaneInv, Licenses
  <2> QED
    BY <2>1, <2>2 DEF Tokens
<1>2. CASE active # {}
  <2>1. \E l \in active : \A m \in active : m.at <= l.at
    BY <1>2, NewestLicense
  <2>2. PICK n : n = CHOOSE l \in active : \A m \in active : m.at <= l.at
    OBVIOUS
  <2>3. n \in active
    BY <2>1, <2>2
  <2>4. n.token \notin revoked /\ n.token \in Local \cup User
    BY <2>3 DEF PlaneInv, Licenses
  <2>5. ActiveLicense(a) = n.token
    BY <1>2, <2>2 DEF ActiveLicense
  <2>6. n.token # None
    BY <2>4, RoutesAssumption
  <2> QED
    BY <2>4, <2>5, <2>6
<1> QED
  BY <1>1, <1>2

\* An account with a licence that an answer granted has its quota.
LEMMA OwedOf ==
  ASSUME PlaneInv, NEW a
  PROVE  Owed(a) \subseteq Tokens(a) /\ (Owed(a) # {} => a \in quotas)
<1>1. Owed(a) \subseteq Tokens(a)
  BY DEF Owed, Tokens
<1>2. ASSUME Owed(a) # {}
      PROVE  a \in quotas
  <2>1. PICK g \in Grant : Succeeded(g) /\ request[g].account = a
    BY <1>2 DEF Owed
  <2> QED
    BY <2>1 DEF PlaneInv, Granting, Past, Succeeded
<1> QED
  BY <1>1, <1>2

LEMMA AuthenticatesStep ==
  ASSUME PlaneInv, NEW r \in Revoke \cup Read, NEW what,
         \/ r \in Revoke /\ what = "revoke"
         \/ r \in Read /\ what \in {"quota", "plan", "audit"},
         Authenticates(r, what)
  PROVE  PlaneInv'
<1>1. r \in PlaneRequest /\ r \notin Grant /\ r \notin Sso /\ r \notin Login
  BY Kinds DEF Grant
<1>2. r \in Read => what \in {"quota", "plan", "audit"}
  BY Kinds
<1>3. UNCHANGED <<tables, clock, revoked>> /\ clock \in Nat
  BY DEF Authenticates, PlaneInv, PlaneTypes
<1>4. CASE \E a \in Principal :
             Becomes(r, [NoRequest EXCEPT
               !.pc = what, !.account = a, !.what = what,
               !.owed = IF what = "audit" THEN members \cap {a} ELSE Owed(a),
               !.stale = revoked])
  <2>1. PICK a : Becomes(r, [NoRequest EXCEPT
                   !.pc = what, !.account = a, !.what = what,
                   !.owed = IF what = "audit" THEN members \cap {a}
                            ELSE Owed(a),
                   !.stale = revoked])
    BY <1>4
  <2>2. PICK owed : owed = IF what = "audit" THEN members \cap {a} ELSE Owed(a)
    OBVIOUS
  <2>3. PICK q : q = [NoRequest EXCEPT
                        !.pc = what, !.account = a, !.what = what,
                        !.owed = owed, !.stale = revoked]
    OBVIOUS
  <2>4. Becomes(r, q)
    BY <2>1, <2>2, <2>3
  <2>5. /\ IsPlaneRequest(q) /\ q.pc = what /\ q.status = 0 /\ q.at = 0
        /\ q.account = a /\ q.what = what /\ q.owed = owed
        /\ q.stale = revoked
    BY <2>3 DEF NoRequest, IsPlaneRequest
  <2>6. r \in Read => Reading(q)
    <3>1. SUFFICES ASSUME what \in {"quota", "plan", "audit"}
                   PROVE  Reading(q)
      BY <1>2
    <3>2. Owed(a) \subseteq Tokens(a) /\ (Owed(a) # {} => a \in quotas)
      BY OwedOf
    <3> QED
      BY <2>2, <2>5, <3>1, <3>2 DEF Reading
  <2> QED
    BY <1>1, <1>3, <2>4, <2>5, <2>6, Quietly
<1>5. CASE Becomes(r, [NoRequest EXCEPT
             !.pc = "answered", !.status = 401, !.what = what])
  <2>1. PICK status : status = 401
    OBVIOUS
  <2>2. PICK q : q = [NoRequest EXCEPT
                        !.pc = "answered", !.status = status, !.what = what]
    OBVIOUS
  <2>3. Becomes(r, q)
    BY <1>5, <2>1, <2>2
  <2>4. /\ IsPlaneRequest(q) /\ q.pc = "answered" /\ q.status = status
        /\ q.at = 0 /\ q.owed = {} /\ q.stale = {}
    BY <2>2 DEF NoRequest, IsPlaneRequest
  <2>5. Reading(q)
    BY <2>1, <2>4 DEF Reading
  <2> QED
    BY <1>1, <1>3, <2>3, <2>4, <2>5, Quietly
<1> QED
  BY <1>4, <1>5 DEF Authenticates

LEMMA RevokesLicensesStep ==
  ASSUME PlaneInv, NEW r \in Revoke, RevokesLicenses(r)
  PROVE  PlaneInv'
<1>1. /\ r \in PlaneRequest /\ r \notin Grant /\ r \notin Sso
      /\ r \notin Login /\ r \notin Read
  BY Kinds DEF Grant
<1>2. PICK a : a = request[r].account
  OBVIOUS
<1>3. /\ licenses' = {IF l.token \in Tokens(a)
                      THEN [l EXCEPT !.active = FALSE] ELSE l : l \in licenses}
      /\ revoked' = revoked \cup Tokens(a)
      /\ Proceeds(r, "revoked")
      /\ UNCHANGED <<accounts, quotas, members, clock>>
  BY <1>2 DEF RevokesLicenses, Revokes
<1>4. clock \in Nat /\ request[r].at \in 0 .. clock
  BY <1>1 DEF PlaneInv, PlaneTypes
<1>5. \A l \in licenses : \E m \in licenses' :
        m = IF l.token \in Tokens(a) THEN [l EXCEPT !.active = FALSE] ELSE l
  BY <1>3
<1>6. \A m \in licenses' : \E l \in licenses :
        m = IF l.token \in Tokens(a) THEN [l EXCEPT !.active = FALSE] ELSE l
  BY <1>3
<1>7. ASSUME NEW l \in licenses, NEW m,
             m = IF l.token \in Tokens(a) THEN [l EXCEPT !.active = FALSE]
                 ELSE l
      PROVE  /\ IsLicense(m) /\ m.account = l.account /\ m.token = l.token
             /\ m.at = l.at
             /\ m.active <=> m.token \notin revoked'
  <2>1. IsLicense(l) /\ (l.active <=> l.token \notin revoked)
    BY DEF PlaneInv, Licenses
  <2>2. CASE l.token \in Tokens(a)
    <3>1. m = [l EXCEPT !.active = FALSE]
      BY <1>7, <2>2
    <3>2. /\ IsLicense(m) /\ m.account = l.account /\ m.token = l.token
          /\ m.at = l.at /\ m.active = FALSE
      BY <2>1, <3>1 DEF IsLicense
    <3> QED
      BY <1>3, <2>2, <3>2
  <2>3. CASE l.token \notin Tokens(a)
    BY <1>3, <1>7, <2>1, <2>3
  <2> QED
    BY <2>2, <2>3
<1>8. \A l \in licenses : \E m \in licenses' :
        m.account = l.account /\ m.token = l.token
  BY <1>5, <1>7
<1>9. Grows
  <2>1. /\ accounts' = accounts /\ accounts = [b \in Account |-> accounts[b]]
        /\ quotas' = quotas /\ members' = members /\ clock' = clock
    BY <1>3 DEF PlaneInv, PlaneTypes
  <2>2. revoked \subseteq revoked'
    BY <1>3
  <2> QED
    BY <1>4, <1>8, <2>1, <2>2 DEF Grows
<1>10. Accounts'
  BY <1>3 DEF PlaneInv, Accounts, Registered, Exists
<1>11. Licenses'
  <2>1. ASSUME NEW m \in licenses'
        PROVE  /\ IsLicense(m)
               /\ m.token \in Local \cup User
               /\ m.at \in 0 .. clock'
               /\ m.active <=> m.token \notin revoked'
    <3>1. PICK l \in licenses :
            m = IF l.token \in Tokens(a) THEN [l EXCEPT !.active = FALSE]
                ELSE l
      BY <1>6
    <3>2. l.token \in Local \cup User /\ l.at \in 0 .. clock
      BY DEF PlaneInv, Licenses
    <3> QED
      BY <1>3, <1>7, <3>1, <3>2
  <2>2. ASSUME NEW m \in licenses', NEW n \in licenses', m.token = n.token
        PROVE  m = n
    <3>1. PICK l \in licenses :
            m = IF l.token \in Tokens(a) THEN [l EXCEPT !.active = FALSE]
                ELSE l
      BY <1>6
    <3>2. PICK k \in licenses :
            n = IF k.token \in Tokens(a) THEN [k EXCEPT !.active = FALSE]
                ELSE k
      BY <1>6
    <3>3. l.token = k.token
      BY <1>7, <2>2, <3>1, <3>2
    <3>4. l = k
      BY <3>3 DEF PlaneInv, Licenses
    <3> QED
      BY <3>1, <3>2, <3>4
  <2>3. ASSUME NEW t \in revoked'
        PROVE  \E m \in licenses' : m.token = t
    <3>1. PICK l \in licenses : l.token = t
      BY <1>3 DEF PlaneInv, Licenses, Tokens
    <3> QED
      BY <1>8, <3>1
  <2> QED
    BY <2>1, <2>2, <2>3 DEF Licenses
<1>12. PICK q : Stepped(r, q, "revoked")
  BY <1>1, <1>3, ProceedsTo
<1>13. q.at \in 0 .. clock'
  BY <1>3, <1>4, <1>12 DEF Stepped
<1> QED
  BY <1>1, <1>9, <1>10, <1>11, <1>12, <1>13, Becoming DEF Stepped

LEMMA RecordsRevocationStep ==
  ASSUME PlaneInv, NEW r \in Revoke, RecordsRevocation(r)
  PROVE  PlaneInv'
<1>1. /\ r \in PlaneRequest /\ r \notin Grant /\ r \notin Sso
      /\ r \notin Login /\ r \notin Read
  BY Kinds DEF Grant
<1>2. PICK q : Concluded(r, q, 200)
  BY <1>1, AnswersWith DEF RecordsRevocation
<1>3. UNCHANGED <<tables, clock, revoked>> /\ clock \in Nat
  BY DEF RecordsRevocation, PlaneInv, PlaneTypes
<1> QED
  BY <1>1, <1>2, <1>3, Quietly DEF Concluded

\* A read has asked for its licence.
Reads(r, license, next) ==
  Becomes(r, [request[r] EXCEPT !.license = license, !.pc = next])

LEMMA ReadsAs ==
  ASSUME PlaneInv, NEW r \in Read, NEW license, NEW next,
         Reads(r, license, next)
  PROVE  \E q :
           /\ Becomes(r, q) /\ IsPlaneRequest(q)
           /\ q.pc = next /\ q.license = license
           /\ q.at = request[r].at /\ q.status = request[r].status
           /\ q.account = request[r].account /\ q.what = request[r].what
           /\ q.owed = request[r].owed /\ q.stale = request[r].stale
<1>1. r \in PlaneRequest
  BY DEF PlaneRequest
<1>2. PICK x : x = request[r]
  OBVIOUS
<1>3. IsPlaneRequest(x)
  BY <1>1, <1>2 DEF PlaneInv, PlaneTypes
<1>4. PICK q : q = [x EXCEPT !.license = license, !.pc = next]
  OBVIOUS
<1>5. Becomes(r, q)
  BY <1>2, <1>4 DEF Reads
<1>6. /\ IsPlaneRequest(q)
      /\ q.pc = next /\ q.license = license
      /\ q.at = x.at /\ q.status = x.status
      /\ q.account = x.account /\ q.what = x.what
      /\ q.owed = x.owed /\ q.stale = x.stale
  BY <1>3, <1>4 DEF IsPlaneRequest
<1> QED
  BY <1>2, <1>5, <1>6

LEMMA ReadsLicenseStep ==
  ASSUME PlaneInv, NEW r \in Read, NEW what, NEW next,
         \/ what = "quota" /\ next = "row"
         \/ what = "plan" /\ next = "tell",
         ReadsLicense(r, what, next)
  PROVE  PlaneInv'
<1>1. /\ r \in PlaneRequest /\ r \notin Grant /\ r \notin Sso
      /\ r \notin Login
  BY Kinds DEF Grant
<1>2. /\ Reading(request[r]) /\ request[r].pc = what
      /\ request[r].at \in 0 .. clock
  BY <1>1 DEF PlaneInv, PlaneTypes, ReadsLicense, At
<1>3. PICK a : a = request[r].account
  OBVIOUS
<1>4. PICK license : license = ActiveLicense(a)
  OBVIOUS
<1>5. /\ license = None => Tokens(a) \subseteq revoked
      /\ license # None => license \notin revoked
  BY <1>4, ActiveLicenseOf
<1>6. PICK q :
        /\ Becomes(r, q) /\ IsPlaneRequest(q)
        /\ q.pc = next /\ q.license = license
        /\ q.at = request[r].at /\ q.status = request[r].status
        /\ q.account = a /\ q.what = request[r].what
        /\ q.owed = request[r].owed /\ q.stale = request[r].stale
  <2>1. Reads(r, license, next)
    BY <1>3, <1>4 DEF ReadsLicense, Reads
  <2> QED
    BY <1>3, <2>1, ReadsAs
<1>7. /\ request[r].status = 0 /\ request[r].what = what
      /\ request[r].stale \subseteq revoked
      /\ request[r].owed \subseteq Tokens(a)
      /\ what = "quota" /\ request[r].owed # {} => a \in quotas
  BY <1>2, <1>3 DEF Reading
<1>8. Reading(q)
  BY <1>5, <1>6, <1>7 DEF Reading
<1>9. UNCHANGED <<tables, clock, revoked>>
  BY DEF ReadsLicense
<1> QED
  BY <1>1, <1>2, <1>6, <1>8, <1>9, Quietly

LEMMA ReadsQuotaStep ==
  ASSUME PlaneInv, NEW r \in Read, ReadsQuota(r)
  PROVE  PlaneInv'
<1>1. /\ r \in PlaneRequest /\ r \notin Grant /\ r \notin Sso
      /\ r \notin Login
  BY Kinds DEF Grant
<1>2. /\ Reading(request[r]) /\ request[r].pc = "row"
      /\ request[r].at \in 0 .. clock
  BY <1>1 DEF PlaneInv, PlaneTypes, ReadsQuota, At
<1>3. UNCHANGED <<tables, clock, revoked>>
  BY DEF ReadsQuota
<1>4. CASE /\ request[r].account \in quotas
           /\ Proceeds(r, "tell")
  <2>1. PICK q : Stepped(r, q, "tell")
    BY <1>1, <1>4, ProceedsTo
  <2>2. Reading(q)
    BY <1>2, <2>1 DEF Reading, Stepped
  <2> QED
    BY <1>1, <1>2, <1>3, <2>1, <2>2, Quietly DEF Stepped
<1>5. CASE /\ request[r].account \notin quotas
           /\ Becomes(r, [request[r] EXCEPT !.pc = "tell", !.license = None])
  <2>1. Reads(r, None, "tell")
    <3>1. PICK x : x = request[r]
      OBVIOUS
    <3>2. [x EXCEPT !.pc = "tell", !.license = None]
            = [x EXCEPT !.license = None, !.pc = "tell"]
      OBVIOUS
    <3> QED
      BY <1>5, <3>1, <3>2 DEF Reads
  <2>2. PICK q :
          /\ Becomes(r, q) /\ IsPlaneRequest(q)
          /\ q.pc = "tell" /\ q.license = None
          /\ q.at = request[r].at /\ q.status = request[r].status
          /\ q.account = request[r].account /\ q.what = request[r].what
          /\ q.owed = request[r].owed /\ q.stale = request[r].stale
    BY <2>1, ReadsAs
  <2>3. request[r].owed = {}
    BY <1>2, <1>5 DEF Reading
  <2>4. Reading(q)
    BY <1>2, <2>2, <2>3 DEF Reading
  <2> QED
    BY <1>1, <1>2, <1>3, <2>2, <2>4, Quietly
<1> QED
  BY <1>4, <1>5 DEF ReadsQuota

LEMMA ReadsTeamStep ==
  ASSUME PlaneInv, NEW r \in Read, ReadsTeam(r)
  PROVE  PlaneInv'
<1>1. /\ r \in PlaneRequest /\ r \notin Grant /\ r \notin Sso
      /\ r \notin Login
  BY Kinds DEF Grant
<1>2. /\ Reading(request[r]) /\ request[r].pc = "audit"
      /\ request[r].at \in 0 .. clock
  BY <1>1 DEF PlaneInv, PlaneTypes, ReadsTeam, At
<1>3. UNCHANGED <<tables, clock, revoked>>
  BY DEF ReadsTeam
<1>4. PICK a : a = request[r].account
  OBVIOUS
<1>5. PICK license :
        license = IF a \in members /\ Exists(a) THEN "member" ELSE None
  OBVIOUS
<1>6. [request[r] EXCEPT !.pc = "tell", !.license = license]
        = [request[r] EXCEPT !.license = license, !.pc = "tell"]
  OBVIOUS
<1>7. Reads(r, license, "tell")
  BY <1>4, <1>5, <1>6 DEF ReadsTeam, Reads
<1>8. PICK q :
        /\ Becomes(r, q) /\ IsPlaneRequest(q)
        /\ q.pc = "tell" /\ q.license = license
        /\ q.at = request[r].at /\ q.status = request[r].status
        /\ q.account = request[r].account /\ q.what = request[r].what
        /\ q.owed = request[r].owed /\ q.stale = request[r].stale
  BY <1>7, ReadsAs
<1>9. license = None => request[r].owed = {}
  BY <1>2, <1>4, <1>5 DEF Reading, PlaneInv, Accounts, None
<1>10. license # None => license \notin revoked
  BY <1>5, RoutesAssumption DEF PlaneInv, Licenses
<1>11. Reading(q)
  BY <1>2, <1>8, <1>9, <1>10 DEF Reading
<1> QED
  BY <1>1, <1>2, <1>3, <1>8, <1>11, Quietly

LEMMA TellsStep ==
  ASSUME PlaneInv, NEW r \in Read, Tells(r)
  PROVE  PlaneInv'
<1>1. /\ r \in PlaneRequest /\ r \notin Grant /\ r \notin Sso
      /\ r \notin Login
  BY Kinds DEF Grant
<1>2. /\ Reading(request[r]) /\ request[r].pc = "tell"
      /\ clock \in Nat
  BY <1>1 DEF PlaneInv, PlaneTypes, Tells, At
<1>3. UNCHANGED <<tables, clock, revoked>>
  BY DEF Tells
<1>4. PICK status : status = IF request[r].license = None THEN 403 ELSE 200
  OBVIOUS
<1>5. PICK q : Concluded(r, q, status)
  BY <1>1, <1>4, AnswersWith DEF Tells
<1>6. Reading(q)
  BY <1>2, <1>4, <1>5 DEF Reading, Concluded
<1> QED
  BY <1>1, <1>2, <1>3, <1>5, <1>6, Quietly DEF Concluded

-----------------------------------------------------------------------------
(* The invariant, and what it says of the answers.                         *)

LEMMA PlaneStarts ==
  ASSUME PlaneInit
  PROVE  PlaneInv
<1>1. NoRequest.pc = "new" /\ NoRequest.status = 0 /\ NoRequest.at = 0
      /\ NoRequest.owed = {} /\ NoRequest.stale = {}
  BY DEF NoRequest
<1>2. IsPlaneRequest(NoRequest)
  BY DEF NoRequest, IsPlaneRequest
<1>3. \A r \in PlaneRequest : request[r] = NoRequest
  BY DEF PlaneInit
<1>4. PlaneTypes
  BY <1>1, <1>2, <1>3 DEF PlaneInit, PlaneTypes
<1>5. Accounts /\ Licenses
  BY Ids DEF PlaneInit, Accounts, Licenses, Registered, Exists
<1>6. /\ \A g : Granting(g, NoRequest)
      /\ Joining(NoRequest) /\ Entering(NoRequest)
  BY <1>1 DEF Granting, Joining, Entering, Past
<1>7. Reading(NoRequest)
  BY <1>1 DEF Reading
<1> QED
  BY <1>3, <1>4, <1>5, <1>6, <1>7, Kinds DEF PlaneInv, Grant

LEMMA PlaneStep ==
  ASSUME PlaneInv, [PlaneNext]_planeVars
  PROVE  PlaneInv'
<1>1. CASE UNCHANGED planeVars
  <2>1. UNCHANGED <<tables, revoked>> /\ request' = request /\ clock' = clock
    BY <1>1 DEF planeVars
  <2>2. Grows /\ Accounts' /\ Licenses'
    BY <2>1, SameTables
  <2>3. PlaneTypes'
    <3>1. \A r \in PlaneRequest :
            IsPlaneRequest(request'[r]) /\ request'[r].at \in 0 .. clock'
      BY <2>1 DEF PlaneInv, PlaneTypes
    <3>2. /\ accounts' = accounts
          /\ accounts = [a \in Account |-> accounts[a]]
          /\ request = [r \in PlaneRequest |-> request[r]]
          /\ clock \in Nat
      BY <2>1 DEF PlaneInv, PlaneTypes, tables
    <3> QED
      BY <2>1, <3>1, <3>2 DEF PlaneTypes
  <2>4. ASSUME NEW g \in Grant
        PROVE  Granting(g, request[g])'
    <3>1. PICK q : q = request[g]
      OBVIOUS
    <3> QED
      BY <2>1, <2>2, <3>1, GrantingStays DEF PlaneInv
  <2>5. ASSUME NEW g \in Sso
        PROVE  Joining(request[g])'
    <3>1. PICK q : q = request[g]
      OBVIOUS
    <3> QED
      BY <2>1, <2>2, <3>1, JoiningStays DEF PlaneInv
  <2>6. ASSUME NEW r \in Login
        PROVE  Entering(request[r])'
    <3>1. PICK q : q = request[r]
      OBVIOUS
    <3> QED
      BY <2>1, <2>2, <3>1, EnteringStays DEF PlaneInv
  <2>7. ASSUME NEW r \in Read
        PROVE  Reading(request[r])'
    <3>1. PICK q : q = request[r]
      OBVIOUS
    <3> QED
      BY <2>1, <2>2, <3>1, ReadingStays DEF PlaneInv
  <2> QED
    BY <2>2, <2>3, <2>4, <2>5, <2>6, <2>7 DEF PlaneInv
<1>2. ASSUME NEW r \in Revoke, RevokesLicense(r)
      PROVE  PlaneInv'
  BY <1>2, AuthenticatesStep, RevokesLicensesStep, RecordsRevocationStep
  DEF RevokesLicense
<1>3. ASSUME NEW r \in Read, AsksQuota(r) \/ AsksPlan(r) \/ AsksTeam(r)
      PROVE  PlaneInv'
  BY <1>3, AuthenticatesStep, ReadsLicenseStep, ReadsQuotaStep,
     ReadsTeamStep, TellsStep
  DEF AsksQuota, AsksPlan, AsksTeam
<1>4. ASSUME NEW r \in Login, LogsIn(r)
      PROVE  PlaneInv'
  BY <1>4, LoginLooksUpStep, LoginRecordsStep DEF LogsIn
<1> QED
  BY <1>1, <1>2, <1>3, <1>4, SignsUpStep, ProvisionsStep, SignsInStep,
     RefusesStep, QueryFailsStep
  DEF PlaneNext

LEMMA AnswersFollow ==
  ASSUME PlaneInv
  PROVE  AnswersHold
<1>1. ASSUME NEW g \in Grant, Succeeded(g)
      PROVE  /\ Exists(request[g].account)
             /\ request[g].account \in quotas
             /\ \E l \in licenses : /\ l.account = request[g].account
                                    /\ l.token = TokenOf(g)
             /\ g \in Signup => accounts[request[g].account] = g
             /\ g \in Sso => {request[g].account, Reviewer} \subseteq members
  <2>1. Granting(g, request[g]) /\ request[g].status \in {200, 201}
    BY <1>1 DEF PlaneInv, Succeeded
  <2>2. TokenFor(g, request[g].account) = TokenOf(g)
    BY DEF TokenFor, TokenOf
  <2>3. ASSUME g \in Signup
        PROVE  accounts[request[g].account] = g
    <3>1. request[g].account = g /\ Exists(g)
      BY <2>1, <2>3 DEF Granting, Past
    <3>2. accounts[g] = PasswordOf(g)
      BY <2>3, <3>1, Ids DEF PlaneInv, Accounts, Exists
    <3> QED
      BY <2>3, <3>1, <3>2 DEF PasswordOf
  <2> QED
    BY <2>1, <2>2, <2>3 DEF Granting, Past
<1>2. ASSUME NEW r \in Login, request[r].status = 200
      PROVE  accounts[request[r].account] = request[r].what
  BY <1>2 DEF PlaneInv, Entering
<1> QED
  BY <1>1, <1>2 DEF AnswersHold

LEMMA ServiceFollows ==
  ASSUME PlaneInv
  PROVE  ServedUntilRevoked
  BY DEF PlaneInv, Reading, ServedUntilRevoked

\* http.ts, the handlers of the control plane: whichever sign-ups,
\* provisionings, SSO logins and logins raced one another and wherever one of
\* them failed, an account that was granted in an answer is there with its
\* password, licence, quota and team, and a login is let in with the password
\* of the account.
THEOREM AnswersAreKept == PlaneSpec => []AnswersHold
<1>1. PlaneInit => PlaneInv
  BY PlaneStarts
<1>2. PlaneInv /\ [PlaneNext]_planeVars => PlaneInv'
  BY PlaneStep
<1>3. PlaneInv => AnswersHold
  BY AnswersFollow
<1> QED
  BY <1>1, <1>2, <1>3, PTL DEF PlaneSpec

\* http.ts, handlePlan, handleQuota, handleTeamAudit and handleRevokeLicense:
\* what an answer granted an account it is served until it revokes its
\* licence, and a request that authenticates after a revocation is not served
\* on a licence from before it, even with licences granted in between.
THEOREM ServiceEndsWithRevocation == PlaneSpec => []ServedUntilRevoked
<1>1. PlaneInit => PlaneInv
  BY PlaneStarts
<1>2. PlaneInv /\ [PlaneNext]_planeVars => PlaneInv'
  BY PlaneStep
<1>3. PlaneInv => ServedUntilRevoked
  BY ServiceFollows
<1> QED
  BY <1>1, <1>2, <1>3, PTL DEF PlaneSpec
=============================================================================
