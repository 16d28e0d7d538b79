-------------------------- MODULE ReefServerProofs --------------------------
(***************************************************************************)
(* The safety of ReefServer, for any number of clients, fleets, sessions   *)
(* and events and any capacity: the map never drops a session that runs,   *)
(* every stream is the whole session, and a fleet binds all of its work.   *)
(***************************************************************************)
EXTENDS ReefServer, FiniteSetTheorems, SequenceTheorems, TLAPS

Status == {"none", "running", "sealed"}

IsRecord(r) ==
  /\ r = [x \in {"status", "events", "disk", "ok"} |-> r[x]]
  /\ r.status \in Status
  /\ r.events \in Nat
  /\ r.ok \in BOOLEAN

\* A session's record, and when it can have one.
Records ==
  /\ counter \in 0 .. MaxStarts
  /\ record = [s \in Id |-> record[s]]
  /\ \A s \in Id :
       IsRecord(record[s]) /\ (s > counter => record[s].status = "none")

\* The map that lets in sessions: each session once, and no more than fit.
IsMap(map, n) ==
  /\ map \in Seq(1 .. n)
  /\ Len(map) <= MaxSessions
  /\ IsInjective(map)

Has(map, s) == \E i \in DOMAIN map : map[i] = s

\* Nothing that runs is missing from the map.
Holds(map) == \A s \in Id : Running(s) => Has(map, s)

Residents == IsMap(resident, counter) /\ Holds(resident)

\* Only a running session has subscribers, and only those who asked for it.
Subscribers ==
  /\ subscribers \in [Id -> SUBSET Client]
  /\ watching \in [Client -> 0 .. counter]
  /\ \A s \in Id : Cardinality(subscribers[s]) <= MaxSubscribers
  /\ \A s \in Id : \A c \in subscribers[s] : watching[c] = s /\ Running(s)

\* A stream: the hello and the first n events.
Upto(n) == <<Hello>> \o Events(n)

Live(c, s) == c \in subscribers[s] /\ frames[c] = Upto(record[s].events)
Cut(c, s) ==
  /\ c \notin subscribers[s]
  /\ \E k \in 0 .. record[s].events : frames[c] = Upto(k)
Whole(c, s) ==
  /\ c \notin subscribers[s]
  /\ frames[c] = Upto(record[s].events) \o <<Sealed>>
  /\ record[s].status = "sealed" /\ record[s].ok
  /\ c \in ended

Stream(c) ==
  watching[c] # 0 =>
    \/ Live(c, watching[c])
    \/ Cut(c, watching[c])
    \/ Whole(c, watching[c])

Streams ==
  /\ frames = [c \in Client |-> frames[c]]
  /\ \A c \in Client : Stream(c)

\* The link l of a fleet's ledger binds what session s came to.
Bound(l, s) == record[s].status = "sealed" /\ l = WorkerResult(s)

\* A fleet's sessions have all been started and were all found in the map, and
\* a ledger that was built binds all of them.
IsFleet(f) ==
  /\ fleets[f] = [x \in {"status", "ids", "waits", "ledger", "verified"} |->
                    fleets[f][x]]
  /\ fleets[f].ids \in Seq(1 .. counter)
  /\ fleets[f].status = "running" => fleets[f].waits = ToSet(fleets[f].ids)
  /\ fleets[f].verified =>
       /\ DOMAIN fleets[f].ledger = ToSet(fleets[f].ids)
       /\ \A s \in ToSet(fleets[f].ids) : Bound(fleets[f].ledger[s], s)

Fleets ==
  /\ fleets = [f \in Fleet |-> fleets[f]]
  /\ \A f \in Fleet : IsFleet(f)

IInv ==
  /\ Records
  /\ Residents
  /\ Subscribers
  /\ Streams
  /\ Fleets

-----------------------------------------------------------------------------
(* What eviction keeps of the map.                                         *)

LEMMA RemoveAtIs ==
  ASSUME NEW S, NEW map \in Seq(S), NEW i \in 1 .. Len(map)
  PROVE  /\ RemoveAt(map, i) \in Seq(S)
         /\ Len(RemoveAt(map, i)) = Len(map) - 1
         /\ \A j \in 1 .. Len(map) - 1 :
              RemoveAt(map, i)[j] = IF j < i THEN map[j] ELSE map[j + 1]
<1> DEFINE a == SubSeq(map, 1, i - 1)
           b == SubSeq(map, i + 1, Len(map))
<1>1. a \in Seq(S) /\ Len(a) = i - 1 /\ \A j \in 1 .. i - 1 : a[j] = map[j]
  OBVIOUS
<1>2. /\ b \in Seq(S) /\ Len(b) = Len(map) - i
      /\ \A j \in 1 .. Len(map) - i : b[j] = map[i + j]
  OBVIOUS
<1>3. RemoveAt(map, i) = a \o b
  BY DEF RemoveAt
<1> HIDE DEF a, b
<1>4. /\ a \o b \in Seq(S) /\ Len(a \o b) = Len(map) - 1
      /\ \A j \in 1 .. Len(map) - 1 :
           (a \o b)[j] = IF j < i THEN a[j] ELSE b[j - (i - 1)]
  <2>1. /\ a \o b \in Seq(S) /\ Len(a \o b) = Len(a) + Len(b)
        /\ \A j \in 1 .. Len(a) + Len(b) :
             (a \o b)[j] = IF j <= Len(a) THEN a[j] ELSE b[j - Len(a)]
    BY <1>1, <1>2, ConcatProperties
  <2>2. Len(a) = i - 1 /\ Len(a) + Len(b) = Len(map) - 1
    BY <1>1, <1>2
  <2>3. \A j \in 1 .. Len(map) - 1 : j < i <=> j <= i - 1
    OBVIOUS
  <2> QED
    BY <2>1, <2>2, <2>3
<1>5. ASSUME NEW j \in 1 .. Len(map) - 1
      PROVE  (a \o b)[j] = IF j < i THEN map[j] ELSE map[j + 1]
  <2>1. CASE j < i
    BY <1>1, <1>4, <2>1
  <2>2. CASE ~ (j < i)
    <3>1. j - (i - 1) \in 1 .. Len(map) - i /\ i + (j - (i - 1)) = j + 1
      BY <2>2
    <3> QED
      BY <1>2, <1>4, <2>2, <3>1
  <2> QED
    BY <2>1, <2>2
<1> QED
  BY <1>3, <1>4, <1>5

LEMMA RemoveKeeps ==
  ASSUME NEW n \in Nat, NEW map, IsMap(map, n), NEW i \in 1 .. Len(map)
  PROVE  /\ IsMap(RemoveAt(map, i), n)
         /\ Len(RemoveAt(map, i)) = Len(map) - 1
         /\ \A x : Has(map, x) /\ x # map[i] => Has(RemoveAt(map, i), x)
<1> DEFINE less == RemoveAt(map, i)
<1>1. /\ map \in Seq(1 .. n) /\ Len(map) \in Nat /\ MaxSessions \in Nat
      /\ Len(map) <= MaxSessions /\ DOMAIN map = 1 .. Len(map)
      /\ \A a, b \in 1 .. Len(map) : map[a] = map[b] => a = b
  BY BoundsAssumption DEF IsMap, IsInjective
<1>2. /\ less \in Seq(1 .. n) /\ Len(less) = Len(map) - 1
      /\ \A j \in 1 .. Len(map) - 1 :
           less[j] = IF j < i THEN map[j] ELSE map[j + 1]
  BY <1>1, RemoveAtIs
<1> HIDE DEF less
<1>3. IsInjective(less)
  <2> SUFFICES ASSUME NEW a \in 1 .. Len(map) - 1, NEW b \in 1 .. Len(map) - 1,
                      less[a] = less[b]
               PROVE  a = b
    BY <1>2 DEF IsInjective
  <2>1. \/ a < i /\ less[a] = map[a]
        \/ ~ (a < i) /\ less[a] = map[a + 1]
    BY <1>2
  <2>2. \/ b < i /\ less[b] = map[b]
        \/ ~ (b < i) /\ less[b] = map[b + 1]
    BY <1>2
  <2>3. {a, b, a + 1, b + 1} \subseteq 1 .. Len(map)
    BY <1>1
  <2> QED
    BY <1>1, <2>1, <2>2, <2>3
<1>4. ASSUME NEW x, Has(map, x), x # map[i]
      PROVE  Has(less, x)
  <2>1. PICK j \in 1 .. Len(map) : map[j] = x
    BY <1>1, <1>4 DEF Has
  <2>2. CASE j < i
    <3>1. j \in 1 .. Len(map) - 1
      BY <1>1, <2>2
    <3>2. less[j] = map[j]
      BY <1>2, <2>2, <3>1
    <3> QED
      BY <1>2, <2>1, <3>1, <3>2 DEF Has
  <2>3. CASE j > i
    <3>1. j - 1 \in 1 .. Len(map) - 1
      BY <2>3
    <3>2. ~ (j - 1 < i) /\ (j - 1) + 1 = j
      BY <2>3
    <3>3. less[j - 1] = map[(j - 1) + 1]
      BY <1>2, <3>1, <3>2
    <3> QED
      BY <1>2, <2>1, <3>1, <3>2, <3>3 DEF Has
  <2> QED
    BY <1>1, <1>4, <2>1, <2>2, <2>3
<1>5. IsMap(less, n) /\ Len(less) = Len(map) - 1
  BY <1>1, <1>2, <1>3 DEF IsMap
<1> QED
  BY <1>4, <1>5 DEF less

\* The numbers are well-ordered, as a fact about sets of them.
LEMMA LeastNumber ==
  ASSUME NEW T, T \subseteq Nat, T # {}
  PROVE  \E n \in T : \A m \in T : n <= m
<1> DEFINE R == OpToRel(<, Nat)
<1>1. IsWellFoundedOn(R, Nat)
  BY NatLessThanWellFounded
<1>2. ASSUME NEW x \in Nat, NEW y \in Nat, x < y
      PROVE  <<x, y>> \in R
  BY <1>2 DEF OpToRel
<1> HIDE DEF R
<1>3. PICK n \in T : \A m \in T : ~ (<<m, n>> \in R)
  BY <1>1, WFMin
<1>4. \A m \in T : ~ (m < n)
  BY <1>2, <1>3
<1>5. \A m \in T : n <= m
  BY <1>4
<1> QED
  BY <1>5

\* Eviction drops nothing but a sealed session.
LEMMA EvictKeeps ==
  ASSUME NEW n \in Nat, NEW map, IsMap(map, n)
  PROVE  /\ IsMap(Evict(map), n)
         /\ \A x : Has(map, x) /\ record[x].status # "sealed"
                     => Has(Evict(map), x)
<1>1. CASE Evict(map) = map
  BY <1>1
<1>2. CASE Evict(map) # map
  <2> DEFINE T == SealedIn(map)
             i == CHOOSE i \in T : \A j \in T : i <= j
  <2>1. Evict(map) = RemoveAt(map, i) /\ T # {}
    BY <1>2 DEF Evict
  <2>2. T \subseteq Nat /\ T \subseteq 1 .. Len(map)
    BY DEF SealedIn, IsMap
  <2> HIDE DEF T
  <2>3. i \in T
    BY <2>1, <2>2, LeastNumber
  <2>4. record[map[i]].status = "sealed"
    BY <2>3 DEF T, SealedIn
  <2>5. i \in 1 .. Len(map)
    BY <2>2, <2>3
  <2> HIDE DEF i
  <2>6. /\ IsMap(RemoveAt(map, i), n)
        /\ \A x : Has(map, x) /\ x # map[i] => Has(RemoveAt(map, i), x)
    BY <2>5, RemoveKeeps
  <2> QED
    BY <2>1, <2>4, <2>6
<1> QED
  BY <1>1, <1>2

LEMMA AppendKeeps ==
  ASSUME NEW n \in Nat, NEW map, IsMap(map, n), Len(map) < MaxSessions
  PROVE  /\ IsMap(Append(map, n + 1), n + 1)
         /\ Has(Append(map, n + 1), n + 1)
         /\ \A x : Has(map, x) => Has(Append(map, n + 1), x)
<1> DEFINE more == Append(map, n + 1)
<1>1. /\ map \in Seq(1 .. n) /\ Len(map) \in Nat /\ MaxSessions \in Nat
      /\ DOMAIN map = 1 .. Len(map)
      /\ \A a, b \in 1 .. Len(map) : map[a] = map[b] => a = b
      /\ \A a \in 1 .. Len(map) : map[a] \in 1 .. n
  BY BoundsAssumption DEF IsMap, IsInjective
<1>2. /\ Len(more) = Len(map) + 1 /\ DOMAIN more = 1 .. Len(map) + 1
      /\ \A a \in 1 .. Len(map) : more[a] = map[a]
      /\ more[Len(map) + 1] = n + 1
  BY <1>1
<1>3. more \in Seq(1 .. n + 1)
  <2>1. 1 .. n \subseteq 1 .. n + 1 /\ n + 1 \in 1 .. n + 1
    OBVIOUS
  <2>2. map \in Seq(1 .. n + 1)
    BY <1>1, <2>1
  <2> QED
    BY <2>1, <2>2
<1> HIDE DEF more
<1>4. IsInjective(more)
  <2> SUFFICES ASSUME NEW a \in 1 .. Len(map) + 1, NEW b \in 1 .. Len(map) + 1,
                      more[a] = more[b]
               PROVE  a = b
    BY <1>2 DEF IsInjective
  <2>1. a \in 1 .. Len(map) \/ a = Len(map) + 1
    BY <1>1
  <2>2. b \in 1 .. Len(map) \/ b = Len(map) + 1
    BY <1>1
  <2> QED
    BY <1>1, <1>2, <2>1, <2>2
<1>5. IsMap(more, n + 1)
  BY <1>1, <1>2, <1>3, <1>4 DEF IsMap
<1>6. Has(more, n + 1) /\ \A x : Has(map, x) => Has(more, x)
  BY <1>1, <1>2 DEF Has
<1> QED
  BY <1>5, <1>6 DEF more

-----------------------------------------------------------------------------
(* The map after sessions have been let in, for every number of them: that *)
(* the recursion of Admitted has a solution, and what it is.               *)

LetIn(map, k) == IF Full(map) THEN map ELSE Append(Evict(map), counter + k)

\* The first n + 1 maps.
Chain(g, n) ==
  \A k \in 0 .. n : g[k] = IF k = 0 THEN resident ELSE LetIn(g[k - 1], k)

LEMMA ChainsAgree ==
  ASSUME NEW n \in Nat, NEW m \in Nat, NEW g, NEW h, Chain(g, n), Chain(h, m),
         NEW i \in Nat, i <= n, i <= m
  PROVE  g[i] = h[i]
<1> DEFINE T == {k \in 0 .. i : g[k] # h[k]}
<1> SUFFICES ASSUME T # {}
             PROVE  FALSE
  OBVIOUS
<1>1. T \subseteq Nat
  OBVIOUS
<1> HIDE DEF T
<1>2. PICK k \in T : \A j \in T : k <= j
  BY <1>1, LeastNumber
<1>3. k \in 0 .. i /\ g[k] # h[k]
  BY <1>2 DEF T
<1>4. k \in 0 .. n /\ k \in 0 .. m /\ k \in Nat
  BY <1>3
<1>5. k # 0
  BY <1>3, <1>4 DEF Chain
<1>6. k - 1 \in 0 .. i /\ ~ (k <= k - 1)
  BY <1>3, <1>5
<1>7. g[k - 1] = h[k - 1]
  BY <1>2, <1>6 DEF T
<1> QED
  BY <1>3, <1>4, <1>5, <1>7 DEF Chain

LEMMA ChainsExist == \A n \in Nat : \E g : Chain(g, n)
<1> DEFINE T == {n \in Nat : ~ \E g : Chain(g, n)}
<1> SUFFICES ASSUME T # {}
             PROVE  FALSE
  OBVIOUS
<1>1. T \subseteq Nat
  OBVIOUS
<1> HIDE DEF T
<1>2. PICK n \in T : \A m \in T : n <= m
  BY <1>1, LeastNumber
<1>3. n \in Nat /\ ~ \E g : Chain(g, n)
  BY <1>2 DEF T
<1>4. n # 0
  <2>1. SUFFICES ASSUME n = 0 PROVE FALSE
    OBVIOUS
  <2>2. Chain([k \in {0} |-> resident], 0)
    BY DEF Chain
  <2> QED
    BY <1>3, <2>1, <2>2
<1>5. n - 1 \in Nat /\ ~ (n <= n - 1)
  BY <1>3, <1>4
<1>6. PICK g : Chain(g, n - 1)
  BY <1>2, <1>5 DEF T
<1> DEFINE h == [k \in 0 .. n |-> IF k = n THEN LetIn(g[n - 1], n) ELSE g[k]]
<1>7. ASSUME NEW k \in 0 .. n
      PROVE  h[k] = IF k = 0 THEN resident ELSE LetIn(h[k - 1], k)
  <2>1. CASE k = n
    <3>1. n - 1 \in 0 .. n /\ n - 1 # n /\ n \in 0 .. n
      BY <1>3, <1>5
    <3>2. h[n - 1] = g[n - 1] /\ h[n] = LetIn(g[n - 1], n)
      BY <3>1
    <3> QED
      BY <1>4, <2>1, <3>2
  <2>2. CASE k # n
    <3>1. k \in 0 .. n - 1
      BY <1>3, <2>2
    <3>2. h[k] = g[k]
      BY <2>2
    <3>3. k # 0 => k - 1 \in 0 .. n /\ k - 1 # n
      BY <1>3, <3>1
    <3>4. k # 0 => h[k - 1] = g[k - 1]
      BY <3>3
    <3> HIDE DEF h
    <3> QED
      BY <1>6, <3>1, <3>2, <3>4 DEF Chain
  <2> QED
    BY <2>1, <2>2
<1>8. Chain(h, n)
  BY <1>7 DEF Chain
<1> QED
  BY <1>3, <1>8

LEMMA AdmittedIs ==
  \A k \in Nat :
    Admitted[k] = IF k = 0 THEN resident ELSE LetIn(Admitted[k - 1], k)
<1> DEFINE g(n) == CHOOSE g : Chain(g, n)
           f == [k \in Nat |-> g(k)[k]]
           Solves(h) ==
             h = [k \in Nat |->
                    IF k = 0 THEN resident
                    ELSE IF Full(h[k - 1]) THEN h[k - 1]
                         ELSE Append(Evict(h[k - 1]), counter + k)]
<1>1. \A n \in Nat : Chain(g(n), n)
  BY ChainsExist
<1> HIDE DEF g
<1>2. ASSUME NEW k \in Nat
      PROVE  f[k] = IF k = 0 THEN resident ELSE LetIn(f[k - 1], k)
  <2>1. f[k] = g(k)[k] /\ k \in 0 .. k
    OBVIOUS
  <2>2. g(k)[k] = IF k = 0 THEN resident ELSE LetIn(g(k)[k - 1], k)
    BY <1>1, <2>1 DEF Chain
  <2>3. k # 0 => f[k - 1] = g(k)[k - 1]
    <3> SUFFICES ASSUME k # 0 PROVE f[k - 1] = g(k)[k - 1]
      OBVIOUS
    <3>1. k - 1 \in Nat /\ k - 1 <= k - 1 /\ k - 1 <= k
      OBVIOUS
    <3>2. Chain(g(k - 1), k - 1) /\ Chain(g(k), k)
      BY <1>1, <3>1
    <3>3. g(k - 1)[k - 1] = g(k)[k - 1]
      BY <3>1, <3>2, ChainsAgree
    <3> QED
      BY <3>1, <3>3
  <2> HIDE DEF f
  <2> QED
    BY <2>1, <2>2, <2>3
<1>3. Solves(f)
  <2>1. f = [k \in Nat |-> f[k]]
    OBVIOUS
  <2> HIDE DEF f
  <2> QED
    BY <1>2, <2>1 DEF LetIn
<1> HIDE DEF f
<1>4. Admitted = CHOOSE h : Solves(h)
  BY DEF Admitted
<1>5. Solves(Admitted)
  <2> HIDE DEF Solves
  <2> QED
    BY <1>3, <1>4
<1> QED
  BY <1>5 DEF LetIn

LEMMA WiderSeq ==
  ASSUME NEW n \in Nat, NEW m \in Nat, n <= m, NEW seq \in Seq(1 .. n)
  PROVE  seq \in Seq(1 .. m)
<1>1. \A i \in 1 .. Len(seq) : seq[i] \in 1 .. n
  BY ElementOfSeq
<1>2. 1 .. n \subseteq 1 .. m
  OBVIOUS
<1> QED
  BY <1>1, <1>2

LEMMA WiderMap ==
  ASSUME NEW n \in Nat, NEW map, IsMap(map, n)
  PROVE  IsMap(map, n + 1)
<1>1. map \in Seq(1 .. n + 1)
  BY WiderSeq DEF IsMap
<1> QED
  BY <1>1 DEF IsMap

LEMMA LastOfMap ==
  ASSUME NEW S, NEW map \in Seq(S), Len(map) > 0
  PROVE  Last(map) \in S
<1>1. Len(map) \in 1 .. Len(map)
  BY LenProperties
<1> QED
  BY <1>1, ElementOfSeq DEF Last

\* The map after k more: nothing that runs is lost, and either all k are in
\* it or it is full.
AdmittedAt(k) ==
  /\ IsMap(Admitted[k], counter + k)
  /\ Holds(Admitted[k])
  /\ \/ \A s \in counter + 1 .. counter + k : Has(Admitted[k], s)
     \/ k # 0 /\ Full(Admitted[k]) /\ IsMap(Admitted[k], counter + (k - 1))

LEMMA OneMore ==
  ASSUME Records, NEW k \in Nat, counter + k <= MaxStarts, k # 0,
         AdmittedAt(k - 1)
  PROVE  AdmittedAt(k)
<1> DEFINE map == Admitted[k - 1]
           n == counter + (k - 1)
<1>1. /\ n \in Nat /\ n + 1 = counter + k /\ counter \in Nat /\ MaxStarts \in Nat
      /\ counter <= n
  BY BoundsAssumption DEF Records
<1>2. IsMap(map, n) /\ Holds(map)
  BY DEF AdmittedAt
<1>3. Admitted[k] = LetIn(map, k)
  BY AdmittedIs
<1>4. ~Full(map) => \A s \in counter + 1 .. n : Has(map, s)
  BY DEF AdmittedAt
<1> HIDE DEF map, n
<1>5. CASE Full(map)
  <2>1. Admitted[k] = map
    BY <1>3, <1>5 DEF LetIn
  <2>2. IsMap(map, n + 1)
    BY <1>1, <1>2, WiderMap
  <2>3. IsMap(Admitted[k], counter + k)
    BY <1>1, <2>1, <2>2
  <2>4. Full(Admitted[k]) /\ Holds(Admitted[k])
        /\ IsMap(Admitted[k], counter + (k - 1))
    BY <1>2, <1>5, <2>1 DEF n
  <2> QED
    BY <2>3, <2>4 DEF AdmittedAt
<1>6. CASE ~Full(map)
  <2> DEFINE e == Evict(map)
  <2>1. IsMap(e, n) /\ \A x : Has(map, x) /\ record[x].status # "sealed" => Has(e, x)
    BY <1>1, <1>2, EvictKeeps
  <2>2. Len(e) < MaxSessions
    <3>1. ~ (Len(e) >= MaxSessions)
      BY <1>6 DEF Full
    <3>2. Len(e) \in Nat /\ MaxSessions \in Nat
      BY <2>1, BoundsAssumption DEF IsMap
    <3> QED
      BY <3>1, <3>2
  <2>3. Admitted[k] = Append(e, n + 1)
    BY <1>1, <1>3, <1>6 DEF LetIn
  <2> HIDE DEF e
  <2>4. /\ IsMap(Admitted[k], n + 1) /\ Has(Admitted[k], n + 1)
        /\ \A x : Has(e, x) => Has(Admitted[k], x)
    BY <1>1, <2>1, <2>2, <2>3, AppendKeeps
  <2>5. Holds(Admitted[k])
    BY <1>2, <2>1, <2>4 DEF Holds, Running
  <2>6. ASSUME NEW s \in counter + 1 .. counter + k
        PROVE  Has(Admitted[k], s)
    <3>1. CASE s = n + 1
      BY <2>4, <3>1
    <3>2. CASE s # n + 1
      <4>1. s \in counter + 1 .. n /\ s \in Id /\ s > counter
        BY <1>1, <3>2 DEF Id
      <4>2. Has(map, s) /\ record[s].status = "none"
        BY <1>4, <1>6, <4>1 DEF Records
      <4> QED
        BY <2>1, <2>4, <4>2
    <3> QED
      BY <3>1, <3>2
  <2> QED
    BY <1>1, <2>4, <2>5, <2>6 DEF AdmittedAt
<1> QED
  BY <1>5, <1>6

LEMMA AdmittedKeeps ==
  ASSUME Records, Residents, NEW k \in Nat, counter + k <= MaxStarts
  PROVE  AdmittedAt(k)
<1> DEFINE T == {j \in 0 .. k : ~AdmittedAt(j)}
<1> SUFFICES ASSUME T # {}
             PROVE  FALSE
  OBVIOUS
<1>1. T \subseteq Nat
  OBVIOUS
<1> HIDE DEF T
<1>2. PICK j \in T : \A i \in T : j <= i
  BY <1>1, LeastNumber
<1>3. j \in 0 .. k /\ ~AdmittedAt(j)
  BY <1>2 DEF T
<1>4. counter \in Nat /\ MaxStarts \in Nat
  BY BoundsAssumption DEF Records
<1>5. j # 0
  <2>1. Admitted[0] = resident /\ counter + 0 = counter
    BY <1>4, AdmittedIs
  <2>2. counter + 1 .. counter + 0 = {}
    BY <1>4
  <2>3. AdmittedAt(0)
    BY <2>1, <2>2 DEF AdmittedAt, Residents
  <2> QED
    BY <1>3, <2>3
<1>6. j - 1 \in 0 .. k /\ ~ (j <= j - 1)
  BY <1>3, <1>5
<1>7. AdmittedAt(j - 1)
  BY <1>2, <1>6 DEF T
<1>8. j \in Nat /\ counter + j <= MaxStarts
  BY <1>3, <1>4
<1> QED
  BY <1>3, <1>5, <1>7, <1>8, OneMore

\* All k are in the map when its last one is.
LEMMA AdmitsAll ==
  ASSUME Records, Residents, NEW k \in Nat, counter + k <= MaxStarts,
         k = 0 \/ (Len(Admitted[k]) > 0 /\ Last(Admitted[k]) = counter + k)
  PROVE  \A s \in counter + 1 .. counter + k : Has(Admitted[k], s)
<1>1. AdmittedAt(k)
  BY AdmittedKeeps
<1>2. counter \in Nat
  BY DEF Records
<1>3. CASE k # 0 /\ IsMap(Admitted[k], counter + (k - 1))
  <2>1. Admitted[k] \in Seq(1 .. counter + (k - 1)) /\ Len(Admitted[k]) > 0
    BY <1>3 DEF IsMap
  <2>2. Last(Admitted[k]) \in 1 .. counter + (k - 1)
    BY <2>1, LastOfMap
  <2> QED
    BY <1>2, <1>3, <2>2
<1> QED
  BY <1>1, <1>3 DEF AdmittedAt

-----------------------------------------------------------------------------
(* Streams.                                                                *)

Frame == {Hello, Sealed} \cup {Event(i) : i \in Nat}

LEMMA UptoIs ==
  ASSUME NEW n \in Nat
  PROVE  /\ Upto(n) \in Seq(Frame) /\ Len(Upto(n)) = n + 1
         /\ Upto(n)[1] = Hello
         /\ \A i \in 1 .. n : Upto(n)[i + 1] = Event(i)
<1>1. Events(n) \in Seq(Frame) /\ Len(Events(n)) = n
      /\ \A i \in 1 .. n : Events(n)[i] = Event(i)
  <2>1. \A i \in 1 .. n : Event(i) \in Frame
    BY DEF Frame
  <2> QED
    BY <2>1 DEF Events
<1>2. <<Hello>> \in Seq(Frame) /\ Len(<<Hello>>) = 1 /\ <<Hello>>[1] = Hello
  BY DEF Frame
<1> DEFINE h == <<Hello>>
           e == Events(n)
<1> HIDE DEF h, e
<1>3. /\ h \o e \in Seq(Frame) /\ Len(h \o e) = Len(h) + Len(e)
      /\ \A i \in 1 .. Len(h) + Len(e) :
           (h \o e)[i] = IF i <= Len(h) THEN h[i] ELSE e[i - Len(h)]
  BY <1>1, <1>2, ConcatProperties DEF h, e
<1>4. Len(h) = 1 /\ Len(e) = n /\ h[1] = Hello
  BY <1>1, <1>2 DEF h, e
<1>5. (h \o e)[1] = Hello
  BY <1>3, <1>4
<1>6. \A i \in 1 .. n : (h \o e)[i + 1] = Event(i)
  <2> SUFFICES ASSUME NEW i \in 1 .. n PROVE (h \o e)[i + 1] = Event(i)
    OBVIOUS
  <2>1. i + 1 \in 1 .. 1 + n /\ ~ (i + 1 <= 1) /\ (i + 1) - 1 = i
    OBVIOUS
  <2>2. (h \o e)[i + 1] = e[i]
    BY <1>3, <1>4, <2>1
  <2> QED
    BY <1>1, <2>2 DEF e
<1> QED
  BY <1>3, <1>4, <1>5, <1>6 DEF Upto, h, e

\* One event more.
LEMMA NextEvent ==
  ASSUME NEW n \in Nat
  PROVE  /\ Upto(n) \o <<Event(n + 1)>> = Upto(n + 1)
         /\ Upto(n) \o <<Event(n + 1), Sealed>> = Upto(n + 1) \o <<Sealed>>
<1> DEFINE u == Upto(n)
           v == Upto(n + 1)
           x == Event(n + 1)
<1>1. x \in Frame /\ Sealed \in Frame
  BY DEF Frame
<1>2. /\ u \in Seq(Frame) /\ Len(u) = n + 1 /\ u[1] = Hello
      /\ \A i \in 1 .. n : u[i + 1] = Event(i)
  BY UptoIs
<1>3. /\ v \in Seq(Frame) /\ Len(v) = n + 2 /\ v[1] = Hello
      /\ \A i \in 1 .. n + 1 : v[i + 1] = Event(i)
  <2> DEFINE m == n + 1
  <2>1. m \in Nat /\ m + 1 = n + 2
    OBVIOUS
  <2> HIDE DEF m
  <2>2. /\ Upto(m) \in Seq(Frame) /\ Len(Upto(m)) = m + 1
        /\ Upto(m)[1] = Hello
        /\ \A i \in 1 .. m : Upto(m)[i + 1] = Event(i)
    BY <2>1, UptoIs
  <2> QED
    BY <2>1, <2>2 DEF m
<1> HIDE DEF u, v, x
<1>4. u \o <<x>> = v
  <2>1. /\ u \o <<x>> \in Seq(Frame) /\ Len(u \o <<x>>) = n + 2
        /\ \A i \in 1 .. n + 1 : (u \o <<x>>)[i] = u[i]
        /\ (u \o <<x>>)[n + 2] = x
    BY <1>1, <1>2
  <2>2. ASSUME NEW i \in 1 .. n + 2
        PROVE  (u \o <<x>>)[i] = v[i]
    <3>1. CASE i = 1
      BY <1>2, <1>3, <2>1, <3>1
    <3>2. CASE i \in 2 .. n + 1
      <4>1. i - 1 \in 1 .. n /\ i - 1 \in 1 .. n + 1 /\ (i - 1) + 1 = i
        BY <3>2
      <4>2. u[(i - 1) + 1] = Event(i - 1) /\ v[(i - 1) + 1] = Event(i - 1)
        BY <1>2, <1>3, <4>1
      <4>3. (u \o <<x>>)[i] = u[i]
        BY <2>1, <3>2
      <4> QED
        BY <4>1, <4>2, <4>3
    <3>3. CASE i = n + 2
      <4>1. n + 1 \in 1 .. n + 1 /\ (n + 1) + 1 = n + 2
        OBVIOUS
      <4>2. v[n + 2] = Event(n + 1)
        BY <1>3, <4>1
      <4> QED
        BY <2>1, <3>3, <4>2 DEF x
    <3>4. i = 1 \/ i \in 2 .. n + 1 \/ i = n + 2
      OBVIOUS
    <3> QED
      BY <3>1, <3>2, <3>3, <3>4
  <2> QED
    BY <1>3, <2>1, <2>2, SeqEqual
<1>5. u \o <<x, Sealed>> = v \o <<Sealed>>
  <2>1. <<x>> \o <<Sealed>> = <<x, Sealed>>
    <3> DEFINE a == <<x>>
               b == <<Sealed>>
    <3>1. /\ a \in Seq(Frame) /\ Len(a) = 1 /\ a[1] = x
          /\ b \in Seq(Frame) /\ Len(b) = 1 /\ b[1] = Sealed
      BY <1>1
    <3> HIDE DEF a, b
    <3>2. /\ a \o b \in Seq(Frame) /\ Len(a \o b) = 2
          /\ (a \o b)[1] = x /\ (a \o b)[2] = Sealed
      BY <3>1, ConcatProperties
    <3>3. /\ <<x, Sealed>> \in Seq(Frame) /\ Len(<<x, Sealed>>) = 2
          /\ <<x, Sealed>>[1] = x /\ <<x, Sealed>>[2] = Sealed
      BY <1>1
    <3>4. \A i \in 1 .. 2 : i = 1 \/ i = 2
      OBVIOUS
    <3> QED
      BY <3>2, <3>3, <3>4, SeqEqual DEF a, b
  <2>2. u \o (<<x>> \o <<Sealed>>) = (u \o <<x>>) \o <<Sealed>>
    BY <1>1, <1>2, ConcatAssociative
  <2> QED
    BY <1>4, <2>1, <2>2
<1> QED
  BY <1>4, <1>5 DEF u, v, x

\* A stream that is sent nothing, of a session nothing happens to.
LEMMA StreamStays ==
  ASSUME NEW c \in Client, Stream(c), NEW w, w = watching[c], watching'[c] = w,
         frames'[c] = frames[c], w # 0 => record'[w] = record[w],
         w # 0 => record[w].events \in Nat,
         w # 0 /\ c \in subscribers'[w] => c \in subscribers[w],
         ended \subseteq ended'
  PROVE  Stream(c)'
<1> SUFFICES ASSUME w # 0
             PROVE  Live(c, w)' \/ Cut(c, w)' \/ Whole(c, w)'
  BY DEF Stream
<1>1. CASE Live(c, w)
  <2>1. record[w].events \in 0 .. record[w].events
    OBVIOUS
  <2> QED
    BY <1>1, <2>1 DEF Live, Cut
<1>2. CASE Cut(c, w)
  BY <1>2 DEF Cut
<1>3. CASE Whole(c, w)
  BY <1>3 DEF Whole
<1> QED
  BY <1>1, <1>2, <1>3 DEF Stream

-----------------------------------------------------------------------------
(* What a step keeps, part by part.                                        *)

\* What a step may do to the sessions there are: it changes none that sealed.
Onward ==
  /\ counter \in Nat /\ counter' \in Nat /\ counter <= counter'
  /\ \A s \in 1 .. counter :
       record[s].status = "sealed" => record'[s] = record[s]

LEMMA FleetsStay ==
  ASSUME Fleets, Onward, NEW f \in Fleet, fleets'[f] = fleets[f]
  PROVE  IsFleet(f)'
<1> DEFINE ids == fleets[f].ids
<1>1. ids \in Seq(1 .. counter) /\ IsFleet(f)
  BY DEF Fleets, IsFleet
<1> HIDE DEF ids
<1>2. \A s \in ToSet(ids) : s \in 1 .. counter
  BY <1>1, ElementOfSeq, LenProperties DEF ToSet
<1>3. ids \in Seq(1 .. counter')
  BY <1>1, WiderSeq DEF Onward
<1>4. ASSUME NEW s \in ToSet(ids), NEW l, Bound(l, s)
      PROVE  record'[s].status = "sealed" /\ l = WorkerResult(s)'
  <2>1. record'[s] = record[s]
    BY <1>2, <1>4 DEF Onward, Bound
  <2> QED
    BY <1>4, <2>1 DEF Bound, WorkerResult, VerifySessionRecord
<1>5. \A s \in ToSet(ids) : \A l : Bound(l, s) => Bound(l, s)'
  BY <1>4 DEF Bound
<1> QED
  BY <1>1, <1>3, <1>5 DEF IsFleet, ids

LEMMA AllFleetsStay ==
  ASSUME Fleets, Onward, UNCHANGED fleets
  PROVE  Fleets'
<1>1. \A f \in Fleet : IsFleet(f)'
  BY FleetsStay
<1> QED
  BY <1>1 DEF Fleets

\* A step that leaves the sessions that were started, and the streams.
LEMMA SessionsStay ==
  ASSUME IInv, Records', counter <= counter',
         \A s \in 1 .. counter : record'[s] = record[s],
         UNCHANGED <<frames, watching>>,
         subscribers' \in [Id -> SUBSET Client],
         \A s \in Id : subscribers'[s] = subscribers[s] \/ subscribers'[s] = {},
         ended \subseteq ended'
  PROVE  Subscribers' /\ Streams' /\ Onward
<1>1. counter \in Nat /\ counter' \in Nat /\ Onward
  BY DEF IInv, Records, Onward
<1>2. Subscribers'
  <2>1. watching \in [Client -> 0 .. counter']
    BY <1>1 DEF IInv, Subscribers
  <2>2. ASSUME NEW s \in Id
        PROVE  Cardinality(subscribers'[s]) <= MaxSubscribers
    <3>1. Cardinality(subscribers[s]) <= MaxSubscribers
      BY DEF IInv, Subscribers
    <3>2. Cardinality({}) = 0
      BY FS_EmptySet
    <3>3. MaxSubscribers \in Nat
      BY BoundsAssumption
    <3> QED
      BY <3>1, <3>2, <3>3
  <2>3. ASSUME NEW s \in Id, NEW c \in subscribers'[s]
        PROVE  watching[c] = s /\ Running(s)'
    <3>1. c \in subscribers[s]
      BY <2>3
    <3>2. watching[c] = s /\ Running(s)
      BY <3>1 DEF IInv, Subscribers
    <3>3. ~ (s > counter)
      BY <3>2 DEF Running, IInv, Records
    <3>4. s \in 1 .. counter
      BY <1>1, <3>3 DEF Id
    <3> QED
      BY <3>2, <3>4 DEF Running
  <2> QED
    BY <2>1, <2>2, <2>3 DEF Subscribers
<1>3. ASSUME NEW c \in Client
      PROVE  Stream(c)'
  <2> DEFINE w == watching[c]
  <2>1. w \in 0 .. counter
    BY DEF IInv, Subscribers
  <2>2. w # 0 => w \in 1 .. counter /\ w \in Id
    <3>1. counter <= MaxStarts /\ MaxStarts \in Nat
      BY BoundsAssumption DEF IInv, Records
    <3> HIDE DEF w
    <3> QED
      BY <1>1, <2>1, <3>1 DEF Id
  <2>3. w # 0 => record'[w] = record[w] /\ record[w].events \in Nat
    BY <2>2 DEF IInv, Records, IsRecord
  <2>4. w # 0 /\ c \in subscribers'[w] => c \in subscribers[w]
    BY <2>2
  <2>5. Stream(c) /\ watching'[c] = w
    BY DEF IInv, Streams
  <2> HIDE DEF w
  <2> QED
    BY <2>3, <2>4, <2>5, StreamStays DEF w
<1> QED
  BY <1>1, <1>2, <1>3 DEF IInv, Streams

-----------------------------------------------------------------------------
(* Sessions are let in.                                                    *)

LEMMA AdmitStep ==
  ASSUME IInv, NEW k \in Nat, counter + k <= MaxStarts, Admit(k),
         k = 0 \/ (Len(Admitted[k]) > 0 /\ Last(Admitted[k]) = counter + k),
         UNCHANGED <<subscribers, frames, watching, ended>>
  PROVE  Records' /\ Residents' /\ Subscribers' /\ Streams' /\ Onward
<1>1. counter \in Nat /\ MaxStarts \in Nat /\ counter' = counter + k
  BY BoundsAssumption DEF IInv, Records, Admit
<1>2. ASSUME NEW s \in Id
      PROVE  /\ s \in counter + 1 .. counter + k =>
                  record'[s] = [Unstarted EXCEPT !.status = "running"]
             /\ s \notin counter + 1 .. counter + k => record'[s] = record[s]
  BY DEF Admit
<1>3. \A s \in 1 .. counter : record'[s] = record[s]
  BY <1>1, <1>2 DEF IInv, Records, Id
<1>4. Records'
  <2>1. IsRecord([Unstarted EXCEPT !.status = "running"])
    BY DEF IsRecord, Unstarted, Status
  <2>2. ASSUME NEW s \in Id
        PROVE  /\ IsRecord(record'[s])
               /\ s > counter' => record'[s].status = "none"
    BY <1>1, <1>2, <2>1 DEF IInv, Records, Id
  <2>3. record' = [s \in Id |-> record'[s]]
    BY DEF Admit
  <2>4. counter' \in 0 .. MaxStarts
    BY <1>1
  <2> QED
    BY <2>2, <2>3, <2>4 DEF Records
<1>5. Residents'
  <2>1. AdmittedAt(k) /\ resident' = Admitted[k]
    BY AdmittedKeeps DEF IInv, Admit
  <2>2. \A s \in counter + 1 .. counter + k : Has(Admitted[k], s)
    BY AdmitsAll DEF IInv
  <2>3. ASSUME NEW s \in Id, Running(s)'
        PROVE  Has(Admitted[k], s)
    BY <1>2, <2>1, <2>2, <2>3 DEF AdmittedAt, Holds, Running
  <2> DEFINE map == Admitted[k]
  <2>4. IsMap(map, counter') /\ resident' = map /\ \A s \in Id : Running(s)' => Has(map, s)
    BY <1>1, <2>1, <2>3 DEF AdmittedAt
  <2> HIDE DEF map
  <2> QED
    BY <2>4 DEF Residents, Holds
<1>6. Subscribers' /\ Streams' /\ Onward
  <2>1. subscribers' \in [Id -> SUBSET Client] /\ counter <= counter'
    BY <1>1 DEF IInv, Subscribers
  <2> QED
    BY <1>3, <1>4, <2>1, SessionsStay
<1> QED
  BY <1>4, <1>5, <1>6

LEMMA StartStep == IInv /\ StartSession => IInv'
<1> SUFFICES ASSUME IInv, StartSession PROVE IInv'
  OBVIOUS
<1>1. counter \in Nat /\ MaxStarts \in Nat /\ counter < MaxStarts
  BY BoundsAssumption DEF IInv, Records, StartSession
<1>2. Admitted[1] = Append(Evict(resident), counter + 1)
  <2>1. Admitted[0] = resident /\ Admitted[1] = LetIn(Admitted[1 - 1], 1)
    BY AdmittedIs
  <2> QED
    BY <2>1 DEF LetIn, StartSession
<1>3. Evict(resident) \in Seq(1 .. counter)
  BY <1>1, EvictKeeps DEF IInv, Residents, IsMap
<1>4. Len(Admitted[1]) > 0 /\ Last(Admitted[1]) = counter + 1
  <2> DEFINE e == Evict(resident)
  <2>1. e \in Seq(1 .. counter) /\ Admitted[1] = Append(e, counter + 1)
    BY <1>2, <1>3
  <2> HIDE DEF e
  <2>2. /\ Len(Append(e, counter + 1)) = Len(e) + 1
        /\ Append(e, counter + 1)[Len(e) + 1] = counter + 1
        /\ Len(e) \in Nat
    BY <2>1
  <2> QED
    BY <2>1, <2>2 DEF Last
<1>5. counter + 1 <= MaxStarts
  BY <1>1
<1>6. Records' /\ Residents' /\ Subscribers' /\ Streams' /\ Onward
  BY <1>4, <1>5, AdmitStep DEF StartSession
<1> QED
  BY <1>6, AllFleetsStay DEF IInv, StartSession

LEMMA StartFailsStep == IInv /\ StartFails => IInv'
<1> SUFFICES ASSUME IInv, StartFails PROVE IInv'
  OBVIOUS
<1>1. Records'
  BY DEF IInv, Records, StartFails
<1>2. Subscribers' /\ Streams' /\ Onward
  BY <1>1, SessionsStay DEF StartFails, IInv, Subscribers, Records
<1>3. Residents'
  <2>1. /\ IsMap(Evict(resident), counter)
        /\ \A x : Has(resident, x) /\ record[x].status # "sealed"
                    => Has(Evict(resident), x)
    BY EvictKeeps DEF IInv, Records, Residents
  <2>2. Holds(Evict(resident))
    BY <2>1 DEF IInv, Residents, Holds, Running
  <2> DEFINE e == Evict(resident)
  <2>3. IsMap(e, counter) /\ Holds(e) /\ resident' = e
    BY <2>1, <2>2 DEF StartFails
  <2> HIDE DEF e
  <2>4. record' = record /\ counter' = counter
    BY DEF StartFails
  <2> QED
    BY <2>3, <2>4 DEF Residents, Holds, Running
<1> QED
  BY <1>1, <1>2, <1>3, AllFleetsStay DEF IInv, StartFails

LEMMA CreateFleetStep == \A f \in Fleet : IInv /\ CreateFleet(f) => IInv'
<1> SUFFICES ASSUME IInv, NEW f \in Fleet, CreateFleet(f) PROVE IInv'
  OBVIOUS
<1>1. FleetSize \in Nat /\ counter \in Nat /\ counter' = counter + FleetSize
  BY FleetAssumption DEF IInv, Records, CreateFleet, Admit
<1>2. Records' /\ Residents' /\ Subscribers' /\ Streams' /\ Onward
  BY <1>1, AdmitStep DEF CreateFleet
<1>3. fleets' = [g \in Fleet |-> fleets'[g]]
  BY DEF CreateFleet, IInv, Fleets
<1>4. \A g \in Fleet : g # f => fleets'[g] = fleets[g]
  BY DEF CreateFleet, IInv, Fleets
<1>5. IsFleet(f)'
  <2> DEFINE ids == [i \in 1 .. FleetSize |-> counter + i]
  <2> DEFINE waits == Found(ids, resident')
  <2>1. fleets'[f] = [status |-> "running", ids |-> ids, waits |-> waits,
                      ledger |-> NoLedger, verified |-> FALSE]
    BY DEF CreateFleet, IInv, Fleets, NoFleet
  <2>3. waits = ToSet(ids)
    <3>1. \A s \in counter + 1 .. counter + FleetSize :
            Has(Admitted[FleetSize], s)
      BY <1>1, AdmitsAll DEF IInv, CreateFleet
    <3>2. resident' = Admitted[FleetSize]
      BY DEF CreateFleet, Admit
    <3>3. \A i \in DOMAIN ids : ids[i] \in counter + 1 .. counter + FleetSize
      BY <1>1
    <3>4. \A s \in ToSet(ids) : Has(resident', s)
      <4> HIDE DEF ids
      <4> QED
        BY <3>1, <3>2, <3>3 DEF ToSet
    <3>5. ToSet(ids) \subseteq ToSet(resident')
      <4> HIDE DEF ids
      <4> QED
        BY <3>4 DEF ToSet, Has
    <3> HIDE DEF ids
    <3> QED
      BY <3>5 DEF Found
  <2>2. ids \in Seq(1 .. counter')
    <3>1. \A i \in 1 .. FleetSize : counter + i \in 1 .. counter'
      BY <1>1
    <3> QED
      BY <1>1, <3>1
  <2> HIDE DEF ids, waits
  <2> QED
    BY <2>1, <2>2, <2>3 DEF IsFleet
<1>6. ASSUME NEW g \in Fleet
      PROVE  IsFleet(g)'
  BY <1>2, <1>4, <1>5, FleetsStay DEF IInv
<1> QED
  BY <1>2, <1>3, <1>6 DEF IInv, Fleets

LEMMA CreateFleetFailsStep == IInv /\ CreateFleetFails => IInv'
<1> SUFFICES ASSUME IInv, CreateFleetFails PROVE IInv'
  OBVIOUS
<1>1. PICK k \in 0 .. FleetSize - 1 :
        /\ counter + k <= MaxStarts
        /\ k > 0 => Last(Admitted[k]) = counter + k
        /\ Full(Admitted[k])
        /\ Admit(k)
  BY DEF CreateFleetFails
<1>2. k \in Nat /\ counter \in Nat
  BY FleetAssumption DEF IInv, Records
<1>3. Len(Admitted[k]) > 0
  <2> DEFINE map == Admitted[k]
  <2>1. IsMap(map, counter + k)
    BY <1>1, <1>2, AdmittedKeeps DEF AdmittedAt, IInv
  <2>2. Full(map)
    BY <1>1
  <2> HIDE DEF map
  <2>3. Len(map) \in Nat
    BY <2>1 DEF IsMap
  <2>4. Len(map) # 0
    <3>1. SUFFICES ASSUME Len(map) = 0 PROVE FALSE
      OBVIOUS
    <3>2. Evict(map) = map
      BY <3>1, BoundsAssumption DEF Evict
    <3> QED
      BY <2>2, <3>1, <3>2, BoundsAssumption DEF Full
  <2>5. Len(map) > 0
    BY <2>3, <2>4
  <2> QED
    BY <2>5 DEF map
<1>4. Records' /\ Residents' /\ Subscribers' /\ Streams' /\ Onward
  BY <1>1, <1>2, <1>3, AdmitStep DEF CreateFleetFails
<1> QED
  BY <1>4, AllFleetsStay DEF IInv, CreateFleetFails

-----------------------------------------------------------------------------
(* A session runs, and ends.                                               *)

\* The record of one running session changes, and it stays or is sealed.
LEMMA OneRecord ==
  ASSUME IInv, NEW s \in Id, Running(s), NEW r, IsRecord(r),
         r.status \in {"running", "sealed"},
         record' = [record EXCEPT ![s] = r], counter' = counter,
         resident' = resident
  PROVE  /\ Records' /\ Residents' /\ Onward
         /\ record'[s] = r /\ \A t \in Id : t # s => record'[t] = record[t]
<1>1. record'[s] = r /\ \A t \in Id : t # s => record'[t] = record[t]
  BY DEF IInv, Records
<1>2. ~ (s > counter) /\ counter \in Nat
  BY DEF Running, IInv, Records
<1>3. Records'
  <2>1. record' = [t \in Id |-> record'[t]]
    BY DEF IInv, Records
  <2>2. ASSUME NEW t \in Id
        PROVE  /\ IsRecord(record'[t])
               /\ t > counter' => record'[t].status = "none"
    BY <1>1, <1>2 DEF IInv, Records
  <2> QED
    BY <2>1, <2>2 DEF IInv, Records
<1>4. \A t \in Id : Running(t)' => Running(t)
  BY <1>1 DEF Running
<1>5. Residents'
  BY <1>4 DEF IInv, Residents, Holds
<1>6. Onward
  <2>1. 1 .. counter \subseteq Id
    BY BoundsAssumption DEF IInv, Records, Id
  <2>2. \A t \in 1 .. counter :
          record[t].status = "sealed" => record'[t] = record[t]
    BY <1>1, <2>1 DEF Running
  <2> QED
    BY <1>2, <2>2 DEF Onward
<1> QED
  BY <1>1, <1>3, <1>5, <1>6

\* A stream of another session.
LEMMA OtherStream ==
  ASSUME IInv, NEW s \in Id, NEW c \in Client, watching[c] # s,
         \A t \in Id : t # s => record'[t] = record[t],
         \A t \in Id : t # s => subscribers'[t] = subscribers[t],
         watching'[c] = watching[c], frames'[c] = frames[c], ended \subseteq ended'
  PROVE  Stream(c)'
<1> DEFINE w == watching[c]
<1>1. w \in 0 .. counter /\ counter \in 0 .. MaxStarts /\ MaxStarts \in Nat
  BY BoundsAssumption DEF IInv, Subscribers, Records
<1>2. Stream(c) /\ w # s
  BY DEF IInv, Streams
<1>3. w # 0 => w \in Id
  <2> HIDE DEF w
  <2> QED
    BY <1>1 DEF Id
<1>4. w # 0 => record'[w] = record[w] /\ record[w].events \in Nat
                 /\ subscribers'[w] = subscribers[w]
  BY <1>2, <1>3 DEF IInv, Records, IsRecord
<1>5. watching'[c] = w
  OBVIOUS
<1> HIDE DEF w
<1> QED
  BY <1>2, <1>4, <1>5, StreamStays DEF w

\* The streams of others are sent nothing.
LEMMA OthersQuiet ==
  ASSUME IInv, NEW s \in Id, NEW c \in Client, watching[c] # s \/ c \notin subscribers[s],
         NEW new, Broadcast(s, new)
  PROVE  frames'[c] = frames[c]
<1>1. c \notin subscribers[s]
  BY DEF IInv, Subscribers
<1> QED
  BY <1>1 DEF Broadcast

LEMMA EmitStep == \A s \in Id : IInv /\ EmitEvent(s) => IInv'
<1> SUFFICES ASSUME IInv, NEW s \in Id, EmitEvent(s) PROVE IInv'
  OBVIOUS
<1> DEFINE e == record[s].events
           r == [record[s] EXCEPT !.events = @ + 1]
<1>1. Running(s) /\ IsRecord(record[s]) /\ e \in Nat
  BY DEF EmitEvent, IInv, Records, IsRecord
<1>2. IsRecord(r) /\ r.events = e + 1 /\ r.status = "running" /\ r.ok = record[s].ok
  BY <1>1 DEF IsRecord, Running
<1>3. record' = [record EXCEPT ![s] = r]
  BY DEF EmitEvent
<1> HIDE DEF r
<1>4. /\ Records' /\ Residents' /\ Onward
      /\ record'[s] = r /\ \A t \in Id : t # s => record'[t] = record[t]
  BY <1>1, <1>2, <1>3, OneRecord DEF EmitEvent
<1>5. Subscribers'
  BY <1>2, <1>4 DEF EmitEvent, IInv, Subscribers, Running
<1>6. Broadcast(s, <<Event(e + 1)>>)
  BY DEF EmitEvent
<1>7. ASSUME NEW c \in Client
      PROVE  Stream(c)'
  <2>1. Stream(c) /\ UNCHANGED <<watching, subscribers, ended>> /\ s # 0
    BY DEF EmitEvent, IInv, Streams, Id
  <2>2. CASE watching[c] # s
    BY <1>4, <1>6, <2>1, <2>2, OtherStream, OthersQuiet
  <2>3. CASE watching[c] = s /\ c \in subscribers[s]
    <3>1. frames'[c] = frames[c] \o <<Event(e + 1)>>
      BY <1>6, <2>3 DEF Broadcast
    <3>2. frames[c] = Upto(e)
      BY <2>1, <2>3 DEF Stream, Live, Cut, Whole
    <3>3. frames'[c] = Upto(e + 1)
      BY <1>1, <3>1, <3>2, NextEvent
    <3>4. Live(c, s)'
      BY <1>2, <1>4, <2>1, <2>3, <3>3 DEF Live
    <3> QED
      BY <2>1, <2>3, <3>4 DEF Stream
  <2>4. CASE watching[c] = s /\ c \notin subscribers[s]
    <3>1. frames'[c] = frames[c]
      BY <1>6, <2>4, OthersQuiet
    <3>2. Cut(c, s)
      BY <1>1, <2>1, <2>4 DEF Stream, Live, Whole, Running
    <3>3. 0 .. e \subseteq 0 .. e + 1
      BY <1>1
    <3>4. Cut(c, s)'
      BY <1>2, <1>4, <2>1, <3>1, <3>2, <3>3 DEF Cut
    <3> QED
      BY <2>1, <2>4, <3>4 DEF Stream
  <2> QED
    BY <2>2, <2>3, <2>4
<1>8. Streams'
  BY <1>6, <1>7 DEF Streams, Broadcast
<1> QED
  BY <1>4, <1>5, <1>8, AllFleetsStay DEF IInv, EmitEvent

\* The end of a session's streams.
LEMMA EndStep ==
  ASSUME IInv, NEW s \in Id, EndStreams(s), counter' = counter,
         watching' = watching, record'[s].status = "sealed",
         \A t \in Id : t # s => record'[t] = record[t]
  PROVE  /\ Subscribers'
         /\ \A t \in Id : t # s => subscribers'[t] = subscribers[t]
         /\ subscribers'[s] = {} /\ ended \subseteq ended'
         /\ subscribers[s] \subseteq ended'
<1>1. /\ subscribers' \in [Id -> SUBSET Client]
      /\ \A t \in Id : t # s => subscribers'[t] = subscribers[t]
      /\ subscribers'[s] = {} /\ ended \subseteq ended'
      /\ subscribers[s] \subseteq ended'
  BY DEF EndStreams, IInv, Subscribers
<1>2. \A t \in Id : Cardinality(subscribers'[t]) <= MaxSubscribers
  <2>1. Cardinality(subscribers'[s]) = 0
    BY <1>1, FS_EmptySet
  <2>2. \A t \in Id : Cardinality(subscribers[t]) <= MaxSubscribers
    BY DEF IInv, Subscribers
  <2>3. MaxSubscribers \in Nat
    BY BoundsAssumption
  <2> QED
    BY <1>1, <2>1, <2>2, <2>3
<1>3. \A t \in Id : \A c \in subscribers'[t] : watching'[c] = t /\ Running(t)'
  BY <1>1 DEF IInv, Subscribers, Running
<1> QED
  BY <1>1, <1>2, <1>3 DEF IInv, Subscribers

LEMMA SealStep == \A s \in Id : IInv /\ SealSession(s) => IInv'
<1> SUFFICES ASSUME IInv, NEW s \in Id, SealSession(s) PROVE IInv'
  OBVIOUS
<1>0. PICK disk \in Persisted :
        record' = [record EXCEPT ![s].status = "sealed", ![s].events = @ + 1,
                                 ![s].disk = disk, ![s].ok = TRUE]
  BY DEF SealSession
<1> DEFINE e == record[s].events
           r == [record[s] EXCEPT !.status = "sealed", !.events = @ + 1,
                                  !.disk = disk, !.ok = TRUE]
<1>1. Running(s) /\ IsRecord(record[s]) /\ e \in Nat
  BY DEF SealSession, IInv, Records, IsRecord
<1>2. IsRecord(r) /\ r.events = e + 1 /\ r.status = "sealed" /\ r.ok = TRUE
  <2>1. record[s] = [x \in {"status", "events", "disk", "ok"} |-> record[s][x]]
    BY <1>1 DEF IsRecord
  <2>2. /\ r.status = "sealed" /\ r.events = e + 1 /\ r.ok = TRUE
        /\ r.ok \in BOOLEAN
        /\ r = [x \in {"status", "events", "disk", "ok"} |-> r[x]]
    BY <2>1
  <2> HIDE DEF r
  <2> QED
    BY <1>1, <2>2 DEF IsRecord, Status
<1>3. record' = [record EXCEPT ![s] = r]
  BY <1>0, <1>1 DEF IInv, Records, IsRecord
<1> HIDE DEF r
<1>4. /\ Records' /\ Residents' /\ Onward
      /\ record'[s] = r /\ \A t \in Id : t # s => record'[t] = record[t]
  BY <1>1, <1>2, <1>3, OneRecord DEF SealSession
<1>5. /\ Subscribers'
      /\ \A t \in Id : t # s => subscribers'[t] = subscribers[t]
      /\ subscribers'[s] = {} /\ ended \subseteq ended'
      /\ subscribers[s] \subseteq ended'
  BY <1>2, <1>4, EndStep DEF SealSession
<1>6. Broadcast(s, <<Event(e + 1), Sealed>>)
  BY DEF SealSession
<1>7. ASSUME NEW c \in Client
      PROVE  Stream(c)'
  <2>1. Stream(c) /\ watching' = watching /\ s # 0
    BY DEF SealSession, IInv, Streams, Id
  <2>2. CASE watching[c] # s
    BY <1>4, <1>5, <1>6, <2>1, <2>2, OtherStream, OthersQuiet
  <2>3. CASE watching[c] = s /\ c \in subscribers[s]
    <3>1. frames'[c] = frames[c] \o <<Event(e + 1), Sealed>>
      BY <1>6, <2>3 DEF Broadcast
    <3>2. frames[c] = Upto(e)
      BY <2>1, <2>3 DEF Stream, Live, Cut, Whole
    <3>3. frames'[c] = Upto(e + 1) \o <<Sealed>>
      BY <1>1, <3>1, <3>2, NextEvent
    <3>4. Whole(c, s)'
      BY <1>2, <1>4, <1>5, <2>3, <3>3 DEF Whole
    <3> QED
      BY <2>1, <2>3, <3>4 DEF Stream
  <2>4. CASE watching[c] = s /\ c \notin subscribers[s]
    <3>1. frames'[c] = frames[c]
      BY <1>6, <2>4, OthersQuiet
    <3>2. Cut(c, s)
      BY <1>1, <2>1, <2>4 DEF Stream, Live, Whole, Running
    <3>3. 0 .. e \subseteq 0 .. e + 1
      BY <1>1
    <3>4. Cut(c, s)'
      BY <1>2, <1>4, <1>5, <3>1, <3>2, <3>3 DEF Cut
    <3> QED
      BY <2>1, <2>4, <3>4 DEF Stream
  <2> QED
    BY <2>2, <2>3, <2>4
<1>8. Streams'
  BY <1>6, <1>7 DEF Streams, Broadcast
<1> QED
  BY <1>4, <1>5, <1>8, AllFleetsStay DEF IInv, SealSession

LEMMA RejectStep == \A s \in Id : IInv /\ RunRejects(s) => IInv'
<1> SUFFICES ASSUME IInv, NEW s \in Id, RunRejects(s) PROVE IInv'
  OBVIOUS
<1>0. PICK disk \in Persisted :
        record' = [record EXCEPT ![s].status = "sealed", ![s].disk = disk]
  BY DEF RunRejects
<1> DEFINE e == record[s].events
           r == [record[s] EXCEPT !.status = "sealed", !.disk = disk]
<1>1. Running(s) /\ IsRecord(record[s]) /\ e \in Nat
  BY DEF RunRejects, IInv, Records, IsRecord
<1>2. IsRecord(r) /\ r.events = e /\ r.status = "sealed"
  BY <1>1 DEF IsRecord, Status
<1>3. record' = [record EXCEPT ![s] = r]
  BY <1>0, <1>1 DEF IInv, Records, IsRecord
<1> HIDE DEF r
<1>4. /\ Records' /\ Residents' /\ Onward
      /\ record'[s] = r /\ \A t \in Id : t # s => record'[t] = record[t]
  BY <1>1, <1>2, <1>3, OneRecord DEF RunRejects
<1>5. /\ Subscribers'
      /\ \A t \in Id : t # s => subscribers'[t] = subscribers[t]
      /\ subscribers'[s] = {} /\ ended \subseteq ended'
  BY <1>2, <1>4, EndStep DEF RunRejects
<1>6. ASSUME NEW c \in Client
      PROVE  Stream(c)'
  <2>1. Stream(c) /\ watching' = watching /\ frames' = frames /\ s # 0
    BY DEF RunRejects, IInv, Streams, Id
  <2>2. CASE watching[c] # s
    BY <1>4, <1>5, <2>1, <2>2, OtherStream
  <2>3. CASE watching[c] = s
    <3>1. \E k \in 0 .. e : frames[c] = Upto(k)
      <4>1. e \in 0 .. e
        BY <1>1
      <4> QED
        BY <1>1, <2>1, <2>3, <4>1 DEF Stream, Live, Cut, Whole, Running
    <3>2. Cut(c, s)'
      BY <1>2, <1>4, <1>5, <2>1, <3>1 DEF Cut
    <3> QED
      BY <2>1, <2>3, <3>2 DEF Stream
  <2> QED
    BY <2>2, <2>3
<1>7. Streams'
  BY <1>6 DEF RunRejects, IInv, Streams
<1> QED
  BY <1>4, <1>5, <1>7, AllFleetsStay DEF IInv, RunRejects

-----------------------------------------------------------------------------
(* Clients come and go, and fleets seal.                                   *)

LEMMA SubscribeStep ==
  \A c \in Client, s \in Id : IInv /\ Subscribe(c, s) => IInv'
<1> SUFFICES ASSUME IInv, NEW c \in Client, NEW s \in Id, Subscribe(c, s)
             PROVE  IInv'
  OBVIOUS
<1>1. /\ Records' /\ Residents' /\ Onward
      /\ UNCHANGED <<record, ended, fleets>> /\ s # 0
      /\ record[s].events \in Nat
  BY DEF Subscribe, IInv, Records, IsRecord, Residents, Holds, Running, Onward, Id
<1>2. Running(s) /\ s \in 0 .. counter
  BY DEF Subscribe, Running, IInv, Records, Id
<1>3. /\ watching'[c] = s /\ \A d \in Client : d # c => watching'[d] = watching[d]
      /\ watching' \in [Client -> 0 .. counter]
  BY <1>2 DEF Subscribe, IInv, Subscribers
<1>4. /\ subscribers'[s] = subscribers[s] \cup {c}
      /\ \A t \in Id : t # s => subscribers'[t] = subscribers[t]
      /\ subscribers' \in [Id -> SUBSET Client]
  BY DEF Subscribe, IInv, Subscribers
<1>5. /\ frames'[c] = Upto(record[s].events)
      /\ \A d \in Client : d # c => frames'[d] = frames[d]
      /\ frames' = [d \in Client |-> frames'[d]]
  BY DEF Subscribe, IInv, Streams, Replay, Upto
<1>6. \A t \in Id : c \notin subscribers[t]
  BY DEF Subscribe, IInv, Subscribers, Id
<1>7. Subscribers'
  <2>1. Cardinality(subscribers'[s]) <= MaxSubscribers
    <3>1. IsFiniteSet(subscribers[s])
      BY ActorsAssumption, FS_Subset DEF IInv, Subscribers
    <3>2. Cardinality(subscribers[s]) \in Nat
      BY <3>1, FS_CardinalityType
    <3>3. Cardinality(subscribers'[s]) = Cardinality(subscribers[s]) + 1
      BY <1>4, <1>6, <3>1, FS_AddElement
    <3> QED
      BY <3>2, <3>3, BoundsAssumption DEF Subscribe
  <2>2. \A t \in Id : Cardinality(subscribers'[t]) <= MaxSubscribers
    BY <1>4, <2>1 DEF IInv, Subscribers
  <2>3. ASSUME NEW t \in Id, NEW d \in subscribers'[t]
        PROVE  watching'[d] = t /\ Running(t)'
    <3>1. CASE d = c
      BY <1>1, <1>2, <1>3, <1>4, <1>6, <2>3, <3>1 DEF Running
    <3>2. CASE d # c
      <4>1. d \in subscribers[t] /\ d \in Client
        BY <1>4, <2>3, <3>2
      <4> QED
        BY <1>1, <1>3, <3>2, <4>1 DEF IInv, Subscribers, Running
    <3> QED
      BY <3>1, <3>2
  <2>4. counter' = counter
    BY DEF Subscribe
  <2> QED
    BY <1>3, <1>4, <2>2, <2>3, <2>4 DEF Subscribers
<1>8. ASSUME NEW d \in Client
      PROVE  Stream(d)'
  <2>1. CASE d = c
    <3>1. Live(c, s)'
      BY <1>1, <1>4, <1>5 DEF Live
    <3> QED
      BY <1>3, <2>1, <3>1 DEF Stream
  <2>2. CASE d # c
    <3> DEFINE w == watching[d]
    <3>1. Stream(d) /\ watching'[d] = w /\ w \in 0 .. counter
          /\ frames'[d] = frames[d]
      BY <1>3, <1>5, <2>2 DEF IInv, Streams, Subscribers
    <3>2. counter \in 0 .. MaxStarts /\ MaxStarts \in Nat
      BY BoundsAssumption DEF IInv, Records
    <3> HIDE DEF w
    <3>3. w # 0 => w \in Id
      BY <3>1, <3>2 DEF Id
    <3>4. w # 0 => record[w].events \in Nat
      BY <3>3 DEF IInv, Records, IsRecord
    <3>5. w # 0 /\ d \in subscribers'[w] => d \in subscribers[w]
      BY <1>4, <2>2, <3>3
    <3> QED
      BY <1>1, <3>1, <3>4, <3>5, StreamStays DEF w
  <2> QED
    BY <2>1, <2>2
<1> QED
  BY <1>1, <1>5, <1>7, <1>8, AllFleetsStay DEF IInv, Streams

LEMMA SubscribeSealedStep ==
  \A c \in Client, s \in Id : IInv /\ SubscribeSealed(c, s) => IInv'
<1> SUFFICES ASSUME IInv, NEW c \in Client, NEW s \in Id, SubscribeSealed(c, s)
             PROVE  IInv'
  OBVIOUS
<1>1. /\ Records' /\ Residents' /\ Onward
      /\ UNCHANGED <<record, subscribers, fleets>> /\ s # 0
      /\ record[s].events \in Nat /\ ended' = ended \cup {c}
  BY DEF SubscribeSealed, IInv, Records, IsRecord, Residents, Holds, Running,
         Onward, Id
<1>2. record[s].status = "sealed" /\ s \in 0 .. counter
  BY DEF SubscribeSealed, IInv, Records, Id
<1>3. /\ watching'[c] = s /\ \A d \in Client : d # c => watching'[d] = watching[d]
      /\ watching' \in [Client -> 0 .. counter]
  BY <1>2 DEF SubscribeSealed, IInv, Subscribers
<1> DEFINE tail == IF record[s].ok THEN <<Sealed>> ELSE <<>>
<1>4. /\ frames'[c] = Upto(record[s].events) \o tail
      /\ \A d \in Client : d # c => frames'[d] = frames[d]
      /\ frames' = [d \in Client |-> frames'[d]]
  BY DEF SubscribeSealed, IInv, Streams, Replay, Upto
<1>5. \A t \in Id : c \notin subscribers[t]
  BY DEF SubscribeSealed, IInv, Subscribers, Id
<1>6. Subscribers'
  <2>1. ASSUME NEW t \in Id, NEW d \in subscribers[t]
        PROVE  watching'[d] = t /\ Running(t)'
    <3>1. d # c /\ d \in Client /\ watching[d] = t /\ Running(t)
      BY <1>5, <2>1 DEF IInv, Subscribers
    <3> QED
      BY <1>1, <1>3, <3>1 DEF Running
  <2>2. counter' = counter
    BY DEF SubscribeSealed
  <2> QED
    BY <1>1, <1>3, <2>1, <2>2 DEF IInv, Subscribers
<1>7. ASSUME NEW d \in Client
      PROVE  Stream(d)'
  <2>1. CASE d = c
    <3>1. c \notin subscribers'[s] /\ c \in ended'
      BY <1>1, <1>5
    <3>2. CASE record[s].ok
      <4>1. Whole(c, s)'
        BY <1>1, <1>2, <1>4, <3>1, <3>2 DEF Whole
      <4> QED
        BY <1>3, <2>1, <4>1 DEF Stream
    <3>3. CASE ~ record[s].ok
      <4>1. Upto(record[s].events) \o <<>> = Upto(record[s].events)
        BY <1>1, UptoIs, ConcatEmptySeq
      <4>2. frames'[c] = Upto(record[s].events)
        BY <1>4, <3>3, <4>1
      <4>3. record[s].events \in 0 .. record[s].events
        BY <1>1
      <4>4. Cut(c, s)'
        BY <1>1, <3>1, <4>2, <4>3 DEF Cut
      <4> QED
        BY <1>3, <2>1, <4>4 DEF Stream
    <3> QED
      BY <3>2, <3>3
  <2>2. CASE d # c
    <3> DEFINE w == watching[d]
    <3>1. Stream(d) /\ watching'[d] = w /\ w \in 0 .. counter
          /\ frames'[d] = frames[d]
      BY <1>3, <1>4, <2>2 DEF IInv, Streams, Subscribers
    <3>2. counter \in 0 .. MaxStarts /\ MaxStarts \in Nat
      BY BoundsAssumption DEF IInv, Records
    <3> HIDE DEF w
    <3>3. w # 0 => w \in Id
      BY <3>1, <3>2 DEF Id
    <3>4. w # 0 => record[w].events \in Nat
      BY <3>3 DEF IInv, Records, IsRecord
    <3> QED
      BY <1>1, <3>1, <3>4, StreamStays DEF w
  <2> QED
    BY <2>1, <2>2
<1> QED
  BY <1>1, <1>4, <1>6, <1>7, AllFleetsStay DEF IInv, Streams

\* The sessions are what they were.
LEMMA RecordsStay ==
  ASSUME IInv, UNCHANGED <<counter, resident, record>>
  PROVE  Records' /\ Residents' /\ \A s \in 1 .. counter : record'[s] = record[s]
BY DEF IInv, Records, Residents, Holds, Running

LEMMA DisconnectStep == \A c \in Client : IInv /\ Disconnect(c) => IInv'
<1> SUFFICES ASSUME IInv, NEW c \in Client, Disconnect(c) PROVE IInv'
  OBVIOUS
<1> DEFINE s == watching[c]
<1>1. /\ UNCHANGED <<counter, resident, record, frames, watching, fleets>>
      /\ ended' = ended \cup {c}
  BY DEF Disconnect
<1>2. Records' /\ Residents' /\ Onward
  BY <1>1, RecordsStay DEF IInv, Records, Onward
<1>3. s \in Id
  <2>1. s \in 0 .. counter /\ s # 0 /\ counter \in 0 .. MaxStarts /\ MaxStarts \in Nat
    BY BoundsAssumption DEF Disconnect, IInv, Subscribers, Records
  <2> HIDE DEF s
  <2> QED
    BY <2>1 DEF Id
<1>4. /\ subscribers'[s] = subscribers[s] \ {c}
      /\ \A t \in Id : t # s => subscribers'[t] = subscribers[t]
      /\ subscribers' \in [Id -> SUBSET Client]
  BY <1>3 DEF Disconnect, IInv, Subscribers
<1> HIDE DEF s
<1>5. Subscribers'
  <2>1. Cardinality(subscribers'[s]) <= MaxSubscribers
    <3>1. IsFiniteSet(subscribers[s])
      BY <1>3, ActorsAssumption, FS_Subset DEF IInv, Subscribers
    <3>2. /\ Cardinality(subscribers'[s]) <= Cardinality(subscribers[s])
          /\ Cardinality(subscribers[s]) \in Nat
          /\ Cardinality(subscribers'[s]) \in Nat
      BY <1>4, <3>1, FS_Subset, FS_CardinalityType
    <3>3. Cardinality(subscribers[s]) <= MaxSubscribers
      BY <1>3 DEF IInv, Subscribers
    <3> QED
      BY <3>2, <3>3, BoundsAssumption
  <2>2. \A t \in Id : Cardinality(subscribers'[t]) <= MaxSubscribers
    BY <1>4, <2>1 DEF IInv, Subscribers
  <2>3. \A t \in Id : \A d \in subscribers'[t] : watching'[d] = t /\ Running(t)'
    BY <1>1, <1>4 DEF IInv, Subscribers, Running
  <2> QED
    BY <1>1, <1>4, <2>2, <2>3 DEF IInv, Subscribers
<1>6. ASSUME NEW d \in Client
      PROVE  Stream(d)'
  <2> DEFINE w == watching[d]
  <2>1. Stream(d) /\ watching'[d] = w /\ w \in 0 .. counter
        /\ frames'[d] = frames[d]
    BY <1>1 DEF IInv, Streams, Subscribers
  <2>2. counter \in 0 .. MaxStarts /\ MaxStarts \in Nat
    BY BoundsAssumption DEF IInv, Records
  <2> HIDE DEF w
  <2>3. w # 0 => w \in Id
    BY <2>1, <2>2 DEF Id
  <2>4. w # 0 => record[w].events \in Nat
    BY <2>3 DEF IInv, Records, IsRecord
  <2>5. w # 0 /\ d \in subscribers'[w] => d \in subscribers[w]
    BY <1>4, <2>3
  <2> QED
    BY <1>1, <2>1, <2>4, <2>5, StreamStays DEF w
<1> QED
  BY <1>1, <1>2, <1>5, <1>6, AllFleetsStay DEF IInv, Streams

LEMMA CloseStep == IInv /\ Close => IInv'
<1> SUFFICES ASSUME IInv, Close PROVE IInv'
  OBVIOUS
<1>1. /\ UNCHANGED <<counter, resident, record, frames, watching, fleets>>
      /\ ended \subseteq ended'
  BY DEF Close
<1>2. /\ subscribers' \in [Id -> SUBSET Client]
      /\ \A s \in Id : subscribers'[s] = subscribers[s] \/ subscribers'[s] = {}
  BY DEF Close, IInv, Subscribers
<1>3. /\ Records' /\ Residents' /\ \A s \in 1 .. counter : record'[s] = record[s]
      /\ counter <= counter'
  BY <1>1, RecordsStay DEF IInv, Records
<1>4. Subscribers' /\ Streams' /\ Onward
  BY <1>1, <1>2, <1>3, SessionsStay
<1> QED
  BY <1>1, <1>3, <1>4, AllFleetsStay DEF IInv

LEMMA CompleteFleetStep == \A f \in Fleet : IInv /\ CompleteFleet(f) => IInv'
<1> SUFFICES ASSUME IInv, NEW f \in Fleet, CompleteFleet(f) PROVE IInv'
  OBVIOUS
<1>1. UNCHANGED <<counter, resident, record, subscribers, frames, watching, ended>>
  BY DEF CompleteFleet
<1>2. /\ Records' /\ Residents' /\ \A s \in 1 .. counter : record'[s] = record[s]
      /\ counter <= counter'
  BY <1>1, RecordsStay DEF IInv, Records
<1>3. Subscribers' /\ Streams' /\ Onward
  BY <1>1, <1>2, SessionsStay DEF IInv, Subscribers
<1>4. /\ fleets' = [g \in Fleet |-> fleets'[g]]
      /\ \A g \in Fleet : g # f => fleets'[g] = fleets[g]
  BY DEF CompleteFleet, IInv, Fleets
<1>5. IsFleet(f)'
  <2> DEFINE ids == ToSet(fleets[f].ids)
  <2>1. /\ fleets[f] = [x \in {"status", "ids", "waits", "ledger", "verified"} |->
                          fleets[f][x]]
        /\ fleets[f].ids \in Seq(1 .. counter)
        /\ fleets[f].waits = ids /\ AllSealed(f)
    BY DEF IInv, Fleets, IsFleet, CompleteFleet
  <2>2. PICK built \in BOOLEAN :
          fleets' = [fleets EXCEPT
            ![f].status = "sealed", ![f].verified = built,
            ![f].ledger = IF built THEN FleetLedger(f) ELSE NoLedger]
    BY DEF CompleteFleet
  <2>3. PICK ledger :
          /\ built => ledger = FleetLedger(f)
          /\ fleets' = [fleets EXCEPT
               ![f].status = "sealed", ![f].verified = built,
               ![f].ledger = ledger]
    <3>1. CASE built
      BY <2>2, <3>1, Zenon
    <3>2. CASE ~built
      BY <2>2, <3>2, Zenon
    <3> QED
      BY <3>1, <3>2
  <2>4. fleets'[f] = [fleets[f] EXCEPT !.status = "sealed", !.verified = built,
                                       !.ledger = ledger]
    BY <2>3 DEF IInv, Fleets
  <2>5. /\ fleets'[f] = [x \in {"status", "ids", "waits", "ledger", "verified"} |->
                           fleets'[f][x]]
        /\ fleets'[f].ids = fleets[f].ids
        /\ fleets'[f].status = "sealed"
        /\ fleets'[f].verified = built
        /\ fleets'[f].ledger = ledger
    BY <2>1, <2>4
  <2>6. ASSUME NEW s \in ids
        PROVE  record'[s].status = "sealed" /\ WorkerResult(s)' = WorkerResult(s)
    BY <1>1, <2>1 DEF AllSealed, WorkerResult, VerifySessionRecord
  <2>7. ASSUME built
        PROVE  /\ DOMAIN ledger = ids
               /\ \A s \in ids : Bound(ledger[s], s)'
    <3>1. ledger = [s \in ids |-> WorkerResult(s)]
      BY <2>1, <2>3, <2>7 DEF FleetLedger
    <3> HIDE DEF ids
    <3> QED
      BY <2>6, <3>1 DEF Bound
  <2>8. counter' = counter
    BY <1>1
  <2> QED
    BY <2>1, <2>5, <2>7, <2>8 DEF IsFleet
<1>6. ASSUME NEW g \in Fleet
      PROVE  IsFleet(g)'
  BY <1>3, <1>4, <1>5, FleetsStay DEF IInv
<1> QED
  BY <1>2, <1>3, <1>4, <1>6 DEF IInv, Fleets

-----------------------------------------------------------------------------
(* The inductive invariant, and what follows from it.                      *)

LEMMA IInvInit == Init => IInv
<1> SUFFICES ASSUME Init PROVE IInv
  OBVIOUS
<1> USE DEF Init
<1>1. Records
  <2>1. IsRecord(Unstarted)
    BY DEF IsRecord, Unstarted, Status
  <2> QED
    BY <2>1, BoundsAssumption DEF Records, Unstarted
<1>2. Residents
  BY <1>1, BoundsAssumption DEF Residents, IsMap, IsInjective, Holds, Running, Unstarted
<1>3. Subscribers
  BY FS_EmptySet, BoundsAssumption DEF Subscribers
<1>4. Streams
  BY DEF Streams, Stream
<1>5. Fleets
  <2>1. \A f \in Fleet : IsFleet(f)
    <3>1. /\ NoFleet = [x \in {"status", "ids", "waits", "ledger", "verified"} |->
                          NoFleet[x]]
          /\ NoFleet.status # "running" /\ ~NoFleet.verified
          /\ NoFleet.ids = <<>>
      BY DEF NoFleet
    <3>2. <<>> \in Seq(1 .. counter)
      OBVIOUS
    <3>3. \A f \in Fleet : fleets[f] = NoFleet
      OBVIOUS
    <3> QED
      BY <3>1, <3>2, <3>3 DEF IsFleet
  <2> QED
    BY <2>1 DEF Fleets
<1> QED
  BY <1>1, <1>2, <1>3, <1>4, <1>5 DEF IInv

LEMMA IInvStep == IInv /\ [Next]_vars => IInv'
<1> SUFFICES ASSUME IInv, [Next]_vars PROVE IInv'
  OBVIOUS
<1>1. CASE UNCHANGED vars
  <2>1. /\ UNCHANGED <<counter, resident, record, subscribers, frames, watching,
                       ended, fleets>>
    BY <1>1 DEF vars
  <2>2. /\ Records' /\ Residents' /\ \A s \in 1 .. counter : record'[s] = record[s]
        /\ counter <= counter'
    BY <2>1, RecordsStay DEF IInv, Records
  <2>3. Subscribers' /\ Streams' /\ Onward
    BY <2>1, <2>2, SessionsStay DEF IInv, Subscribers
  <2> QED
    BY <2>1, <2>2, <2>3, AllFleetsStay DEF IInv
<1> QED
  BY <1>1, StartStep, StartFailsStep, CreateFleetStep, CompleteFleetStep,
     CreateFleetFailsStep, EmitStep, SealStep, RejectStep, SubscribeStep,
     SubscribeSealedStep, DisconnectStep, CloseStep DEF Next, Step

LEMMA Invariance == Spec => []IInv
BY IInvInit, IInvStep, PTL DEF Spec

\* The map of server.ts holds every running session, each session once, and
\* never more than maxSessions, and no session has more subscribers than
\* maxSubscribers: whatever is started, refused half way, evicted or ended.
THEOREM RunningAreKept == Spec => []RunningStaysResident
<1>1. IInv => RunningStaysResident
  BY DEF IInv, Residents, IsMap, Holds, Has, Subscribers, RunningStaysResident,
         IsResident, ToSet
<1> QED
  BY <1>1, Invariance, PTL

\* However late a client subscribed, its stream is the hello and the events
\* from the first on, with no gap and none twice, and what says the session is
\* sealed comes after the last.
THEOREM StreamsAreFaithful == Spec => []StreamsFaithful
<1>1. ASSUME IInv, NEW c \in Client, watching[c] # 0
      PROVE  \E k \in 0 .. record[watching[c]].events :
               /\ \/ frames[c] = <<Hello>> \o Events(k)
                  \/ /\ frames[c] = <<Hello>> \o Events(k) \o <<Sealed>>
                     /\ record[watching[c]].ok
                     /\ k = record[watching[c]].events
                     /\ c \in ended
               /\ c \in subscribers[watching[c]] =>
                    k = record[watching[c]].events
  <2> DEFINE s == watching[c]
             e == record[s].events
  <2>1. s \in 0 .. counter /\ s # 0 /\ counter \in 0 .. MaxStarts /\ MaxStarts \in Nat
    BY <1>1, BoundsAssumption DEF IInv, Subscribers, Records
  <2>2. Live(c, s) \/ Cut(c, s) \/ Whole(c, s)
    BY <1>1 DEF IInv, Streams, Stream
  <2> HIDE DEF s
  <2>3. s \in Id
    BY <2>1 DEF Id
  <2>4. e \in Nat /\ e \in 0 .. e
    BY <1>1, <2>3 DEF IInv, Records, IsRecord
  <2>5. \E k \in 0 .. e :
          /\ \/ frames[c] = Upto(k)
             \/ frames[c] = Upto(k) \o <<Sealed>> /\ record[s].ok /\ k = e /\ c \in ended
          /\ c \in subscribers[s] => k = e
    BY <2>2, <2>4 DEF Live, Cut, Whole
  <2> QED
    BY <2>5 DEF Upto, s
<1>2. IInv => StreamsFaithful
  BY <1>1 DEF StreamsFaithful
<1> QED
  BY <1>2, Invariance, PTL

\* The Worker Ledger of a Manager fleet that verified binds every session of
\* the fleet at its last event: none was missing from the map when they were
\* looked up, and eviction takes none of them from the ledger.
THEOREM FleetsBindAll == Spec => []FleetBindsAll
<1>1. IInv => FleetBindsAll
  BY DEF IInv, Fleets, IsFleet, FleetBindsAll, Bound
<1> QED
  BY <1>1, Invariance, PTL
=============================================================================
