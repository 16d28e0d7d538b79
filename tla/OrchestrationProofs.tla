------------------------ MODULE OrchestrationProofs ------------------------
(***************************************************************************)
(* Proofs about an orchestration and the worker it runs: the conversation  *)
(* an agent has with its model stays paired and agrees with the record of  *)
(* its session, the worker ledger is bound to the sessions that were       *)
(* sealed, and what is returned is what that ledger proves, for every      *)
(* team, plan, number of turns and reply.                                  *)
(*                                                                         *)
(* The invariant says where things are: a turn adds two messages to a      *)
(* conversation, its reply and the results of its tool uses, and a subtask *)
(* adds two records to the ledger, its route and its result.               *)
(***************************************************************************)
EXTENDS Orchestration, TLAPS, NaturalsInduction, WellFoundedInduction,
        SequenceTheorems, FiniteSetTheorems

Result == [use : Nat, says : Says]

IsSeq(s) == Len(s) \in Nat /\ s = [j \in 1 .. Len(s) |-> s[j]]

\* The n-th result is that of the n-th tool use.
Numbered(r) == \A n \in DOMAIN r : r[n].use = n

\* Turn k of a conversation: a reply, and a result for each of its tool uses.
Paired(m, k) ==
  /\ m[2 * k + 2].role = "assistant"
  /\ m[2 * k + 2].uses \in Seq(Tool)
  /\ m[2 * k + 3].role = "user"
  /\ m[2 * k + 3].results \in Seq(Result)
  /\ Len(m[2 * k + 3].results) = Len(m[2 * k + 2].uses)
  /\ Numbered(m[2 * k + 3].results)

Exchanged(m, t) ==
  /\ IsSeq(m)
  /\ m[1].role = "user"
  /\ \A k \in 0 .. t - 1 : Paired(m, k)

\* The reply of turn t, whose tool uses the worker is at.
Replied(m, t) ==
  /\ Exchanged(m, t)
  /\ Len(m) = 2 * t + 2
  /\ m[Len(m)].role = "assistant"
  /\ m[Len(m)].uses \in Seq(Tool)

Conversation ==
  messages # <<>> =>
    /\ turn \in 0 .. MaxTurns
    /\ Exchanged(messages, turn)
    /\ results \in Seq(Result)
    /\ Numbered(results)
    /\ IsSeq(slog)
    /\ \/ Len(messages) = 2 * turn + 1 /\ results = <<>>
       \/ Len(messages) = 2 * turn + 2
    /\ wpc = "request" => Len(messages) = 2 * turn + 1 /\ turn < MaxTurns
    /\ wpc = "action" => /\ turn < MaxTurns
                         /\ Replied(messages, turn)
                         /\ Len(results) < Len(messages[Len(messages)].uses)

\* Which worker runs, and what it leaves.
Worker ==
  /\ wpc \in {"idle", "request", "action", "cli"}
  /\ opc # "work" \/ who = "guest" => wpc = "idle" /\ messages = <<>>
  /\ opc = "work" =>
       /\ who \in Team
       /\ who = "agent" => wpc # "cli" /\ messages # <<>>
       /\ who = "cli" => wpc \in {"cli", "idle"} /\ messages = <<>>
       /\ who # "guest" /\ wpc = "idle" => verdict \in {"completed", "failed"}
       /\ who = "cli" /\ wpc = "idle" /\ verdict = "completed" =>
            Notes(Recorded(slog), touched, measured)

Sessions ==
  /\ opc \in {"plan", "route", "work", "judge", "returned", "rejected"}
  /\ first \in Team \cup {"none"}
  /\ plan \in Nat
  /\ IsSeq(sealed) /\ IsSeq(steps) /\ Len(steps) = Len(sealed)
  /\ \A i \in DOMAIN sealed :
       /\ sealed[i].worker \in Team
       /\ steps[i].outcome = sealed[i].outcome
       /\ sealed[i].worker = "cli" /\ sealed[i].outcome = "completed" =>
            Notes(sealed[i].noted, sealed[i].touched, sealed[i].measured)
  /\ opc \in {"route", "work"} => Len(steps) < plan
  /\ opc \in {"judge", "returned"} => Len(steps) = plan

\* The records of the plan and its contract.
Heading(l, h) ==
  /\ h \in {1, 2}
  /\ IsSeq(l)
  /\ \A j \in 1 .. h : l[j].kind \in {"plan", "contract"}

\* Subtask i in the ledger: its route, and the result that pins its session.
Pinned(l, h, i, s) ==
  /\ l[h + 2 * i - 1] = RouteRecord(i, s.worker)
  /\ l[h + 2 * i] =
       ResultRecord(i, s.worker, WorkerResult(s.outcome, s.verified, i))

\* The end of the ledger, after the records of n subtasks.
Ending(h, n) ==
  /\ opc \in {"route", "judge"} => Len(ledger) = h + 2 * n
  /\ opc = "work" => /\ Len(ledger) = h + 2 * n + 1
                     /\ ledger[h + 2 * n + 1] = RouteRecord(n + 1, who)
  /\ opc = "rejected" =>
       \/ Len(ledger) = h + 2 * n
       \/ /\ Len(ledger) = h + 2 * n + 1
          /\ \E w \in Team : ledger[h + 2 * n + 1] = RouteRecord(n + 1, w)
  /\ opc = "returned" =>
       /\ \/ Len(ledger) = h + 2 * n + 1 /\ result.met = "none"
          \/ /\ Len(ledger) = h + 2 * n + 2
             /\ result.met \in {"met", "unmet"}
             /\ ledger[h + 2 * n + 1] = AcceptanceRecord(result.met = "met")
       /\ ledger[Len(ledger)] = DoneRecord(steps, result.met)
       /\ result.outcome = Outcome(steps)

Bound(h) ==
  /\ opc # "plan"
  /\ Heading(ledger, h)
  /\ \A i \in 1 .. Len(sealed) : Pinned(ledger, h, i, sealed[i])
  /\ Ending(h, Len(sealed))

Ledger ==
  \/ opc \in {"plan", "rejected"} /\ ledger = <<>> /\ sealed = <<>> /\ steps = <<>>
  \/ Bound(1) \/ Bound(2)

IInv == Conversation /\ ToldTheRecord /\ Worker /\ Sessions /\ Ledger

-----------------------------------------------------------------------------
(* Numbers and sequences.                                                  *)

LEMMA LeastNumber ==
  ASSUME NEW T, T \subseteq Nat, T # {}
  PROVE  \E n \in T : \A m \in T : n <= m
<1> DEFINE R == OpToRel(<, Nat)
<1>1. IsWellFoundedOn(R, Nat)
  BY NatLessThanWellFounded
<1>2. ASSUME NEW x \in Nat, NEW y \in Nat, x < y
      PROVE  <<x, y>> \in R
  BY <1>2 DEF OpToRel
<1> HIDE DEF R
<1>3. PICK n \in T : \A m \in T : ~ (<<m, n>> \in R)
  BY <1>1, WFMin
<1>4. \A m \in T : ~ (m < n)
  BY <1>2, <1>3
<1>5. \A m \in T : n <= m
  BY <1>4
<1> QED
  BY <1>5

\* What comes after the first records falls into pairs.
LEMMA InPairs ==
  ASSUME NEW n \in Nat, NEW d \in 1 .. 2 * n
  PROVE  \E i \in 1 .. n : d = 2 * i \/ d = 2 * i - 1
<1> DEFINE i == (d + 1) \div 2
<1>1. i \in 1 .. n /\ (d = 2 * i \/ d = 2 * i - 1)
  OBVIOUS
<1> QED
  BY <1>1

LEMMA SeqIs ==
  ASSUME NEW S, NEW s \in Seq(S)
  PROVE  /\ IsSeq(s)
         /\ s # <<>> => Len(s) # 0
         /\ \A j \in 1 .. Len(s) : s[j] \in S
BY DEF IsSeq

LEMMA EmptyIs == IsSeq(<<>>) /\ Len(<<>>) = 0
BY DEF IsSeq

LEMMA AppendIs ==
  ASSUME NEW s, IsSeq(s), NEW e
  PROVE  /\ IsSeq(Append(s, e))
         /\ Len(Append(s, e)) = Len(s) + 1
         /\ Append(s, e) # <<>>
         /\ Append(s, e)[Len(s) + 1] = e
         /\ \A j \in 1 .. Len(s) : Append(s, e)[j] = s[j]
         /\ Last(Append(s, e)) = e
<1> DEFINE S == {s[j] : j \in 1 .. Len(s)} \cup {e}
<1>1. s \in Seq(S)
  BY DEF IsSeq
<1>2. e \in S
  OBVIOUS
<1> HIDE DEF S
<1>3. /\ Append(s, e) \in Seq(S)
      /\ Len(Append(s, e)) = Len(s) + 1
      /\ Append(s, e)[Len(s) + 1] = e
      /\ \A j \in 1 .. Len(s) : Append(s, e)[j] = s[j]
  BY <1>1, <1>2, AppendProperties
<1>4. IsSeq(Append(s, e))
  BY <1>3, SeqIs
<1>5. Last(Append(s, e)) = e
  BY <1>3 DEF Last
<1>6. Append(s, e) # <<>>
  BY <1>3, EmptyIs, <1>1 DEF IsSeq
<1> QED
  BY <1>3, <1>4, <1>5, <1>6

LEMMA OneIs ==
  ASSUME NEW e
  PROVE  /\ IsSeq(<<e>>) /\ Len(<<e>>) = 1 /\ <<e>>[1] = e /\ <<e>> # <<>>
BY DEF IsSeq

LEMMA TwoAre ==
  ASSUME NEW e, NEW f
  PROVE  /\ IsSeq(<<e, f>>) /\ Len(<<e, f>>) = 2
         /\ <<e, f>>[1] = e /\ <<e, f>>[2] = f /\ <<e, f>> # <<>>
BY DEF IsSeq

LEMMA TwoJoin ==
  ASSUME NEW e, NEW f
  PROVE  <<e>> \o <<f>> = <<e, f>>
<1> DEFINE S == {e, f}
           s == <<e>>
           t == <<f>>
           u == <<e, f>>
<1>1. s \in Seq(S) /\ t \in Seq(S) /\ u \in Seq(S)
  OBVIOUS
<1>2. /\ Len(s) = 1 /\ Len(t) = 1 /\ Len(u) = 2
      /\ s[1] = e /\ t[1] = f /\ u[1] = e /\ u[2] = f
  OBVIOUS
<1> HIDE DEF S, s, t, u
<1>3. /\ s \o t \in Seq(S) /\ Len(s \o t) = Len(s) + Len(t)
      /\ \A i \in 1 .. Len(s) + Len(t) :
           (s \o t)[i] = IF i <= Len(s) THEN s[i] ELSE t[i - Len(s)]
  BY <1>1, ConcatProperties
<1>4. Len(s \o t) = 2 /\ (s \o t)[1] = e /\ (s \o t)[2] = f
  BY <1>2, <1>3
<1>5. s \o t = u
  BY <1>1, <1>2, <1>3, <1>4, SeqEqual
<1> QED
  BY <1>5 DEF s, t, u

-----------------------------------------------------------------------------
(* The tool uses of a reply.                                               *)

\* The answers given so far, and one for each unknown use up to use n.
Follows(seen, answers) ==
  /\ seen \in Seq(Result)
  /\ Numbered(seen)
  /\ Len(answers) <= Len(seen)
  /\ \A i \in 1 .. Len(answers) : seen[i] = answers[i]
  /\ \A i \in Len(answers) + 1 .. Len(seen) : seen[i].says = "unknown"

LEMMA UnknownsFollow ==
  ASSUME NEW answers \in Seq(Result), Numbered(answers), NEW uses, NEW n \in Nat,
         Len(answers) < n
  PROVE  /\ Follows(AnswerUnknown(answers, uses, n), answers)
         /\ Len(AnswerUnknown(answers, uses, n)) = n - 1
<1> DEFINE k == n - 1 - Len(answers)
           more == [i \in 1 .. k |-> Answer(Len(answers) + i, "unknown")]
           seen == answers \o more
<1>1. k \in Nat /\ Len(answers) \in Nat
  OBVIOUS
<1>2. \A i \in 1 .. k : Answer(Len(answers) + i, "unknown") \in Result
  BY <1>1 DEF Answer, Result, Says
<1>3. more \in Seq(Result) /\ Len(more) = k
  BY <1>1, <1>2
<1>4. \A i \in 1 .. k : more[i] = Answer(Len(answers) + i, "unknown")
  OBVIOUS
<1>5. AnswerUnknown(answers, uses, n) = seen
  BY DEF AnswerUnknown
<1> HIDE DEF more
<1>6. /\ seen \in Seq(Result) /\ Len(seen) = Len(answers) + Len(more)
      /\ \A i \in 1 .. Len(answers) + Len(more) :
           seen[i] = IF i <= Len(answers) THEN answers[i]
                     ELSE more[i - Len(answers)]
  BY <1>3, ConcatProperties
<1> HIDE DEF seen
<1>7. Len(seen) = n - 1
  BY <1>1, <1>3, <1>6
<1> HIDE DEF k
<1>8. \A i \in 1 .. Len(answers) : seen[i] = answers[i]
  BY <1>1, <1>3, <1>6
<1>9. \A i \in Len(answers) + 1 .. Len(seen) : seen[i] = Answer(i, "unknown")
  <2> TAKE i \in Len(answers) + 1 .. Len(seen)
  <2>1. i - Len(answers) \in 1 .. k /\ ~(i <= Len(answers)) /\ i \in Nat
    BY <1>1, <1>3, <1>6
  <2>2. seen[i] = more[i - Len(answers)]
    BY <1>1, <1>3, <1>6, <2>1
  <2>3. Len(answers) + (i - Len(answers)) = i
    BY <1>1, <2>1
  <2> QED
    BY <1>4, <2>1, <2>2, <2>3
<1>10. \A i : Answer(i, "unknown").use = i /\ Answer(i, "unknown").says = "unknown"
  BY DEF Answer
<1>11. ASSUME NEW i \in DOMAIN seen PROVE seen[i].use = i
  <2>1. i \in 1 .. Len(answers) \/ i \in Len(answers) + 1 .. Len(seen)
    BY <1>1, <1>6
  <2>2. CASE i \in 1 .. Len(answers)
    <3>1. answers[i].use = i
      BY <2>2 DEF Numbered
    <3> QED
      BY <1>8, <2>2, <3>1
  <2>3. CASE i \in Len(answers) + 1 .. Len(seen)
    BY <1>9, <1>10, <2>3
  <2> QED
    BY <2>1, <2>2, <2>3
<1>12. Numbered(seen)
  BY <1>11 DEF Numbered
<1>13. \A i \in Len(answers) + 1 .. Len(seen) : seen[i].says = "unknown"
  BY <1>9, <1>10
<1>14. Len(answers) <= Len(seen)
  BY <1>1, <1>7
<1> QED
  BY <1>5, <1>6, <1>7, <1>8, <1>12, <1>13, <1>14 DEF Follows

\* The next known use, or the end.
LEMMA NextKnown ==
  ASSUME NEW uses \in Seq(Tool), NEW a \in 0 .. Len(uses)
  PROVE  LET known == {i \in DOMAIN uses : i > a /\ uses[i] # "unknown"}
             next == IF known = {} THEN Len(uses) + 1 ELSE Min(known)
         IN /\ next \in Nat /\ a < next /\ next <= Len(uses) + 1
            /\ known # {} => next <= Len(uses) /\ uses[next] # "unknown"
<1> DEFINE known == {i \in DOMAIN uses : i > a /\ uses[i] # "unknown"}
<1>1. known \subseteq Nat
  OBVIOUS
<1>2. CASE known = {}
  BY <1>2
<1>3. CASE known # {}
  <2>1. \E n \in known : \A m \in known : n <= m
    BY <1>1, <1>3, LeastNumber
  <2>2. Min(known) \in known
    BY <2>1 DEF Min
  <2>3. Min(known) \in DOMAIN uses /\ Min(known) > a /\ uses[Min(known)] # "unknown"
    BY <2>2
  <2> QED
    BY <1>3, <2>3
<1> QED
  BY <1>2, <1>3

\* What the worker does next: an action, the end of the run, or another turn.
LEMMA HandleUsesIs ==
  ASSUME NEW conversation, NEW answers \in Seq(Result), Numbered(answers),
         NEW uses \in Seq(Tool), uses = Last(conversation).uses,
         Len(answers) <= Len(uses), HandleUses(conversation, answers)
  PROVE  \E seen \in Seq(Result) :
           /\ Follows(seen, answers)
           /\ Len(seen) <= Len(uses)
           /\ \/ /\ wpc' = "action" /\ Len(seen) < Len(uses)
                 /\ messages' = conversation /\ results' = seen
                 /\ turn' = turn
              \/ /\ wpc' = "idle" /\ verdict' \in {"completed", "failed"}
                 /\ messages' = conversation /\ results' = seen
                 /\ turn' = turn
              \/ Len(seen) = Len(uses) /\ EndTurn(conversation, seen)
<1> DEFINE known == {i \in DOMAIN uses : i > Len(answers) /\ uses[i] # "unknown"}
           next == IF known = {} THEN Len(uses) + 1 ELSE Min(known)
           seen == AnswerUnknown(answers, uses, next)
<1>1. /\ next \in Nat /\ Len(answers) < next /\ next <= Len(uses) + 1
      /\ known # {} => next <= Len(uses)
  <2>1. Len(answers) \in 0 .. Len(uses)
    OBVIOUS
  <2> QED
    BY <2>1, NextKnown
<1>2. \/ /\ known # {}
         /\ wpc' = "action"
         /\ messages' = conversation
         /\ results' = seen
         /\ turn' = turn
      \/ /\ known # {}
         /\ wpc' = "idle" /\ verdict' \in {"completed", "failed"}
         /\ messages' = conversation
         /\ results' = seen
         /\ turn' = turn
      \/ /\ known = {}
         /\ EndTurn(conversation, seen)
  BY DEF HandleUses, Ends
<1>3. Follows(seen, answers) /\ Len(seen) = next - 1
  <2> HIDE DEF next
  <2> QED
    BY <1>1, UnknownsFollow
<1>4. known = {} => next = Len(uses) + 1
  OBVIOUS
<1> HIDE DEF known, next, seen
<1>5. /\ seen \in Seq(Result) /\ Len(seen) <= Len(uses)
      /\ known # {} => Len(seen) < Len(uses)
      /\ known = {} => Len(seen) = Len(uses)
  BY <1>1, <1>3, <1>4 DEF Follows
<1> QED
  BY <1>2, <1>3, <1>5

-----------------------------------------------------------------------------
(* The conversation and the record of the session.                         *)

\* What ToldTheRecord says of a log, of what each turn was told, and of the
\* last turn.
Agrees(log, told, last) ==
  /\ \A i \in DOMAIN log :
       /\ log[i].turn \in 0 .. last
       /\ log[i].use \in DOMAIN told[log[i].turn]
       /\ told[log[i].turn][log[i].use].says # "unknown"
       /\ Kind(told[log[i].turn][log[i].use].says) = log[i].kind
  /\ \A t \in 0 .. last : \A n \in DOMAIN told[t] :
       told[t][n].says # "unknown" =>
         \E i \in DOMAIN log : log[i].turn = t /\ log[i].use = n
  /\ \A i, j \in DOMAIN log :
       i < j => \/ log[i].turn < log[j].turn
                \/ log[i].turn = log[j].turn /\ log[i].use < log[j].use

ToldOf == [t \in 0 .. turn |-> Told(t)]

LEMMA AgreesIs ==
  /\ ToldTheRecord <=> (messages # <<>> => Agrees(slog, ToldOf, turn))
  /\ ToldTheRecord' <=> (messages # <<>> => Agrees(slog, ToldOf, turn))'
<1>1. \A t \in 0 .. turn : ToldOf[t] = Told(t)
  BY DEF ToldOf
<1>2. (\A t \in 0 .. turn : ToldOf[t] = Told(t))'
  BY DEF ToldOf
<1>3. ToldTheRecord <=> (messages # <<>> => Agrees(slog, ToldOf, turn))
  BY <1>1 DEF ToldTheRecord, Agrees
<1>4. ToldTheRecord' <=> (messages # <<>> => Agrees(slog, ToldOf, turn))'
  BY <1>2 DEF ToldTheRecord, Agrees
<1> QED
  BY <1>3, <1>4

\* An action is answered and on record.
LEMMA AgreesAppend ==
  ASSUME NEW log, IsSeq(log), NEW last \in Nat, NEW was, Agrees(log, was, last),
         IsSeq(was[last]), NEW told, NEW e, NEW a,
         \A t \in 0 .. last - 1 : told[t] = was[t],
         told[last] = Append(was[last], a),
         e.turn = last, e.use = Len(was[last]) + 1,
         a.says # "unknown", e.kind = Kind(a.says)
  PROVE  Agrees(Append(log, e), told, last)
<1> DEFINE new == Append(log, e)
<1>1. /\ DOMAIN new = 1 .. Len(log) + 1
      /\ new[Len(log) + 1] = e
      /\ \A i \in 1 .. Len(log) : new[i] = log[i]
      /\ DOMAIN log = 1 .. Len(log) /\ Len(log) \in Nat
  BY AppendIs DEF IsSeq
<1>2. /\ DOMAIN told[last] = 1 .. Len(was[last]) + 1
      /\ told[last][Len(was[last]) + 1] = a
      /\ \A n \in 1 .. Len(was[last]) : told[last][n] = was[last][n]
      /\ DOMAIN was[last] = 1 .. Len(was[last]) /\ Len(was[last]) \in Nat
  BY AppendIs DEF IsSeq
<1>3. \A t \in 0 .. last : t \in 0 .. last - 1 \/ t = last
  OBVIOUS
<1> HIDE DEF new
<1>4. ASSUME NEW t \in 0 .. last, NEW n \in DOMAIN was[t]
      PROVE  n \in DOMAIN told[t] /\ told[t][n] = was[t][n]
  <2>1. CASE t = last
    <3>1. n \in 1 .. Len(was[last])
      BY <1>2, <1>4, <2>1
    <3>2. n \in 1 .. Len(was[last]) + 1
      BY <1>2, <3>1
    <3> QED
      BY <1>2, <2>1, <3>1, <3>2
  <2>2. CASE t # last
    <3>1. t \in 0 .. last - 1
      BY <1>3, <2>2
    <3>2. told[t] = was[t]
      BY <3>1
    <3> QED
      BY <1>4, <3>2
  <2> QED
    BY <2>1, <2>2
<1>5. \A i \in DOMAIN new : i = Len(log) + 1 \/ i \in DOMAIN log
  BY <1>1
<1>6. ASSUME NEW i \in DOMAIN new
      PROVE  /\ new[i].turn \in 0 .. last
             /\ new[i].use \in DOMAIN told[new[i].turn]
             /\ told[new[i].turn][new[i].use].says # "unknown"
             /\ Kind(told[new[i].turn][new[i].use].says) = new[i].kind
  <2>1. CASE i = Len(log) + 1
    <3>1. new[i] = e
      BY <1>1, <2>1
    <3>2. last \in 0 .. last /\ e.use \in DOMAIN told[last]
      BY <1>2
    <3> QED
      BY <1>2, <3>1, <3>2
  <2>2. CASE i \in DOMAIN log
    <3>1. new[i] = log[i]
      BY <1>1, <2>2
    <3> QED
      BY <1>4, <2>2, <3>1 DEF Agrees
  <2> QED
    BY <1>5, <2>1, <2>2
<1>7. ASSUME NEW t \in 0 .. last, NEW n \in DOMAIN told[t],
             told[t][n].says # "unknown"
      PROVE  \E i \in DOMAIN new : new[i].turn = t /\ new[i].use = n
  <2>1. CASE n \in DOMAIN was[t]
    <3>1. was[t][n].says # "unknown"
      BY <1>4, <1>7, <2>1
    <3>2. PICK i \in DOMAIN log : log[i].turn = t /\ log[i].use = n
      BY <2>1, <3>1 DEF Agrees
    <3>3. i \in DOMAIN new /\ new[i] = log[i]
      BY <1>1
    <3> QED
      BY <3>2, <3>3
  <2>2. CASE n \notin DOMAIN was[t]
    <3>1. t = last /\ n = Len(was[last]) + 1
      BY <1>2, <1>3, <2>2
    <3>2. Len(log) + 1 \in DOMAIN new
      BY <1>1
    <3> QED
      BY <1>1, <3>1, <3>2
  <2> QED
    BY <2>1, <2>2
<1>8. ASSUME NEW i \in DOMAIN new, NEW j \in DOMAIN new, i < j
      PROVE  \/ new[i].turn < new[j].turn
             \/ new[i].turn = new[j].turn /\ new[i].use < new[j].use
  <2>1. i \in DOMAIN log /\ new[i] = log[i]
    BY <1>1, <1>8
  <2>2. CASE j \in DOMAIN log
    <3>1. new[j] = log[j]
      BY <1>1, <2>2
    <3> QED
      BY <1>8, <2>1, <2>2, <3>1 DEF Agrees
  <2>3. CASE j = Len(log) + 1
    <3>1. new[j] = e
      BY <1>1, <2>3
    <3>2. log[i].turn \in 0 .. last /\ log[i].use \in DOMAIN was[log[i].turn]
      BY <2>1 DEF Agrees
    <3>3. CASE log[i].turn = last
      <4>1. log[i].use \in 1 .. Len(was[last])
        BY <1>2, <3>2, <3>3
      <4> QED
        BY <1>2, <2>1, <3>1, <3>3, <4>1
    <3>4. CASE log[i].turn # last
      BY <2>1, <3>1, <3>2, <3>4
    <3> QED
      BY <3>3, <3>4
  <2> QED
    BY <1>5, <2>2, <2>3
<1>9. Agrees(new, told, last)
  BY <1>6, <1>7, <1>8 DEF Agrees
<1> QED
  BY <1>9 DEF new

\* Unknown uses are answered: nothing to record.
LEMMA AgreesFollow ==
  ASSUME NEW log, NEW last \in Nat, NEW was, Agrees(log, was, last),
         IsSeq(was[last]), NEW told, NEW seen, Follows(seen, was[last]),
         \A t \in 0 .. last - 1 : told[t] = was[t],
         told[last] = seen
  PROVE  Agrees(log, told, last)
<1>1. \A t \in 0 .. last : t \in 0 .. last - 1 \/ t = last
  OBVIOUS
<1>2. /\ DOMAIN seen = 1 .. Len(seen) /\ Len(seen) \in Nat
      /\ Len(was[last]) <= Len(seen)
      /\ \A n \in 1 .. Len(was[last]) : seen[n] = was[last][n]
      /\ \A n \in Len(was[last]) + 1 .. Len(seen) : seen[n].says = "unknown"
      /\ DOMAIN was[last] = 1 .. Len(was[last]) /\ Len(was[last]) \in Nat
  BY DEF Follows, IsSeq
<1>3. ASSUME NEW t \in 0 .. last, NEW n \in DOMAIN was[t]
      PROVE  n \in DOMAIN told[t] /\ told[t][n] = was[t][n]
  BY <1>1, <1>2
<1>4. ASSUME NEW t \in 0 .. last, NEW n \in DOMAIN told[t],
             told[t][n].says # "unknown"
      PROVE  n \in DOMAIN was[t] /\ told[t][n] = was[t][n]
  <2>1. CASE t \in 0 .. last - 1
    BY <2>1
  <2>2. CASE t = last
    <3>1. n \in 1 .. Len(was[last])
      BY <1>2, <1>4, <2>2
    <3> QED
      BY <1>2, <2>2, <3>1
  <2> QED
    BY <1>1, <2>1, <2>2
<1>5. ASSUME NEW i \in DOMAIN log
      PROVE  /\ log[i].turn \in 0 .. last
             /\ log[i].use \in DOMAIN told[log[i].turn]
             /\ told[log[i].turn][log[i].use].says # "unknown"
             /\ Kind(told[log[i].turn][log[i].use].says) = log[i].kind
  BY <1>3 DEF Agrees
<1>6. ASSUME NEW t \in 0 .. last, NEW n \in DOMAIN told[t],
             told[t][n].says # "unknown"
      PROVE  \E i \in DOMAIN log : log[i].turn = t /\ log[i].use = n
  <2>1. n \in DOMAIN was[t] /\ was[t][n].says # "unknown"
    BY <1>4, <1>6
  <2> QED
    BY <2>1 DEF Agrees
<1> QED
  BY <1>5, <1>6 DEF Agrees

\* Another turn begins.
LEMMA AgreesNext ==
  ASSUME NEW log, NEW last \in Nat, NEW was, Agrees(log, was, last), NEW told,
         \A t \in 0 .. last : told[t] = was[t], told[last + 1] = <<>>
  PROVE  Agrees(log, told, last + 1)
<1>1. ASSUME NEW i \in DOMAIN log
      PROVE  /\ log[i].turn \in 0 .. last + 1
             /\ log[i].use \in DOMAIN told[log[i].turn]
             /\ told[log[i].turn][log[i].use].says # "unknown"
             /\ Kind(told[log[i].turn][log[i].use].says) = log[i].kind
  BY DEF Agrees
<1>2. ASSUME NEW t \in 0 .. last + 1, NEW n \in DOMAIN told[t],
             told[t][n].says # "unknown"
      PROVE  \E i \in DOMAIN log : log[i].turn = t /\ log[i].use = n
  <2>1. t # last + 1
    BY EmptyIs
  <2>2. t \in 0 .. last /\ n \in DOMAIN was[t] /\ was[t][n].says # "unknown"
    BY <1>2, <2>1
  <2> QED
    BY <2>2 DEF Agrees
<1> QED
  BY <1>1, <1>2 DEF Agrees

\* A message more leaves the turns before as they are.
LEMMA ExchangedAppend ==
  ASSUME NEW m, NEW t \in Nat, Exchanged(m, t), Len(m) >= 2 * t + 1, NEW e
  PROVE  /\ Exchanged(Append(m, e), t)
         /\ Len(Append(m, e)) = Len(m) + 1
         /\ Append(m, e)[Len(m) + 1] = e
         /\ Last(Append(m, e)) = e
         /\ Append(m, e) # <<>>
         /\ \A k \in 0 .. t - 1 : Append(m, e)[2 * k + 3] = m[2 * k + 3]
<1> DEFINE new == Append(m, e)
<1>1. IsSeq(m)
  BY DEF Exchanged
<1>2. Len(m) \in Nat
  BY <1>1 DEF IsSeq
<1>3. /\ IsSeq(new) /\ Len(new) = Len(m) + 1 /\ new # <<>>
      /\ new[Len(m) + 1] = e /\ Last(new) = e
      /\ \A j \in 1 .. Len(m) : new[j] = m[j]
      /\ Len(m) \in Nat
  BY <1>1, <1>2, AppendIs
<1> HIDE DEF new
<1>4. new[1] = m[1]
  BY <1>3
<1>5. \A k \in 0 .. t - 1 : new[2 * k + 2] = m[2 * k + 2] /\ new[2 * k + 3] = m[2 * k + 3]
  BY <1>3
<1>6. Exchanged(new, t)
  BY <1>3, <1>4, <1>5 DEF Exchanged, Paired
<1> QED
  BY <1>3, <1>5, <1>6 DEF new

\* The results of a reply complete its turn.
LEMMA TurnCompletes ==
  ASSUME NEW m, NEW t \in Nat, Replied(m, t), NEW seen \in Seq(Result),
         Numbered(seen), Len(seen) = Len(m[Len(m)].uses)
  PROVE  /\ Exchanged(Append(m, User(seen)), t + 1)
         /\ Len(Append(m, User(seen))) = 2 * (t + 1) + 1
         /\ Append(m, User(seen))[2 * t + 3].results = seen
         /\ Append(m, User(seen)) # <<>>
         /\ \A k \in 0 .. t - 1 :
              Append(m, User(seen))[2 * k + 3] = m[2 * k + 3]
<1> DEFINE e == User(seen)
           new == Append(m, e)
<1>1. /\ IsSeq(new) /\ Len(new) = Len(m) + 1
      /\ new[Len(m) + 1] = e
      /\ \A j \in 1 .. Len(m) : new[j] = m[j]
      /\ Len(m) = 2 * t + 2
  BY AppendIs DEF Replied, Exchanged
<1>2. e.role = "user" /\ e.results = seen
  BY DEF User
<1> HIDE DEF new, e
<1>3. new[1] = m[1] /\ new[2 * t + 2] = m[Len(m)] /\ new[2 * t + 3] = e
  BY <1>1
<1>4. \A k \in 0 .. t - 1 : new[2 * k + 2] = m[2 * k + 2] /\ new[2 * k + 3] = m[2 * k + 3]
  BY <1>1
<1>5. \A k \in 0 .. t - 1 : Paired(new, k)
  BY <1>4 DEF Replied, Exchanged, Paired
<1>6. Paired(new, t)
  BY <1>2, <1>3 DEF Replied, Paired
<1>7. \A k \in 0 .. (t + 1) - 1 : k \in 0 .. t - 1 \/ k = t
  OBVIOUS
<1>8. Exchanged(new, t + 1)
  BY <1>1, <1>3, <1>5, <1>6, <1>7 DEF Replied, Exchanged
<1>9. Append(m, e) # <<>>
  BY EmptyIs, <1>1 DEF new
<1> QED
  BY <1>1, <1>2, <1>3, <1>4, <1>8, <1>9 DEF new, e

\* A reply joins the conversation.
LEMMA ReplyJoins ==
  ASSUME Conversation, messages # <<>>, wpc = "request", NEW uses \in Responses
  PROVE  LET conversation == Append(messages, Assistant(uses)) IN
         /\ turn \in Nat /\ turn < MaxTurns
         /\ results = <<>>
         /\ Replied(conversation, turn)
         /\ uses \in Seq(Tool)
         /\ Last(conversation).uses = uses
         /\ conversation[Len(conversation)].uses = uses
         /\ conversation # <<>>
         /\ \A k \in 0 .. turn - 1 : conversation[2 * k + 3] = messages[2 * k + 3]
<1> DEFINE e == Assistant(uses)
           conversation == Append(messages, e)
<1>1. /\ turn \in Nat /\ turn < MaxTurns
      /\ Exchanged(messages, turn)
      /\ Len(messages) = 2 * turn + 1
      /\ results = <<>>
  BY TurnsAssumption DEF Conversation
<1>2. uses \in Seq(Tool)
  BY UsesAssumption DEF Responses
<1>3. e.role = "assistant" /\ e.uses = uses
  BY DEF Assistant
<1> HIDE DEF e
<1>4. /\ Exchanged(conversation, turn)
      /\ Len(conversation) = Len(messages) + 1
      /\ conversation[Len(messages) + 1] = e
      /\ Last(conversation) = e
      /\ conversation # <<>>
      /\ \A k \in 0 .. turn - 1 : conversation[2 * k + 3] = messages[2 * k + 3]
  BY <1>1, ExchangedAppend
<1> HIDE DEF conversation
<1>5. Len(conversation) = 2 * turn + 2 /\ conversation[Len(conversation)] = e
  BY <1>1, <1>4
<1>6. Replied(conversation, turn)
  BY <1>2, <1>3, <1>4, <1>5 DEF Replied
<1>7. Last(conversation).uses = uses /\ conversation[Len(conversation)].uses = uses
  BY <1>3, <1>4, <1>5
<1> QED
  BY <1>1, <1>2, <1>4, <1>6, <1>7 DEF conversation, e

\* The run stops, or waits for an action, within a turn.
LEMMA WithinTurn ==
  ASSUME NEW conversation, turn \in Nat, turn < MaxTurns,
         Replied(conversation, turn), NEW seen, NEW was,
         \A t \in 0 .. turn - 1 : was[t] = conversation[2 * t + 3].results,
         IsSeq(was[turn]), Follows(seen, was[turn]), IsSeq(slog'),
         Agrees(slog', was, turn),
         messages' = conversation, turn' = turn, results' = seen,
         wpc' \in {"idle", "action"},
         wpc' = "action" => Len(seen) < Len(conversation[Len(conversation)].uses)
  PROVE  Conversation' /\ ToldTheRecord'
<1>1. /\ IsSeq(conversation) /\ Len(conversation) = 2 * turn + 2
      /\ Exchanged(conversation, turn)
  BY DEF Replied, Exchanged
<1>2. Conversation'
  <2>1. turn' \in 0 .. MaxTurns
    BY TurnsAssumption
  <2> QED
    BY <1>1, <2>1 DEF Conversation, Follows
<1>3. /\ \A t \in 0 .. turn - 1 : ToldOf'[t] = was[t]
      /\ ToldOf'[turn] = seen
  BY DEF ToldOf, Told
<1>4. Agrees(slog', ToldOf', turn)
  BY <1>3, AgreesFollow
<1> QED
  BY <1>2, <1>4, AgreesIs

\* From the first use without an answer on.
LEMMA UsesHandled ==
  ASSUME NEW conversation, turn \in Nat, turn < MaxTurns,
         Replied(conversation, turn), NEW answers \in Seq(Result),
         Numbered(answers), Len(answers) <= Len(Last(conversation).uses),
         Last(conversation) = conversation[Len(conversation)],
         HandleUses(conversation, answers), NEW was,
         \A t \in 0 .. turn - 1 : was[t] = conversation[2 * t + 3].results,
         was[turn] = answers, IsSeq(slog'), Agrees(slog', was, turn)
  PROVE  /\ Conversation' /\ ToldTheRecord' /\ messages' # <<>>
         /\ wpc' \in {"idle", "request", "action"}
         /\ wpc' = "idle" => verdict' \in {"completed", "failed"}
<1> DEFINE uses == Last(conversation).uses
<1>1. /\ uses \in Seq(Tool)
      /\ conversation # <<>>
      /\ Len(conversation) = 2 * turn + 2
  BY EmptyIs DEF Replied
<1>2. PICK seen \in Seq(Result) :
        /\ Follows(seen, answers)
        /\ Len(seen) <= Len(uses)
        /\ \/ /\ wpc' = "action" /\ Len(seen) < Len(uses)
              /\ messages' = conversation /\ results' = seen
              /\ turn' = turn
           \/ /\ wpc' = "idle" /\ verdict' \in {"completed", "failed"}
              /\ messages' = conversation /\ results' = seen
              /\ turn' = turn
           \/ Len(seen) = Len(uses) /\ EndTurn(conversation, seen)
  BY <1>1, HandleUsesIs
<1>3. IsSeq(answers)
  BY SeqIs
<1>4. CASE wpc' = "action" /\ Len(seen) < Len(uses) /\ messages' = conversation
           /\ results' = seen /\ turn' = turn
  BY <1>1, <1>2, <1>3, <1>4, WithinTurn
<1>5. CASE wpc' = "idle" /\ verdict' \in {"completed", "failed"}
           /\ messages' = conversation /\ results' = seen /\ turn' = turn
  BY <1>1, <1>2, <1>3, <1>5, WithinTurn
<1>6. CASE Len(seen) = Len(uses) /\ EndTurn(conversation, seen)
  <2>1. /\ results' = <<>> /\ turn' = turn + 1
        /\ messages' = Append(conversation, User(seen))
        /\ \/ turn + 1 < MaxTurns /\ wpc' = "request"
           \/ turn + 1 = MaxTurns /\ wpc' = "idle" /\ verdict' = "failed"
    BY <1>6 DEF EndTurn, Ends
  <2>2. Numbered(seen) /\ seen \in Seq(Result)
    BY <1>2 DEF Follows
  <2>3. /\ Exchanged(messages', turn + 1)
        /\ Len(messages') = 2 * (turn + 1) + 1
        /\ messages'[2 * turn + 3].results = seen
    <3>1. Len(seen) = Len(conversation[Len(conversation)].uses)
      BY <1>6
    <3> HIDE DEF uses
    <3>2. /\ Exchanged(Append(conversation, User(seen)), turn + 1)
          /\ Len(Append(conversation, User(seen))) = 2 * (turn + 1) + 1
          /\ Append(conversation, User(seen))[2 * turn + 3].results = seen
      BY <2>2, <3>1, TurnCompletes
    <3> QED
      BY <2>1, <3>2
  <2>4. /\ messages' # <<>>
        /\ \A k \in 0 .. turn - 1 : messages'[2 * k + 3] = conversation[2 * k + 3]
    <3>1. Len(seen) = Len(conversation[Len(conversation)].uses)
      BY <1>6
    <3> HIDE DEF uses
    <3>2. /\ Append(conversation, User(seen)) # <<>>
          /\ \A k \in 0 .. turn - 1 :
               Append(conversation, User(seen))[2 * k + 3]
                 = conversation[2 * k + 3]
      BY <2>2, <3>1, TurnCompletes
    <3> QED
      BY <2>1, <3>2
  <2>5. Conversation'
    <3>1. turn' \in 0 .. MaxTurns /\ (wpc' = "request" => turn' < MaxTurns)
      BY <2>1, TurnsAssumption
    <3>2. results' \in Seq(Result) /\ Numbered(results')
      BY <2>1, EmptyIs DEF Numbered
    <3>3. Exchanged(messages', turn') /\ Len(messages') = 2 * turn' + 1
      BY <2>1, <2>3
    <3>4. wpc' # "action"
      BY <2>1
    <3> QED
      BY <2>1, <3>1, <3>2, <3>3, <3>4 DEF Conversation
  <2>6. ToldTheRecord'
    <3> DEFINE told == [t \in 0 .. turn |-> IF t = turn THEN seen ELSE was[t]]
    <3>1. Agrees(slog', told, turn)
      <4>1. told[turn] = seen /\ \A t \in 0 .. turn - 1 : told[t] = was[t]
        OBVIOUS
      <4> HIDE DEF told
      <4> QED
        BY <1>2, <1>3, <4>1, AgreesFollow
    <3>2. \A t \in 0 .. turn : t \in 0 .. turn - 1 \/ t = turn
      OBVIOUS
    <3>3. /\ \A t \in 0 .. turn - 1 : ToldOf'[t] = conversation[2 * t + 3].results
          /\ ToldOf'[turn] = seen
          /\ ToldOf'[turn + 1] = <<>>
      BY <2>1, <2>3, <2>4 DEF ToldOf, Told
    <3>4. \A t \in 0 .. turn : ToldOf'[t] = told[t]
      BY <3>2, <3>3
    <3> HIDE DEF told
    <3>5. Agrees(slog', ToldOf', turn')
      BY <2>1, <3>1, <3>3, <3>4, AgreesNext
    <3> QED
      BY <3>5, AgreesIs
  <2> QED
    BY <2>1, <2>4, <2>5, <2>6
<1> QED
  BY <1>2, <1>4, <1>5, <1>6

-----------------------------------------------------------------------------
(* The steps of a worker's run.                                            *)

LEMMA OrchestratorStays ==
  ASSUME IInv, UNCHANGED orchestratorVars
  PROVE  Sessions' /\ Ledger'
<1>1. UNCHANGED <<first, opc, plan, who, steps, ledger, result, sealed>>
  BY DEF orchestratorVars
<1>2. Sessions'
  BY <1>1 DEF IInv, Sessions, IsSeq
<1>3. Ledger'
  BY <1>1 DEF IInv, Ledger, Bound, Heading, Ending, Pinned, IsSeq, Outcome, Completed
<1> QED
  BY <1>2, <1>3

LEMMA ConversationStays ==
  ASSUME IInv, UNCHANGED <<turn, messages, results, slog>>, wpc' \in {"idle", wpc}
  PROVE  Conversation' /\ ToldTheRecord'
<1>1. Conversation'
  BY DEF IInv, Conversation, Exchanged, Replied, Paired, Numbered, IsSeq
<1>2. ToldTheRecord'
  BY DEF IInv, ToldTheRecord, Told
<1> QED
  BY <1>1, <1>2

\* A request or an action is an agent's.
LEMMA AgentWorks ==
  ASSUME IInv, wpc \in {"request", "action"}
  PROVE  opc = "work" /\ who = "agent" /\ messages # <<>>
BY TeamAssumption DEF IInv, Worker

LEMMA CliWorks ==
  ASSUME IInv, wpc = "cli"
  PROVE  opc = "work" /\ who = "cli" /\ messages = <<>>
BY TeamAssumption DEF IInv, Worker

\* An agent goes on, or ends.
LEMMA AgentGoesOn ==
  ASSUME IInv, opc = "work", who = "agent", UNCHANGED orchestratorVars,
         messages' # <<>>, wpc' \in {"idle", "request", "action"},
         wpc' = "idle" => verdict' \in {"completed", "failed"},
         Conversation', ToldTheRecord'
  PROVE  IInv'
<1>1. opc' = opc /\ who' = who
  BY DEF orchestratorVars
<1>2. Worker'
  BY <1>1 DEF IInv, Worker
<1> QED
  BY <1>2, OrchestratorStays DEF IInv

LEMMA CliEnds ==
  ASSUME IInv, opc = "work", who = "cli", UNCHANGED orchestratorVars,
         messages' = <<>>, wpc' = "idle", verdict' \in {"completed", "failed"},
         verdict' = "completed" => Notes(Recorded(slog'), touched', measured')
  PROVE  IInv'
<1>1. opc' = opc /\ who' = who
  BY DEF orchestratorVars
<1>2. Worker'
  BY <1>1 DEF IInv, Worker
<1>3. Conversation' /\ ToldTheRecord'
  BY DEF Conversation, ToldTheRecord
<1> QED
  BY <1>2, <1>3, OrchestratorStays DEF IInv

LEMMA ReplyStep ==
  ASSUME IInv, Reply, UNCHANGED orchestratorVars
  PROVE  IInv'
<1>1. wpc = "request" /\ slog' = slog
  BY DEF Reply
<1>2. opc = "work" /\ who = "agent" /\ messages # <<>>
  BY <1>1, AgentWorks
<1>3. PICK uses \in Responses :
        LET conversation == Append(messages, Assistant(uses)) IN
        \/ /\ uses = <<>>
           /\ Ends("failed")
           /\ messages' = conversation
           /\ UNCHANGED <<turn, attempt, results, fetches>>
        \/ /\ uses # <<>>
           /\ HandleUses(conversation, <<>>)
  BY DEF Reply
<1> DEFINE conversation == Append(messages, Assistant(uses))
<1>4. /\ turn \in Nat /\ turn < MaxTurns
      /\ results = <<>>
      /\ Replied(conversation, turn)
      /\ uses \in Seq(Tool)
      /\ Last(conversation).uses = uses
      /\ conversation[Len(conversation)].uses = uses
      /\ conversation # <<>>
      /\ \A k \in 0 .. turn - 1 : conversation[2 * k + 3] = messages[2 * k + 3]
  BY <1>1, <1>2, ReplyJoins DEF IInv
<1>5. Last(conversation) = conversation[Len(conversation)]
  BY DEF Last
<1>6. /\ Agrees(slog, ToldOf, turn)
      /\ \A k \in 0 .. turn - 1 : ToldOf[k] = conversation[2 * k + 3].results
      /\ ToldOf[turn] = <<>>
  <2> HIDE DEF conversation
  <2>1. Agrees(slog, ToldOf, turn)
    BY <1>2, AgreesIs DEF IInv
  <2>2. /\ \A k \in 0 .. turn - 1 : ToldOf[k] = conversation[2 * k + 3].results
        /\ ToldOf[turn] = <<>>
    BY <1>4 DEF ToldOf, Told
  <2> QED
    BY <2>1, <2>2
<1>7. IsSeq(slog) /\ IsSeq(slog')
  <2>1. IsSeq(slog)
    BY <1>2 DEF IInv, Conversation
  <2> QED
    BY <1>1, <2>1
<1>8. <<>> \in Seq(Result) /\ Numbered(<<>>) /\ Follows(<<>>, <<>>) /\ IsSeq(<<>>)
  BY EmptyIs DEF Numbered, Follows
<1>9. CASE uses = <<>> /\ Ends("failed") /\ messages' = conversation
           /\ UNCHANGED <<turn, results>>
  <2>1. wpc' = "idle" /\ verdict' = "failed"
    BY <1>9 DEF Ends
  <2> HIDE DEF conversation
  <2>2. results' = <<>> /\ Agrees(slog', ToldOf, turn)
    BY <1>1, <1>4, <1>6, <1>9
  <2>3. Conversation' /\ ToldTheRecord'
    BY <1>4, <1>6, <1>7, <1>8, <1>9, <2>1, <2>2, WithinTurn
  <2> QED
    BY <1>2, <1>4, <1>9, <2>1, <2>3, AgentGoesOn
<1>10. CASE uses # <<>> /\ HandleUses(conversation, <<>>)
  <2> HIDE DEF conversation
  <2>1. Agrees(slog', ToldOf, turn) /\ Len(<<>>) <= Len(Last(conversation).uses)
    <3>1. Agrees(slog', ToldOf, turn)
      BY <1>1, <1>6
    <3>2. Len(uses) \in Nat
      BY <1>4
    <3> QED
      BY <1>4, <3>1, <3>2, EmptyIs
  <2>2. /\ Conversation' /\ ToldTheRecord' /\ messages' # <<>>
        /\ wpc' \in {"idle", "request", "action"}
        /\ wpc' = "idle" => verdict' \in {"completed", "failed"}
    BY <1>4, <1>5, <1>6, <1>7, <1>8, <1>10, <2>1, UsesHandled
  <2> QED
    BY <1>2, <2>2, AgentGoesOn
<1> QED
  BY <1>3, <1>9, <1>10

LEMMA AnswerStep ==
  ASSUME IInv, SessionAnswers, UNCHANGED orchestratorVars
  PROVE  IInv'
<1>1. wpc = "action"
  BY DEF SessionAnswers
<1>2. opc = "work" /\ who = "agent" /\ messages # <<>>
  BY <1>1, AgentWorks
<1>3. PICK s \in {"denied", "ok", "FAILED"} :
        /\ slog' = Append(slog, [kind |-> Kind(s), turn |-> turn,
                                 use |-> Len(results) + 1, files |-> {}])
        /\ HandleUses(messages, Append(results, Answer(Len(results) + 1, Render(s))))
  BY DEF SessionAnswers
<1> DEFINE e == [kind |-> Kind(s), turn |-> turn, use |-> Len(results) + 1,
                 files |-> {}]
           a == Answer(Len(results) + 1, s)
           answers == Append(results, a)
           was == [t \in 0 .. turn |-> IF t = turn THEN answers ELSE Told(t)]
<1>4. /\ turn \in Nat /\ turn < MaxTurns
      /\ Replied(messages, turn)
      /\ results \in Seq(Result) /\ Numbered(results)
      /\ IsSeq(slog)
      /\ Len(results) < Len(messages[Len(messages)].uses)
      /\ Last(messages) = messages[Len(messages)]
  <2>1. Last(messages) = messages[Len(messages)]
    BY DEF Last
  <2> QED
    BY <1>1, <1>2, <2>1, TurnsAssumption DEF IInv, Conversation
<1>5. /\ e.turn = turn /\ e.use = Len(results) + 1 /\ e.kind = Kind(s)
      /\ a.use = Len(results) + 1 /\ a.says = s
  BY DEF Answer
<1>6. a \in Result
  BY <1>4 DEF Answer, Result, Says
<1>7. slog' = Append(slog, e) /\ HandleUses(messages, answers)
  BY <1>3 DEF Render
<1> HIDE DEF e, a
<1>8. IsSeq(results) /\ Len(results) \in Nat
  BY <1>4, SeqIs DEF IsSeq
<1>9. /\ answers \in Seq(Result) /\ Len(answers) = Len(results) + 1
      /\ answers[Len(results) + 1] = a
      /\ \A n \in 1 .. Len(results) : answers[n] = results[n]
  BY <1>4, <1>6, AppendProperties
<1>10. IsSeq(slog')
  BY <1>4, <1>7, AppendIs
<1>11. Numbered(answers)
  <2> SUFFICES ASSUME NEW n \in DOMAIN answers PROVE answers[n].use = n
    BY DEF Numbered
  <2>1. n \in 1 .. Len(results) \/ n = Len(results) + 1
    BY <1>8, <1>9
  <2>2. CASE n \in 1 .. Len(results)
    <3>1. results[n].use = n
      BY <1>4, <1>8, <2>2 DEF Numbered
    <3> QED
      BY <1>9, <2>2, <3>1
  <2>3. CASE n = Len(results) + 1
    BY <1>5, <1>9, <2>3
  <2> QED
    BY <2>1, <2>2, <2>3
<1>12. /\ was[turn] = answers
       /\ \A t \in 0 .. turn - 1 : was[t] = messages[2 * t + 3].results
       /\ \A t \in 0 .. turn - 1 : was[t] = ToldOf[t]
       /\ ToldOf[turn] = results
  BY <1>4 DEF Told, ToldOf
<1> HIDE DEF was
<1>13. Agrees(slog', was, turn)
  <2>1. Agrees(slog, ToldOf, turn)
    BY <1>2, AgreesIs DEF IInv
  <2>2. was[turn] = Append(ToldOf[turn], a)
    BY <1>12
  <2>3. a.says # "unknown" /\ e.kind = Kind(a.says)
    BY <1>5
  <2>4. e.turn = turn /\ e.use = Len(ToldOf[turn]) + 1 /\ IsSeq(ToldOf[turn])
    BY <1>5, <1>8, <1>12
  <2>5. \A t \in 0 .. turn - 1 : was[t] = ToldOf[t]
    BY <1>12
  <2> QED
    BY <1>4, <1>7, <2>1, <2>2, <2>3, <2>4, <2>5, AgreesAppend
<1> HIDE DEF answers
<1>14. Len(answers) <= Len(Last(messages).uses)
  <2>1. Len(messages[Len(messages)].uses) \in Nat
    BY <1>4 DEF Replied
  <2> QED
    BY <1>4, <1>8, <1>9, <2>1
<1>15. /\ Conversation' /\ ToldTheRecord' /\ messages' # <<>>
       /\ wpc' \in {"idle", "request", "action"}
       /\ wpc' = "idle" => verdict' \in {"completed", "failed"}
  BY <1>4, <1>7, <1>9, <1>10, <1>11, <1>12, <1>13, <1>14, UsesHandled
<1> QED
  BY <1>2, <1>15, AgentGoesOn

LEMMA CliStep ==
  ASSUME IInv, CliDenied \/ CliRan, UNCHANGED orchestratorVars
  PROVE  IInv'
<1>1. /\ wpc = "cli" /\ wpc' = "idle" /\ messages' = messages
      /\ verdict' \in {"completed", "failed"}
  BY DEF CliDenied, CliRan, Ends
<1>2. opc = "work" /\ who = "cli" /\ messages = <<>>
  BY <1>1, CliWorks
<1>3. ASSUME verdict' = "completed"
      PROVE  Notes(Recorded(slog'), touched', measured')
  <2> DEFINE ran == [kind |-> "action.executed", turn |-> 0, use |-> 1,
                     files |-> {}]
             noted(files) == [kind |-> "observation", turn |-> 0, use |-> 1,
                              files |-> files]
  <2>1. PICK before, after :
          slog' = <<ran, noted(Diff(touched', before, after))>>
          /\ measured' = before \cap after
    BY <1>3 DEF CliDenied, CliRan, Ends
  <2>2. PICK files : files = Diff(touched', before, after)
    OBVIOUS
  <2>3. ran.files = {} /\ noted(files).files = files
    OBVIOUS
  <2>4. slog' = <<ran, noted(files)>>
    BY <2>1, <2>2
  <2> HIDE DEF ran, noted
  <2>5. /\ DOMAIN slog' = {1, 2}
        /\ slog'[1] = ran /\ slog'[2] = noted(files)
    BY <2>4
  <2>6. Recorded(slog') = files
    BY <2>3, <2>5 DEF Recorded
  <2> QED
    BY <2>1, <2>2, <2>6 DEF Diff, Notes
<1> QED
  BY <1>1, <1>2, <1>3, CliEnds

\* A run that fails: in the provider, or in the session.
LEMMA FailedStep ==
  ASSUME IInv, ProviderFails \/ SessionBreaks, UNCHANGED orchestratorVars
  PROVE  IInv'
<1>1. /\ wpc \in {"request", "action", "cli"} /\ wpc' = "idle"
      /\ verdict' = "failed" /\ UNCHANGED <<turn, messages, results, slog>>
  BY DEF ProviderFails, SessionBreaks, Ends
<1>2. Conversation' /\ ToldTheRecord'
  BY <1>1, ConversationStays
<1>3. CASE wpc = "cli"
  BY <1>1, <1>3, CliWorks, CliEnds
<1>4. CASE wpc # "cli"
  BY <1>1, <1>2, <1>4, AgentWorks, AgentGoesOn
<1> QED
  BY <1>3, <1>4

LEMMA WorkStep ==
  ASSUME IInv, Work
  PROVE  IInv'
<1>1. WorkerNext /\ UNCHANGED orchestratorVars
  BY DEF Work
<1>2. CASE FetchAgain
  <2>1. /\ wpc = "request" /\ wpc' = wpc
        /\ UNCHANGED <<turn, messages, results, slog>>
    BY <1>2 DEF FetchAgain
  <2> QED
    BY <1>1, <2>1, AgentWorks, ConversationStays, AgentGoesOn
<1>3. CASE ProviderFails \/ SessionBreaks
  BY <1>1, <1>3, FailedStep
<1>4. CASE Reply
  BY <1>1, <1>4, ReplyStep
<1>5. CASE SessionAnswers
  BY <1>1, <1>5, AnswerStep
<1>6. CASE CliDenied \/ CliRan
  BY <1>1, <1>6, CliStep
<1> QED
  BY <1>1, <1>2, <1>3, <1>4, <1>5, <1>6 DEF WorkerNext

-----------------------------------------------------------------------------
(* The steps of the orchestrator.                                          *)

LEMMA WorkerStays ==
  ASSUME IInv, UNCHANGED workerVars
  PROVE  /\ Conversation' /\ ToldTheRecord'
         /\ wpc' = wpc /\ messages' = messages /\ verdict' = verdict
         /\ Recorded(slog') = Recorded(slog)
         /\ touched' = touched /\ measured' = measured
<1>1. UNCHANGED <<wpc, turn, messages, results, slog, verdict, touched,
                  measured>>
  BY DEF workerVars
<1> QED
  BY <1>1, ConversationStays

LEMMA Forgotten ==
  ASSUME messages' = <<>>
  PROVE  Conversation' /\ ToldTheRecord'
BY DEF Conversation, ToldTheRecord

\* A record joins the ledger.
LEMMA RecordJoins ==
  ASSUME NEW l, NEW h, Heading(l, h), h <= Len(l), NEW e
  PROVE  /\ Heading(Append(l, e), h)
         /\ Len(l) \in Nat
         /\ Len(Append(l, e)) = Len(l) + 1
         /\ Append(l, e)[Len(l) + 1] = e
         /\ \A j \in 1 .. Len(l) : Append(l, e)[j] = l[j]
<1>1. IsSeq(l)
  BY DEF Heading
<1>2. Len(l) \in Nat
  BY <1>1 DEF IsSeq
<1>3. /\ IsSeq(Append(l, e)) /\ Len(Append(l, e)) = Len(l) + 1
      /\ Append(l, e)[Len(l) + 1] = e
      /\ \A j \in 1 .. Len(l) : Append(l, e)[j] = l[j]
  BY <1>1, AppendIs
<1>4. \A j \in 1 .. h : j \in 1 .. Len(l)
  BY <1>2 DEF Heading
<1> QED
  BY <1>2, <1>3, <1>4 DEF Heading

\* The done record ends the ledger.
LEMMA Finishes ==
  ASSUME NEW h, NEW n \in Nat, NEW records, Heading(records, h),
         NEW met,
         \/ Len(records) = h + 2 * n /\ met = "none"
         \/ /\ Len(records) = h + 2 * n + 1
            /\ met \in {"met", "unmet"}
            /\ records[h + 2 * n + 1] = AcceptanceRecord(met = "met"),
         Finish(steps', records, met)
  PROVE  /\ opc' = "returned"
         /\ Heading(ledger', h)
         /\ \A j \in 1 .. Len(records) : ledger'[j] = records[j]
         /\ Ending(h, n)'
<1>1. h \in {1, 2}
  BY DEF Heading
<1>2. /\ opc' = "returned"
      /\ ledger' = Append(records, DoneRecord(steps', met))
      /\ result'.outcome = Outcome(steps') /\ result'.met = met
  BY DEF Finish
<1>3. h <= Len(records)
  BY <1>1
<1>4. /\ Heading(ledger', h)
      /\ Len(records) \in Nat
      /\ Len(ledger') = Len(records) + 1
      /\ ledger'[Len(records) + 1] = DoneRecord(steps', met)
      /\ \A j \in 1 .. Len(records) : ledger'[j] = records[j]
  BY <1>2, <1>3, RecordJoins
<1>5. ledger'[Len(ledger')] = DoneRecord(steps', result'.met)
  BY <1>2, <1>4
<1>6. \/ Len(ledger') = h + 2 * n + 1 /\ result'.met = "none"
      \/ /\ Len(ledger') = h + 2 * n + 2
         /\ result'.met \in {"met", "unmet"}
         /\ ledger'[h + 2 * n + 1] = AcceptanceRecord(result'.met = "met")
  <2>1. CASE Len(records) = h + 2 * n /\ met = "none"
    BY <1>1, <1>2, <1>4, <2>1
  <2>2. CASE /\ Len(records) = h + 2 * n + 1
             /\ met \in {"met", "unmet"}
             /\ records[h + 2 * n + 1] = AcceptanceRecord(met = "met")
    <3>1. Len(ledger') = h + 2 * n + 2 /\ h + 2 * n + 1 \in 1 .. Len(records)
      BY <1>1, <1>4, <2>2
    <3>2. ledger'[h + 2 * n + 1] = AcceptanceRecord(result'.met = "met")
      BY <1>2, <1>4, <2>2, <3>1
    <3> QED
      BY <1>2, <2>2, <3>1, <3>2
  <2> QED
    BY <2>1, <2>2
<1>7. Ending(h, n)'
  BY <1>2, <1>5, <1>6 DEF Ending
<1> QED
  BY <1>2, <1>4, <1>7

\* After the plan and after each subtask.
LEMMA GoesOn ==
  ASSUME NEW h, NEW n \in Nat, NEW records, Heading(records, h),
         Len(records) = h + 2 * n, NEW planned, GoOn(planned, steps', records)
  PROVE  /\ opc' \in {"route", "judge", "returned"}
         /\ opc' = "route" => Len(steps') < planned
         /\ opc' # "route" => Len(steps') = planned
         /\ Heading(ledger', h)
         /\ \A j \in 1 .. Len(records) : ledger'[j] = records[j]
         /\ Ending(h, n)'
<1>1. CASE Len(steps') < planned /\ opc' = "route" /\ ledger' = records
  BY <1>1 DEF Ending
<1>2. CASE Len(steps') = planned /\ opc' = "judge" /\ ledger' = records
  BY <1>2 DEF Ending
<1>3. CASE Len(steps') = planned /\ Finish(steps', records, "none")
  BY <1>3, Finishes
<1> QED
  BY <1>1, <1>2, <1>3 DEF GoOn

LEMMA InitHolds == Init => IInv
<1> SUFFICES ASSUME Init PROVE IInv
  OBVIOUS
<1>1. Conversation /\ ToldTheRecord /\ Worker
  BY DEF Init, WorkerIdle, Conversation, ToldTheRecord, Worker
<1>2. Sessions /\ Ledger
  BY EmptyIs DEF Init, Sessions, Ledger
<1> QED
  BY <1>1, <1>2 DEF IInv

LEMMA RejectStep ==
  ASSUME IInv, Rejects, UNCHANGED workerVars,
         \/ opc \in {"plan", "route", "judge"}
         \/ opc = "work" /\ who = "guest"
  PROVE  IInv'
<1>1. /\ opc' = "rejected"
      /\ UNCHANGED <<first, plan, who, steps, ledger, result, sealed>>
  BY DEF Rejects
<1>2. Conversation' /\ ToldTheRecord' /\ wpc' = "idle" /\ messages' = <<>>
  BY WorkerStays DEF IInv, Worker
<1>3. Worker'
  BY <1>1, <1>2 DEF Worker
<1>4. Sessions'
  BY <1>1 DEF IInv, Sessions, IsSeq
<1>5. Ledger'
  <2>1. CASE opc = "plan"
    BY <1>1, <2>1 DEF IInv, Ledger, Bound
  <2>2. ASSUME NEW h, Bound(h) PROVE Bound(h)'
    <3>1. Ending(h, Len(sealed))'
      BY <1>1, <2>2 DEF IInv, Worker, Bound, Ending
    <3>2. Heading(ledger, h)'
      BY <1>1, <2>2 DEF Bound, Heading, IsSeq
    <3>3. (\A i \in 1 .. Len(sealed) : Pinned(ledger, h, i, sealed[i]))'
      BY <1>1, <2>2 DEF Bound, Pinned
    <3> QED
      BY <1>1, <3>1, <3>2, <3>3 DEF Bound
  <2> QED
    BY <2>1, <2>2 DEF IInv, Ledger
<1> QED
  BY <1>2, <1>3, <1>4, <1>5 DEF IInv

LEMMA PlanStep ==
  ASSUME IInv, Plan
  PROVE  IInv'
<1>1. /\ opc = "plan" /\ UNCHANGED <<first, who, steps, sealed>>
      /\ UNCHANGED workerVars
  BY DEF Plan
<1>2. PICK n \in PlanLengths, contract \in {<<>>, <<ContractRecord>>} :
        /\ plan' = n
        /\ GoOn(n, <<>>, <<PlanRecord(n)>> \o contract)
  BY DEF Plan
<1> DEFINE records == <<PlanRecord(n)>> \o contract
<1>3. sealed = <<>> /\ steps = <<>>
  BY <1>1 DEF IInv, Ledger, Bound
<1>4. n \in Nat
  BY SubtasksAssumption DEF PlanLengths
<1>5. PICK h \in {1, 2} : Heading(records, h) /\ Len(records) = h
  <2>1. PlanRecord(n).kind = "plan" /\ ContractRecord.kind = "contract"
    BY DEF PlanRecord, ContractRecord
  <2>2. CASE contract = <<>>
    <3>1. records = <<PlanRecord(n)>>
      BY <2>2
    <3> HIDE DEF records
    <3>2. IsSeq(records) /\ Len(records) = 1 /\ records[1] = PlanRecord(n)
      BY <3>1, OneIs
    <3>3. Heading(records, 1)
      BY <2>1, <3>2 DEF Heading
    <3> QED
      BY <3>2, <3>3
  <2>3. CASE contract = <<ContractRecord>>
    <3>1. records = <<PlanRecord(n), ContractRecord>>
      BY <2>3, TwoJoin
    <3> HIDE DEF records
    <3>2. /\ IsSeq(records) /\ Len(records) = 2
          /\ records[1] = PlanRecord(n) /\ records[2] = ContractRecord
      BY <3>1, TwoAre
    <3>3. Heading(records, 2)
      BY <2>1, <3>2 DEF Heading
    <3> QED
      BY <3>2, <3>3
  <2> QED
    BY <1>2, <2>2, <2>3
<1> HIDE DEF records
<1>6. steps' = <<>> /\ sealed' = <<>> /\ Len(steps') = 0 /\ Len(sealed') = 0
  BY <1>1, <1>3, EmptyIs
<1>7. /\ opc' \in {"route", "judge", "returned"}
      /\ opc' = "route" => Len(steps') < n
      /\ opc' # "route" => Len(steps') = n
      /\ Heading(ledger', h)
      /\ Ending(h, 0)'
  <2>1. PICK none \in Nat : none = 0
    OBVIOUS
  <2>2. GoOn(n, steps', records)
    BY <1>2, <1>6 DEF records
  <2>3. Len(records) = h + 2 * none
    BY <1>5, <2>1
  <2>4. /\ opc' \in {"route", "judge", "returned"}
        /\ opc' = "route" => Len(steps') < n
        /\ opc' # "route" => Len(steps') = n
        /\ Heading(ledger', h)
        /\ Ending(h, none)'
    BY <1>5, <2>1, <2>2, <2>3, GoesOn
  <2> QED
    BY <2>1, <2>4
<1>8. Bound(h)'
  <2>1. Ending(h, Len(sealed))'
    BY <1>6, <1>7
  <2> QED
    BY <1>6, <1>7, <2>1 DEF Bound
<1>9. Ledger'
  BY <1>5, <1>8 DEF Ledger
<1>10. Sessions'
  BY <1>1, <1>2, <1>4, <1>6, <1>7, EmptyIs DEF IInv, Sessions
<1>11. Worker'
  BY <1>1, <1>7, WorkerStays DEF IInv, Worker
<1> QED
  BY <1>1, <1>9, <1>10, <1>11, WorkerStays DEF IInv

\* The worker that is chosen starts.
LEMMA WorkerStarts ==
  ASSUME IInv, opc = "route", who' \in Team, opc' = "work",
         \/ who' = "guest" /\ UNCHANGED workerVars
         \/ who' = "agent" /\ StartWorker("agent")
         \/ who' = "cli" /\ StartCli
  PROVE  Conversation' /\ ToldTheRecord' /\ Worker'
<1>1. CASE who' = "guest" /\ UNCHANGED workerVars
  <2>1. wpc = "idle" /\ messages = <<>>
    BY DEF IInv, Worker
  <2>2. Worker'
    BY <1>1, <2>1, WorkerStays DEF Worker
  <2> QED
    BY <1>1, <2>2, WorkerStays
<1>2. CASE who' = "agent" /\ StartWorker("agent")
  <2>1. /\ wpc' = "request" /\ turn' = 0 /\ messages' = <<User(<<>>)>>
        /\ results' = <<>> /\ slog' = <<>>
    BY <1>2 DEF StartWorker
  <2>2. /\ IsSeq(messages') /\ Len(messages') = 1 /\ messages' # <<>>
        /\ messages'[1].role = "user"
    BY <2>1, OneIs DEF User
  <2>3. Exchanged(messages', 0)
    BY <2>2 DEF Exchanged
  <2>4. Conversation'
    BY <2>1, <2>2, <2>3, EmptyIs, TurnsAssumption DEF Conversation, Numbered
  <2>5. ToldTheRecord'
    BY <2>1, EmptyIs DEF ToldTheRecord, Told
  <2>6. Worker'
    BY <1>2, <2>1, <2>2 DEF Worker
  <2> QED
    BY <2>4, <2>5, <2>6
<1>3. CASE who' = "cli" /\ StartCli
  <2>1. wpc' = "cli" /\ messages' = <<>>
    BY <1>3 DEF StartCli, StartWorker
  <2>2. Worker'
    BY <1>3, <2>1 DEF Worker
  <2> QED
    BY <2>1, <2>2, Forgotten
<1> QED
  BY <1>1, <1>2, <1>3

LEMMA RouteStep ==
  ASSUME IInv, Route
  PROVE  IInv'
<1>1. PICK choice \in RouterChoices :
        /\ who' = Chosen(choice)
        /\ ledger' = Append(ledger, RouteRecord(Len(steps) + 1, who'))
        /\ \/ opc' = "work"
              /\ \/ who' = "guest" /\ UNCHANGED workerVars
                 \/ who' = "agent" /\ StartWorker("agent")
                 \/ who' = "cli" /\ StartCli
           \/ opc' = "rejected" /\ UNCHANGED workerVars
  BY DEF Route
<1>2. /\ opc = "route" /\ first # "none"
      /\ UNCHANGED <<first, plan, steps, result, sealed>>
  BY DEF Route
<1>3. who' \in Team
  BY <1>1, <1>2 DEF Chosen, IInv, Sessions
<1>4. Conversation' /\ ToldTheRecord' /\ Worker'
  <2>1. CASE opc' = "work"
    BY <1>1, <1>2, <1>3, <2>1, WorkerStarts
  <2>2. CASE opc' = "rejected" /\ UNCHANGED workerVars
    <3>1. wpc = "idle" /\ messages = <<>>
      BY <1>2 DEF IInv, Worker
    <3>2. Worker'
      BY <2>2, <3>1, WorkerStays DEF Worker
    <3> QED
      BY <2>2, <3>2, WorkerStays
  <2> QED
    BY <1>1, <2>1, <2>2
<1>5. Sessions'
  BY <1>1, <1>2 DEF IInv, Sessions, IsSeq
<1>6. PICK h \in {1, 2} : Bound(h)
  BY <1>2 DEF IInv, Ledger
<1>7. Bound(h)'
  <2>1. PICK n \in Nat : Len(sealed) = n /\ Len(steps) = n /\ Len(sealed') = n
    BY <1>2 DEF IInv, Sessions, IsSeq
  <2> DEFINE e == RouteRecord(n + 1, who')
  <2>2. ledger' = Append(ledger, e)
    BY <1>1, <2>1
  <2> HIDE DEF e
  <2>3. Heading(ledger, h) /\ Len(ledger) = h + 2 * n
    BY <1>2, <1>6, <2>1 DEF Bound, Ending
  <2>4. /\ Heading(ledger', h)
        /\ Len(ledger') = h + 2 * n + 1
        /\ ledger'[h + 2 * n + 1] = e
        /\ \A j \in 1 .. h + 2 * n : ledger'[j] = ledger[j]
    <3>1. h <= Len(ledger)
      BY <2>1, <2>3
    <3> QED
      BY <2>2, <2>3, <3>1, RecordJoins
  <2>5. \A i \in 1 .. n : h + 2 * i - 1 \in 1 .. h + 2 * n /\ h + 2 * i \in 1 .. h + 2 * n
    BY <2>1
  <2>6. \A i \in 1 .. n : Pinned(ledger', h, i, sealed'[i])
    BY <1>2, <1>6, <2>1, <2>4, <2>5 DEF Bound, Pinned
  <2>7. Ending(h, n)'
    BY <1>1, <1>3, <2>4 DEF Ending, e
  <2> QED
    BY <1>1, <2>1, <2>4, <2>6, <2>7 DEF Bound
<1>8. Ledger'
  BY <1>6, <1>7 DEF Ledger
<1> QED
  BY <1>4, <1>5, <1>8 DEF IInv

\* A session was sealed, and its result is on the ledger.
LEMMA Concludes ==
  ASSUME IInv, opc = "work", NEW x, sealed' = Append(sealed, x),
         x.worker = who,
         x.worker = "cli" /\ x.outcome = "completed" =>
           Notes(x.noted, x.touched, x.measured),
         Conclude(WorkerResult(x.outcome, x.verified, Pin(sealed))),
         UNCHANGED <<first, plan, who>>
  PROVE  Sessions' /\ Ledger' /\ opc' \in {"route", "judge", "returned"}
<1>1. PICK n \in Nat : Len(sealed) = n /\ Len(steps) = n
  BY DEF IInv, Sessions, IsSeq
<1> DEFINE r == WorkerResult(x.outcome, x.verified, n + 1)
           step == [worker |-> who, outcome |-> r.outcome,
                    verified |-> r.verified, pin |-> r.pin]
           e == ResultRecord(n + 1, who, r)
           records == Append(ledger, e)
<1>2. /\ steps' = Append(steps, step)
      /\ GoOn(plan, steps', records)
  BY <1>1 DEF Conclude, Pin
<1>3. step.outcome = x.outcome
  BY DEF WorkerResult
<1> HIDE DEF r, step
<1>4. IsSeq(sealed) /\ IsSeq(steps) /\ who \in Team
  BY DEF IInv, Sessions, Worker
<1>5. /\ IsSeq(sealed') /\ Len(sealed') = n + 1 /\ sealed'[n + 1] = x
      /\ \A i \in 1 .. n : sealed'[i] = sealed[i]
  BY <1>1, <1>4, AppendIs
<1>6. /\ IsSeq(steps') /\ Len(steps') = n + 1 /\ steps'[n + 1] = step
      /\ \A i \in 1 .. n : steps'[i] = steps[i]
  BY <1>1, <1>2, <1>4, AppendIs
<1>7. PICK h \in {1, 2} : Bound(h)
  BY DEF IInv, Ledger
<1>8. /\ Heading(ledger, h) /\ Len(ledger) = h + 2 * n + 1
      /\ ledger[h + 2 * n + 1] = RouteRecord(n + 1, who)
  BY <1>1, <1>7 DEF Bound, Ending
<1> HIDE DEF e
<1>9. /\ Heading(records, h)
      /\ Len(records) = h + 2 * (n + 1)
      /\ records[h + 2 * (n + 1)] = e
      /\ \A j \in 1 .. h + 2 * n + 1 : records[j] = ledger[j]
  <2>1. h <= Len(ledger)
    BY <1>1, <1>8
  <2>2. /\ Heading(records, h)
        /\ Len(records) = Len(ledger) + 1
        /\ records[Len(ledger) + 1] = e
        /\ \A j \in 1 .. Len(ledger) : records[j] = ledger[j]
    BY <1>8, <2>1, RecordJoins
  <2> QED
    BY <1>1, <1>8, <2>2
<1> HIDE DEF records
<1>10. /\ opc' \in {"route", "judge", "returned"}
       /\ opc' = "route" => Len(steps') < plan
       /\ opc' # "route" => Len(steps') = plan
       /\ Heading(ledger', h)
       /\ \A j \in 1 .. Len(records) : ledger'[j] = records[j]
       /\ Ending(h, n + 1)'
  <2>1. PICK m \in Nat : m = n + 1
    OBVIOUS
  <2>2. Len(records) = h + 2 * m
    BY <1>9, <2>1
  <2>3. /\ opc' \in {"route", "judge", "returned"}
        /\ opc' = "route" => Len(steps') < plan
        /\ opc' # "route" => Len(steps') = plan
        /\ Heading(ledger', h)
        /\ \A j \in 1 .. Len(records) : ledger'[j] = records[j]
        /\ Ending(h, m)'
    BY <1>2, <1>9, <2>2, GoesOn
  <2> QED
    BY <2>1, <2>3
<1>11. \A i \in 1 .. n + 1 : i \in 1 .. n \/ i = n + 1
  OBVIOUS
<1>12. \A i \in 1 .. n + 1 : Pinned(ledger', h, i, sealed'[i])
  <2>1. \A j \in 1 .. h + 2 * n + 1 : ledger'[j] = ledger[j]
    BY <1>9, <1>10
  <2>2. ASSUME NEW i \in 1 .. n PROVE Pinned(ledger', h, i, sealed'[i])
    <3>1. h + 2 * i - 1 \in 1 .. h + 2 * n + 1 /\ h + 2 * i \in 1 .. h + 2 * n + 1
      BY <1>7
    <3>2. Pinned(ledger, h, i, sealed[i])
      BY <1>1, <1>7 DEF Bound
    <3> QED
      BY <1>5, <2>1, <3>1, <3>2 DEF Pinned
  <2>3. Pinned(ledger', h, n + 1, x)
    <3>1. /\ h + 2 * (n + 1) - 1 = h + 2 * n + 1
          /\ h + 2 * n + 1 \in 1 .. h + 2 * n + 1
          /\ h + 2 * (n + 1) \in 1 .. Len(records)
      BY <1>7, <1>9
    <3>2. ledger'[h + 2 * (n + 1) - 1] = RouteRecord(n + 1, x.worker)
      BY <1>8, <2>1, <3>1
    <3>3. ledger'[h + 2 * (n + 1)] = e
      BY <1>9, <1>10, <3>1
    <3> QED
      BY <3>2, <3>3 DEF Pinned, e, r
  <2> QED
    BY <1>5, <1>11, <2>2, <2>3
<1>13. Bound(h)'
  <2>1. Ending(h, Len(sealed))'
    BY <1>5, <1>10
  <2>2. (\A i \in 1 .. Len(sealed) : Pinned(ledger, h, i, sealed[i]))'
    BY <1>5, <1>12
  <2> QED
    BY <1>10, <2>1, <2>2 DEF Bound
<1>14. Ledger'
  BY <1>7, <1>13 DEF Ledger
<1>15. Sessions'
  <2>1. DOMAIN sealed' = 1 .. n + 1 /\ DOMAIN sealed = 1 .. n
    BY <1>1, <1>4, <1>5 DEF IsSeq
  <2>2. ASSUME NEW i \in DOMAIN sealed'
        PROVE  /\ sealed'[i].worker \in Team
               /\ steps'[i].outcome = sealed'[i].outcome
               /\ sealed'[i].worker = "cli" /\ sealed'[i].outcome = "completed" =>
                    Notes(sealed'[i].noted, sealed'[i].touched,
                          sealed'[i].measured)
    <3>1. CASE i \in 1 .. n
      BY <1>5, <1>6, <2>1, <3>1 DEF IInv, Sessions
    <3>2. CASE i = n + 1
      BY <1>3, <1>4, <1>5, <1>6, <3>2
    <3> QED
      BY <1>11, <2>1, <3>1, <3>2
  <2> QED
    BY <1>5, <1>6, <1>10, <2>2 DEF IInv, Sessions
<1> QED
  BY <1>10, <1>14, <1>15

LEMMA SettleStep ==
  ASSUME IInv, WorkerSettles \/ GuestSettles
  PROVE  IInv'
<1>1. CASE WorkerSettles
  <2> DEFINE x == [worker |-> who, outcome |-> verdict, verified |-> TRUE,
                   noted |-> Recorded(slog), touched |-> touched,
                   measured |-> measured]
  <2>1. /\ opc = "work" /\ who # "guest" /\ wpc = "idle"
        /\ sealed' = Append(sealed, x)
        /\ Conclude(WorkerResult(verdict, TRUE, Pin(sealed)))
        /\ wpc' = "idle" /\ messages' = <<>>
        /\ UNCHANGED <<first, plan, who>>
    BY <1>1 DEF WorkerSettles, DropWorker
  <2>2. /\ x.worker = who /\ x.outcome = verdict /\ x.verified = TRUE
        /\ x.noted = Recorded(slog) /\ x.touched = touched
        /\ x.measured = measured
    OBVIOUS
  <2> HIDE DEF x
  <2>3. x.worker = "cli" /\ x.outcome = "completed" =>
          Notes(x.noted, x.touched, x.measured)
    BY <2>1, <2>2 DEF IInv, Worker
  <2>4. Sessions' /\ Ledger' /\ opc' \in {"route", "judge", "returned"}
    BY <2>1, <2>2, <2>3, Concludes
  <2>5. Worker'
    BY <2>1, <2>4 DEF Worker
  <2> QED
    BY <2>1, <2>4, <2>5, Forgotten DEF IInv
<1>2. CASE GuestSettles
  <2>1. PICK o \in SessionOutcome, v \in BOOLEAN :
          /\ sealed' = Append(sealed, [worker |-> who, outcome |-> o,
                                       verified |-> v, noted |-> {},
                                       touched |-> {}, measured |-> {}])
          /\ Conclude(WorkerResult(o, v, Pin(sealed)))
    BY <1>2 DEF GuestSettles
  <2> DEFINE x == [worker |-> who, outcome |-> o, verified |-> v,
                   noted |-> {}, touched |-> {}, measured |-> {}]
  <2>2. /\ opc = "work" /\ who = "guest"
        /\ UNCHANGED <<first, plan, who>> /\ UNCHANGED workerVars
    BY <1>2 DEF GuestSettles
  <2>3. x.worker = who /\ x.outcome = o /\ x.verified = v
    OBVIOUS
  <2>4. sealed' = Append(sealed, x)
    BY <2>1
  <2> HIDE DEF x
  <2>5. x.worker # "cli" /\ Conclude(WorkerResult(x.outcome, x.verified, Pin(sealed)))
    BY <2>1, <2>2, <2>3
  <2>6. Sessions' /\ Ledger' /\ opc' \in {"route", "judge", "returned"}
    BY <2>2, <2>3, <2>4, <2>5, Concludes
  <2>7. Worker'
    BY <2>2, <2>6, WorkerStays DEF IInv, Worker
  <2> QED
    BY <2>2, <2>6, <2>7, WorkerStays DEF IInv
<1> QED
  BY <1>1, <1>2

LEMMA JudgeStep ==
  ASSUME IInv, Judge
  PROVE  IInv'
<1>1. PICK met \in BOOLEAN :
        Finish(steps, Append(ledger, AcceptanceRecord(met)),
               IF met THEN "met" ELSE "unmet")
  BY DEF Judge
<1>2. /\ opc = "judge" /\ UNCHANGED <<first, plan, who, steps, sealed>>
      /\ UNCHANGED workerVars
  BY DEF Judge
<1> DEFINE ruling == IF met THEN "met" ELSE "unmet"
           e == AcceptanceRecord(met)
           records == Append(ledger, e)
<1>3. PICK n \in Nat : Len(sealed) = n /\ Len(sealed') = n
  BY <1>2 DEF IInv, Sessions, IsSeq
<1>4. PICK h \in {1, 2} : Bound(h)
  BY <1>2 DEF IInv, Ledger
<1>5. Heading(ledger, h) /\ Len(ledger) = h + 2 * n
  BY <1>2, <1>3, <1>4 DEF Bound, Ending
<1>6. ruling \in {"met", "unmet"} /\ e = AcceptanceRecord(ruling = "met")
  <2>1. CASE met = TRUE
    BY <2>1
  <2>2. CASE met = FALSE
    BY <2>2
  <2> QED
    BY <2>1, <2>2
<1>7. Finish(steps', records, ruling)
  BY <1>1, <1>2
<1> HIDE DEF e, ruling
<1>8. /\ Heading(records, h)
      /\ Len(records) = h + 2 * n + 1
      /\ records[h + 2 * n + 1] = e
      /\ \A j \in 1 .. h + 2 * n : records[j] = ledger[j]
  <2>1. h <= Len(ledger)
    BY <1>3, <1>5
  <2> QED
    BY <1>5, <2>1, RecordJoins
<1> HIDE DEF records
<1>9. /\ opc' = "returned"
      /\ Heading(ledger', h)
      /\ \A j \in 1 .. Len(records) : ledger'[j] = records[j]
      /\ Ending(h, n)'
  BY <1>3, <1>6, <1>7, <1>8, Finishes
<1>10. \A i \in 1 .. n : Pinned(ledger', h, i, sealed'[i])
  <2>1. \A i \in 1 .. n : /\ h + 2 * i - 1 \in 1 .. h + 2 * n
                          /\ h + 2 * i \in 1 .. h + 2 * n
    BY <1>4
  <2>2. \A j \in 1 .. h + 2 * n : ledger'[j] = ledger[j]
    BY <1>4, <1>8, <1>9
  <2> QED
    BY <1>2, <1>3, <1>4, <2>1, <2>2 DEF Bound, Pinned
<1>11. Bound(h)'
  BY <1>3, <1>9, <1>10 DEF Bound
<1>12. Ledger'
  BY <1>4, <1>11 DEF Ledger
<1>13. Sessions'
  BY <1>2, <1>9 DEF IInv, Sessions, IsSeq
<1>14. Worker'
  BY <1>2, <1>9, WorkerStays DEF IInv, Worker
<1> QED
  BY <1>2, <1>12, <1>13, <1>14, WorkerStays DEF IInv

LEMMA StepHolds == IInv /\ [Next]_vars => IInv'
<1> SUFFICES ASSUME IInv, [Next]_vars PROVE IInv'
  OBVIOUS
<1>1. CASE UNCHANGED vars
  <2>1. UNCHANGED workerVars /\ UNCHANGED orchestratorVars
    BY <1>1 DEF vars
  <2>2. Worker'
    BY <2>1, WorkerStays DEF IInv, Worker, orchestratorVars
  <2> QED
    BY <2>1, <2>2, WorkerStays, OrchestratorStays DEF IInv
<1>2. CASE Plan
  BY <1>2, PlanStep
<1>3. CASE PlannerRejects
  <2>1. opc \in {"plan", "route", "judge"} /\ Rejects /\ UNCHANGED workerVars
    BY <1>3 DEF PlannerRejects
  <2> QED
    BY <2>1, RejectStep
<1>4. CASE Route
  BY <1>4, RouteStep
<1>5. CASE RouterRejects
  <2>1. opc \in {"plan", "route", "judge"} /\ Rejects /\ UNCHANGED workerVars
    BY <1>5 DEF RouterRejects
  <2> QED
    BY <2>1, RejectStep
<1>6. CASE Work
  BY <1>6, WorkStep
<1>7. CASE WorkerSettles \/ GuestSettles
  BY <1>7, SettleStep
<1>8. CASE WorkerRejects
  BY <1>8, RejectStep DEF WorkerRejects
<1>9. CASE Judge
  BY <1>9, JudgeStep
<1>10. CASE JudgeRejects
  <2>1. opc \in {"plan", "route", "judge"} /\ Rejects /\ UNCHANGED workerVars
    BY <1>10 DEF JudgeRejects
  <2> QED
    BY <2>1, RejectStep
<1> QED
  BY <1>1, <1>2, <1>3, <1>4, <1>5, <1>6, <1>7, <1>8, <1>9, <1>10 DEF Next

LEMMA Invariance == Spec => []IInv
<1>1. Init => IInv
  BY InitHolds
<1>2. IInv /\ [Next]_vars => IInv'
  BY StepHolds
<1> QED
  BY <1>1, <1>2, PTL DEF Spec

-----------------------------------------------------------------------------
(* What the invariant implies.                                             *)

LEMMA ConversationHolds == IInv => ConversationFaithful
<1> SUFFICES ASSUME IInv PROVE RequestsPaired
  BY DEF IInv, ConversationFaithful
<1> SUFFICES ASSUME wpc = "request", NEW i \in DOMAIN messages,
                    messages[i].role = "assistant"
             PROVE  /\ i < Len(messages)
                    /\ messages[i + 1].role = "user"
                    /\ Len(messages[i + 1].results) = Len(messages[i].uses)
                    /\ \A n \in DOMAIN messages[i].uses :
                         messages[i + 1].results[n].use = n
  BY DEF RequestsPaired
<1>1. /\ turn \in Nat /\ Exchanged(messages, turn)
      /\ Len(messages) = 2 * turn + 1
  BY AgentWorks, TurnsAssumption DEF IInv, Conversation
<1>2. DOMAIN messages = 1 .. 2 * turn + 1 /\ i # 1
  BY <1>1 DEF Exchanged, IsSeq
<1>3. PICK j \in 1 .. turn : i - 1 = 2 * j \/ i - 1 = 2 * j - 1
  <2>1. i - 1 \in 1 .. 2 * turn
    BY <1>1, <1>2
  <2> QED
    BY <1>1, <2>1, InPairs
<1>4. PICK k \in 0 .. turn - 1 : k = j - 1
  BY <1>1, <1>3
<1>5. Paired(messages, k)
  BY <1>1 DEF Exchanged
<1>6. i # 2 * k + 3
  BY <1>5 DEF Paired
<1>7. i = 2 * k + 2 /\ i + 1 = 2 * k + 3
  BY <1>1, <1>2, <1>3, <1>4, <1>6
<1>8. DOMAIN messages[i].uses = DOMAIN messages[i + 1].results
  BY <1>5, <1>7 DEF Paired
<1> QED
  BY <1>1, <1>5, <1>7, <1>8 DEF Paired, Numbered

LEMMA KindsAre ==
  /\ \A i, w : RouteRecord(i, w).kind = "route"
  /\ \A i, w, r : ResultRecord(i, w, r).kind = "result"
  /\ \A l, met : DoneRecord(l, met).kind = "done"
  /\ \A met \in BOOLEAN : AcceptanceRecord(met).kind = "acceptance"
BY DEF RouteRecord, ResultRecord, DoneRecord, AcceptanceRecord

\* Where the records of the ledger are, after n subtasks.
LEMMA Placed ==
  ASSUME IInv, NEW h \in {1, 2}, Bound(h), NEW n \in Nat, Len(sealed) = n
  PROVE  /\ Len(ledger) \in Nat
         /\ \A j \in At("result") : \E i \in 1 .. n : j = h + 2 * i
         /\ \A i \in 1 .. n : h + 2 * i \in At("result")
         /\ \A j \in At("route") : \/ \E i \in 1 .. n : j = h + 2 * i - 1
                                   \/ j = h + 2 * n + 1 /\ j = Len(ledger)
                                      /\ opc \in {"work", "rejected"}
         /\ \A j \in At("done") : opc = "returned" /\ j = Len(ledger)
         /\ \A j \in At("acceptance") :
              opc = "returned" /\ j = h + 2 * n + 1 /\ Len(ledger) = j + 1
<1>1. /\ Len(ledger) \in Nat /\ DOMAIN ledger = 1 .. Len(ledger)
      /\ \A j \in 1 .. h : ledger[j].kind \in {"plan", "contract"}
      /\ \A i \in 1 .. n : Pinned(ledger, h, i, sealed[i])
      /\ Ending(h, n)
  BY DEF Bound, Heading, IsSeq
<1>2. h + 2 * n <= Len(ledger) /\ Len(ledger) <= h + 2 * n + 2
  <2>1. opc \in {"route", "work", "judge", "returned", "rejected"}
    BY DEF IInv, Sessions, Bound
  <2>2. Len(ledger) \in {h + 2 * n, h + 2 * n + 1, h + 2 * n + 2}
    BY <1>1, <2>1 DEF Ending
  <2> QED
    BY <2>2
<1>3. \A i \in 1 .. n : /\ ledger[h + 2 * i - 1].kind = "route"
                        /\ ledger[h + 2 * i].kind = "result"
  <2> TAKE i \in 1 .. n
  <2>1. Pinned(ledger, h, i, sealed[i])
    BY <1>1
  <2>2. /\ ledger[h + 2 * i - 1] = RouteRecord(i, sealed[i].worker)
        /\ ledger[h + 2 * i] =
             ResultRecord(i, sealed[i].worker,
                          WorkerResult(sealed[i].outcome, sealed[i].verified, i))
    BY <2>1 DEF Pinned
  <2> QED
    BY <2>2, KindsAre
<1>4. ASSUME NEW j \in DOMAIN ledger, j > h + 2 * n
      PROVE  \/ /\ ledger[j].kind = "route" /\ j = h + 2 * n + 1
                /\ j = Len(ledger) /\ opc \in {"work", "rejected"}
             \/ /\ ledger[j].kind = "done" /\ j = Len(ledger)
                /\ opc = "returned"
             \/ /\ ledger[j].kind = "acceptance" /\ opc = "returned"
                /\ j = h + 2 * n + 1 /\ Len(ledger) = j + 1
  <2>1. j \in 1 .. Len(ledger)
    BY <1>1
  <2>2. CASE opc \in {"route", "judge"}
    BY <1>1, <1>4, <2>1, <2>2 DEF Ending
  <2>3. CASE opc = "work"
    BY <1>1, <1>4, <2>1, <2>3, KindsAre DEF Ending
  <2>4. CASE opc = "rejected"
    <3>1. Len(ledger) # h + 2 * n
      BY <1>4, <2>1
    <3>2. /\ Len(ledger) = h + 2 * n + 1
          /\ \E w \in Team : ledger[h + 2 * n + 1] = RouteRecord(n + 1, w)
      BY <1>1, <2>4, <3>1 DEF Ending
    <3>3. j = h + 2 * n + 1
      BY <1>4, <2>1, <3>2
    <3>4. ledger[j].kind = "route"
      BY <3>2, <3>3, KindsAre
    <3> QED
      BY <2>4, <3>2, <3>3, <3>4
  <2>5. CASE opc = "returned"
    <3>1. CASE j = Len(ledger)
      <4>1. ledger[j] = DoneRecord(steps, result.met)
        BY <1>1, <2>5, <3>1 DEF Ending
      <4>2. ledger[j].kind = "done"
        BY <4>1, KindsAre
      <4> QED
        BY <2>5, <3>1, <4>2
    <3>2. CASE j # Len(ledger)
      <4>1. Len(ledger) # h + 2 * n + 1
        BY <1>4, <2>1, <3>2
      <4>2. /\ Len(ledger) = h + 2 * n + 2
            /\ ledger[h + 2 * n + 1] = AcceptanceRecord(result.met = "met")
        BY <1>1, <2>5, <4>1 DEF Ending
      <4>3. j = h + 2 * n + 1 /\ Len(ledger) = j + 1
        BY <1>4, <2>1, <3>2, <4>2
      <4>4. (result.met = "met") \in BOOLEAN
        OBVIOUS
      <4>5. ledger[j].kind = "acceptance"
        BY <4>2, <4>3, <4>4, KindsAre
      <4> QED
        BY <2>5, <4>3, <4>5
    <3> QED
      BY <3>1, <3>2
  <2> QED
    BY <2>2, <2>3, <2>4, <2>5 DEF IInv, Sessions, Bound
<1>5. ASSUME NEW j \in DOMAIN ledger
      PROVE  \/ ledger[j].kind \in {"plan", "contract"}
             \/ \E i \in 1 .. n : j = h + 2 * i - 1 /\ ledger[j].kind = "route"
             \/ \E i \in 1 .. n : j = h + 2 * i /\ ledger[j].kind = "result"
             \/ j > h + 2 * n
  <2>1. j \in Nat /\ j > 0
    BY <1>1
  <2>2. CASE j <= h
    BY <1>1, <2>1, <2>2
  <2>3. CASE j > h /\ j <= h + 2 * n
    <3>1. j - h \in 1 .. 2 * n
      BY <2>1, <2>3
    <3>2. PICK i \in 1 .. n : j - h = 2 * i \/ j - h = 2 * i - 1
      BY <3>1, InPairs
    <3>3. j = h + 2 * i \/ j = h + 2 * i - 1
      BY <2>1, <3>2
    <3> QED
      BY <1>3, <3>3
  <2> QED
    BY <2>1, <2>2, <2>3
<1>6. \A i \in 1 .. n : h + 2 * i \in DOMAIN ledger
  BY <1>1, <1>2
<1>7. /\ \A j \in At("result") : \E i \in 1 .. n : j = h + 2 * i
      /\ \A i \in 1 .. n : h + 2 * i \in At("result")
  BY <1>3, <1>4, <1>5, <1>6 DEF At
<1>8. \A j \in At("route") : \/ \E i \in 1 .. n : j = h + 2 * i - 1
                             \/ j = h + 2 * n + 1 /\ j = Len(ledger)
                                /\ opc \in {"work", "rejected"}
  BY <1>4, <1>5 DEF At
<1>9. \A j \in At("done") \cup At("acceptance") : j > h + 2 * n
  BY <1>5 DEF At
<1>10. /\ \A j \in At("done") : opc = "returned" /\ j = Len(ledger)
       /\ \A j \in At("acceptance") :
            opc = "returned" /\ j = h + 2 * n + 1 /\ Len(ledger) = j + 1
  BY <1>4, <1>9 DEF At
<1> QED
  BY <1>1, <1>7, <1>8, <1>10

LEMMA BindingHolds == IInv => LedgerBindsWork
<1> SUFFICES ASSUME IInv PROVE LedgerBindsWork
  OBVIOUS
<1>1. CASE opc \in {"plan", "rejected"} /\ ledger = <<>> /\ sealed = <<>>
  <2>1. DOMAIN ledger = {} /\ DOMAIN sealed = {}
    BY <1>1
  <2>2. \A kind : At(kind) = {}
    BY <2>1 DEF At
  <2> QED
    BY <1>1, <2>1, <2>2 DEF LedgerBindsWork
<1>2. ASSUME NEW h \in {1, 2}, Bound(h) PROVE LedgerBindsWork
  <2>1. PICK n \in Nat : Len(sealed) = n /\ DOMAIN sealed = 1 .. n
    BY DEF IInv, Sessions, IsSeq
  <2>2. /\ Len(ledger) \in Nat
        /\ \A j \in At("result") : \E i \in 1 .. n : j = h + 2 * i
        /\ \A i \in 1 .. n : h + 2 * i \in At("result")
        /\ \A j \in At("route") : \/ \E i \in 1 .. n : j = h + 2 * i - 1
                                  \/ j = h + 2 * n + 1 /\ j = Len(ledger)
                                     /\ opc \in {"work", "rejected"}
    BY <1>2, <2>1, Placed, SMTT(20)
  <2>3. \A i \in 1 .. n : Pinned(ledger, h, i, sealed[i]) /\ sealed[i].worker \in Team
    BY <1>2, <2>1 DEF Bound, IInv, Sessions
  <2>4. ASSUME NEW i \in 1 .. n
        PROVE  LET r == ledger[h + 2 * i] IN
               /\ ledger[h + 2 * i - 1] = RouteRecord(i, sealed[i].worker)
               /\ r.subtask = i /\ r.pin = i
               /\ r.worker = sealed[i].worker
               /\ r.outcome = sealed[i].outcome
               /\ r.verified = sealed[i].verified
    <3>1. ledger[h + 2 * i - 1] = RouteRecord(i, sealed[i].worker)
      BY <2>3 DEF Pinned
    <3>2. ledger[h + 2 * i] =
            ResultRecord(i, sealed[i].worker,
                         WorkerResult(sealed[i].outcome, sealed[i].verified, i))
      BY <2>3 DEF Pinned
    <3> QED
      BY <3>1, <3>2 DEF ResultRecord, WorkerResult
  <2>5. ASSUME NEW j \in At("result")
        PROVE  LET r == ledger[j] IN
               /\ r.worker \in Team
               /\ j > 1 /\ ledger[j - 1] = RouteRecord(r.subtask, r.worker)
               /\ r.subtask \in DOMAIN sealed
               /\ r.pin = r.subtask
               /\ r.worker = sealed[r.pin].worker
               /\ r.outcome = sealed[r.pin].outcome
               /\ r.verified = sealed[r.pin].verified
    <3>1. PICK i \in 1 .. n : j = h + 2 * i
      BY <2>2
    <3>2. j > 1 /\ j - 1 = h + 2 * i - 1
      BY <2>1, <3>1
    <3>3. /\ ledger[j - 1] = RouteRecord(i, sealed[i].worker)
          /\ ledger[j].subtask = i /\ ledger[j].pin = i
          /\ ledger[j].worker = sealed[i].worker
          /\ ledger[j].outcome = sealed[i].outcome
          /\ ledger[j].verified = sealed[i].verified
      BY <2>4, <3>1, <3>2
    <3>4. i \in DOMAIN sealed /\ sealed[i].worker \in Team
      BY <2>1, <2>3
    <3> QED
      BY <3>2, <3>3, <3>4
  <2>6. \A i \in DOMAIN sealed : \E j \in At("result") : ledger[j].pin = i
    <3> TAKE i \in DOMAIN sealed
    <3>1. h + 2 * i \in At("result") /\ ledger[h + 2 * i].pin = i
      BY <2>1, <2>2, <2>4
    <3> QED
      BY <3>1
  <2>7. ASSUME NEW j \in At("result"), NEW k \in At("result"), j < k
        PROVE  ledger[j].pin < ledger[k].pin
    <3>1. PICK a \in 1 .. n : j = h + 2 * a
      BY <2>2
    <3>2. PICK b \in 1 .. n : k = h + 2 * b
      BY <2>2
    <3>3. a < b
      BY <2>7, <3>1, <3>2
    <3> QED
      BY <2>4, <3>1, <3>2, <3>3
  <2>8. Ending(h, n)
    BY <1>2, <2>1 DEF Bound
  <2>9. ASSUME NEW j \in At("route"), j + 1 \notin At("result")
        PROVE  /\ opc \in {"work", "rejected"}
               /\ j = Len(ledger)
               /\ ledger[j].subtask = Len(sealed) + 1
               /\ ledger[j].worker \in Team
    <3>1. ~ \E i \in 1 .. n : j = h + 2 * i - 1
      <4> SUFFICES ASSUME NEW i \in 1 .. n, j = h + 2 * i - 1 PROVE FALSE
        OBVIOUS
      <4>1. j + 1 = h + 2 * i
        BY <2>1
      <4> QED
        BY <2>2, <2>9, <4>1
    <3>2. j = h + 2 * n + 1 /\ j = Len(ledger) /\ opc \in {"work", "rejected"}
      BY <2>2, <3>1
    <3>3. PICK w \in Team : ledger[j] = RouteRecord(n + 1, w)
      <4>1. CASE opc = "work"
        BY <2>8, <3>2, <4>1 DEF Ending, IInv, Worker
      <4>2. CASE opc = "rejected"
        <5>1. Len(ledger) # h + 2 * n
          BY <2>1, <3>2
        <5> QED
          BY <2>8, <3>2, <4>2, <5>1 DEF Ending
      <4> QED
        BY <3>2, <4>1, <4>2
    <3> QED
      BY <2>1, <3>2, <3>3 DEF RouteRecord
  <2>10. ASSUME opc = "work"
         PROVE  Len(ledger) \in At("route") /\ Last(ledger).worker = who
    <3>1. /\ Len(ledger) = h + 2 * n + 1
          /\ ledger[Len(ledger)] = RouteRecord(n + 1, who)
      BY <2>8, <2>10 DEF Ending
    <3>2. Len(ledger) \in DOMAIN ledger
      <4>1. DOMAIN ledger = 1 .. Len(ledger)
        BY <1>2 DEF Bound, Heading, IsSeq
      <4> QED
        BY <2>1, <3>1, <4>1
    <3> QED
      BY <3>1, <3>2 DEF At, Last, RouteRecord
  <2> QED
    BY <2>5, <2>6, <2>7, <2>9, <2>10 DEF LedgerBindsWork
<1> QED
  BY <1>1, <1>2 DEF IInv, Ledger

\* The completed subtasks are counted.
LEMMA Counted ==
  ASSUME IInv, opc = "returned"
  PROVE  LET good == {i \in DOMAIN sealed : sealed[i].outcome = "completed"} IN
         /\ Completed(steps) = good
         /\ Len(steps) = plan /\ plan \in Nat
         /\ Outcome(steps) = "completed" <=> plan > 0 /\ Cardinality(good) = plan
         /\ Outcome(steps) = "failed" <=> good = {}
<1> DEFINE good == {i \in DOMAIN sealed : sealed[i].outcome = "completed"}
<1>1. /\ plan \in Nat /\ Len(steps) = plan /\ IsSeq(steps)
      /\ DOMAIN steps = 1 .. plan /\ DOMAIN sealed = 1 .. plan
  BY DEF IInv, Sessions, IsSeq
<1>2. Completed(steps) = good
  BY <1>1 DEF Completed, IInv, Sessions
<1>3. steps # <<>> <=> plan > 0
  <2>1. CASE plan = 0
    <3>1. steps = [j \in 1 .. 0 |-> steps[j]]
      BY <1>1, <2>1 DEF IsSeq
    <3>2. steps = <<>>
      BY <3>1
    <3> QED
      BY <2>1, <3>2
  <2>2. CASE plan # 0
    BY <1>1, <2>2, EmptyIs
  <2> QED
    BY <2>1, <2>2
<1>4. IsFiniteSet(1 .. plan) /\ Cardinality(1 .. plan) = plan
  BY <1>1, FS_Interval
<1>5. good \in SUBSET (1 .. plan)
  BY <1>1
<1> HIDE DEF good
<1>6. Cardinality(good) = plan <=> good = 1 .. plan
  BY <1>4, <1>5, FS_Subset
<1>7. plan > 0 => 1 .. plan # {}
  <2>1. plan > 0 => 1 \in 1 .. plan
    BY <1>1
  <2> QED
    BY <2>1
<1>8. plan = 0 => good = {}
  BY <1>5
<1>9. Outcome(steps) = "completed" <=> plan > 0 /\ Cardinality(good) = plan
  BY <1>1, <1>2, <1>3, <1>6 DEF Outcome
<1>10. Outcome(steps) = "failed" <=> good = {}
  BY <1>1, <1>2, <1>3, <1>7, <1>8 DEF Outcome
<1> QED
  BY <1>1, <1>2, <1>9, <1>10 DEF good

LEMMA ReturnHolds == IInv => ReturnsWhatItProves
<1> SUFFICES ASSUME IInv, opc = "returned" PROVE ReturnsWhatItProves
  BY DEF ReturnsWhatItProves
<1> DEFINE done == Last(ledger)
           good == {i \in DOMAIN sealed : sealed[i].outcome = "completed"}
<1>1. /\ Completed(steps) = good
      /\ Len(steps) = plan /\ plan \in Nat
      /\ Outcome(steps) = "completed" <=> plan > 0 /\ Cardinality(good) = plan
      /\ Outcome(steps) = "failed" <=> good = {}
  BY Counted
<1>2. PICK h \in {1, 2} : Bound(h)
  BY DEF IInv, Ledger
<1>3. PICK n \in Nat : Len(sealed) = n
  BY DEF IInv, Sessions, IsSeq
<1>4. Ending(h, n)
  BY <1>2, <1>3 DEF Bound
<1>5. DOMAIN ledger = 1 .. Len(ledger) /\ Len(ledger) \in Nat
  BY <1>2 DEF Bound, Heading, IsSeq
<1>6. /\ \/ Len(ledger) = h + 2 * n + 1 /\ result.met = "none"
         \/ /\ Len(ledger) = h + 2 * n + 2
            /\ result.met \in {"met", "unmet"}
            /\ ledger[h + 2 * n + 1] = AcceptanceRecord(result.met = "met")
      /\ ledger[Len(ledger)] = DoneRecord(steps, result.met)
      /\ result.outcome = Outcome(steps)
  BY <1>4 DEF Ending
<1>7. Len(ledger) \in 1 .. Len(ledger)
  <2>1. Len(ledger) \in {h + 2 * n + 1, h + 2 * n + 2}
    BY <1>6
  <2>2. h \in {1, 2}
    BY <1>2
  <2> QED
    BY <1>3, <2>1, <2>2
<1>8. /\ \A j \in At("done") : j = Len(ledger)
      /\ \A j \in At("acceptance") : j = h + 2 * n + 1 /\ Len(ledger) = j + 1
  BY <1>2, <1>3, Placed
<1>9. /\ done.kind = "done" /\ done.outcome = Outcome(steps)
      /\ done.subtasks = Len(steps)
      /\ done.completed = Cardinality(Completed(steps))
  BY <1>6 DEF Last, DoneRecord
<1>10. At("done") = {Len(ledger)}
  <2>1. Len(ledger) \in At("done")
    BY <1>5, <1>7, <1>9 DEF At, Last
  <2> QED
    BY <1>8, <2>1
<1>11. \A i \in good : sealed[i].worker = "cli" =>
         Notes(sealed[i].noted, sealed[i].touched, sealed[i].measured)
  BY DEF IInv, Sessions
<1>12. /\ result.met # "none" <=> At("acceptance") # {}
       /\ \A j \in At("acceptance") : ledger[j].met = (result.met = "met")
  <2>1. CASE Len(ledger) = h + 2 * n + 1 /\ result.met = "none"
    <3>1. At("acceptance") = {}
      BY <1>3, <1>8, <2>1
    <3> QED
      BY <2>1, <3>1
  <2>2. CASE /\ Len(ledger) = h + 2 * n + 2
             /\ result.met \in {"met", "unmet"}
             /\ ledger[h + 2 * n + 1] = AcceptanceRecord(result.met = "met")
    <3>1. h + 2 * n + 1 \in DOMAIN ledger
      BY <1>3, <1>5, <2>2
    <3>2. /\ ledger[h + 2 * n + 1].kind = "acceptance"
          /\ ledger[h + 2 * n + 1].met = (result.met = "met")
      BY <2>2 DEF AcceptanceRecord
    <3>3. h + 2 * n + 1 \in At("acceptance")
      BY <3>1, <3>2 DEF At
    <3>4. At("acceptance") # {} /\ result.met # "none"
      BY <2>2, <3>3
    <3>5. \A j \in At("acceptance") : ledger[j].met = (result.met = "met")
      BY <1>8, <3>2
    <3> QED
      BY <3>4, <3>5
  <2> QED
    BY <1>6, <2>1, <2>2
<1> HIDE DEF done, good
<1>13. /\ done.outcome = result.outcome
       /\ done.subtasks = plan
       /\ done.completed = Cardinality(good)
       /\ result.outcome = "completed" <=> plan > 0 /\ Cardinality(good) = plan
       /\ result.outcome = "failed" <=> good = {}
  BY <1>1, <1>6, <1>9
<1> QED
  BY <1>9, <1>10, <1>11, <1>12, <1>13 DEF ReturnsWhatItProves, done, good

-----------------------------------------------------------------------------
(* The theorems.                                                           *)

\* An agent's conversation stays well formed and true to its session's record
\* (AgentWorker.run).
THEOREM ConversationsHold == Spec => []ConversationFaithful
BY Invariance, ConversationHolds, PTL

\* The worker ledger pins the session that was sealed for each subtask
\* (Orchestrator.orchestrate).
THEOREM LedgersBind == Spec => []LedgerBindsWork
BY Invariance, BindingHolds, PTL

\* A returned orchestration claims what its ledger proves
\* (Orchestrator.orchestrate).
THEOREM ReturnsAreProved == Spec => []ReturnsWhatItProves
BY Invariance, ReturnHolds, PTL
=============================================================================
