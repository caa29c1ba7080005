---------------------------- MODULE PipelineProofs ----------------------------
(***************************************************************************)
(* What the pipeline tells of a query is true of it, what is inserted is   *)
(* done once and in order, and nothing is issued after an error:           *)
(* ResultsMatch, QueriesDone and NothingBeyondError, for any number of     *)
(* queries, any batches and any of their results, and wherever the         *)
(* connection is lost.                                                     *)
(***************************************************************************)
EXTENDS Pipeline, Induction, FiniteSetTheorems, TLAPS

\* What the server has run and found right.
Done(v, q) == q \in ToSet(v.ran) /\ fate[q] = "ok"

\* The answers b still to come are those of the first queries of S, in order, and errors
\* after them.
InOrder(b, S) ==
  /\ \A j, k \in DOMAIN b : j < k /\ b[j] = Failure => b[k] = Failure
  /\ \A k \in DOMAIN b : b[k] # Failure =>
       /\ b[k].ok /\ b[k].of \in S
       /\ \A j \in 1..(k - 1) : b[j].of < b[k].of
       /\ \A i \in S : i < b[k].of => \E j \in 1..(k - 1) : b[j].of = i

\* There is one for each, or an error for one of those that are left.
AllAnswered(b, S) ==
  /\ \A k \in DOMAIN b : b[k] = Failure =>
       k = Len(b) /\ \E i \in S : \A j \in 1..(k - 1) : b[j].of # i
  /\ Len(b) > 0 /\ b[Len(b)] # Failure => \A i \in S : \E k \in DOMAIN b : b[k].of = i

\* The answers to queries on the wire.
Body(v) == IF v.dummy THEN Tail(v.wire) ELSE v.wire

\* The iterators stand at queries that are there; behind them are those that wait.  There
\* are no queries on their way after an error, and none that may still be got.
Places(v) ==
  /\ DOMAIN v.queries \subseteq 1..v.qid /\ v.waiting <= v.qid
  /\ {v.first, v.second} \subseteq DOMAIN v.queries \cup {PastLast} /\ v.first <= v.second
  /\ Pending(v) => v.error = Limit
  /\ v.error = Limit => v.waiting = Cardinality(From(v, v.second))
  /\ v.error < Limit =>
       v.error <= v.qid + 1 /\ \A q \in DOMAIN v.queries : q >= v.first => q >= v.error

\* What a query's result says is so, and there is one up to where the answers are read.
Found(v) ==
  \A q \in DOMAIN v.queries :
    /\ v.queries[q] \in {None, Failure} \/ (v.queries[q] = [of |-> q, ok |-> TRUE] /\ Done(v, q))
    /\ q < v.first => v.queries[q] # None

\* The server has run queries in order, and none that may still be sent; what went wrong
\* is somebody's fault.
History(v) ==
  /\ \A i \in DOMAIN v.ran : v.ran[i] <= v.qid
  /\ \A i, j \in DOMAIN v.ran : i < j => v.ran[i] < v.ran[j]
  /\ v.error = Limit => \A i \in DOMAIN v.ran : \A q \in From(v, v.second) : v.ran[i] < q
  /\ v.failed \/ v.undone # {} => \E q \in 1..v.qid : fate[q] # "ok"

\* A batch whose dummy query has failed has not been run, and will fail again.
Failing(v) ==
  /\ v.wire # <<>> /\ Head(v.wire) \in {None, Failure} /\ \E i, j \in Issued(v) : i # j
  /\ Head(v.wire) = Failure /\ ~v.lost =>
       /\ Len(v.wire) = 1 /\ \A i \in DOMAIN v.ran : v.ran[i] < v.first
       /\ v.failed \/ \E q \in Issued(v) : fate[q] # "ok"

\* The answers on the wire are those of the queries on their way.
Answering(b, v) ==
  /\ InOrder(b, Issued(v)) /\ (~v.lost => AllAnswered(b, Issued(v)))
  /\ \A k \in DOMAIN b : b[k] # Failure => Done(v, b[k].of)

Wire(v) ==
  /\ Pending(v) => v.command /\ v.registered
  /\ ~v.command => v.wire = <<>>
  /\ ~v.registered /\ v.error = Limit => v.second = PastLast
  /\ v.dummy => Failing(v)
  /\ Answering(Body(v), v)
  /\ ~v.lost => v.thrown \notin {"surplus", "internal"}

PInv(v) == v \in Worlds /\ Places(v) /\ Found(v) /\ History(v) /\ Wire(v)

\* What no call undoes: after an error nothing is run, and there is no way back from it.
Goes(v, u) ==
  /\ DOMAIN u.queries = DOMAIN v.queries /\ u.qid = v.qid
  /\ u.error <= v.error /\ v.first <= u.first
  /\ v.error < Limit => u.ran = v.ran
  /\ ToSet(v.ran) \subseteq ToSet(u.ran)

\* Receiving leaves what waits alone, unless it finds an error.
Receives(v, u) == Goes(v, u) /\ (u.error = Limit => u.second = v.second /\ u.waiting = v.waiting)

\* What is known of the fates throughout.
Fates == fate \in [1..MaxQ -> {"ok", "runtime", "syntax"}]
-----------------------------------------------------------------------------
(* The map and its iterators *)

LEMMA Bounds ==
  PastLast \in Nat /\ Limit \in Nat /\ PastLast \in 1..PastLast /\ PastLast < Limit
  /\ 1..MaxQ \subseteq 1..PastLast /\ MaxQ < PastLast
BY PipeAssumption DEF PastLast, Limit

LEMMA ElementsAre ==
  ASSUME NEW S, NEW s \in Seq(S)
  PROVE  DOMAIN s = 1..Len(s) /\ Len(s) \in Nat /\ \A k \in DOMAIN s : s[k] \in S
OBVIOUS

\* What the parts of a world are.
LEMMA WorldIs ==
  ASSUME NEW v \in Worlds
  PROVE  /\ DOMAIN v.queries \subseteq 1..MaxQ
         /\ \A q \in DOMAIN v.queries : v.queries[q] \in Answers
         /\ v.first \in 1..PastLast /\ v.second \in 1..PastLast /\ v.error \in 0..Limit
         /\ v.waiting \in Nat /\ v.qid \in 0..MaxQ
         /\ v.wire \in Seq(Answers) /\ v.ran \in Seq(1..MaxQ)
         /\ v.dummy \in BOOLEAN /\ v.lost \in BOOLEAN /\ v.failed \in BOOLEAN
         /\ v.command \in BOOLEAN /\ v.registered \in BOOLEAN
         /\ \A k \in DOMAIN v.wire : v.wire[k] \in Answers
         /\ \A i \in DOMAIN v.ran : v.ran[i] \in 1..MaxQ /\ v.ran[i] \in Nat
<1>1. v.queries \in Maps
  BY DEF Worlds
<1>2. DOMAIN v.queries \subseteq 1..MaxQ /\ \A q \in DOMAIN v.queries : v.queries[q] \in Answers
  BY <1>1 DEF Maps
<1>3. v.wire \in Seq(Answers) /\ v.ran \in Seq(1..MaxQ)
  BY DEF Worlds
<1>4. \A k \in DOMAIN v.wire : v.wire[k] \in Answers
  <2>1. DOMAIN v.wire = 1..Len(v.wire)
    BY <1>3
  <2> QED BY <2>1, <1>3
<1>5. \A i \in DOMAIN v.ran : v.ran[i] \in 1..MaxQ /\ v.ran[i] \in Nat
  <2>1. \A i \in DOMAIN v.ran : v.ran[i] \in 1..MaxQ
    BY ONLY <1>3, ElementsAre
  <2> QED BY <2>1, PipeAssumption
<1> QED BY <1>2, <1>3, <1>4, <1>5, PipeAssumption DEF Worlds

LEMMA MapIs ==
  ASSUME NEW D \in SUBSET (1..MaxQ), NEW f \in [D -> Answers]
  PROVE  f \in Maps
BY DEF Maps

LEMMA LeastIs ==
  ASSUME NEW S \in SUBSET (1..PastLast), S # {}
  PROVE  Least(S) \in S /\ \A j \in S : Least(S) <= j
<1>1. S \in SUBSET Nat
  BY Bounds
<1>2. \E i \in S : \A j \in S : i <= j
  BY <1>1, LeastNumber
<1> QED BY <1>2 DEF Least

\* The iterator after one at i stands at the next query, or past them all.
LEMMA AfterIs ==
  ASSUME NEW v \in Worlds, NEW i \in 0..MaxQ
  PROVE  /\ After(v, i) \in DOMAIN v.queries \cup {PastLast} /\ i < After(v, i)
         /\ \A j \in DOMAIN v.queries : j > i => After(v, i) <= j
<1>1. DOMAIN v.queries \subseteq 1..MaxQ
  BY WorldIs
<1>2. PICK S : S = From(v, i + 1)
  OBVIOUS
<1>3. S \in SUBSET (1..PastLast) /\ After(v, i) = Least(S)
  BY <1>1, <1>2, Bounds DEF From, After
<1>4. \A j \in DOMAIN v.queries : j > i <=> j \in S
  BY <1>1, <1>2, PipeAssumption DEF From
<1>5. CASE S = {}
  <2>1. After(v, i) = PastLast
    BY <1>3, <1>5 DEF Least
  <2>2. i < PastLast /\ \A j \in DOMAIN v.queries : ~(j > i)
    BY <1>4, <1>5, PipeAssumption DEF PastLast
  <2> QED BY <2>1, <2>2
<1>6. CASE S # {}
  <2>1. Least(S) \in S /\ \A j \in S : Least(S) <= j
    BY <1>3, <1>6, LeastIs
  <2>2. S \subseteq DOMAIN v.queries
    BY <1>2 DEF From
  <2> QED BY <2>1, <2>2, <1>1, <1>3, <1>4, PipeAssumption
<1> QED BY <1>5, <1>6

\* The queries that are there are finitely many, and no more than have been inserted.
LEMMA Counted ==
  ASSUME NEW v \in Worlds, DOMAIN v.queries \subseteq 1..v.qid, NEW S \in SUBSET DOMAIN v.queries
  PROVE  IsFiniteSet(S) /\ Cardinality(S) \in 0..v.qid
<1>1. v.qid \in Nat
  BY WorldIs
<1>2. IsFiniteSet(1..v.qid) /\ Cardinality(1..v.qid) = v.qid
  <2>1. 1 \in Int /\ v.qid \in Int /\ (1 > v.qid => v.qid = 0) /\ v.qid - 1 + 1 = v.qid
    BY <1>1
  <2> QED BY <2>1, FS_Interval
<1>3. IsFiniteSet(S) /\ Cardinality(S) <= Cardinality(1..v.qid)
  BY <1>2, FS_Subset
<1>4. Cardinality(S) \in Nat
  BY <1>3, FS_CardinalityType
<1> QED BY <1>1, <1>2, <1>3, <1>4

\* Ids in the order of the map are each of them once, in order.
LEMMA OrderedIs ==
  ASSUME NEW S \in SUBSET (1..MaxQ)
  PROVE  /\ Ordered(S) \in Seq(S) /\ ToSet(Ordered(S)) = S
         /\ \A i, j \in DOMAIN Ordered(S) : i < j => Ordered(S)[i] < Ordered(S)[j]
<1> DEFINE Adds(n, t) == IF n \in S THEN Append(t, n) ELSE t
           upto[n \in 0..MaxQ] ==
             IF n = 0 THEN <<>> ELSE IF n \in S THEN Append(upto[n - 1], n) ELSE upto[n - 1]
<1>1. PICK none, X : none = <<>> /\ X = Seq(S)
  OBVIOUS
<1>2. none \in X /\ MaxQ \in Nat /\ \A n \in 1..MaxQ, t \in X : Adds(n, t) \in X
  BY <1>1, PipeAssumption
<1>3. PICK step : step = [n \in 1..MaxQ |-> [t \in X |-> Adds(n, t)]]
  OBVIOUS
<1>4. step \in [1..MaxQ -> [X -> X]]
  <2> HIDE DEF Adds
  <2> QED BY <1>2, <1>3
<1>5. PICK f \in [0..MaxQ -> X] : Passes(f, MaxQ, none, step)
  <2> HIDE DEF upto, Adds
  <2> QED BY <1>2, <1>4, Passing
<1>6. f = [n \in 0..MaxQ |->
             IF n = 0 THEN none ELSE IF n \in S THEN Append(f[n - 1], n) ELSE f[n - 1]]
  <2>1. \A n \in 0..MaxQ : n # 0 => n \in 1..MaxQ /\ n - 1 \in 0..MaxQ /\ f[n - 1] \in X
    BY <1>2
  <2>2. \A n \in 0..MaxQ : f[n] = IF n = 0 THEN none ELSE Adds(n, f[n - 1])
    <3> HIDE DEF Adds
    <3> QED BY <2>1, <1>3, <1>5 DEF Passes
  <2> QED BY <2>2
<1>7. upto = [n \in 0..MaxQ |->
                IF n = 0 THEN none ELSE IF n \in S THEN Append(upto[n - 1], n) ELSE upto[n - 1]]
  BY <1>1, <1>6
<1> HIDE DEF upto
<1>8. upto[0] = none /\ \A n \in 1..MaxQ : upto[n] = Adds(n, upto[n - 1])
  <2>1. \A n \in 0..MaxQ :
          upto[n] = IF n = 0 THEN none ELSE IF n \in S THEN Append(upto[n - 1], n) ELSE upto[n - 1]
    BY <1>7
  <2>2. 0 \in 0..MaxQ /\ \A n \in 1..MaxQ : n \in 0..MaxQ /\ n # 0
    BY <1>2
  <2> QED BY <2>1, <2>2
<1> DEFINE Good(n) == /\ upto[n] \in Seq(S)
                      /\ \A q \in S : (\E i \in DOMAIN upto[n] : upto[n][i] = q) <=> q <= n
                      /\ \A i, j \in DOMAIN upto[n] : i < j => upto[n][i] < upto[n][j]
<1>9. PICK T : T = {n \in 0..MaxQ : Good(n)}
  OBVIOUS
<1>10. 0 \in T
  <2>1. upto[0] = <<>>
    BY <1>1, <1>8
  <2>2. upto[0] \in Seq(S) /\ Len(upto[0]) = 0
    BY <2>1, <1>1, <1>2
  <2>3. DOMAIN upto[0] = {}
    BY <2>2
  <2>4. \A q \in S : ~(q <= 0)
    OBVIOUS
  <2> QED BY <2>2, <2>3, <2>4, <1>2, <1>9
<1>11. ASSUME NEW n \in 1..MaxQ, n - 1 \in T
       PROVE  n \in T
  <2>1. Good(n - 1) /\ n \in 0..MaxQ
    BY <1>9, <1>11
  <2>2. CASE n \in S
    <3>1. PICK s, t : s = upto[n - 1] /\ t = upto[n]
      OBVIOUS
    <3>2. s \in Seq(S) /\ t = Append(s, n)
      BY <2>1, <2>2, <3>1, <1>8
    <3>3. t \in Seq(S) /\ DOMAIN t = DOMAIN s \cup {Len(s) + 1} /\ t[Len(s) + 1] = n
            /\ \A i \in DOMAIN s : t[i] = s[i] /\ i < Len(s) + 1 /\ s[i] \in S
      BY <2>2, <3>2
    <3>4. \A i \in DOMAIN s : s[i] <= n - 1
      BY <2>1, <3>1, <3>3
    <3>5. \A q \in S : (\E i \in DOMAIN t : t[i] = q) <=> q <= n
      <4>1. \A q \in S : q <= n <=> (q <= n - 1 \/ q = n)
        OBVIOUS
      <4> QED BY <2>1, <3>1, <3>3, <4>1
    <3>6. \A i, j \in DOMAIN t : i < j => t[i] < t[j]
      <4> SUFFICES ASSUME NEW i \in DOMAIN t, NEW j \in DOMAIN t, i < j PROVE t[i] < t[j]
        OBVIOUS
      <4>1. i \in DOMAIN s
        BY <3>2, <3>3
      <4>2. s[i] \in Int /\ t[i] = s[i] /\ s[i] <= n - 1
        BY <3>3, <3>4, <4>1, PipeAssumption
      <4>3. CASE j \in DOMAIN s
        BY <2>1, <3>1, <3>3, <4>1, <4>3
      <4>4. CASE j = Len(s) + 1
        BY <3>3, <4>2, <4>4
      <4> QED BY <3>3, <4>3, <4>4
    <3> QED BY <3>1, <3>3, <3>5, <3>6, <2>1, <1>9
  <2>3. CASE n \notin S
    <3>1. upto[n] = upto[n - 1]
      BY <2>3, <1>8
    <3>2. \A q \in S : q <= n <=> q <= n - 1
      BY <2>3
    <3> QED BY <3>1, <3>2, <2>1, <1>9
  <2> QED BY <2>2, <2>3
<1>12. 0..MaxQ \subseteq T
  <2> HIDE DEF Good
  <2> QED BY <1>2, <1>10, <1>11, ByPositions
<1>13. Good(MaxQ)
  BY <1>2, <1>9, <1>12
<1>14. upto[MaxQ] = Ordered(S)
  BY DEF Ordered, upto
<1>15. ToSet(upto[MaxQ]) = S
  <2>1. \A q \in S : q <= MaxQ
    OBVIOUS
  <2>2. \A i \in DOMAIN upto[MaxQ] : upto[MaxQ][i] \in S
    BY <1>13
  <2> QED BY <2>1, <2>2, <1>13 DEF ToSet
<1> QED BY <1>13, <1>14, <1>15

\* The queries on their way are those between the iterators.
LEMMA IssuedIs ==
  ASSUME NEW v \in Worlds, Places(v)
  PROVE  /\ Issued(v) = {j \in DOMAIN v.queries : v.first <= j /\ j < v.second}
         /\ Issued(v) \subseteq 1..v.qid /\ Issued(v) \subseteq 1..MaxQ
         /\ ~Pending(v) => Issued(v) = {}
         /\ Pending(v) => v.first \in Issued(v) /\ v.first \in DOMAIN v.queries
<1>1. DOMAIN v.queries \subseteq 1..MaxQ /\ v.first \in 1..PastLast /\ v.second \in 1..PastLast
  BY WorldIs
<1>2. DOMAIN v.queries \subseteq 1..v.qid /\ v.first <= v.second
        /\ {v.first, v.second} \subseteq DOMAIN v.queries \cup {PastLast}
  BY DEF Places
<1>3. Issued(v) = {j \in DOMAIN v.queries : v.first <= j /\ j < v.second}
  BY <1>1, Bounds, PipeAssumption DEF Issued, From
<1>4. ~Pending(v) => Issued(v) = {}
  BY <1>1, <1>3, Bounds, PipeAssumption DEF Pending
<1>5. Pending(v) => v.first < v.second /\ v.first # PastLast
  BY <1>1, <1>2, Bounds DEF Pending
<1> QED BY <1>1, <1>2, <1>3, <1>4, <1>5, Bounds, PipeAssumption

\* An exception on its way changes nothing of what is known.
LEMMA ThrowKeeps ==
  ASSUME NEW v, PInv(v), NEW what \in {"none", "broken", "refused", "failed"}
  PROVE  PInv(Throw(v, what)) /\ Receives(v, Throw(v, what)) /\ Throw(v, what).thrown = what
<1>1. PICK u : u = Throw(v, what)
  OBVIOUS
<1>2. v \in Worlds /\ u = [v EXCEPT !.thrown = what]
  BY <1>1 DEF PInv, Throw
<1>3. u \in Worlds /\ u.thrown = what
  BY <1>2 DEF Worlds
<1>4. /\ u.queries = v.queries /\ u.first = v.first /\ u.second = v.second /\ u.waiting = v.waiting
      /\ u.qid = v.qid /\ u.dummy = v.dummy /\ u.error = v.error /\ u.registered = v.registered
      /\ u.failed = v.failed /\ u.command = v.command /\ u.wire = v.wire /\ u.lost = v.lost
      /\ u.ran = v.ran /\ u.undone = v.undone
  BY <1>2 DEF Worlds
<1>5. Issued(u) = Issued(v) /\ From(u, u.second) = From(v, v.second) /\ Body(u) = Body(v)
        /\ (Pending(u) <=> Pending(v))
  BY <1>4 DEF Issued, From, Body, Pending
<1>6. Places(u)
  BY <1>4, <1>5 DEF PInv, Places
<1>7. Found(u)
  BY <1>4 DEF PInv, Found, Done
<1>8. History(u)
  BY <1>4, <1>5 DEF PInv, History
<1>9. Wire(u)
  <2>1. Answering(Body(u), u)
    BY <1>4, <1>5 DEF PInv, Wire, Answering, Done
  <2>2. u.dummy => Failing(u)
    BY <1>4, <1>5 DEF PInv, Wire, Failing
  <2> QED BY <1>3, <1>4, <1>5, <2>1, <2>2 DEF PInv, Wire
<1>10. Receives(v, u)
  <2>1. v.error \in Int /\ v.first \in Int
    BY <1>2, WorldIs, Bounds
  <2> QED BY <1>4, <2>1 DEF Receives, Goes
<1> QED BY <1>1, <1>3, <1>6, <1>7, <1>8, <1>9, <1>10 DEF PInv

\* One call after another goes on as well as each.
LEMMA GoesOn ==
  ASSUME NEW v \in Worlds, NEW u \in Worlds, NEW x \in Worlds, Goes(v, u)
  PROVE  Goes(u, x) => Goes(v, x)
<1>1. v.error \in Int /\ u.error \in Int /\ x.error \in Int /\ Limit \in Int
  BY WorldIs, Bounds
<1>2. v.first \in Int /\ u.first \in Int /\ x.first \in Int
  BY WorldIs, Bounds
<1> QED BY <1>1, <1>2 DEF Goes

LEMMA ReceivesOn ==
  ASSUME NEW v \in Worlds, NEW u \in Worlds, NEW x \in Worlds, Receives(v, u), Receives(u, x)
  PROVE  Receives(v, x)
<1>1. Goes(v, x)
  BY GoesOn DEF Receives
<1>2. x.error = Limit => u.error = Limit
  <2>1. u.error \in Int /\ x.error \in Int /\ Limit \in Int /\ u.error <= Limit
    BY WorldIs, Bounds
  <2> QED BY <2>1 DEF Receives, Goes
<1> QED BY <1>1, <1>2 DEF Receives

LEMMA NothingReceived ==
  ASSUME NEW v \in Worlds
  PROVE  Receives(v, v)
BY WorldIs, Bounds DEF Receives, Goes
-----------------------------------------------------------------------------
(* Receiving *)

LEMMA AnswerIs ==
  ASSUME NEW a \in Answers, a.of \in 1..MaxQ
  PROVE  a = [of |-> a.of, ok |-> TRUE] /\ a.ok
<1>1. ~(0 \in 1..MaxQ)
  BY PipeAssumption
<1>2. a # None /\ a # Failure
  BY <1>1 DEF None, Failure
<1>3. a \in [of : 1..MaxQ, ok : {TRUE}]
  BY <1>2 DEF Answers
<1> QED BY <1>3

\* The first answer is that of the first query, or an error, and the others are those of
\* the others.
LEMMA FirstAnswer ==
  ASSUME NEW b \in Seq(Answers), Len(b) > 0, NEW S \in SUBSET (1..MaxQ), NEW x \in S,
         \A i \in S : x <= i, InOrder(b, S)
  PROVE  /\ Head(b) \in {Failure, [of |-> x, ok |-> TRUE]}
         /\ InOrder(Tail(b), S \ {x})
         /\ AllAnswered(b, S) => AllAnswered(Tail(b), S \ {x})
<1>1. Len(b) \in Nat /\ 1 \in DOMAIN b /\ Head(b) = b[1] /\ DOMAIN b = 1..Len(b)
  OBVIOUS
<1>2. PICK t : t = Tail(b)
  OBVIOUS
<1>3. Len(t) = Len(b) - 1 /\ DOMAIN t = 1..(Len(b) - 1)
        /\ \A k \in DOMAIN t : k + 1 \in DOMAIN b /\ t[k] = b[k + 1]
  BY <1>1, <1>2
<1>4. \A k \in DOMAIN b : b[k] # Failure =>
        b[k].of \in S /\ b[k] = [of |-> b[k].of, ok |-> TRUE] /\ b[k].of \in 1..MaxQ
  <2> SUFFICES ASSUME NEW k \in DOMAIN b, b[k] # Failure
               PROVE  b[k].of \in S /\ b[k] = [of |-> b[k].of, ok |-> TRUE]
    OBVIOUS
  <2>1. b[k].of \in S
    BY DEF InOrder
  <2>2. b[k] \in Answers
    BY <1>1
  <2>3. b[k].of \in 1..MaxQ
    BY <2>1
  <2> QED BY <2>1, <2>2, <2>3, AnswerIs
<1>5. b[1] # Failure => b[1].of = x
  <2> SUFFICES ASSUME b[1] # Failure PROVE b[1].of = x
    OBVIOUS
  <2>1. b[1].of \in S /\ \A i \in S : i < b[1].of => \E j \in 1..(1 - 1) : b[j].of = i
    BY <1>1 DEF InOrder
  <2>2. x <= b[1].of /\ b[1].of \in Int /\ x \in Int
    BY <2>1, PipeAssumption
  <2>3. ~(x < b[1].of)
    BY <2>1
  <2> QED BY <2>2, <2>3
<1>6. \A k \in DOMAIN t : t[k] # Failure => b[1] # Failure
  <2> TAKE k \in DOMAIN t
  <2>1. k + 1 \in DOMAIN b /\ 1 < k + 1
    BY <1>1, <1>3
  <2> QED BY <2>1, <1>1, <1>3 DEF InOrder
<1>7. InOrder(t, S \ {x})
  <2>1. \A j, k \in DOMAIN t : j < k /\ t[j] = Failure => t[k] = Failure
    <3> SUFFICES ASSUME NEW j \in DOMAIN t, NEW k \in DOMAIN t, j < k, t[j] = Failure
                 PROVE  t[k] = Failure
      OBVIOUS
    <3>1. j + 1 \in DOMAIN b /\ k + 1 \in DOMAIN b /\ j + 1 < k + 1
      BY <1>1, <1>3
    <3> QED BY <3>1, <1>3 DEF InOrder
  <2>2. ASSUME NEW k \in DOMAIN t, t[k] # Failure
        PROVE  /\ t[k].ok /\ t[k].of \in S \ {x}
               /\ \A j \in 1..(k - 1) : t[j].of < t[k].of
               /\ \A i \in S \ {x} : i < t[k].of => \E j \in 1..(k - 1) : t[j].of = i
    <3>1. k \in Nat /\ k >= 1 /\ k + 1 \in DOMAIN b /\ t[k] = b[k + 1] /\ b[1].of = x
      BY <2>2, <1>1, <1>3, <1>5, <1>6
    <3>2. /\ t[k].ok /\ t[k].of \in S /\ \A j \in 1..((k + 1) - 1) : b[j].of < t[k].of
          /\ \A i \in S : i < t[k].of => \E j \in 1..((k + 1) - 1) : b[j].of = i
      BY <2>2, <3>1 DEF InOrder
    <3>3. x < t[k].of /\ t[k].of \in Int /\ x \in Int
      <4>1. 1 \in 1..((k + 1) - 1)
        BY <3>1
      <4>2. b[1].of < t[k].of /\ b[1].of = x
        BY <3>1, <3>2, <4>1
      <4>3. t[k].of \in 1..MaxQ /\ x \in 1..MaxQ
        BY <3>2
      <4> QED BY <4>2, <4>3, PipeAssumption
    <3>4. \A j \in 1..(k - 1) : j \in DOMAIN t /\ t[j] = b[j + 1] /\ j + 1 \in 1..((k + 1) - 1)
      BY <3>1, <1>1, <1>3
    <3>5. ASSUME NEW i \in S \ {x}, i < t[k].of
          PROVE  \E j \in 1..(k - 1) : t[j].of = i
      <4>1. PICK j \in 1..((k + 1) - 1) : b[j].of = i
        BY <3>2, <3>5
      <4>2. j # 1
        BY <3>1, <3>5, <4>1
      <4>3. j - 1 \in 1..(k - 1) /\ (j - 1) + 1 = j
        BY <3>1, <4>2
      <4> QED BY <4>1, <4>3, <3>4
    <3> QED BY <3>2, <3>3, <3>4, <3>5
  <2> QED BY <2>1, <2>2 DEF InOrder
<1>8. ASSUME AllAnswered(b, S)
      PROVE  AllAnswered(t, S \ {x})
  <2>1. ASSUME NEW k \in DOMAIN t, t[k] = Failure
        PROVE  k = Len(t) /\ \E i \in S \ {x} : \A j \in 1..(k - 1) : t[j].of # i
    <3>1. k \in Nat /\ k + 1 \in DOMAIN b /\ b[k + 1] = Failure /\ 1 \in DOMAIN b /\ 1 # k + 1
      BY <2>1, <1>1, <1>3
    <3>2. k + 1 = Len(b) /\ b[1] # Failure
      BY <3>1, <1>1, <1>8 DEF AllAnswered
    <3>3. PICK i \in S : \A j \in 1..((k + 1) - 1) : b[j].of # i
      BY <3>1, <1>8 DEF AllAnswered
    <3>4. 1 \in 1..((k + 1) - 1) /\ \A j \in 1..(k - 1) : j \in DOMAIN t /\ j + 1 \in 1..((k + 1) - 1)
      BY <2>1, <3>1, <1>1, <1>3
    <3>5. i # x
      BY <3>2, <3>3, <3>4, <1>5
    <3>6. \A j \in 1..(k - 1) : t[j].of # i
      BY <3>3, <3>4, <1>3
    <3> QED BY <3>1, <3>2, <3>5, <3>6, <1>1, <1>3
  <2>2. ASSUME Len(t) > 0, t[Len(t)] # Failure, NEW i \in S \ {x}
        PROVE  \E k \in DOMAIN t : t[k].of = i
    <3>1. Len(t) \in DOMAIN t /\ t[Len(t)] = b[Len(b)]
      BY <2>2, <1>1, <1>3
    <3>2. PICK k \in DOMAIN b : b[k].of = i
      BY <2>2, <3>1, <1>1, <1>8 DEF AllAnswered
    <3>3. b[1] # Failure
      BY <2>2, <3>1, <1>6
    <3>4. k # 1
      BY <2>2, <3>2, <3>3, <1>5
    <3>5. k - 1 \in DOMAIN t /\ (k - 1) + 1 = k
      BY <3>4, <1>1, <1>3
    <3> QED BY <3>2, <3>5, <1>3
  <2> QED BY <2>1, <2>2 DEF AllAnswered
<1>9. Head(b) \in {Failure, [of |-> x, ok |-> TRUE]}
  BY <1>1, <1>4, <1>5
<1> QED BY <1>2, <1>7, <1>8, <1>9

\* With nothing on its way there is nothing left but errors, and on a connection that is
\* not lost nothing at all.
LEMMA NoAnswers ==
  ASSUME NEW b \in Seq(Answers), InOrder(b, {})
  PROVE  /\ \A k \in DOMAIN b : b[k] = Failure
         /\ AllAnswered(b, {}) => Len(b) = 0
         /\ Len(b) > 0 => InOrder(Tail(b), {})
<1>1. Len(b) \in Nat /\ DOMAIN b = 1..Len(b)
  OBVIOUS
<1>2. \A k \in DOMAIN b : b[k] = Failure
  BY DEF InOrder
<1>3. AllAnswered(b, {}) => Len(b) = 0
  <2>1. Len(b) > 0 => Len(b) \in DOMAIN b
    BY <1>1
  <2> QED BY <1>1, <1>2, <2>1 DEF AllAnswered
<1>4. Len(b) > 0 => \A k \in DOMAIN Tail(b) : Tail(b)[k] = Failure
  <2>1. Len(b) > 0 => \A k \in DOMAIN Tail(b) : k + 1 \in DOMAIN b /\ Tail(b)[k] = b[k + 1]
    BY <1>1
  <2> QED BY <1>2, <2>1
<1> QED BY <1>2, <1>3, <1>4 DEF InOrder

\* obtain_result(), but for the result of a query.
LEMMA ObtainCases ==
  ASSUME NEW v, NEW none \in BOOLEAN
  PROVE  /\ v.wire = <<>> /\ Pending(v) /\ ~none =>
              ObtainResult(v, none) =
                [SetErrorAt([v EXCEPT !.command = FALSE], v.first) EXCEPT !.second = v.first]
         /\ v.wire = <<>> /\ (~Pending(v) \/ none) =>
              ObtainResult(v, none) = [v EXCEPT !.command = FALSE]
         /\ v.wire # <<>> /\ ~Pending(v) =>
              ObtainResult(v, none) =
                Throw(SetErrorAt([v EXCEPT !.wire = Tail(@)], Least(DOMAIN v.queries)), "surplus")
BY DEF ObtainResult

\* A null result in the middle of a batch: an error at the first query left.
LEMMA ObtainsNullEarly ==
  ASSUME NEW v, PInv(v), v.thrown = "none", ~v.dummy, v.wire = <<>>, Pending(v)
  PROVE  LET u == ObtainResult(v, FALSE)
         IN  PInv(u) /\ Receives(v, u) /\ ~u.dummy /\ u.thrown = "none" /\ ~u.command
<1>1. PICK u : u = ObtainResult(v, FALSE)
  OBVIOUS
<1>2. v \in Worlds /\ v.first \in DOMAIN v.queries /\ v.first <= v.qid /\ v.first < Limit
        /\ v.error = Limit /\ v.first \in 1..MaxQ /\ v.qid \in Nat /\ v.first \in Nat
  <2>1. v \in Worlds
    BY DEF PInv
  <2>2. v.first \in DOMAIN v.queries /\ v.error = Limit /\ DOMAIN v.queries \subseteq 1..v.qid
          /\ v.first \in Issued(v)
    BY IssuedIs DEF PInv, Places
  <2>3. v.first \in 1..MaxQ /\ v.first \in 1..v.qid /\ v.qid \in Nat
    BY <2>1, <2>2, WorldIs, PipeAssumption
  <2> QED BY <2>1, <2>2, <2>3, PipeAssumption, Bounds
<1>3. u = [[[v EXCEPT !.command = FALSE] EXCEPT !.error = v.first] EXCEPT !.second = v.first]
  <2>1. [v EXCEPT !.command = FALSE].error = Limit
    BY <1>2 DEF Worlds
  <2> QED BY <1>1, <1>2, <2>1, ObtainCases DEF SetErrorAt
<1>4. u \in Worlds
  <2>1. v.first \in 0..Limit /\ v.first \in 1..PastLast
    BY <1>2, Bounds
  <2> QED BY <1>2, <1>3, <2>1 DEF Worlds
<1>5. /\ u.queries = v.queries /\ u.first = v.first /\ u.second = v.first /\ u.waiting = v.waiting
      /\ u.qid = v.qid /\ u.dummy = v.dummy /\ u.error = v.first /\ u.registered = v.registered
      /\ u.failed = v.failed /\ u.command = FALSE /\ u.wire = v.wire /\ u.lost = v.lost
      /\ u.ran = v.ran /\ u.undone = v.undone /\ u.thrown = v.thrown
  BY <1>2, <1>3 DEF Worlds
<1>6. Places(u)
  <2>1. ~Pending(u) /\ u.error # Limit
    BY <1>2, <1>5, Bounds DEF Pending
  <2>2. DOMAIN v.queries \subseteq 1..v.qid /\ v.waiting <= v.qid
    BY DEF PInv, Places
  <2>3. v.first <= v.qid + 1 /\ v.first <= v.first
    BY <1>2
  <2> QED BY <2>1, <2>2, <2>3, <1>2, <1>5 DEF Places
<1>7. Found(u)
  BY <1>5 DEF PInv, Found, Done
<1>8. History(u)
  <2>1. u.error # Limit
    BY <1>2, <1>5, Bounds
  <2> QED BY <2>1, <1>5 DEF PInv, History
<1>9. Wire(u)
  <2>1. ~Pending(u) /\ u.error # Limit
    BY <1>2, <1>5, Bounds DEF Pending
  <2>2. DOMAIN u.wire = {} /\ Len(u.wire) = 0 /\ Body(u) = u.wire
    BY <1>5 DEF Body
  <2>3. Answering(Body(u), u)
    BY <2>2 DEF Answering, InOrder, AllAnswered
  <2> QED BY <2>1, <2>3, <1>5 DEF Wire
<1>10. Receives(v, u)
  BY <1>2, <1>5, Bounds DEF Receives, Goes
<1> QED BY <1>1, <1>4, <1>5, <1>6, <1>7, <1>8, <1>9, <1>10 DEF PInv

\* A null result when nothing is on its way, or the end of a batch that has been read.
LEMMA ObtainsNull ==
  ASSUME NEW v, PInv(v), v.thrown = "none", ~v.dummy, v.wire = <<>>, ~Pending(v)
  PROVE  LET u == ObtainResult(v, FALSE)
         IN  PInv(u) /\ Receives(v, u) /\ ~u.dummy /\ u.thrown = "none" /\ ~u.command
               /\ u.wire = <<>> /\ u.error = v.error /\ u.first = v.first /\ u.lost = v.lost
               /\ ~Pending(u) /\ u.second = v.second
<1>1. PICK u : u = ObtainResult(v, FALSE)
  OBVIOUS
<1>2. v \in Worlds /\ u = [v EXCEPT !.command = FALSE]
  BY <1>1, ObtainCases DEF PInv
<1>3. u \in Worlds
  BY <1>2 DEF Worlds
<1>4. /\ u.queries = v.queries /\ u.first = v.first /\ u.second = v.second /\ u.waiting = v.waiting
      /\ u.qid = v.qid /\ u.dummy = v.dummy /\ u.error = v.error /\ u.registered = v.registered
      /\ u.failed = v.failed /\ u.command = FALSE /\ u.wire = v.wire /\ u.lost = v.lost
      /\ u.ran = v.ran /\ u.undone = v.undone /\ u.thrown = v.thrown
  BY <1>2 DEF Worlds
<1>5. Issued(u) = Issued(v) /\ From(u, u.second) = From(v, v.second) /\ Body(u) = Body(v)
        /\ ~Pending(u)
  BY <1>4 DEF Issued, From, Body, Pending
<1>6. Places(u)
  BY <1>4, <1>5 DEF PInv, Places
<1>7. Found(u)
  BY <1>4 DEF PInv, Found, Done
<1>8. History(u)
  BY <1>4, <1>5 DEF PInv, History
<1>9. Wire(u)
  <2>1. Answering(Body(u), u)
    BY <1>4, <1>5 DEF PInv, Wire, Answering, Done
  <2> QED BY <1>4, <1>5, <2>1 DEF PInv, Wire
<1>10. Receives(v, u)
  <2>1. v.error \in Int /\ v.first \in Int
    BY <1>2, WorldIs, Bounds
  <2> QED BY <1>4, <2>1 DEF Receives, Goes
<1> QED BY <1>1, <1>3, <1>4, <1>5, <1>6, <1>7, <1>8, <1>9, <1>10 DEF PInv

\* A result more than there are queries: the connection was lost after the last of them.
LEMMA ObtainsSurplus ==
  ASSUME NEW v, PInv(v), v.thrown = "none", ~v.dummy, v.wire # <<>>, ~Pending(v),
         NEW none \in BOOLEAN, DOMAIN v.queries # {} \/ v.error < Limit
  PROVE  LET u == ObtainResult(v, none)
         IN  PInv(u) /\ Receives(v, u) /\ ~u.dummy /\ u.thrown = "surplus"
<1>1. PICK u, q : u = ObtainResult(v, none) /\ q = Least(DOMAIN v.queries)
  OBVIOUS
<1>2. v \in Worlds /\ v.wire \in Seq(Answers) /\ Len(v.wire) > 0 /\ DOMAIN v.queries \subseteq 1..v.qid
        /\ v.qid \in Nat /\ v.error \in Nat /\ v.error <= Limit
  <2>1. v \in Worlds
    BY DEF PInv
  <2>2. v.wire \in Seq(Answers) /\ v.qid \in Nat /\ v.error \in Nat /\ v.error <= Limit
    BY <2>1, WorldIs, Bounds
  <2> QED BY <2>1, <2>2 DEF PInv, Places
<1>3. \/ DOMAIN v.queries # {} /\ q \in DOMAIN v.queries /\ \A j \in DOMAIN v.queries : q <= j
      \/ DOMAIN v.queries = {} /\ q = PastLast
  <2>1. DOMAIN v.queries \in SUBSET (1..PastLast)
    BY <1>2, WorldIs, Bounds
  <2> QED BY <1>1, <2>1, LeastIs DEF Least
<1>4. PICK e : e = IF q < v.error THEN q ELSE v.error
  OBVIOUS
<1>5. e \in 0..Limit /\ e <= v.error /\ (e < Limit => e <= v.qid + 1 /\ \A j \in DOMAIN v.queries :
        j >= v.first => j >= e) /\ e < Limit /\ q \in Nat
  <2>1. q \in Nat
    BY <1>2, <1>3, Bounds
  <2>2. CASE q < v.error
    <3>1. DOMAIN v.queries # {} => q <= v.qid + 1
      BY <1>2, <1>3
    <3>2. DOMAIN v.queries = {} => v.error < Limit /\ v.error <= v.qid + 1
      BY DEF PInv, Places
    <3>3. e = q /\ e \in 0..Limit /\ e < Limit
      BY <2>1, <2>2, <1>2, <1>4, Bounds
    <3>4. \A j \in DOMAIN v.queries : j >= e
      BY <1>2, <1>3, <3>3, <2>1
    <3>5. e <= v.qid + 1
      BY <2>1, <2>2, <3>1, <3>2, <3>3, <1>2
    <3> QED BY <2>1, <2>2, <3>3, <3>4, <3>5, <1>2
  <2>3. CASE ~(q < v.error)
    <3>1. e = v.error
      BY <2>3, <1>4
    <3>2. v.error < Limit
      <4>1. CASE DOMAIN v.queries # {}
        <5>1. q \in 1..MaxQ /\ v.error <= q
          BY <4>1, <1>2, <1>3, <2>1, <2>3, WorldIs
        <5> QED BY <5>1, <1>2, Bounds, PipeAssumption
      <4>2. CASE DOMAIN v.queries = {}
        BY <4>2
      <4> QED BY <4>1, <4>2
    <3> QED BY <2>1, <3>1, <3>2, <1>2, Bounds DEF PInv, Places
  <2> QED BY <2>2, <2>3
<1>6. u = [v EXCEPT !.wire = Tail(v.wire), !.error = e, !.thrown = "surplus"]
  <2>1. PICK r : r = [v EXCEPT !.wire = Tail(v.wire)]
    OBVIOUS
  <2>2. r.error = v.error
    BY <2>1, <1>2 DEF Worlds
  <2>3. SetErrorAt(r, q) = [v EXCEPT !.wire = Tail(v.wire), !.error = e]
    BY <2>1, <2>2, <1>2, <1>4 DEF SetErrorAt, Worlds
  <2>4. u = Throw(SetErrorAt(r, q), "surplus")
    BY <2>1, <1>1, ObtainCases
  <2> QED BY <2>3, <2>4 DEF Throw
<1>7. u \in Worlds
  <2>1. v \in Worlds /\ e \in 0..Limit
    BY <1>2, <1>5
  <2>2. Tail(v.wire) \in Seq(Answers)
    BY <1>2
  <2> QED BY <2>1, <2>2, <1>6 DEF Worlds
<1>8. /\ u.queries = v.queries /\ u.first = v.first /\ u.second = v.second /\ u.waiting = v.waiting
      /\ u.qid = v.qid /\ u.dummy = v.dummy /\ u.error = e /\ u.registered = v.registered
      /\ u.failed = v.failed /\ u.command = v.command /\ u.wire = Tail(v.wire) /\ u.lost = v.lost
      /\ u.ran = v.ran /\ u.undone = v.undone /\ u.thrown = "surplus"
  BY <1>2, <1>6 DEF Worlds
<1>9. Issued(v) = {} /\ Issued(u) = {} /\ ~Pending(u)
  <2>1. Issued(u) = Issued(v)
    BY <1>8 DEF Issued, From
  <2> QED BY <2>1, <1>2, <1>8, IssuedIs DEF PInv, Pending
<1>10. Places(u)
  BY <1>5, <1>8, <1>9 DEF PInv, Places
<1>11. Found(u)
  BY <1>8 DEF PInv, Found, Done
<1>12. History(u)
  BY <1>5, <1>8, Bounds DEF PInv, History
<1>13. InOrder(v.wire, {}) /\ (~v.lost => AllAnswered(v.wire, {}))
  BY <1>9 DEF PInv, Wire, Answering, Body
<1>14. v.lost /\ InOrder(Tail(v.wire), {}) /\ \A k \in DOMAIN Tail(v.wire) : Tail(v.wire)[k] = Failure
  <2>1. Tail(v.wire) \in Seq(Answers)
    BY <1>2
  <2> QED BY <2>1, <1>2, <1>13, NoAnswers
<1>15. Wire(u)
  <2>1. Body(u) = Tail(v.wire)
    BY <1>8 DEF Body
  <2>2. Answering(Body(u), u)
    BY <2>1, <1>8, <1>9, <1>14 DEF Answering
  <2>3. u.error # Limit
    BY <1>5, <1>8, <1>2, Bounds
  <2>4. v.command /\ u.command
    BY <1>8 DEF PInv, Wire
  <2> QED BY <2>2, <2>3, <2>4, <1>8, <1>9, <1>14 DEF Wire
<1>16. Receives(v, u)
  <2>1. v.error \in Int /\ v.first \in Int
    BY <1>2, WorldIs, Bounds
  <2> QED BY <1>5, <1>8, <2>1 DEF Receives, Goes
<1> QED BY <1>1, <1>7, <1>8, <1>10, <1>11, <1>12, <1>15, <1>16 DEF PInv

\* A result for the query at the head of the batch.
LEMMA ObtainsResult ==
  ASSUME NEW v, PInv(v), v.thrown = "none", ~v.dummy, v.wire # <<>>, Pending(v),
         NEW none \in BOOLEAN
  PROVE  LET u == ObtainResult(v, none)
         IN  /\ PInv(u) /\ Receives(v, u) /\ ~u.dummy /\ u.thrown = "none"
             /\ Len(u.wire) = Len(v.wire) - 1 /\ u.lost = v.lost /\ u.failed = v.failed
             /\ Issued(u) = Issued(v) \ {v.first} /\ u.ran = v.ran
             /\ \A i \in Issued(u) : u.queries[i] = v.queries[i]
<1>1. PICK u, f, n : u = ObtainResult(v, none) /\ f = v.first /\ n = After(v, v.first)
  OBVIOUS
<1>2. PICK a, b : a = Head(v.wire) /\ b = Tail(v.wire)
  OBVIOUS
<1>3. v \in Worlds /\ f \in DOMAIN v.queries /\ f \in Issued(v) /\ f \in 1..MaxQ
        /\ v.error = Limit /\ v.command /\ v.registered
  <2>1. v \in Worlds /\ Places(v)
    BY DEF PInv
  <2>2. f \in DOMAIN v.queries /\ f \in Issued(v)
    BY <2>1, <1>1, IssuedIs
  <2> QED BY <2>1, <2>2, WorldIs DEF PInv, Places, Wire
<1>4. /\ v.wire \in Seq(Answers) /\ Len(v.wire) > 0 /\ b \in Seq(Answers) /\ a \in Answers
      /\ Len(b) = Len(v.wire) - 1
  <2>1. v.wire \in Seq(Answers)
    BY <1>3, WorldIs
  <2> QED BY <2>1, <1>2
<1>5. n \in DOMAIN v.queries \cup {PastLast} /\ f < n /\ \A j \in DOMAIN v.queries : j > f => n <= j
  BY <1>1, <1>3, AfterIs, PipeAssumption
<1>6. /\ f \in Nat /\ n \in 1..PastLast /\ v.second \in 1..PastLast /\ n <= v.second /\ f < v.second
      /\ DOMAIN v.queries \subseteq 1..MaxQ
  <2>1. DOMAIN v.queries \subseteq 1..MaxQ /\ v.second \in 1..PastLast /\ f < v.second
    BY <1>1, <1>3, WorldIs, IssuedIs DEF PInv
  <2>2. v.second \in DOMAIN v.queries \cup {PastLast}
    BY DEF PInv, Places
  <2>3. n \in 1..PastLast /\ n \in Nat /\ f \in Nat /\ v.second \in Nat /\ n <= PastLast
    BY <2>1, <1>3, <1>5, Bounds, PipeAssumption
  <2>4. n <= v.second
    BY <2>1, <2>2, <2>3, <1>5
  <2> QED BY <2>1, <2>3, <2>4
<1>7. PICK m : m = [i \in DOMAIN v.queries |-> IF i = f THEN a ELSE v.queries[i]]
  OBVIOUS
<1>8. u = [v EXCEPT !.wire = b, !.queries = m, !.first = n]
  <2>1. PICK r : r = [v EXCEPT !.wire = b]
    OBVIOUS
  <2>2. r.queries = v.queries /\ r.first = v.first
    BY <2>1, <1>3 DEF Worlds
  <2>3. u = [[r EXCEPT !.queries = [i \in DOMAIN r.queries |->
                                      IF i \in {f} THEN a ELSE r.queries[i]]] EXCEPT !.first = n]
    BY <2>1, <1>1, <1>2 DEF ObtainResult, Answer
  <2>4. [i \in DOMAIN r.queries |-> IF i \in {f} THEN a ELSE r.queries[i]] = m
    BY <2>2, <1>7
  <2> QED BY <2>1, <2>3, <2>4
<1>9. u \in Worlds
  <2>1. DOMAIN v.queries \in SUBSET (1..MaxQ) /\ m \in [DOMAIN v.queries -> Answers]
    BY <1>3, <1>4, <1>6, <1>7, WorldIs
  <2>2. m \in Maps
    BY <2>1, MapIs
  <2> QED BY <2>2, <1>3, <1>4, <1>6, <1>8 DEF Worlds
<1>10. /\ u.queries = m /\ u.first = n /\ u.second = v.second /\ u.waiting = v.waiting
       /\ u.qid = v.qid /\ u.dummy = v.dummy /\ u.error = v.error /\ u.registered = v.registered
       /\ u.failed = v.failed /\ u.command = v.command /\ u.wire = b /\ u.lost = v.lost
       /\ u.ran = v.ran /\ u.undone = v.undone /\ u.thrown = v.thrown
  BY <1>3, <1>8 DEF Worlds
<1>11. DOMAIN u.queries = DOMAIN v.queries
  BY <1>7, <1>10
<1>12. From(u, u.second) = From(v, v.second)
  BY <1>10, <1>11 DEF From
<1>13. Places(u)
  <2>1. u.error = Limit /\ {u.first, u.second} \subseteq DOMAIN u.queries \cup {PastLast}
    BY <1>3, <1>5, <1>10, <1>11 DEF PInv, Places
  <2> QED BY <2>1, <1>6, <1>10, <1>11, <1>12, Bounds DEF PInv, Places
<1>14. Issued(u) = Issued(v) \ {f}
  <2>1. Issued(v) = {j \in DOMAIN v.queries : f <= j /\ j < v.second}
    BY <1>1, IssuedIs DEF PInv
  <2>2. Issued(u) = {j \in DOMAIN v.queries : n <= j /\ j < v.second}
    BY <1>9, <1>10, <1>11, <1>13, IssuedIs
  <2>3. \A j \in DOMAIN v.queries : n <= j <=> (f <= j /\ j # f)
    <3>1. \A j \in DOMAIN v.queries : j \in Nat
      BY <1>6, PipeAssumption
    <3>2. n \in Nat
      BY <1>6, Bounds
    <3> QED BY <3>1, <3>2, <1>5, <1>6
  <2> QED BY <2>1, <2>2, <2>3
<1>15. /\ a \in {Failure, [of |-> f, ok |-> TRUE]} /\ InOrder(b, Issued(v) \ {f})
       /\ AllAnswered(v.wire, Issued(v)) => AllAnswered(b, Issued(v) \ {f})
  <2>1. InOrder(v.wire, Issued(v))
    BY DEF PInv, Wire, Answering, Body
  <2>2. Issued(v) \in SUBSET (1..MaxQ) /\ f \in Issued(v) /\ \A i \in Issued(v) : f <= i
    BY <1>1, <1>3, IssuedIs DEF PInv
  <2> QED BY <2>1, <2>2, <1>2, <1>4, FirstAnswer
<1>16. \A k \in DOMAIN v.wire : v.wire[k] # Failure => Done(v, v.wire[k].of)
  BY DEF PInv, Wire, Answering, Body
<1>17. a # Failure => Done(v, f)
  <2>1. 1 \in DOMAIN v.wire /\ a = v.wire[1]
    BY <1>2, <1>4
  <2>2. a # Failure => a.of = f
    BY <1>15
  <2> QED BY <2>1, <2>2, <1>16
<1>18. Found(u)
  <2> SUFFICES ASSUME NEW q \in DOMAIN v.queries
               PROVE  /\ \/ m[q] \in {None, Failure}
                         \/ m[q] = [of |-> q, ok |-> TRUE] /\ Done(v, q)
                      /\ q < n => m[q] # None
    BY <1>10, <1>11 DEF Found, Done
  <2>1. CASE q = f
    <3>1. m[q] = a
      BY <2>1, <1>7
    <3>2. a # None
      BY <1>3, <1>15, PipeAssumption DEF None, Failure
    <3> QED BY <2>1, <3>1, <3>2, <1>15, <1>17
  <2>2. CASE q # f
    <3>1. m[q] = v.queries[q]
      BY <2>2, <1>7
    <3>2. q < n => q < v.first
      <4>1. q \in Nat /\ n \in Nat
        BY <1>6, Bounds, PipeAssumption
      <4> QED BY <4>1, <2>2, <1>1, <1>5, <1>6
    <3> QED BY <3>1, <3>2 DEF PInv, Found
  <2> QED BY <2>1, <2>2
<1>19. History(u)
  BY <1>10, <1>12 DEF PInv, History
<1>20. Wire(u)
  <2>1. Body(u) = b /\ Body(v) = v.wire
    BY <1>10 DEF Body
  <2>2. \A k \in DOMAIN b : b[k] # Failure => Done(u, b[k].of)
    <3>1. \A k \in DOMAIN b : k + 1 \in DOMAIN v.wire /\ b[k] = v.wire[k + 1]
      BY <1>2, <1>4
    <3> QED BY <3>1, <1>10, <1>16 DEF Done
  <2>3. Answering(Body(u), u)
    BY <2>1, <2>2, <1>10, <1>14, <1>15 DEF PInv, Wire, Answering
  <2> QED BY <2>3, <1>3, <1>10 DEF Wire
<1>21. Receives(v, u)
  <2>1. v.error \in Int /\ v.first <= n
    BY <1>1, <1>3, <1>5, <1>6, WorldIs, Bounds
  <2> QED BY <2>1, <1>10, <1>11 DEF Receives, Goes
<1>22. \A i \in Issued(u) : m[i] = v.queries[i]
  BY <1>7, <1>14, IssuedIs DEF PInv
<1> QED BY <1>1, <1>4, <1>9, <1>10, <1>13, <1>14, <1>18, <1>19, <1>20, <1>21, <1>22 DEF PInv

\* A call of obtain_result(), whatever it obtains.
LEMMA ObtainKeeps ==
  ASSUME NEW v, PInv(v), v.thrown = "none", ~v.dummy, DOMAIN v.queries # {} \/ v.error < Limit
  PROVE  LET u == ObtainResult(v, FALSE)
         IN  /\ PInv(u) /\ Receives(v, u) /\ ~u.dummy
             /\ v.wire = <<>> => ~u.command
             /\ v.wire # <<>> /\ u.thrown = "none" => Len(u.wire) = Len(v.wire) - 1
<1>1. CASE v.wire = <<>> /\ Pending(v)
  BY <1>1, ObtainsNullEarly
<1>2. CASE v.wire = <<>> /\ ~Pending(v)
  BY <1>2, ObtainsNull
<1>3. CASE v.wire # <<>> /\ Pending(v)
  BY <1>3, ObtainsResult
<1>4. CASE v.wire # <<>> /\ ~Pending(v)
  <2>1. ObtainResult(v, FALSE).thrown = "surplus"
    BY <1>4, ObtainsSurplus
  <2> QED BY <2>1, <1>4, ObtainsSurplus
<1> QED BY <1>1, <1>2, <1>3, <1>4

\* One call of obtain_result() after the other, up to the null result: what has come is read,
\* and with the null result nothing is on its way any more.
LEMMA ObtainedKeeps ==
  ASSUME NEW v, PInv(v), v.thrown = "none", ~v.dummy, DOMAIN v.queries # {} \/ v.error < Limit
  PROVE  LET got == Obtained(v)
             null == Len(v.wire) + 1
         IN  /\ \A n \in 0..null : PInv(got[n]) /\ Receives(v, got[n]) /\ ~got[n].dummy
             /\ got[null].thrown = "none" => ~got[null].command
<1> DEFINE Tried(u) == IF u.thrown = "none" THEN ObtainResult(u, FALSE) ELSE u
           Fine(u) == PInv(u) /\ Receives(v, u) /\ ~u.dummy
           got[n \in 0..(Len(v.wire) + 1)] ==
             IF n = 0 THEN v
             ELSE LET u == got[n - 1] IN IF u.thrown = "none" THEN ObtainResult(u, FALSE) ELSE u
<1>1. PICK X, null : X = {u \in Worlds : Fine(u)} /\ null = Len(v.wire) + 1
  OBVIOUS
<1>2. v \in Worlds /\ null \in Nat /\ Len(v.wire) \in Nat /\ null >= 1
  <2>1. v \in Worlds
    BY DEF PInv
  <2> QED BY <2>1, <1>1, WorldIs
<1>3. \A u \in X : Tried(u) \in X /\ (u.thrown = "none" =>
        /\ u.wire = <<>> => ~Tried(u).command
        /\ u.wire # <<>> /\ Tried(u).thrown = "none" => Len(Tried(u).wire) = Len(u.wire) - 1)
  <2> SUFFICES ASSUME NEW u \in X, u.thrown = "none"
               PROVE  LET x == ObtainResult(u, FALSE)
                      IN  /\ x \in X
                          /\ u.wire = <<>> => ~x.command
                          /\ u.wire # <<>> /\ x.thrown = "none" => Len(x.wire) = Len(u.wire) - 1
    OBVIOUS
  <2>1. u \in Worlds /\ PInv(u) /\ Receives(v, u) /\ ~u.dummy
    BY <1>1
  <2>2. DOMAIN u.queries # {} \/ u.error < Limit
    <3>1. v.error \in Int /\ u.error \in Int /\ Limit \in Int
      BY <2>1, <1>2, WorldIs, Bounds
    <3> QED BY <2>1, <3>1 DEF Receives, Goes
  <2>3. PICK x : x = ObtainResult(u, FALSE)
    OBVIOUS
  <2>4. /\ PInv(x) /\ Receives(u, x) /\ ~x.dummy
        /\ u.wire = <<>> => ~x.command
        /\ u.wire # <<>> /\ x.thrown = "none" => Len(x.wire) = Len(u.wire) - 1
    BY <2>1, <2>2, <2>3, ObtainKeeps
  <2>5. x \in Worlds
    BY <2>4 DEF PInv
  <2>6. Receives(v, x)
    BY <2>1, <2>4, <2>5, <1>2, ReceivesOn
  <2> QED BY <2>3, <2>4, <2>5, <2>6, <1>1
<1>4. v \in X
  BY <1>1, <1>2, NothingReceived
<1>5. PICK step : step = [n \in 1..null |-> [u \in X |-> Tried(u)]]
  OBVIOUS
<1> HIDE DEF Tried, Fine, got
<1>6. step \in [1..null -> [X -> X]]
  BY <1>3, <1>5
<1>7. PICK f \in [0..null -> X] : Passes(f, null, v, step)
  BY <1>2, <1>4, <1>6, Passing
<1>8. \A n \in 0..null : n # 0 => n \in 1..null /\ n - 1 \in 0..null /\ f[n - 1] \in X
  BY <1>2
<1>9. \A n \in 0..null : f[n] = IF n = 0 THEN v ELSE Tried(f[n - 1])
  BY <1>5, <1>7, <1>8 DEF Passes
<1>10. f = [n \in 0..(Len(v.wire) + 1) |->
              IF n = 0 THEN v
              ELSE LET u == f[n - 1] IN IF u.thrown = "none" THEN ObtainResult(u, FALSE) ELSE u]
  BY <1>1, <1>9 DEF Tried
<1>11. got = [n \in 0..(Len(v.wire) + 1) |->
                IF n = 0 THEN v
                ELSE LET u == got[n - 1] IN IF u.thrown = "none" THEN ObtainResult(u, FALSE) ELSE u]
  BY <1>10 DEF got
<1>12. got[0] = v /\ \A n \in 1..null : got[n] = Tried(got[n - 1])
  <2>1. \A n \in 0..null : got[n] = IF n = 0 THEN v ELSE Tried(got[n - 1])
    BY <1>1, <1>11 DEF Tried
  <2> QED BY <2>1, <1>2
<1> DEFINE Good(n) == /\ got[n] \in X
                      /\ got[n].thrown = "none" =>
                           /\ n < null => Len(got[n].wire) = Len(v.wire) - n
                           /\ n = null => ~got[n].command
<1>13. PICK T : T = {n \in 0..null : Good(n)}
  OBVIOUS
<1>14. 0 \in T
  BY <1>1, <1>2, <1>4, <1>12, <1>13
<1>15. ASSUME NEW n \in 1..null, n - 1 \in T
       PROVE  n \in T
  <2>1. PICK u, x : u = got[n - 1] /\ x = got[n]
    OBVIOUS
  <2>2. /\ u \in X /\ x = Tried(u) /\ n - 1 < null /\ n \in Nat
        /\ u.thrown = "none" => Len(u.wire) = Len(v.wire) - (n - 1)
    <3>1. n \in Nat /\ n - 1 \in 0..null /\ n - 1 < null
      BY <1>2
    <3>2. Good(n - 1)
      BY <1>13, <1>15
    <3> QED BY <3>1, <3>2, <2>1, <1>12
  <2>3. x.thrown = "none" => u.thrown = "none"
    BY <2>2 DEF Tried
  <2>4. ASSUME x.thrown = "none"
        PROVE  (n < null => Len(x.wire) = Len(v.wire) - n) /\ (n = null => ~x.command)
    <3>1. u.wire \in Seq(Answers)
      BY <2>2, <1>1, WorldIs
    <3>2. u.wire = <<>> <=> Len(u.wire) = 0
      BY <3>1
    <3>3. Len(u.wire) = Len(v.wire) - (n - 1)
      BY <2>2, <2>3, <2>4
    <3>4. CASE n < null
      <4>1. u.wire # <<>>
        BY <2>2, <3>2, <3>3, <3>4, <1>1, <1>2
      <4>2. Len(x.wire) = Len(u.wire) - 1
        BY <2>2, <2>3, <2>4, <4>1, <1>3
      <4> QED BY <2>2, <3>3, <3>4, <4>2, <1>2
    <3>5. CASE n = null
      <4>1. u.wire = <<>>
        BY <2>2, <3>2, <3>3, <3>5, <1>1, <1>2
      <4>2. ~x.command
        BY <2>2, <2>3, <2>4, <4>1, <1>3
      <4> QED BY <2>2, <3>5, <4>2
    <3> QED BY <2>2, <3>4, <3>5, <1>2
  <2>5. x \in X
    BY <2>2, <1>3
  <2>6. n \in 0..null
    BY <1>2
  <2> QED BY <2>1, <2>4, <2>5, <2>6, <1>13
<1>16. 0..null \subseteq T
  <2> HIDE DEF Good
  <2> QED BY <1>2, <1>14, <1>15, ByPositions
<1>17. \A n \in 0..null : Good(n)
  BY <1>13, <1>16
<1>18. null \in 0..null
  BY <1>2
<1>19. \A n \in 0..null : Fine(got[n])
  BY <1>1, <1>17
<1>20. Obtained(v) = got
  BY DEF Obtained, got
<1>21. got[null].thrown = "none" => ~got[null].command
  BY <1>17, <1>18
<1> QED BY <1>1, <1>19, <1>20, <1>21 DEF Fine

\* get_further_available_results()
LEMMA GetFurtherKeeps ==
  ASSUME NEW v, PInv(v), v.thrown = "none", ~v.dummy, DOMAIN v.queries # {} \/ v.error < Limit,
         NEW u \in GetFurther(v)
  PROVE  PInv(u) /\ Receives(v, u)
<1>1. CASE v.lost
  <2>1. u = Throw(v, "broken")
    BY <1>1 DEF GetFurther
  <2> QED BY <2>1, ThrowKeeps
<1>2. CASE ~v.lost
  <2>1. PICK n \in 0..(Len(v.wire) + 1) : u = Obtained(v)[n]
    BY <1>2 DEF GetFurther
  <2> QED BY <2>1, ObtainedKeeps
<1> QED BY <1>1, <1>2

\* What is run after the rest keeps the order.
LEMMA AppendGrows ==
  ASSUME NEW s \in Seq(1..MaxQ), NEW q \in 1..MaxQ, \A i \in DOMAIN s : s[i] < q,
         \A i, j \in DOMAIN s : i < j => s[i] < s[j]
  PROVE  LET t == Append(s, q)
         IN  /\ t \in Seq(1..MaxQ) /\ ToSet(t) = ToSet(s) \cup {q}
             /\ \A i \in DOMAIN t : t[i] = q \/ (i \in DOMAIN s /\ t[i] = s[i])
             /\ \A i, j \in DOMAIN t : i < j => t[i] < t[j]
<1>1. PICK t : t = Append(s, q)
  OBVIOUS
<1>2. t \in Seq(1..MaxQ) /\ DOMAIN t = DOMAIN s \cup {Len(s) + 1} /\ t[Len(s) + 1] = q
        /\ \A i \in DOMAIN s : t[i] = s[i] /\ i < Len(s) + 1
  BY <1>1
<1>3. \A i, j \in DOMAIN t : i < j => t[i] < t[j]
  <2> SUFFICES ASSUME NEW i \in DOMAIN t, NEW j \in DOMAIN t, i < j PROVE t[i] < t[j]
    OBVIOUS
  <2>1. i \in DOMAIN s
    <3>1. Len(s) \in Nat /\ DOMAIN s = 1..Len(s)
      OBVIOUS
    <3> QED BY <3>1, <1>2
  <2>2. CASE j \in DOMAIN s
    BY <2>1, <2>2, <1>2
  <2>3. CASE j = Len(s) + 1
    BY <2>1, <2>3, <1>2
  <2> QED BY <2>2, <2>3, <1>2
<1>4. ToSet(t) = ToSet(s) \cup {q}
  BY <1>2 DEF ToSet
<1>5. \A i \in DOMAIN t : t[i] = q \/ (i \in DOMAIN s /\ t[i] = s[i])
  BY <1>2
<1> QED BY <1>1, <1>2, <1>3, <1>4, <1>5

\* A query that is run by itself.
LEMMA AloneIs ==
  ASSUME NEW u \in Worlds, NEW q \in 1..MaxQ
  PROVE  LET x == Alone(u, q)
             fails == u.lost \/ u.failed \/ fate[q] # "ok"
         IN  /\ x \in Worlds
             /\ x.queries = u.queries /\ x.first = u.first /\ x.second = u.second
             /\ x.waiting = u.waiting /\ x.qid = u.qid /\ x.dummy = u.dummy /\ x.error = u.error
             /\ x.registered = u.registered /\ x.lost = u.lost /\ x.undone = u.undone
             /\ x.kind = u.kind /\ x.retain = u.retain
             /\ x.command = FALSE /\ x.wire = <<>>
             /\ x.ran = IF fails THEN u.ran ELSE Append(u.ran, q)
             /\ x.failed = (u.failed \/ (u.kind = "work" /\ fails /\ ~u.lost))
<1>1. <<>> \in Seq(Answers)
  OBVIOUS
<1>2. PICK none : none = <<>> /\ none \in Seq(Answers)
  BY <1>1
<1>3. u.failed \in BOOLEAN /\ u.lost \in BOOLEAN /\ u.ran \in Seq(1..MaxQ)
  BY WorldIs
<1>4. PICK fails, ran, how :
        /\ fails = (u.lost \/ u.failed \/ fate[q] # "ok")
        /\ ran = (IF fails THEN u.ran ELSE Append(u.ran, q))
        /\ how = (IF fails THEN "failed" ELSE "none")
  OBVIOUS
<1>5. ran \in Seq(1..MaxQ) /\ how \in {"failed", "none"} /\ fails \in BOOLEAN
  <2>1. Append(u.ran, q) \in Seq(1..MaxQ)
    BY <1>3
  <2> QED BY <2>1, <1>3, <1>4
<1>6. PICK broken : broken = (u.failed \/ (u.kind = "work" /\ fails /\ ~u.lost))
  OBVIOUS
<1>7. broken \in BOOLEAN
  BY <1>6
<1>8. PICK x : x = Alone(u, q)
  OBVIOUS
<1>9. x = [u EXCEPT !.command = FALSE, !.wire = none, !.ran = ran, !.failed = broken, !.thrown = how]
  BY <1>2, <1>4, <1>6, <1>8 DEF Alone, Worlds
<1>10. x \in Worlds
  BY <1>2, <1>5, <1>7, <1>9 DEF Worlds
<1>11. /\ x.queries = u.queries /\ x.first = u.first /\ x.second = u.second
       /\ x.waiting = u.waiting /\ x.qid = u.qid /\ x.dummy = u.dummy /\ x.error = u.error
       /\ x.registered = u.registered /\ x.lost = u.lost /\ x.undone = u.undone
       /\ x.kind = u.kind /\ x.retain = u.retain
       /\ x.command = FALSE /\ x.wire = none /\ x.ran = ran /\ x.failed = broken
  BY <1>9 DEF Worlds
<1> QED BY <1>2, <1>4, <1>6, <1>8, <1>10, <1>11

\* What a replay has done once it has tried all up to the query that fails, thud.
Replayed(v, u, good, thud, n) ==
  /\ u \in Worlds
  /\ u.queries = v.queries /\ u.first = v.first /\ u.second = v.second
  /\ u.waiting = v.waiting /\ u.qid = v.qid /\ u.dummy = v.dummy /\ u.error = v.error
  /\ u.registered = v.registered /\ u.lost = v.lost /\ u.undone = v.undone
  /\ u.kind = v.kind /\ u.retain = v.retain
  /\ n < thud => u.failed = v.failed
  /\ n >= thud => /\ u.command = FALSE /\ u.wire = <<>>
                  /\ u.failed = (v.failed \/ (v.kind = "work" /\ ~v.lost))
  /\ v.lost => u.ran = v.ran
  /\ ~v.lost => \A i \in DOMAIN u.ran : u.ran[i] < v.first \/ (u.ran[i] \in good /\ u.ran[i] <= n)
  /\ \A i \in DOMAIN u.ran : u.ran[i] <= v.qid
  /\ \A i, j \in DOMAIN u.ran : i < j => u.ran[i] < u.ran[j]
  /\ ToSet(v.ran) \subseteq ToSet(u.ran) /\ \A q \in good : q <= n => q \in ToSet(u.ran)

LEMMA TriedOne ==
  ASSUME NEW v \in Worlds, NEW good \in SUBSET (1..MaxQ), NEW thud \in 1..MaxQ, NEW n \in 1..MaxQ,
         \A q \in good : q < thud /\ v.first <= q /\ q <= v.qid /\ ~v.lost /\ ~v.failed /\ fate[q] = "ok",
         v.lost \/ v.failed \/ fate[thud] # "ok",
         NEW u, Replayed(v, u, good, thud, n - 1)
  PROVE  Replayed(v, IF n \in good \cup {thud} THEN Alone(u, n) ELSE u, good, thud, n)
<1>1. u \in Worlds /\ v.first \in Nat /\ v.qid \in Nat /\ n \in Nat /\ thud \in Nat
        /\ good \subseteq Nat /\ u.lost = v.lost /\ u.kind = v.kind
        /\ v.failed \in BOOLEAN /\ v.lost \in BOOLEAN /\ u.ran \in Seq(1..MaxQ)
  <2>1. u \in Worlds /\ u.lost = v.lost /\ u.kind = v.kind
    BY DEF Replayed
  <2>2. n \in Nat /\ thud \in Nat /\ good \subseteq Nat
    BY PipeAssumption
  <2>3. v.first \in Nat /\ v.qid \in Nat
    BY WorldIs, Bounds, PipeAssumption
  <2> QED BY <2>1, <2>2, <2>3, WorldIs
<1>2. PICK x : x = Alone(u, n)
  OBVIOUS
<1>3. /\ x \in Worlds
      /\ x.queries = v.queries /\ x.first = v.first /\ x.second = v.second
      /\ x.waiting = v.waiting /\ x.qid = v.qid /\ x.dummy = v.dummy /\ x.error = v.error
      /\ x.registered = v.registered /\ x.lost = v.lost /\ x.undone = v.undone
      /\ x.kind = v.kind /\ x.retain = v.retain
      /\ x.command = FALSE /\ x.wire = <<>>
  BY <1>1, <1>2, AloneIs DEF Replayed
<1>4. /\ x.ran = IF u.lost \/ u.failed \/ fate[n] # "ok" THEN u.ran ELSE Append(u.ran, n)
      /\ x.failed = (u.failed \/ (u.kind = "work" /\ (u.lost \/ u.failed \/ fate[n] # "ok") /\ ~u.lost))
  BY <1>1, <1>2, AloneIs
<1>5. CASE n \in good
  <2>1. n < thud /\ n - 1 < thud /\ v.first <= n /\ n <= v.qid /\ ~v.lost /\ ~v.failed
          /\ fate[n] = "ok"
    BY <1>1, <1>5
  <2>2. u.failed = v.failed
    BY <2>1 DEF Replayed
  <2>3. x.ran = Append(u.ran, n) /\ x.failed = v.failed
    BY <2>1, <2>2, <1>1, <1>4
  <2>4. \A i \in DOMAIN u.ran : u.ran[i] \in Nat /\ (u.ran[i] < v.first \/ (u.ran[i] \in good /\ u.ran[i] <= n - 1))
    <3>1. \A i \in DOMAIN u.ran : u.ran[i] \in Nat
      BY <1>1, WorldIs
    <3> QED BY <3>1, <2>1 DEF Replayed
  <2>5. \A i \in DOMAIN u.ran : u.ran[i] < n
    BY <2>1, <2>4, <1>1
  <2>6. /\ ToSet(x.ran) = ToSet(u.ran) \cup {n}
        /\ \A i \in DOMAIN x.ran : x.ran[i] = n \/ (i \in DOMAIN u.ran /\ x.ran[i] = u.ran[i])
        /\ \A i, j \in DOMAIN x.ran : i < j => x.ran[i] < x.ran[j]
    <3>1. \A i, j \in DOMAIN u.ran : i < j => u.ran[i] < u.ran[j]
      BY DEF Replayed
    <3> QED BY <3>1, <2>3, <2>5, <1>1, AppendGrows, SMTT(30)
  <2>7. \A i \in DOMAIN x.ran : x.ran[i] < v.first \/ (x.ran[i] \in good /\ x.ran[i] <= n)
    <3>1. \A i \in DOMAIN u.ran : u.ran[i] < v.first \/ (u.ran[i] \in good /\ u.ran[i] <= n)
      BY <2>4, <1>1
    <3> QED BY <3>1, <2>6, <1>1, <1>5
  <2>8. \A i \in DOMAIN x.ran : x.ran[i] <= v.qid
    BY <2>1, <2>6 DEF Replayed
  <2>9. ToSet(v.ran) \subseteq ToSet(x.ran) /\ \A q \in good : q <= n => q \in ToSet(x.ran)
    <3>1. \A q \in good : q <= n => q <= n - 1 \/ q = n
      BY <1>1
    <3>2. ToSet(v.ran) \subseteq ToSet(u.ran) /\ \A q \in good : q <= n - 1 => q \in ToSet(u.ran)
      BY DEF Replayed
    <3> QED BY <3>1, <3>2, <2>6
  <2>10. ~(n >= thud)
    BY <2>1, <1>1
  <2>11. Replayed(v, x, good, thud, n)
    BY <2>1, <2>3, <2>6, <2>7, <2>8, <2>9, <2>10, <1>3 DEF Replayed
  <2> QED BY <2>11, <1>2, <1>5
<1>6. \A q \in good : q <= n /\ q # n => q <= n - 1
  BY <1>1
<1>7. CASE n = thud
  <2>1. n - 1 < thud /\ ~(n < thud)
    BY <1>1, <1>7
  <2>2. u.failed = v.failed
    BY <2>1 DEF Replayed
  <2>3. x.ran = u.ran /\ x.failed = (v.failed \/ (v.kind = "work" /\ ~v.lost))
    BY <2>2, <1>1, <1>4, <1>7
  <2>4. ~v.lost => \A i \in DOMAIN u.ran : u.ran[i] < v.first \/ (u.ran[i] \in good /\ u.ran[i] <= n)
    <3>1. ~v.lost => \A i \in DOMAIN u.ran : u.ran[i] < v.first \/ (u.ran[i] \in good /\ u.ran[i] <= n - 1)
      BY DEF Replayed
    <3>2. \A q \in good : q <= n - 1 => q <= n
      BY <1>1
    <3> QED BY <3>1, <3>2
  <2>5. \A q \in good : q <= n => q \in ToSet(u.ran)
    <3>1. \A q \in good : q # n
      BY <1>1, <1>7
    <3> QED BY <3>1, <1>6 DEF Replayed
  <2>6. Replayed(v, x, good, thud, n)
    BY <2>1, <2>3, <2>4, <2>5, <1>3 DEF Replayed
  <2> QED BY <2>6, <1>2, <1>7
<1>8. CASE n \notin good /\ n # thud
  <2>1. (n < thud => n - 1 < thud) /\ (n >= thud => n - 1 >= thud)
    BY <1>1, <1>8
  <2>2. ~v.lost => \A i \in DOMAIN u.ran : u.ran[i] < v.first \/ (u.ran[i] \in good /\ u.ran[i] <= n)
    <3>1. ~v.lost => \A i \in DOMAIN u.ran : u.ran[i] < v.first \/ (u.ran[i] \in good /\ u.ran[i] <= n - 1)
      BY DEF Replayed
    <3>2. \A q \in good : q <= n - 1 => q <= n
      BY <1>1
    <3> QED BY <3>1, <3>2
  <2>3. \A q \in good : q <= n => q \in ToSet(u.ran)
    BY <1>6, <1>8 DEF Replayed
  <2>4. Replayed(v, u, good, thud, n)
    BY <2>1, <2>2, <2>3 DEF Replayed
  <2> QED BY <2>4, <1>8
<1> QED BY <1>5, <1>7, <1>8

\* The queries of a failed batch by themselves, up to the one that fails.
LEMMA SinglyReplays ==
  ASSUME NEW v \in Worlds, NEW good \in SUBSET (1..MaxQ), NEW thud \in 1..MaxQ,
         \A q \in good : q < thud /\ v.first <= q /\ q <= v.qid /\ ~v.lost /\ ~v.failed /\ fate[q] = "ok",
         v.lost \/ v.failed \/ fate[thud] # "ok",
         v.lost \/ \A i \in DOMAIN v.ran : v.ran[i] < v.first, History(v)
  PROVE  Replayed(v, Singly(v, good \cup {thud}), good, thud, MaxQ)
<1>1. PICK K : K = good \cup {thud}
  OBVIOUS
<1> DEFINE tried[n \in 0..MaxQ] ==
             IF n = 0 THEN v ELSE IF n \in K THEN Alone(tried[n - 1], n) ELSE tried[n - 1]
           Try(u, n) == IF n \in K THEN Alone(u, n) ELSE u
<1>8. \A u \in Worlds, n \in 1..MaxQ : Try(u, n) \in Worlds
  BY AloneIs
<1>9. PICK step : step = [n \in 1..MaxQ |-> [u \in Worlds |-> Try(u, n)]]
  OBVIOUS
<1> HIDE DEF tried, Try
<1>10. step \in [1..MaxQ -> [Worlds -> Worlds]]
  BY <1>8, <1>9
<1>11. PICK f \in [0..MaxQ -> Worlds] : Passes(f, MaxQ, v, step)
  BY <1>10, Passing, PipeAssumption
<1>12. \A n \in 0..MaxQ : n # 0 => n \in 1..MaxQ /\ n - 1 \in 0..MaxQ /\ f[n - 1] \in Worlds
  BY PipeAssumption
<1>13. \A n \in 0..MaxQ : f[n] = IF n = 0 THEN v ELSE Try(f[n - 1], n)
  BY <1>9, <1>11, <1>12 DEF Passes
<1>14. f = [n \in 0..MaxQ |->
              IF n = 0 THEN v ELSE IF n \in K THEN Alone(f[n - 1], n) ELSE f[n - 1]]
  BY <1>13 DEF Try
<1>15. tried = [n \in 0..MaxQ |->
                  IF n = 0 THEN v ELSE IF n \in K THEN Alone(tried[n - 1], n) ELSE tried[n - 1]]
  BY <1>14 DEF tried
<1>16. tried[0] = v
         /\ \A n \in 1..MaxQ : tried[n] = IF n \in K THEN Alone(tried[n - 1], n) ELSE tried[n - 1]
  <2>1. \A n \in 0..MaxQ :
          tried[n] = IF n = 0 THEN v ELSE IF n \in K THEN Alone(tried[n - 1], n) ELSE tried[n - 1]
    BY <1>15
  <2>2. 0 \in 0..MaxQ /\ \A n \in 1..MaxQ : n \in 0..MaxQ /\ n # 0
    BY PipeAssumption
  <2> QED BY <2>1, <2>2
<1>17. PICK T : T = {n \in 0..MaxQ : Replayed(v, tried[n], good, thud, n)}
  OBVIOUS
<1>18. 0 \in T
  <2>1. 0 < thud /\ ~(0 >= thud) /\ \A q \in good : ~(q <= 0)
    BY PipeAssumption
  <2>2. v.lost \/ \A i \in DOMAIN v.ran : v.ran[i] < v.first
    OBVIOUS
  <2>3. Replayed(v, v, good, thud, 0)
    BY <2>1, <2>2 DEF Replayed, History
  <2> QED BY <2>3, <1>16, <1>17, PipeAssumption
<1>19. ASSUME NEW n \in 1..MaxQ, n - 1 \in T
       PROVE  n \in T
  <2>1. Replayed(v, tried[n - 1], good, thud, n - 1) /\ n \in 0..MaxQ
    BY <1>17, <1>19, PipeAssumption
  <2>2. Replayed(v, IF n \in K THEN Alone(tried[n - 1], n) ELSE tried[n - 1], good, thud, n)
    BY <2>1, <1>1, TriedOne
  <2> QED BY <2>1, <2>2, <1>16, <1>17
<1>20. Replayed(v, tried[MaxQ], good, thud, MaxQ)
  <2>1. 0..MaxQ \subseteq T
    BY <1>18, <1>19, ByPositions, PipeAssumption
  <2> QED BY <2>1, <1>17, PipeAssumption
<1>21. Singly(v, K) = tried[MaxQ]
  BY DEF Singly, tried
<1> QED BY <1>1, <1>20, <1>21

\* A batch that has failed and will fail again is replayed up to the query that fails: what
\* has been run is told, and what comes after it is never issued.
LEMMA ReplayKeeps ==
  ASSUME NEW v \in Worlds, Places(v), Found(v), History(v), ~v.dummy, v.error = Limit,
         Issued(v) # {}, \A q \in Issued(v) : v.queries[q] # None,
         v.lost \/ v.failed \/ \E q \in Issued(v) : fate[q] # "ok",
         v.lost \/ \A i \in DOMAIN v.ran : v.ran[i] < v.first
  PROVE  LET u == Replay(v, Issued(v))
         IN  /\ PInv(u) /\ Receives(v, u) /\ ~u.dummy /\ u.thrown = "none"
             /\ u.error < Limit /\ u.lost = v.lost
<1>1. PICK ids, bad, thud :
        /\ ids = Issued(v) /\ bad = {q \in ids : v.lost \/ v.failed \/ fate[q] # "ok"}
        /\ thud = Thud(v, ids)
  OBVIOUS
<1>2. PICK good, K : good = Before(ids, thud) /\ K = good \cup {thud}
  OBVIOUS
<1>3. /\ ids = {j \in DOMAIN v.queries : v.first <= j /\ j < v.second}
      /\ ids \subseteq 1..v.qid /\ ids \subseteq 1..MaxQ /\ ids # {}
  BY <1>1, IssuedIs
<1>4. thud \in ids /\ thud \in bad /\ \A q \in bad : thud <= q
  <2>1. bad \in SUBSET (1..PastLast) /\ bad # {} /\ bad \subseteq ids
    BY <1>1, <1>3, Bounds
  <2> QED BY <2>1, <1>1, LeastIs DEF Thud
<1>5. /\ v.first \in Nat /\ v.second \in Nat /\ v.qid \in Nat /\ thud \in Nat /\ thud \in 1..MaxQ
      /\ \A q \in ids : q \in Nat
      /\ thud \in DOMAIN v.queries /\ v.first <= thud /\ thud < v.second /\ thud <= v.qid
  BY <1>3, <1>4, WorldIs, Bounds, PipeAssumption
<1>6. /\ good \in SUBSET (1..MaxQ) /\ good \subseteq ids /\ K \subseteq ids /\ K \subseteq 1..MaxQ
      /\ \A q \in good : /\ q < thud /\ v.first <= q /\ q <= v.qid
                         /\ ~v.lost /\ ~v.failed /\ fate[q] = "ok"
  <2>1. good \subseteq ids /\ K \subseteq ids
    BY <1>2, <1>4 DEF Before
  <2>2. \A q \in good : q < thud /\ v.first <= q /\ q <= v.qid
    BY <2>1, <1>2, <1>3, <1>5 DEF Before
  <2>3. \A q \in good : q \notin bad
    BY <2>2, <1>4, <1>5, <2>1
  <2> QED BY <2>1, <2>2, <2>3, <1>1, <1>3
<1>7. v.lost \/ v.failed \/ fate[thud] # "ok"
  BY <1>1, <1>4
<1>20. PICK t : t = Singly(v, K)
  OBVIOUS
<1>21. Replayed(v, t, good, thud, MaxQ)
  BY <1>2, <1>5, <1>6, <1>7, <1>20, SinglyReplays
<1>22. PICK n, m, e, k :
         /\ n = After(v, thud)
         /\ m = [i \in DOMAIN v.queries |-> IF i \in good THEN [of |-> i, ok |-> TRUE] ELSE v.queries[i]]
         /\ e = (IF n = PastLast THEN thud + 1 ELSE n)
         /\ k = v.waiting + Cardinality(ids) - Cardinality(K)
  OBVIOUS
<1>23. n \in DOMAIN v.queries \cup {PastLast} /\ thud < n /\ \A j \in DOMAIN v.queries : j > thud => n <= j
  BY <1>5, <1>22, AfterIs, PipeAssumption
<1>24. /\ n \in 1..PastLast /\ n \in Nat /\ e \in 0..Limit /\ e \in Nat /\ e < Limit
       /\ DOMAIN v.queries \subseteq 1..v.qid /\ DOMAIN v.queries \subseteq 1..MaxQ /\ e <= v.qid + 1
  <2>1. DOMAIN v.queries \subseteq 1..v.qid /\ DOMAIN v.queries \subseteq 1..MaxQ
    BY WorldIs DEF Places
  <2>2. n \in 1..PastLast /\ n \in Nat
    BY <2>1, <1>23, Bounds, PipeAssumption
  <2>3. CASE n = PastLast
    <3>1. e = thud + 1 /\ thud <= MaxQ
      <4>1. e = thud + 1
        BY <2>3, <1>22
      <4> QED BY <4>1, <1>5, PipeAssumption
    <3>2. e \in Nat /\ e < Limit /\ e <= v.qid + 1
      BY <3>1, <1>5, PipeAssumption DEF Limit
    <3> QED BY <2>1, <2>2, <3>2, Bounds
  <2>4. CASE n # PastLast
    <3>1. e = n /\ n \in 1..MaxQ /\ n \in 1..v.qid
      BY <2>1, <2>4, <1>22, <1>23
    <3>2. e \in Nat /\ e < Limit /\ e <= v.qid + 1
      BY <3>1, <1>5, PipeAssumption DEF Limit
    <3> QED BY <2>1, <2>2, <3>2, Bounds
  <2> QED BY <2>3, <2>4
<1>25. k \in 0..MaxQ /\ k <= v.qid
  <2>1. PICK S : S = From(v, v.second)
    OBVIOUS
  <2>2. v.waiting = Cardinality(S) /\ S \subseteq DOMAIN v.queries /\ ids \subseteq DOMAIN v.queries
          /\ K \subseteq DOMAIN v.queries
    BY <2>1, <1>3, <1>6 DEF Places, From
  <2>3. /\ IsFiniteSet(S) /\ IsFiniteSet(ids) /\ IsFiniteSet(K)
        /\ Cardinality(S) \in Nat /\ Cardinality(ids) \in Nat /\ Cardinality(K) \in Nat
        /\ Cardinality(S \cup ids) \in 0..v.qid
    <3>1. DOMAIN v.queries \subseteq 1..v.qid
      BY <1>24
    <3>2. S \cup ids \subseteq DOMAIN v.queries
      BY <2>2
    <3>3. Cardinality(S \cup ids) \in 0..v.qid
      BY <3>1, <3>2, Counted
    <3>4. IsFiniteSet(S) /\ Cardinality(S) \in 0..v.qid
      BY <2>2, <3>1, Counted
    <3>5. IsFiniteSet(ids) /\ Cardinality(ids) \in 0..v.qid
      BY <2>2, <3>1, Counted
    <3>6. IsFiniteSet(K) /\ Cardinality(K) \in 0..v.qid
      BY <2>2, <3>1, Counted
    <3> QED BY <3>3, <3>4, <3>5, <3>6
  <2>4. S \cap ids = {}
    <3>1. \A j \in S : j >= v.second /\ j \in Nat
      BY <2>1, <1>24, PipeAssumption DEF From
    <3> QED BY <3>1, <1>3, <1>5
  <2>5. Cardinality(S \cup ids) = Cardinality(S) + Cardinality(ids) - Cardinality(S \cap ids)
    BY <2>3, FS_Union
  <2>6. Cardinality(S \cap ids) = 0
    BY <2>4, FS_EmptySet
  <2>7. Cardinality(K) <= Cardinality(ids)
    BY <2>3, <1>6, FS_Subset
  <2>8. k = Cardinality(S) + Cardinality(ids) - Cardinality(K) /\ v.qid \in 0..MaxQ
    BY <2>2, <1>22, WorldIs
  <2> QED BY <2>3, <2>5, <2>6, <2>7, <2>8, PipeAssumption
<1>26. PICK u : u = Replay(v, ids)
  OBVIOUS
<1>27. t \in Worlds /\ t.queries = v.queries /\ t.waiting = v.waiting /\ t.error = v.error
  BY <1>21 DEF Replayed
<1>28. u = [t EXCEPT !.queries = m, !.waiting = k, !.first = n, !.second = n, !.registered = FALSE,
                     !.thrown = "none", !.error = e]
  <2>1. PICK past :
          past = [[t EXCEPT !.queries =
                      [i \in DOMAIN t.queries |->
                         IF i \in good THEN [of |-> i, ok |-> TRUE] ELSE t.queries[i]]]
                    EXCEPT !.waiting = @ + Cardinality(ids) - Cardinality(K),
                           !.first = n, !.second = n, !.registered = FALSE, !.thrown = "none"]
    OBVIOUS
  <2>2. u = SetErrorAt(past, IF past.first = PastLast THEN thud + 1 ELSE past.first)
    BY <2>1, <1>1, <1>2, <1>20, <1>22, <1>26 DEF Replay, Answer, Kept
  <2>3. past = [t EXCEPT !.queries = m, !.waiting = k, !.first = n, !.second = n,
                         !.registered = FALSE, !.thrown = "none"]
    BY <2>1, <1>22, <1>27 DEF Worlds
  <2>4. past.first = n /\ past.error = Limit
    BY <2>3, <1>27 DEF Worlds
  <2>5. u = [past EXCEPT !.error = e]
    BY <2>2, <2>4, <1>22, <1>24 DEF SetErrorAt
  <2> QED BY <2>3, <2>5
<1>29. m \in Maps /\ DOMAIN m = DOMAIN v.queries
  <2>1. \A i \in good : [of |-> i, ok |-> TRUE] \in Answers
    BY <1>6 DEF Answers
  <2>2. DOMAIN v.queries \in SUBSET (1..MaxQ) /\ m \in [DOMAIN v.queries -> Answers]
    BY <2>1, <1>22, WorldIs
  <2> QED BY <2>2, MapIs
<1>30. u \in Worlds
  BY <1>24, <1>25, <1>27, <1>28, <1>29 DEF Worlds
<1>31. /\ u.queries = m /\ u.first = n /\ u.second = n /\ u.waiting = k
       /\ u.qid = t.qid /\ u.dummy = t.dummy /\ u.error = e /\ u.registered = FALSE
       /\ u.failed = t.failed /\ u.command = t.command /\ u.wire = t.wire /\ u.lost = t.lost
       /\ u.ran = t.ran /\ u.undone = t.undone /\ u.thrown = "none"
  BY <1>27, <1>28 DEF Worlds
<1>32. /\ t.qid = v.qid /\ t.dummy = v.dummy /\ t.lost = v.lost /\ t.undone = v.undone
       /\ t.command = FALSE /\ t.wire = <<>>
       /\ t.failed = (v.failed \/ (v.kind = "work" /\ ~v.lost))
       /\ \A i \in DOMAIN t.ran : t.ran[i] <= v.qid
       /\ \A i, j \in DOMAIN t.ran : i < j => t.ran[i] < t.ran[j]
       /\ ToSet(v.ran) \subseteq ToSet(t.ran) /\ \A q \in good : q \in ToSet(t.ran)
  <2>1. MaxQ >= thud /\ \A q \in good : q <= MaxQ
    BY <1>5, <1>6, PipeAssumption
  <2> QED BY <2>1, <1>21 DEF Replayed
<1>33. Places(u)
  <2>1. ~Pending(u) /\ u.error # Limit
    BY <1>24, <1>31, Bounds DEF Pending
  <2>2. \A q \in DOMAIN m : q >= n => q >= e
    <3>1. \A q \in DOMAIN m : q \in Nat /\ q < PastLast
      BY <1>24, <1>29, PipeAssumption DEF PastLast
    <3> QED BY <3>1, <1>22, <1>24, Bounds
  <2> QED BY <2>1, <2>2, <1>23, <1>24, <1>25, <1>29, <1>31, <1>32 DEF Places
<1>34. Found(u)
  <2> SUFFICES ASSUME NEW q \in DOMAIN v.queries
               PROVE  /\ \/ m[q] \in {None, Failure}
                         \/ m[q] = [of |-> q, ok |-> TRUE] /\ Done(u, q)
                      /\ q < n => m[q] # None
    BY <1>29, <1>31 DEF Found
  <2>1. CASE q \in good
    <3>1. m[q] = [of |-> q, ok |-> TRUE]
      BY <2>1, <1>22
    <3>2. Done(u, q)
      BY <2>1, <1>6, <1>31, <1>32 DEF Done
    <3>3. q # 0
      BY <2>1, <1>6, PipeAssumption
    <3> QED BY <3>1, <3>2, <3>3 DEF None
  <2>2. CASE q \notin good
    <3>1. m[q] = v.queries[q]
      BY <2>2, <1>22
    <3>2. Done(v, q) => Done(u, q)
      BY <1>31, <1>32 DEF Done
    <3>3. q < n => q < v.first \/ q \in ids
      <4>1. q \in Nat
        BY <1>24, PipeAssumption
      <4>2. q < n => q <= thud
        BY <4>1, <1>5, <1>23, <1>24
      <4> QED BY <4>1, <4>2, <1>3, <1>5
    <3>4. q < v.first \/ q \in ids => v.queries[q] # None
      BY <1>1 DEF Found
    <3> QED BY <3>1, <3>2, <3>3, <3>4 DEF Found
  <2> QED BY <2>1, <2>2
<1>35. History(u)
  <2>1. u.error # Limit
    BY <1>24, <1>31, Bounds
  <2>2. u.failed \/ u.undone # {} => \E q \in 1..u.qid : fate[q] # "ok"
    <3>1. CASE v.failed \/ v.undone # {}
      BY <3>1, <1>31, <1>32 DEF History
    <3>2. CASE ~v.failed /\ v.undone = {}
      <4>1. u.failed \/ u.undone # {} => ~v.lost
        BY <3>2, <1>31, <1>32
      <4>2. ~v.lost => fate[thud] # "ok" /\ thud \in 1..u.qid
        BY <3>2, <1>3, <1>4, <1>7, <1>31, <1>32
      <4> QED BY <4>1, <4>2
    <3> QED BY <3>1, <3>2
  <2> QED BY <2>1, <2>2, <1>31, <1>32 DEF History
<1>36. Wire(u)
  <2>1. ~Pending(u) /\ u.error # Limit
    BY <1>24, <1>31, Bounds DEF Pending
  <2>2. DOMAIN u.wire = {} /\ Len(u.wire) = 0 /\ Body(u) = u.wire
    BY <1>31, <1>32 DEF Body
  <2>3. Answering(Body(u), u)
    BY <2>2 DEF Answering, InOrder, AllAnswered
  <2> QED BY <2>1, <2>3, <1>31, <1>32 DEF Wire
<1>37. Receives(v, u)
  <2>1. e <= v.error /\ ~(v.error < Limit) /\ v.first <= n /\ u.error # Limit
    BY <1>5, <1>23, <1>24, <1>31, Bounds
  <2> QED BY <2>1, <1>29, <1>31, <1>32 DEF Receives, Goes
<1> QED BY <1>1, <1>24, <1>26, <1>30, <1>31, <1>32, <1>33, <1>34, <1>35, <1>36, <1>37 DEF PInv

LEMMA FoundSame ==
  ASSUME NEW v, Found(v), NEW u, u.queries = v.queries, u.first = v.first, u.ran = v.ran
  PROVE  Found(u)
BY DEF Found, Done

\* The dummy query's result is read.
LEMMA DummyRead ==
  ASSUME NEW v, PInv(v), v.thrown = "none", v.dummy, NEW r,
         r = [v EXCEPT !.dummy = FALSE, !.wire = Tail(v.wire)]
  PROVE  /\ PInv(r) /\ Receives(v, r) /\ ~r.dummy /\ r.thrown = "none" /\ Pending(r)
         /\ Issued(r) = Issued(v) /\ r.wire = Tail(v.wire) /\ r.lost = v.lost
         /\ r.failed = v.failed /\ r.ran = v.ran /\ r.first = v.first /\ r.queries = v.queries
<1>1. v \in Worlds /\ v.wire \in Seq(Answers) /\ v.wire # <<>>
  BY WorldIs DEF PInv, Wire, Failing
<1>2. Tail(v.wire) \in Seq(Answers)
  BY <1>1
<1>3. r \in Worlds
  BY <1>1, <1>2 DEF Worlds
<1>4. /\ r.queries = v.queries /\ r.first = v.first /\ r.second = v.second /\ r.waiting = v.waiting
      /\ r.qid = v.qid /\ r.dummy = FALSE /\ r.error = v.error /\ r.registered = v.registered
      /\ r.failed = v.failed /\ r.command = v.command /\ r.wire = Tail(v.wire) /\ r.lost = v.lost
      /\ r.ran = v.ran /\ r.undone = v.undone /\ r.thrown = "none"
  BY <1>1 DEF Worlds
<1>5. Issued(r) = Issued(v) /\ From(r, r.second) = From(v, v.second) /\ Body(r) = Body(v)
        /\ (Pending(r) <=> Pending(v))
  BY <1>4 DEF Issued, From, Body, Pending
<1>6. Pending(v) /\ v.command
  <2>1. Issued(v) # {}
    BY DEF PInv, Wire, Failing
  <2>2. Pending(v)
    BY <2>1, IssuedIs DEF PInv
  <2> QED BY <2>2 DEF PInv, Wire
<1>7. Places(r)
  BY <1>4, <1>5 DEF PInv, Places
<1>8. Found(r)
  BY <1>4, FoundSame DEF PInv
<1>9. History(r)
  BY <1>4, <1>5 DEF PInv, History
<1>10. Wire(r)
  <2>1. Answering(Body(r), r)
    BY <1>4, <1>5 DEF PInv, Wire, Answering, Done
  <2> QED BY <1>4, <1>5, <1>6, <2>1 DEF PInv, Wire
<1>11. Receives(v, r)
  <2>1. v.error \in Int /\ v.first \in Int
    BY <1>1, WorldIs, Bounds
  <2> QED BY <1>4, <2>1 DEF Receives, Goes
<1> QED BY <1>3, <1>4, <1>5, <1>6, <1>7, <1>8, <1>9, <1>10, <1>11 DEF PInv

\* All the queries of a batch are given the error.
LEMMA AllFail ==
  ASSUME NEW r, PInv(r), r.thrown = "none", ~r.dummy, NEW m \in [DOMAIN r.queries -> Answers],
         \A i \in DOMAIN r.queries : m[i] = IF i \in Issued(r) THEN Failure ELSE r.queries[i],
         NEW a, a = [r EXCEPT !.queries = m]
  PROVE  /\ PInv(a) /\ Receives(r, a) /\ ~a.dummy /\ a.thrown = "none"
         /\ (Pending(a) <=> Pending(r)) /\ Issued(a) = Issued(r) /\ a.wire = r.wire /\ a.lost = r.lost
         /\ a.failed = r.failed /\ a.ran = r.ran /\ a.first = r.first /\ a.error = r.error
         /\ a.queries = m /\ Issued(r) \subseteq DOMAIN r.queries
<1>2. r \in Worlds /\ Issued(r) \subseteq DOMAIN r.queries
  BY IssuedIs DEF PInv
<1>3. m \in Maps /\ DOMAIN m = DOMAIN r.queries
  <2>1. DOMAIN r.queries \in SUBSET (1..MaxQ)
    BY <1>2, WorldIs
  <2> QED BY <2>1, MapIs
<1>4. a \in Worlds
  BY <1>2, <1>3 DEF Worlds
<1>5. /\ a.queries = m /\ a.first = r.first /\ a.second = r.second /\ a.waiting = r.waiting
      /\ a.qid = r.qid /\ a.dummy = r.dummy /\ a.error = r.error /\ a.registered = r.registered
      /\ a.failed = r.failed /\ a.command = r.command /\ a.wire = r.wire /\ a.lost = r.lost
      /\ a.ran = r.ran /\ a.undone = r.undone /\ a.thrown = r.thrown
  BY <1>2 DEF Worlds
<1>6. Issued(a) = Issued(r) /\ From(a, a.second) = From(r, r.second) /\ Body(a) = Body(r)
        /\ (Pending(a) <=> Pending(r)) /\ DOMAIN a.queries = DOMAIN r.queries
  BY <1>3, <1>5 DEF Issued, From, Body, Pending
<1>7. Places(a)
  BY <1>5, <1>6 DEF PInv, Places
<1>8. Found(a)
  <2>1. Failure # None
    BY DEF Failure, None
  <2> SUFFICES ASSUME NEW q \in DOMAIN r.queries
               PROVE  /\ \/ m[q] \in {None, Failure}
                         \/ m[q] = [of |-> q, ok |-> TRUE] /\ Done(a, q)
                      /\ q < r.first => m[q] # None
    BY <1>5, <1>6 DEF Found
  <2>2. Done(a, q) <=> Done(r, q)
    BY <1>5 DEF Done
  <2>3. m[q] = Failure \/ m[q] = r.queries[q]
    OBVIOUS
  <2> QED BY <2>1, <2>2, <2>3 DEF PInv, Found
<1>9. History(a)
  BY <1>5, <1>6 DEF PInv, History
<1>10. Wire(a)
  <2>1. Answering(Body(a), a)
    BY <1>5, <1>6 DEF PInv, Wire, Answering, Done
  <2> QED BY <1>5, <1>6, <2>1 DEF PInv, Wire
<1>11. Receives(r, a)
  <2>1. r.error \in Int /\ r.first \in Int
    BY <1>2, WorldIs, Bounds
  <2> QED BY <1>5, <1>6, <2>1 DEF Receives, Goes
<1> QED BY <1>2, <1>4, <1>5, <1>6, <1>7, <1>8, <1>9, <1>10, <1>11 DEF PInv

\* obtain_dummy(): the batch has been run, or it is replayed.
LEMMA DummyKeeps ==
  ASSUME NEW v, PInv(v), v.thrown = "none", v.dummy
  PROVE  LET u == ObtainDummy(v)
         IN  PInv(u) /\ Receives(v, u) /\ ~u.dummy /\ u.thrown = "none" /\ u.lost = v.lost
<1>1. PICK u, r, a :
        /\ u = ObtainDummy(v) /\ a = Spoilt(v)
        /\ r = [v EXCEPT !.dummy = FALSE, !.wire = Tail(v.wire)]
  OBVIOUS
<1>2. Failing(v) /\ v \in Worlds /\ v.lost \in BOOLEAN
  BY WorldIs DEF PInv, Wire
<1>3. /\ PInv(r) /\ Receives(v, r) /\ ~r.dummy /\ r.thrown = "none" /\ Pending(r)
      /\ Issued(r) = Issued(v) /\ r.wire = Tail(v.wire) /\ r.lost = v.lost
      /\ r.failed = v.failed /\ r.ran = v.ran /\ r.first = v.first /\ r.queries = v.queries
  BY <1>1, DummyRead
<1>4. CASE Head(v.wire) = None
  <2>1. Head(v.wire).ok /\ v.wire # <<>>
    BY <1>2, <1>4 DEF None, Failing
  <2>2. u = r
    BY <2>1, <1>1 DEF ObtainDummy
  <2> QED BY <2>2, <1>1, <1>3
<1>5. CASE Head(v.wire) = Failure
  <2>1. /\ PInv(a) /\ Receives(r, a) /\ ~a.dummy /\ a.thrown = "none" /\ Pending(a)
        /\ Issued(a) = Issued(r) /\ a.wire = r.wire /\ a.lost = r.lost
        /\ a.failed = r.failed /\ a.ran = r.ran /\ a.first = r.first /\ a.error = r.error
        /\ \A i \in Issued(r) : a.queries[i] = Failure
    <3>1. PICK m : m = [i \in DOMAIN r.queries |->
                          IF i \in Issued(v) THEN Failure ELSE r.queries[i]]
      OBVIOUS
    <3>2. a = [r EXCEPT !.queries = m]
      BY <3>1, <1>1 DEF Spoilt, Answer
    <3>3. \A i \in DOMAIN r.queries : m[i] = IF i \in Issued(r) THEN Failure ELSE r.queries[i]
      BY <3>1, <1>3
    <3>4. m \in [DOMAIN r.queries -> Answers]
      <4>1. Failure \in Answers /\ r \in Worlds
        BY <1>3 DEF Answers, PInv
      <4> QED BY <3>1, <4>1, WorldIs
    <3>5. Pending(a) <=> Pending(r)
      BY <3>2, <3>3, <3>4, <1>3, AllFail
    <3>6. /\ PInv(a) /\ Receives(r, a) /\ ~a.dummy /\ a.thrown = "none"
          /\ Issued(a) = Issued(r) /\ a.wire = r.wire /\ a.lost = r.lost
          /\ a.failed = r.failed /\ a.ran = r.ran /\ a.first = r.first /\ a.error = r.error
      BY <3>2, <3>3, <3>4, <1>3, AllFail
    <3>7. a.queries = m /\ Issued(r) \subseteq DOMAIN r.queries
      BY <3>2, <3>3, <3>4, <1>3, AllFail
    <3>8. \A i \in Issued(r) : a.queries[i] = Failure
      BY <3>3, <3>7
    <3> QED BY <3>5, <3>6, <3>8, <1>3
  <2>2. PICK left : left = ObtainResult(a, TRUE)
    OBVIOUS
  <2>3. u = Replay(left, Issued(left))
    <3>1. ~Head(v.wire).ok /\ v.wire # <<>>
      BY <1>2, <1>5 DEF Failure, Failing
    <3> QED BY <3>1, <2>2, <1>1 DEF ObtainDummy
  <2>4. a.error = Limit /\ a \in Worlds
    BY <2>1 DEF PInv, Places
  <2>5. Failure # None
    BY DEF Failure, None
  <2>6. /\ left \in Worlds /\ Places(left) /\ Found(left) /\ History(left) /\ ~left.dummy
        /\ left.error = Limit /\ Receives(a, left) /\ left.lost = v.lost
        /\ Issued(left) # {} /\ \A q \in Issued(left) : left.queries[q] # None
        /\ left.lost \/ left.failed \/ \E q \in Issued(left) : fate[q] # "ok"
        /\ left.lost \/ \A i \in DOMAIN left.ran : left.ran[i] < left.first
    <3>1. CASE a.wire = <<>>
      <4>1. left = [a EXCEPT !.command = FALSE]
        BY <2>2, <3>1, ObtainCases
      <4>2. left \in Worlds
        BY <4>1, <2>4 DEF Worlds
      <4>3. /\ left.queries = a.queries /\ left.first = a.first /\ left.second = a.second
            /\ left.waiting = a.waiting /\ left.qid = a.qid /\ left.dummy = a.dummy
            /\ left.error = a.error /\ left.failed = a.failed /\ left.lost = a.lost
            /\ left.ran = a.ran /\ left.undone = a.undone
        BY <4>1, <2>4 DEF Worlds
      <4>4. Issued(left) = Issued(a) /\ From(left, left.second) = From(a, a.second)
              /\ (Pending(left) <=> Pending(a))
        BY <4>3 DEF Issued, From, Pending
      <4>5. Places(left) /\ History(left)
        BY <4>3, <4>4, <2>1 DEF PInv, Places, History
      <4>6. Found(left)
        BY <4>3, <2>1, FoundSame DEF PInv
      <4>7. Receives(a, left)
        <5>1. a.error \in Int /\ a.first \in Int
          BY <2>4, WorldIs, Bounds
        <5> QED BY <5>1, <4>3 DEF Receives, Goes
      <4>8. Issued(left) # {} /\ \A q \in Issued(left) : left.queries[q] # None
        BY <4>3, <4>4, <2>1, <2>5, <1>2, <1>3 DEF Failing
      <4>9. /\ v.lost \/ v.failed \/ \E q \in Issued(v) : fate[q] # "ok"
            /\ v.lost \/ \A i \in DOMAIN v.ran : v.ran[i] < v.first
        BY <1>2, <1>5 DEF Failing
      <4> QED BY <4>2, <4>3, <4>4, <4>5, <4>6, <4>7, <4>8, <4>9, <2>1, <2>4, <1>3
    <3>2. CASE a.wire # <<>>
      <4>1. v.lost
        <5>1. Len(v.wire) # 1
          <6>1. v.wire \in Seq(Answers) /\ Tail(v.wire) # <<>>
            BY <3>2, <2>1, <1>2, <1>3, WorldIs
          <6>2. PICK t : t = Tail(v.wire)
            OBVIOUS
          <6>3. v.wire # <<>>
            BY <1>2 DEF Failing
          <6>4. t \in Seq(Answers) /\ Len(t) = Len(v.wire) - 1
            BY <6>1, <6>2, <6>3
          <6>5. Len(t) # 0
            BY <6>1, <6>2, <6>4
          <6> QED BY <6>4, <6>5
        <5> QED BY <5>1, <1>2, <1>5 DEF Failing
      <4>2. /\ PInv(left) /\ Receives(a, left) /\ ~left.dummy
            /\ left.lost = a.lost
            /\ Issued(left) = Issued(a) \ {a.first}
            /\ \A i \in Issued(left) : left.queries[i] = a.queries[i]
        <5>1. PInv(a) /\ a.thrown = "none" /\ ~a.dummy /\ Pending(a) /\ TRUE \in BOOLEAN
          BY <2>1
        <5> QED BY <5>1, <3>2, <2>2, ObtainsResult
      <4>3. left \in Worlds /\ Places(left) /\ Found(left) /\ History(left)
        BY <4>2 DEF PInv
      <4>4. Issued(left) # {}
        BY <4>2, <2>1, <1>2, <1>3 DEF Failing
      <4>5. left.error = Limit
        <5>1. Pending(left)
          BY <4>3, <4>4, IssuedIs
        <5> QED BY <5>1, <4>3 DEF Places
      <4>6. \A q \in Issued(left) : left.queries[q] # None
        BY <4>2, <2>1, <2>5
      <4> QED BY <4>1, <4>2, <4>3, <4>4, <4>5, <4>6, <2>1, <1>3
    <3> QED BY <3>1, <3>2
  <2>7. /\ PInv(u) /\ Receives(left, u) /\ ~u.dummy /\ u.thrown = "none" /\ u.lost = left.lost
    BY <2>3, <2>6, ReplayKeeps
  <2>8. r \in Worlds /\ u \in Worlds
    BY <1>3, <2>7 DEF PInv
  <2>9. Receives(v, a)
    BY <2>1, <2>4, <2>8, <1>2, <1>3, ReceivesOn
  <2>10. Receives(v, left)
    BY <2>4, <2>6, <2>9, <1>2, ReceivesOn
  <2>11. Receives(v, u)
    BY <2>6, <2>7, <2>8, <2>10, <1>2, ReceivesOn
  <2> QED BY <2>6, <2>7, <2>11, <1>1
<1> QED BY <1>2, <1>4, <1>5 DEF Failing

\* ... if there is one.
LEMMA DummyFirst ==
  ASSUME NEW v, PInv(v), v.thrown = "none", NEW u \in Dummy(v)
  PROVE  PInv(u) /\ Receives(v, u) /\ ~u.dummy /\ u.thrown = "none"
<1>1. v \in Worlds
  BY DEF PInv
<1>2. CASE v.dummy
  BY <1>2, DummyKeeps DEF Dummy
<1>3. CASE ~v.dummy
  BY <1>1, <1>3, NothingReceived DEF Dummy
<1> QED BY <1>2, <1>3

\* receive_if_available()
LEMMA ReceiveIfAvailableKeeps ==
  ASSUME NEW v, PInv(v), v.thrown = "none", NEW u \in ReceiveIfAvailable(v)
  PROVE  PInv(u) /\ Receives(v, u)
<1>1. v \in Worlds
  BY DEF PInv
<1>2. CASE v.lost
  <2>1. u = Throw(v, "broken")
    BY <1>2 DEF ReceiveIfAvailable
  <2> QED BY <2>1, ThrowKeeps
<1>3. CASE ~v.lost
  <2>1. CASE u = v
    BY <2>1, <1>1, NothingReceived
  <2>2. CASE u # v
    <3>1. PICK x \in Dummy(v) : u \in IF x.thrown = "none"
                                      THEN IF Pending(x) THEN GetFurther(x) ELSE {x}
                                      ELSE {x}
      BY <2>2, <1>3 DEF ReceiveIfAvailable, Then
    <3>2. PInv(x) /\ Receives(v, x) /\ ~x.dummy /\ x.thrown = "none"
      BY DummyFirst
    <3>3. CASE Pending(x)
      <4>1. DOMAIN x.queries # {}
        BY <3>2, <3>3, IssuedIs DEF PInv
      <4>2. PInv(u) /\ Receives(x, u)
        BY <4>1, <3>1, <3>2, <3>3, GetFurtherKeeps
      <4> QED BY <4>2, <3>2, <1>1, ReceivesOn DEF PInv
    <3>4. CASE ~Pending(x)
      BY <3>1, <3>2, <3>4
    <3> QED BY <3>3, <3>4
  <2> QED BY <2>1, <2>2
<1> QED BY <1>2, <1>3

\* receive(stop): results are read at least up to stop, unless there is an error.
LEMMA ReceiveKeeps ==
  ASSUME NEW v, PInv(v), v.thrown = "none", Pending(v), NEW stop \in Nat, stop <= v.second,
         NEW u \in Receive(v, stop)
  PROVE  /\ PInv(u) /\ Receives(v, u)
         /\ u.thrown = "none" => u.error < Limit \/ u.first >= stop
<1>1. v \in Worlds /\ DOMAIN v.queries # {}
  BY IssuedIs DEF PInv
<1>2. PICK x, y : /\ x \in Dummy(v) /\ y = ObtainedTo(x, stop)
                  /\ u \in IF y.thrown = "none"
                           THEN IF y.first = stop THEN GetFurther(y) ELSE {y}
                           ELSE {y}
  <2>1. \A x \in Dummy(v) : x.thrown = "none"
    BY DummyFirst
  <2>2. PICK S : S = UNION {IF x.thrown = "none" THEN {ObtainedTo(x, stop)} ELSE {x} : x \in Dummy(v)}
    OBVIOUS
  <2>3. PICK y \in S : u \in IF y.thrown = "none"
                            THEN IF y.first = stop THEN GetFurther(y) ELSE {y}
                            ELSE {y}
    <3>1. u \in UNION {IF y.thrown = "none" THEN IF y.first = stop THEN GetFurther(y) ELSE {y}
                      ELSE {y} : y \in S}
      BY <2>2 DEF Receive, Then
    <3> QED BY <3>1
  <2>4. PICK x \in Dummy(v) : y \in IF x.thrown = "none" THEN {ObtainedTo(x, stop)} ELSE {x}
    BY <2>2
  <2>5. y = ObtainedTo(x, stop)
    BY <2>1, <2>4
  <2> QED BY <2>3, <2>4, <2>5
<1>3. PInv(x) /\ Receives(v, x) /\ ~x.dummy /\ x.thrown = "none"
  BY <1>2, DummyFirst
<1>4. x \in Worlds /\ DOMAIN x.queries # {}
  BY <1>1, <1>3 DEF PInv, Receives, Goes
<1>5. PICK null, n : /\ null = Len(x.wire) + 1
                     /\ n = Least({i \in 1..null : Obtained(x)[i].first = stop \/ i = null})
  OBVIOUS
<1>6. y = Obtained(x)[n]
  BY <1>2, <1>5 DEF ObtainedTo
<1>7. n \in 1..null /\ (Obtained(x)[n].first = stop \/ n = null) /\ null \in Nat /\ n \in 0..null
  <2>1. null \in Nat /\ null >= 1
    BY <1>4, <1>5, WorldIs
  <2>2. PICK S : S = {i \in 1..null : Obtained(x)[i].first = stop \/ i = null}
    OBVIOUS
  <2>3. S \in SUBSET Nat /\ S # {}
    BY <2>1, <2>2
  <2>4. n \in S
    <3>1. \E i \in S : \A j \in S : i <= j
      BY <2>3, LeastNumber
    <3> QED BY <3>1, <2>2, <2>3, <1>5 DEF Least
  <2> QED BY <2>1, <2>2, <2>4
<1>8. PInv(y) /\ Receives(x, y) /\ ~y.dummy
  BY <1>3, <1>4, <1>5, <1>6, <1>7, ObtainedKeeps
<1>9. n = null /\ y.thrown = "none" => ~y.command
  BY <1>3, <1>4, <1>5, <1>6, ObtainedKeeps
<1>10. y \in Worlds /\ Receives(v, y) /\ DOMAIN y.queries # {}
  <2>1. y \in Worlds
    BY <1>8 DEF PInv
  <2>2. Receives(v, y)
    BY <2>1, <1>1, <1>3, <1>4, <1>8, ReceivesOn
  <2> QED BY <2>1, <2>2, <1>1 DEF Receives, Goes
<1>11. y.thrown = "none" => y.error < Limit \/ y.first >= stop
  <2> SUFFICES ASSUME y.thrown = "none", ~(y.error < Limit) PROVE y.first >= stop
    OBVIOUS
  <2>1. y.error = Limit /\ y.first \in Nat
    BY <1>10, WorldIs, Bounds
  <2>2. CASE y.first = stop
    BY <2>1, <2>2
  <2>3. CASE n = null
    <3>1. ~Pending(y)
      BY <2>3, <1>8, <1>9 DEF PInv, Wire
    <3>2. y.first = v.second
      BY <3>1, <2>1, <1>10 DEF Pending, Receives
    <3> QED BY <3>2, <2>1
  <2> QED BY <2>2, <2>3, <1>6, <1>7
<1>12. CASE y.thrown = "none" /\ y.first = stop
  <2>1. u \in GetFurther(y)
    BY <1>2, <1>12
  <2>2. PInv(u) /\ Receives(y, u)
    BY <2>1, <1>8, <1>10, <1>12, GetFurtherKeeps
  <2>3. u \in Worlds
    BY <2>2 DEF PInv
  <2>4. Receives(v, u)
    BY <2>2, <2>3, <1>1, <1>10, ReceivesOn
  <2>5. u.first >= stop
    BY <2>2, <2>3, <1>12, WorldIs, Bounds DEF Receives, Goes
  <2> QED BY <2>2, <2>4, <2>5
<1>13. CASE ~(y.thrown = "none" /\ y.first = stop)
  <2>1. u = y
    BY <1>2, <1>13
  <2> QED BY <2>1, <1>8, <1>10, <1>11
<1> QED BY <1>12, <1>13
-----------------------------------------------------------------------------
(* Issuing *)

\* The queries before the first that fails.
LEMMA RightIs ==
  ASSUME NEW ids \in SUBSET (1..MaxQ)
  PROVE  /\ Right(ids) \subseteq ids /\ Wrong(ids) \subseteq ids
         /\ \A i \in ids, q \in Right(ids) : i < q => i \in Right(ids)
         /\ \A i \in Wrong(ids) : i \notin Right(ids)
         /\ Wrong(ids) = {} => Right(ids) = ids
         /\ \A q \in Right(ids) : fate[q] = "ok"
<1>1. \A i \in ids : i \in Nat
  BY PipeAssumption
<1>2. Right(ids) \subseteq ids /\ Wrong(ids) \subseteq ids
  BY DEF Right, Wrong
<1>3. ASSUME NEW i \in Wrong(ids)
      PROVE  i \notin Right(ids)
  <2>1. i \in ids
    BY <1>2
  <2>2. i \in Nat
    BY <2>1, <1>1
  <2>3. ~(i < i)
    BY <2>2
  <2> QED BY <2>3 DEF Right
<1>4. ASSUME NEW i \in ids, NEW q \in Right(ids), i < q
      PROVE  i \in Right(ids)
  <2>1. ASSUME NEW b \in Wrong(ids)
        PROVE  i < b
    <3>1. q < b
      BY DEF Right
    <3>2. i \in Nat /\ q \in Nat /\ b \in Nat
      BY <1>1, <1>2
    <3> QED BY <3>1, <3>2, <1>4
  <2> QED BY <2>1 DEF Right
<1>5. \A q \in Right(ids) : fate[q] = "ok"
  BY <1>2, <1>3 DEF Wrong
<1>6. Wrong(ids) = {} => Right(ids) = ids
  BY DEF Right
<1> QED BY <1>2, <1>3, <1>4, <1>5, <1>6

\* One after the other.
LEMMA ConcatIs ==
  ASSUME NEW S, NEW s \in Seq(S), NEW t \in Seq(S)
  PROVE  /\ s \o t \in Seq(S) /\ Len(s \o t) = Len(s) + Len(t)
         /\ Len(s) \in Nat /\ Len(t) \in Nat
         /\ DOMAIN s = 1..Len(s) /\ DOMAIN t = 1..Len(t)
         /\ \A k \in 1..Len(s) : s[k] \in S
         /\ DOMAIN (s \o t) = 1..(Len(s) + Len(t))
         /\ \A k \in 1..Len(s) : (s \o t)[k] = s[k]
         /\ \A k \in 1..Len(t) : (s \o t)[Len(s) + k] = t[k]
OBVIOUS

\* What follows the answer to the dummy query.
LEMMA RepliesAre ==
  ASSUME NEW seq \in Seq(1..MaxQ), NEW dummy \in BOOLEAN, NEW fails \in BOOLEAN
  PROVE  LET r == Replies(seq, dummy, fails)
             b == IF dummy THEN Tail(r) ELSE r
         IN  /\ r \in Seq(Answers) /\ b \in Seq(Answers)
             /\ dummy => r # <<>> /\ Head(r) = None
             /\ Len(b) = IF fails THEN Len(seq) + 1 ELSE Len(seq)
             /\ \A k \in 1..Len(seq) : b[k] = [of |-> seq[k], ok |-> TRUE]
             /\ fails => b[Len(seq) + 1] = Failure
<1>1. PICK oks, head, tail, n :
        /\ oks = [i \in DOMAIN seq |-> [of |-> seq[i], ok |-> TRUE]]
        /\ head = (IF dummy THEN <<[of |-> 0, ok |-> TRUE]>> ELSE <<>>)
        /\ tail = (IF fails THEN <<Failure>> ELSE <<>>)
        /\ n = Len(seq)
  OBVIOUS
<1>2. n \in Nat /\ DOMAIN seq = 1..n /\ \A k \in 1..n : [of |-> seq[k], ok |-> TRUE] \in Answers
  <2>1. n \in Nat /\ DOMAIN seq = 1..n
    BY <1>1
  <2>2. \A k \in 1..n : seq[k] \in 1..MaxQ
    <3>1. \A k \in 1..Len(seq) : seq[k] \in 1..MaxQ
      BY ConcatIs
    <3> QED BY <3>1, <1>1
  <2> QED BY <2>1, <2>2 DEF Answers
<1>3. None \in Answers /\ Failure \in Answers
  BY DEF Answers
<1>4. oks \in Seq(Answers) /\ Len(oks) = n /\ \A k \in 1..n : oks[k] = [of |-> seq[k], ok |-> TRUE]
  <2>1. oks = [k \in 1..n |-> [of |-> seq[k], ok |-> TRUE]]
    BY <1>1, <1>2
  <2>2. oks \in [1..n -> Answers]
    BY <2>1, <1>2
  <2>3. oks \in Seq(Answers)
    BY <2>2, <1>2
  <2>4. DOMAIN oks = 1..n /\ DOMAIN oks = 1..Len(oks) /\ Len(oks) \in Nat
    BY <2>2, <2>3
  <2>5. Len(oks) = n
    BY <2>4, <1>2
  <2> QED BY <2>1, <2>3, <2>5
<1>5. PICK c : c = oks \o tail
  OBVIOUS
<1>6. /\ tail \in Seq(Answers) /\ c \in Seq(Answers)
      /\ Len(c) = IF fails THEN n + 1 ELSE n
      /\ \A k \in 1..n : c[k] = [of |-> seq[k], ok |-> TRUE]
      /\ fails => c[n + 1] = Failure
  <2>1. CASE fails
    <3>1. tail = <<Failure>>
      BY <1>1, <2>1
    <3>2. tail \in Seq(Answers) /\ Len(tail) = 1 /\ tail[1] = Failure /\ 1 \in 1..Len(tail)
      BY <3>1, <1>3
    <3>3. /\ c \in Seq(Answers) /\ Len(c) = Len(oks) + Len(tail)
          /\ \A k \in 1..Len(oks) : c[k] = oks[k]
          /\ \A k \in 1..Len(tail) : c[Len(oks) + k] = tail[k]
      <4>1. oks \in Seq(Answers) /\ tail \in Seq(Answers)
        BY <3>2, <1>4
      <4> QED BY ONLY <4>1, <1>5, ConcatIs
    <3>4. Len(c) = n + 1 /\ c[n + 1] = Failure /\ \A k \in 1..n : c[k] = oks[k]
      BY <3>2, <3>3, <1>4
    <3> QED BY <3>2, <3>3, <3>4, <2>1, <1>4
  <2>2. CASE ~fails
    <3>1. tail = <<>> /\ tail \in Seq(Answers)
      BY <1>1, <2>2
    <3>2. c = oks
      BY <3>1, <1>4, <1>5
    <3> QED BY <3>1, <3>2, <2>2, <1>4
  <2> QED BY <2>1, <2>2
<1>7. PICK r : r = head \o (oks \o tail)
  OBVIOUS
<1>8. r = Replies(seq, dummy, fails)
  BY <1>1, <1>7 DEF Replies
<1>9. Len(c) \in Nat /\ \A k \in 1..n : k \in 1..Len(c)
  BY <1>2, <1>6
<1>10. CASE ~dummy
  <2>1. head = <<>>
    BY <1>1, <1>10
  <2>2. r = c
    BY <2>1, <1>4, <1>5, <1>7
  <2> QED BY <2>2, <1>1, <1>6, <1>8, <1>10
<1>11. CASE dummy
  <2>1. head \in Seq(Answers) /\ Len(head) = 1 /\ head[1] = None
    <3>1. head = <<None>>
      BY <1>1, <1>11 DEF None
    <3> QED BY <3>1, <1>3
  <2>2. r = head \o c
    BY <1>5, <1>7
  <2>3. /\ r \in Seq(Answers) /\ Len(r) = 1 + Len(c) /\ r[1] = None
        /\ \A k \in 1..Len(c) : r[1 + k] = c[k]
    <3>1. 1 \in 1..Len(head)
      BY <2>1
    <3>2. /\ r \in Seq(Answers) /\ Len(r) = Len(head) + Len(c)
          /\ \A k \in 1..Len(head) : r[k] = head[k]
          /\ \A k \in 1..Len(c) : r[Len(head) + k] = c[k]
      <4>1. c \in Seq(Answers) /\ head \in Seq(Answers)
        BY <2>1, <1>6
      <4> QED BY ONLY <4>1, <2>2, ConcatIs
    <3> QED BY <3>1, <3>2, <2>1
  <2>4. r # <<>> /\ Head(r) = None
    BY <2>3, <1>9
  <2>5. PICK t : t = Tail(r)
    OBVIOUS
  <2>6. t \in Seq(Answers) /\ Len(t) = Len(c) /\ \A k \in 1..Len(c) : t[k] = c[k]
    <3>1. t \in Seq(Answers) /\ Len(t) = Len(c)
      BY <2>3, <2>4, <2>5, <1>9
    <3>2. \A k \in 1..Len(c) : t[k] = r[1 + k]
      BY <2>3, <2>4, <2>5, <1>9
    <3> QED BY <3>1, <3>2, <2>3
  <2>7. fails => n + 1 \in 1..Len(c)
    BY <1>2, <1>6
  <2>8. /\ Len(t) = IF fails THEN n + 1 ELSE n
        /\ \A k \in 1..n : t[k] = [of |-> seq[k], ok |-> TRUE]
        /\ fails => t[n + 1] = Failure
    BY <2>6, <2>7, <1>6, <1>9
  <2> QED BY <2>3, <2>4, <2>5, <2>6, <2>8, <1>1, <1>8, <1>11
<1> QED BY <1>10, <1>11

\* They are the answers to the queries sent.
LEMMA RepliesAnswer ==
  ASSUME NEW ids \in SUBSET (1..MaxQ), NEW b \in Seq(Answers), NEW seq, seq = Ordered(Right(ids)),
         Len(b) = IF Wrong(ids) # {} THEN Len(seq) + 1 ELSE Len(seq),
         \A k \in 1..Len(seq) : b[k] = [of |-> seq[k], ok |-> TRUE],
         Wrong(ids) # {} => b[Len(seq) + 1] = Failure
  PROVE  /\ InOrder(b, ids) /\ AllAnswered(b, ids)
         /\ \A k \in DOMAIN b : b[k] # Failure => b[k].of \in Right(ids)
<1>1. PICK n : n = Len(seq)
  OBVIOUS
<1>2. /\ Right(ids) \subseteq ids /\ \A q \in ids : q \in Nat
      /\ \A i \in ids, q \in Right(ids) : i < q => i \in Right(ids)
      /\ \A i \in Wrong(ids) : i \notin Right(ids) /\ i \in ids
      /\ Wrong(ids) = {} => Right(ids) = ids
  BY RightIs, PipeAssumption
<1>3. /\ seq \in Seq(Right(ids)) /\ ToSet(seq) = Right(ids)
      /\ \A i, j \in DOMAIN seq : i < j => seq[i] < seq[j]
  <2>1. Right(ids) \in SUBSET (1..MaxQ)
    BY <1>2
  <2> QED BY <2>1, OrderedIs
<1>4. n \in Nat /\ DOMAIN seq = 1..n /\ \A k \in 1..n : seq[k] \in Right(ids) /\ seq[k] \in Nat
  <2>1. n \in Nat /\ DOMAIN seq = 1..n
    BY <1>1, <1>3
  <2>2. \A k \in 1..n : seq[k] \in Right(ids)
    BY <2>1, <1>1, <1>3
  <2> QED BY <2>1, <2>2, <1>2
<1>5. \A q \in Right(ids) : \E k \in 1..n : seq[k] = q
  BY <1>3, <1>4 DEF ToSet
<1>6. DOMAIN b = 1..Len(b) /\ Len(b) \in Nat
  OBVIOUS
<1>7. \A k \in 1..n : k \in DOMAIN b /\ b[k].of = seq[k] /\ b[k].ok /\ b[k] # Failure
  <2>1. \A k \in 1..n : k \in DOMAIN b
    BY <1>1, <1>4, <1>6
  <2>2. \A k \in 1..n : b[k] = [of |-> seq[k], ok |-> TRUE]
    BY <1>1
  <2> QED
    <3> TAKE k \in 1..n
    <3>1. b[k] = [of |-> seq[k], ok |-> TRUE]
      BY <2>2
    <3>2. b[k].ok /\ b[k].of = seq[k]
      BY <3>1
    <3>3. ~Failure.ok
      BY DEF Failure
    <3> QED BY <2>1, <3>2, <3>3
<1>8. \A k \in DOMAIN b : k \in 1..n \/ (k = n + 1 /\ k = Len(b) /\ Wrong(ids) # {} /\ b[k] = Failure)
  BY <1>1, <1>4, <1>6
<1>9. \A j, k \in DOMAIN b : j < k /\ b[j] = Failure => b[k] = Failure
  BY <1>4, <1>6, <1>7, <1>8
<1>10. ASSUME NEW k \in DOMAIN b, b[k] # Failure
       PROVE  /\ b[k].ok /\ b[k].of \in Right(ids)
              /\ \A j \in 1..(k - 1) : b[j].of < b[k].of
              /\ \A i \in ids : i < b[k].of => \E j \in 1..(k - 1) : b[j].of = i
  <2>1. k \in 1..n /\ k \in Nat /\ b[k].of = seq[k] /\ b[k].ok
    BY <1>4, <1>7, <1>8, <1>10
  <2>2. \A j \in 1..(k - 1) : j \in 1..n /\ j < k
    BY <2>1, <1>4
  <2>3. \A j \in 1..(k - 1) : b[j].of < b[k].of
    BY <2>1, <2>2, <1>3, <1>4, <1>7
  <2>4. ASSUME NEW i \in ids, i < b[k].of
        PROVE  \E j \in 1..(k - 1) : b[j].of = i
    <3>1. i \in Right(ids)
      BY <2>1, <2>4, <1>2, <1>4
    <3>2. PICK j \in 1..n : seq[j] = i
      BY <3>1, <1>5
    <3>3. j < k
      <4>1. ~(k < j) /\ k # j
        BY <2>1, <2>4, <3>2, <1>2, <1>3, <1>4
      <4> QED BY <4>1, <2>1, <1>4
    <3>4. j \in 1..(k - 1)
      BY <3>3, <2>1, <1>4
    <3> QED BY <3>2, <3>4, <1>7
  <2> QED BY <2>1, <2>3, <2>4, <1>4
<1>11. InOrder(b, ids)
  BY <1>2, <1>9, <1>10 DEF InOrder
<1>12. AllAnswered(b, ids)
  <2>1. ASSUME NEW k \in DOMAIN b, b[k] = Failure
        PROVE  k = Len(b) /\ \E i \in ids : \A j \in 1..(k - 1) : b[j].of # i
    <3>1. k = n + 1 /\ k = Len(b) /\ Wrong(ids) # {}
      BY <2>1, <1>7, <1>8
    <3>2. PICK i \in Wrong(ids) : TRUE
      BY <3>1
    <3>3. \A j \in 1..(k - 1) : j \in 1..n
      BY <3>1, <1>4
    <3>4. \A j \in 1..(k - 1) : b[j].of # i
      BY <3>3, <1>2, <1>4, <1>7
    <3> QED BY <3>1, <3>4, <1>2
  <2>2. ASSUME Len(b) > 0, b[Len(b)] # Failure, NEW i \in ids
        PROVE  \E k \in DOMAIN b : b[k].of = i
    <3>1. Wrong(ids) = {}
      BY <2>2, <1>1, <1>4
    <3>2. PICK k \in 1..n : seq[k] = i
      BY <3>1, <1>2, <1>5
    <3> QED BY <3>2, <1>7
  <2> QED BY <2>1, <2>2 DEF AllAnswered
<1> QED BY <1>10, <1>11, <1>12

LEMMA SeqIn ==
  ASSUME NEW T, NEW S \in SUBSET T, NEW s \in Seq(S)
  PROVE  s \in Seq(T)
<1>1. Len(s) \in Nat /\ DOMAIN s = 1..Len(s) /\ s \in [1..Len(s) -> S]
  OBVIOUS
<1>2. s \in [1..Len(s) -> T]
  BY <1>1
<1> QED BY <1>1, <1>2

\* What is run after the rest keeps the order.
LEMMA ConcatGrows ==
  ASSUME NEW s \in Seq(1..MaxQ), NEW t \in Seq(1..MaxQ),
         \A i \in DOMAIN s, j \in DOMAIN t : s[i] < t[j],
         \A i, j \in DOMAIN s : i < j => s[i] < s[j],
         \A i, j \in DOMAIN t : i < j => t[i] < t[j]
  PROVE  LET r == s \o t
         IN  /\ r \in Seq(1..MaxQ) /\ ToSet(r) = ToSet(s) \cup ToSet(t)
             /\ \A i \in DOMAIN r : r[i] \in ToSet(s) \cup ToSet(t)
             /\ \A i, j \in DOMAIN r : i < j => r[i] < r[j]
<1>1. PICK r, m, n : r = s \o t /\ m = Len(s) /\ n = Len(t)
  OBVIOUS
<1>2. /\ r \in Seq(1..MaxQ) /\ m \in Nat /\ n \in Nat
      /\ DOMAIN s = 1..m /\ DOMAIN t = 1..n /\ DOMAIN r = 1..(m + n)
      /\ \A k \in 1..m : r[k] = s[k]
      /\ \A k \in 1..n : r[m + k] = t[k]
  BY <1>1, ConcatIs
<1>3. ASSUME NEW i \in DOMAIN r
      PROVE  (i \in 1..m /\ r[i] = s[i]) \/ (i > m /\ i - m \in 1..n /\ r[i] = t[i - m])
  <2>1. CASE i <= m
    <3>1. i \in 1..m
      BY <2>1, <1>2
    <3> QED BY <3>1, <1>2
  <2>2. CASE i > m
    <3>1. i - m \in 1..n /\ m + (i - m) = i
      BY <2>2, <1>2
    <3> QED BY <3>1, <2>2, <1>2
  <2> QED BY <2>1, <2>2, <1>2
<1>4. \A i, j \in DOMAIN r : i < j => r[i] < r[j]
  <2> SUFFICES ASSUME NEW i \in DOMAIN r, NEW j \in DOMAIN r, i < j PROVE r[i] < r[j]
    OBVIOUS
  <2>1. CASE j \in 1..m
    <3>1. i \in 1..m
      BY <2>1, <1>2
    <3> QED BY <3>1, <2>1, <1>2
  <2>2. CASE i > m
    <3>1. i - m \in 1..n /\ r[i] = t[i - m]
      BY <2>2, <1>2, <1>3
    <3>2. j - m \in 1..n /\ r[j] = t[j - m]
      <4>1. j > m
        BY <2>2, <1>2
      <4> QED BY <4>1, <1>2, <1>3
    <3>3. i - m < j - m
      BY <1>2
    <3> QED BY <3>1, <3>2, <3>3, <1>2
  <2>3. CASE i \in 1..m /\ j > m
    <3>1. j - m \in 1..n /\ r[j] = t[j - m]
      BY <2>3, <1>2, <1>3
    <3> QED BY <3>1, <2>3, <1>2
  <2> QED BY <2>1, <2>2, <2>3, <1>2
<1>5. \A i \in DOMAIN r : r[i] \in ToSet(s) \cup ToSet(t)
  BY <1>2, <1>3 DEF ToSet
<1>6. \A k \in DOMAIN s : k \in DOMAIN r /\ r[k] = s[k]
  BY <1>2
<1>7. \A k \in DOMAIN t : m + k \in DOMAIN r /\ r[m + k] = t[k]
  BY <1>2
<1>8. ToSet(r) = ToSet(s) \cup ToSet(t)
  BY <1>5, <1>6, <1>7 DEF ToSet
<1> QED BY <1>1, <1>2, <1>4, <1>5, <1>8

\* What is known of the queries that are sent.
LEMMA ToSend ==
  ASSUME NEW v, PInv(v), ~Pending(v), v.error = Limit, From(v, v.second) # {}
  PROVE  /\ v.second \in From(v, v.second) /\ v.second \in 1..MaxQ /\ v.first = v.second
         /\ From(v, v.second) \subseteq 1..v.qid /\ From(v, v.second) \subseteq 1..MaxQ
         /\ \A i \in DOMAIN v.ran : \A q \in From(v, v.second) : v.ran[i] < q
         /\ \A q \in From(v, v.second) : v.second <= q
         /\ v.waiting = Cardinality(From(v, v.second)) /\ v.registered
         /\ IsFiniteSet(From(v, v.second)) /\ Cardinality(From(v, v.second)) \in Nat
<1>1. v \in Worlds /\ DOMAIN v.queries \subseteq 1..MaxQ /\ v.first = v.second
  BY WorldIs DEF PInv, Pending
<1>2. From(v, v.second) \subseteq DOMAIN v.queries /\ \A q \in From(v, v.second) : v.second <= q
  <2>1. \A q \in DOMAIN v.queries : q \in Nat
    BY <1>1, PipeAssumption
  <2>2. v.second \in Nat
    BY <1>1, WorldIs, Bounds
  <2> QED BY <2>1, <2>2 DEF From
<1>3. v.second # PastLast
  <2>1. PICK q \in From(v, v.second) : TRUE
    OBVIOUS
  <2>2. q \in 1..MaxQ /\ v.second <= q
    BY <2>1, <1>1, <1>2
  <2> QED BY <2>2, PipeAssumption DEF PastLast
<1>4. v.second \in DOMAIN v.queries /\ DOMAIN v.queries \subseteq 1..v.qid
  BY <1>3 DEF PInv, Places
<1>5. v.second \in From(v, v.second)
  <2>1. v.second \in Nat
    BY <1>1, <1>4, PipeAssumption
  <2> QED BY <2>1, <1>4 DEF From
<1>6. IsFiniteSet(From(v, v.second)) /\ Cardinality(From(v, v.second)) \in Nat
  <2>1. IsFiniteSet(From(v, v.second)) /\ Cardinality(From(v, v.second)) \in 0..v.qid
    BY <1>1, <1>2, <1>4, Counted
  <2> QED BY <2>1, <1>1, WorldIs, PipeAssumption
<1>7. v.registered
  BY <1>1, <1>3 DEF PInv, Wire
<1> QED BY <1>1, <1>2, <1>4, <1>5, <1>6, <1>7 DEF PInv, Places, History

\* A batch on its way: what Sent leaves, given what is sent.
LEMMA SentIs ==
  ASSUME NEW v, PInv(v), ~Pending(v), v.error = Limit, From(v, v.second) # {}
  PROVE  LET ids == From(v, v.second)
             seq == Ordered(Right(ids))
             none == v.failed \/ \E q \in ids : fate[q] = "syntax"
             two == Cardinality(ids) > 1
             u == Sent(v)
         IN  /\ u \in Worlds
             /\ u.queries = v.queries /\ u.first = v.second /\ u.second = PastLast
             /\ u.waiting = 0 /\ u.qid = v.qid /\ u.dummy = two /\ u.error = v.error
             /\ u.registered = v.registered /\ u.lost = v.lost /\ u.thrown = v.thrown
             /\ u.command = TRUE
             /\ u.failed = (v.failed \/ (v.kind = "work" /\ Wrong(ids) # {}))
             /\ none => u.wire = <<Failure>> /\ u.ran = v.ran /\ u.undone = v.undone
             /\ ~none => /\ u.wire = Replies(seq, two, Wrong(ids) # {})
                         /\ u.ran = v.ran \o seq
                         /\ u.undone = IF Wrong(ids) # {} THEN v.undone \cup Right(ids) ELSE v.undone
<1>1. PICK ids, n, seq, none, fails :
        /\ ids = From(v, v.second) /\ n = Cardinality(ids) /\ seq = Ordered(Right(ids))
        /\ none = (v.failed \/ \E q \in ids : fate[q] = "syntax") /\ fails = (Wrong(ids) # {})
  OBVIOUS
<1>2. v \in Worlds /\ none \in BOOLEAN /\ fails \in BOOLEAN /\ (n > 1) \in BOOLEAN
        /\ v.failed \in BOOLEAN
  BY <1>1, WorldIs DEF PInv
<1>3. ids \subseteq 1..MaxQ /\ v.second \in 1..MaxQ /\ v.waiting = n /\ n \in Nat
  BY <1>1, ToSend
<1>4. PICK wire, ran, undone, failed :
        /\ wire = (IF none THEN <<Failure>> ELSE Replies(seq, n > 1, fails))
        /\ ran = (IF none THEN v.ran ELSE v.ran \o seq)
        /\ undone = (IF none \/ ~fails THEN v.undone ELSE v.undone \cup Right(ids))
        /\ failed = (v.failed \/ (v.kind = "work" /\ fails))
  OBVIOUS
<1>5. PICK s : s = [v EXCEPT !.command = TRUE, !.wire = wire, !.ran = ran, !.undone = undone,
                             !.failed = failed]
  OBVIOUS
<1>6. s = Send(v, ids, n > 1)
  BY <1>1, <1>4, <1>5 DEF Send
<1>7. seq \in Seq(1..MaxQ)
  <2>1. Right(ids) \in SUBSET (1..MaxQ)
    BY <1>3, RightIs
  <2>2. seq \in Seq(Right(ids))
    BY <2>1, <1>1, OrderedIs
  <2> QED BY <2>1, <2>2, SeqIn
<1>8. wire \in Seq(Answers)
  <2>1. CASE none
    <3>1. Failure \in Answers
      BY DEF Answers
    <3> QED BY <3>1, <2>1, <1>4
  <2>2. CASE ~none
    BY <2>2, <1>2, <1>4, <1>7, RepliesAre
  <2> QED BY <2>1, <2>2
<1>9. ran \in Seq(1..MaxQ)
  <2>1. v.ran \in Seq(1..MaxQ)
    BY <1>2, WorldIs
  <2>2. v.ran \o seq \in Seq(1..MaxQ)
    BY <2>1, <1>7, ConcatIs
  <2> QED BY <2>1, <2>2, <1>4
<1>10. undone \in SUBSET (1..MaxQ) /\ failed \in BOOLEAN
  <2>1. v.undone \in SUBSET (1..MaxQ)
    BY <1>2 DEF Worlds
  <2>2. Right(ids) \in SUBSET (1..MaxQ)
    BY <1>3, RightIs
  <2> QED BY <2>1, <2>2, <1>2, <1>4
<1>11. /\ s \in Worlds
       /\ s.queries = v.queries /\ s.first = v.first /\ s.second = v.second
       /\ s.waiting = v.waiting /\ s.qid = v.qid /\ s.dummy = v.dummy /\ s.error = v.error
       /\ s.registered = v.registered /\ s.lost = v.lost /\ s.thrown = v.thrown
       /\ s.command = TRUE /\ s.wire = wire /\ s.ran = ran /\ s.undone = undone
       /\ s.failed = failed
  BY <1>2, <1>5, <1>8, <1>9, <1>10 DEF Worlds
<1>12. PICK u : u = [s EXCEPT !.dummy = (n > 1), !.first = v.second, !.second = PastLast,
                              !.waiting = 0]
  OBVIOUS
<1>13. u = Sent(v)
  <2>1. s.waiting - n = 0
    BY <1>3, <1>11
  <2>2. u = [s EXCEPT !.dummy = (n > 1), !.first = v.second, !.second = PastLast,
                      !.waiting = s.waiting - n]
    BY <2>1, <1>12
  <2> QED BY <2>2, <1>1, <1>6 DEF Sent, Oldest
<1>14. /\ u \in Worlds
       /\ u.queries = v.queries /\ u.first = v.second /\ u.second = PastLast
       /\ u.waiting = 0 /\ u.qid = v.qid /\ u.dummy = (n > 1) /\ u.error = v.error
       /\ u.registered = v.registered /\ u.lost = v.lost /\ u.thrown = v.thrown
       /\ u.command = TRUE /\ u.wire = wire /\ u.ran = ran /\ u.undone = undone
       /\ u.failed = failed
  <2>1. v.second \in 1..PastLast /\ PastLast \in 1..PastLast /\ 0 \in 0..MaxQ
    BY <1>3, Bounds, PipeAssumption
  <2> QED BY <2>1, <1>2, <1>11, <1>12 DEF Worlds
<1>15. none => wire = <<Failure>> /\ ran = v.ran /\ undone = v.undone
  BY <1>4
<1>16. ~none => /\ wire = Replies(seq, n > 1, fails) /\ ran = v.ran \o seq
                /\ undone = IF fails THEN v.undone \cup Right(ids) ELSE v.undone
  BY <1>2, <1>4
<1> QED BY <1>1, <1>4, <1>13, <1>14, <1>15, <1>16

\* The answers a batch is to have are those of its queries.
LEMMA SentAnswers ==
  ASSUME NEW v, PInv(v), ~Pending(v), v.error = Limit, From(v, v.second) # {}, Fates
  PROVE  Answering(Body(Sent(v)), Sent(v)) /\ (Sent(v).dummy => Failing(Sent(v)))
<1>1. PICK ids, seq, none, u, fails, two, b :
        /\ ids = From(v, v.second) /\ seq = Ordered(Right(ids))
        /\ none = (v.failed \/ \E q \in ids : fate[q] = "syntax")
        /\ u = Sent(v) /\ fails = (Wrong(ids) # {}) /\ two = (Cardinality(ids) > 1) /\ b = Body(u)
  OBVIOUS
<1>2. v \in Worlds /\ none \in BOOLEAN /\ fails \in BOOLEAN /\ two \in BOOLEAN
  BY <1>1, WorldIs DEF PInv
<1>3. /\ v.second \in ids /\ v.second \in 1..MaxQ /\ v.first = v.second
      /\ ids \subseteq 1..MaxQ /\ ids \subseteq DOMAIN v.queries
      /\ \A i \in DOMAIN v.ran : \A q \in ids : v.ran[i] < q
      /\ IsFiniteSet(ids) /\ Cardinality(ids) \in Nat
  BY <1>1, ToSend DEF From
<1>4. /\ u \in Worlds /\ u.queries = v.queries /\ u.first = v.second /\ u.second = PastLast
      /\ u.dummy = two
      /\ none => u.wire = <<Failure>> /\ u.ran = v.ran
      /\ ~none => u.wire = Replies(seq, two, fails) /\ u.ran = v.ran \o seq
  BY <1>1, SentIs
<1>5. v.failed => u.failed
  <2>1. u.failed = (v.failed \/ (v.kind = "work" /\ Wrong(ids) # {}))
    BY <1>1, SentIs
  <2> QED BY <2>1
<1>6. Issued(u) = ids
  <2>1. From(u, PastLast) = {}
    <3>1. \A q \in DOMAIN v.queries : ~(q >= PastLast)
      <4>1. \A q \in DOMAIN v.queries : q \in 1..MaxQ
        BY <1>2, WorldIs
      <4> QED BY <4>1, PipeAssumption DEF PastLast
    <3> QED BY <3>1, <1>4 DEF From
  <2>2. From(u, v.second) = ids
    BY <1>1, <1>4 DEF From
  <2> QED BY <2>1, <2>2, <1>4 DEF Issued
<1>7. two => \E i, j \in ids : i # j
  <2> SUFFICES ASSUME two, \A i, j \in ids : i = j PROVE FALSE
    OBVIOUS
  <2>1. ids = {v.second}
    BY <1>3
  <2>2. Cardinality(ids) = 1
    BY <2>1, FS_Singleton
  <2>3. Cardinality(ids) > 1
    BY <1>1
  <2> QED BY <2>2, <2>3
<1>8. CASE none
  <2>1. u.wire = <<Failure>> /\ u.ran = v.ran
    BY <1>4, <1>8
  <2>2. /\ u.wire # <<>> /\ Head(u.wire) = Failure /\ Len(u.wire) = 1 /\ Tail(u.wire) = <<>>
        /\ DOMAIN u.wire = {1} /\ u.wire[1] = Failure
    BY <2>1
  <2>3. \A i \in DOMAIN u.ran : u.ran[i] < u.first
    BY <2>1, <1>3, <1>4
  <2>4. u.failed \/ \E q \in ids : fate[q] # "ok"
    BY <1>1, <1>5, <1>8
  <2>5. u.dummy => Failing(u)
    BY <2>2, <2>3, <2>4, <1>4, <1>6, <1>7 DEF Failing
  <2>6. CASE two
    <3>1. b = <<>>
      BY <2>2, <2>6, <1>1, <1>4 DEF Body
    <3>2. DOMAIN b = {} /\ Len(b) = 0
      BY <3>1
    <3>3. Answering(b, u)
      BY <3>2, <1>6 DEF Answering, InOrder, AllAnswered
    <3> QED BY <3>3, <2>5, <1>1
  <2>7. CASE ~two
    <3>1. b = u.wire
      BY <2>7, <1>1, <1>4 DEF Body
    <3>2. DOMAIN b = {1} /\ Len(b) = 1 /\ b[1] = Failure
      BY <3>1, <2>2
    <3>3. InOrder(b, ids)
      BY <3>2 DEF InOrder
    <3>4. AllAnswered(b, ids)
      <4>1. \A j \in 1..(1 - 1) : b[j].of # v.second
        OBVIOUS
      <4> QED BY <4>1, <3>2, <1>3 DEF AllAnswered
    <3>5. Answering(b, u)
      BY <3>2, <3>3, <3>4, <1>6 DEF Answering
    <3> QED BY <3>5, <2>5, <1>1
  <2> QED BY <2>6, <2>7
<1>9. CASE ~none
  <2>1. u.wire = Replies(seq, two, fails) /\ u.ran = v.ran \o seq
    BY <1>4, <1>9
  <2>2. Right(ids) \in SUBSET (1..MaxQ) /\ \A q \in Right(ids) : fate[q] = "ok"
    BY <1>3, RightIs
  <2>3. seq \in Seq(1..MaxQ) /\ ToSet(seq) = Right(ids)
    <3>1. seq \in Seq(Right(ids)) /\ ToSet(seq) = Right(ids)
      BY <2>2, <1>1, OrderedIs
    <3> QED BY <3>1, <2>2, SeqIn
  <2>4. b = IF two THEN Tail(u.wire) ELSE u.wire
    BY <1>1, <1>4 DEF Body
  <2>5. /\ b \in Seq(Answers)
        /\ two => u.wire # <<>> /\ Head(u.wire) = None
        /\ Len(b) = IF fails THEN Len(seq) + 1 ELSE Len(seq)
        /\ \A k \in 1..Len(seq) : b[k] = [of |-> seq[k], ok |-> TRUE]
        /\ fails => b[Len(seq) + 1] = Failure
    BY <2>1, <2>3, <2>4, <1>2, RepliesAre
  <2>6. /\ b \in Seq(Answers) /\ InOrder(b, ids) /\ AllAnswered(b, ids)
        /\ \A k \in DOMAIN b : b[k] # Failure => b[k].of \in Right(ids)
    <3>1. ids \in SUBSET (1..MaxQ) /\ b \in Seq(Answers) /\ seq = Ordered(Right(ids))
      BY <2>5, <1>1, <1>3
    <3>2. fails <=> Wrong(ids) # {}
      BY <1>1
    <3>3. Len(b) = IF Wrong(ids) # {} THEN Len(seq) + 1 ELSE Len(seq)
      BY <3>2, <2>5
    <3>4. Wrong(ids) # {} => b[Len(seq) + 1] = Failure
      BY <3>2, <2>5
    <3>5. \A k \in 1..Len(seq) : b[k] = [of |-> seq[k], ok |-> TRUE]
      BY <2>5
    <3> QED BY ONLY <3>1, <3>3, <3>4, <3>5, RepliesAnswer
  <2>7. \A q \in Right(ids) : Done(u, q)
    <3>1. v.ran \in Seq(1..MaxQ)
      BY <1>2, WorldIs
    <3>2. \A k \in DOMAIN seq : Len(v.ran) + k \in DOMAIN u.ran /\ u.ran[Len(v.ran) + k] = seq[k]
      <4>1. /\ DOMAIN u.ran = 1..(Len(v.ran) + Len(seq)) /\ DOMAIN seq = 1..Len(seq)
            /\ \A k \in 1..Len(seq) : u.ran[Len(v.ran) + k] = seq[k]
            /\ Len(v.ran) \in Nat /\ Len(seq) \in Nat
        BY <3>1, <2>1, <2>3, ConcatIs
      <4> QED BY <4>1
    <3> QED BY <3>2, <2>2, <2>3 DEF Done, ToSet
  <2>8. Answering(b, u)
    BY <2>6, <2>7, <1>6 DEF Answering
  <2>9. two => Failing(u)
    <3>1. None # Failure
      <4>1. None.ok /\ ~Failure.ok
        BY DEF None, Failure
      <4> QED BY <4>1
    <3> QED BY <3>1, <2>5, <1>6, <1>7 DEF Failing
  <2> QED BY <2>8, <2>9, <1>1, <1>4
<1> QED BY <1>2, <1>8, <1>9

\* The batch is on its way.
LEMMA SentKeeps ==
  ASSUME NEW v, PInv(v), ~Pending(v), v.error = Limit, From(v, v.second) # {}, Fates,
         ~v.lost, v.thrown = "none"
  PROVE  LET u == Sent(v)
         IN  /\ PInv(u) /\ Goes(v, u) /\ u.thrown = "none" /\ Pending(u)
             /\ u.second = PastLast /\ u.first = v.first /\ u.error = Limit
<1>1. PICK ids, seq, none, u, fails, two :
        /\ ids = From(v, v.second) /\ seq = Ordered(Right(ids))
        /\ none = (v.failed \/ \E q \in ids : fate[q] = "syntax")
        /\ u = Sent(v) /\ fails = (Wrong(ids) # {}) /\ two = (Cardinality(ids) > 1)
  OBVIOUS
<1>2. v \in Worlds /\ none \in BOOLEAN /\ fails \in BOOLEAN /\ two \in BOOLEAN
  BY <1>1, WorldIs DEF PInv
<1>3. /\ v.second \in ids /\ v.second \in 1..MaxQ /\ v.first = v.second
      /\ ids \subseteq 1..MaxQ /\ ids \subseteq 1..v.qid /\ v.second \in DOMAIN v.queries
      /\ \A i \in DOMAIN v.ran : \A q \in ids : v.ran[i] < q
      /\ v.registered
  BY <1>1, ToSend DEF From
<1>4. /\ u \in Worlds /\ u.queries = v.queries /\ u.first = v.second /\ u.second = PastLast
      /\ u.waiting = 0 /\ u.qid = v.qid /\ u.dummy = two /\ u.error = v.error
      /\ u.registered = v.registered /\ u.lost = v.lost /\ u.thrown = v.thrown
      /\ u.command = TRUE
      /\ u.failed = (v.failed \/ (v.kind = "work" /\ fails))
      /\ none => u.ran = v.ran /\ u.undone = v.undone
      /\ ~none => /\ u.ran = v.ran \o seq
                  /\ u.undone = IF fails THEN v.undone \cup Right(ids) ELSE v.undone
  BY <1>1, SentIs
<1>5. From(u, u.second) = {}
  <2>1. \A q \in DOMAIN v.queries : q \in 1..MaxQ
    BY <1>2, WorldIs
  <2>2. \A q \in DOMAIN v.queries : ~(q >= PastLast)
    BY <2>1, PipeAssumption DEF PastLast
  <2> QED BY <2>2, <1>4 DEF From
<1>6. v.qid \in Nat /\ v.qid <= MaxQ /\ v.second < PastLast /\ v.second \in Nat
  BY <1>2, <1>3, WorldIs, PipeAssumption DEF PastLast
<1>7. Pending(u)
  BY <1>4, <1>6, Bounds DEF Pending
<1>8. Places(u)
  <2>1. Cardinality({}) = 0
    BY FS_EmptySet
  <2>2. DOMAIN v.queries \subseteq 1..v.qid
    BY DEF PInv, Places
  <2>3. ~(Limit < Limit)
    BY Bounds
  <2> QED BY <2>1, <2>2, <2>3, <1>3, <1>4, <1>5, <1>6, Bounds DEF Places
<1>9. /\ u.ran \in Seq(1..MaxQ) /\ ToSet(v.ran) \subseteq ToSet(u.ran)
      /\ \A i \in DOMAIN u.ran : u.ran[i] \in ToSet(v.ran) \/ u.ran[i] \in ids
      /\ \A i, j \in DOMAIN u.ran : i < j => u.ran[i] < u.ran[j]
  <2>1. v.ran \in Seq(1..MaxQ) /\ \A i, j \in DOMAIN v.ran : i < j => v.ran[i] < v.ran[j]
    BY <1>2, WorldIs DEF PInv, History
  <2>2. CASE none
    <3>1. u.ran = v.ran
      BY <2>2, <1>4
    <3> QED BY <3>1, <2>1 DEF ToSet
  <2>3. CASE ~none
    <3>1. Right(ids) \in SUBSET (1..MaxQ) /\ Right(ids) \subseteq ids
      BY <1>3, RightIs
    <3>2. /\ seq \in Seq(Right(ids)) /\ ToSet(seq) = Right(ids)
          /\ \A i, j \in DOMAIN seq : i < j => seq[i] < seq[j]
      BY <3>1, <1>1, OrderedIs
    <3>3. seq \in Seq(1..MaxQ)
      BY <3>1, <3>2, SeqIn
    <3>4. \A i \in DOMAIN v.ran, j \in DOMAIN seq : v.ran[i] < seq[j]
      <4>1. \A j \in DOMAIN seq : seq[j] \in ids
        BY <3>1, <3>2 DEF ToSet
      <4> QED BY <4>1, <1>3
    <3>5. u.ran = v.ran \o seq
      BY <2>3, <1>4
    <3>6. /\ u.ran \in Seq(1..MaxQ) /\ ToSet(u.ran) = ToSet(v.ran) \cup ToSet(seq)
          /\ \A i \in DOMAIN u.ran : u.ran[i] \in ToSet(v.ran) \cup ToSet(seq)
          /\ \A i, j \in DOMAIN u.ran : i < j => u.ran[i] < u.ran[j]
      BY <3>2, <3>3, <3>4, <3>5, <2>1, ConcatGrows
    <3> QED BY <3>1, <3>2, <3>6
  <2> QED BY <2>2, <2>3, <1>2
<1>10. Found(u)
  <2>1. \A q : Done(v, q) => Done(u, q)
    BY <1>9 DEF Done
  <2> QED BY <2>1, <1>3, <1>4 DEF PInv, Found
<1>11. History(u)
  <2>1. \A i \in DOMAIN u.ran : u.ran[i] <= u.qid
    <3> TAKE i \in DOMAIN u.ran
    <3>1. CASE u.ran[i] \in ToSet(v.ran)
      BY <3>1, <1>4 DEF PInv, History, ToSet
    <3>2. CASE u.ran[i] \in ids
      <4>1. u.ran[i] \in 1..v.qid
        BY <3>2, <1>3
      <4> QED BY <4>1, <1>4, <1>6
    <3> QED BY <3>1, <3>2, <1>9
  <2>2. u.failed \/ u.undone # {} => v.failed \/ v.undone # {} \/ fails
    BY <1>2, <1>4
  <2>3. fails => \E q \in 1..v.qid : fate[q] # "ok"
    BY <1>1, <1>3 DEF Wrong
  <2> QED BY <2>1, <2>2, <2>3, <1>4, <1>5, <1>9 DEF PInv, History
<1>12. Wire(u)
  <2>1. Answering(Body(u), u) /\ (u.dummy => Failing(u))
    BY <1>1, SentAnswers
  <2> QED BY <2>1, <1>3, <1>4 DEF Wire
<1>13. Goes(v, u)
  BY <1>3, <1>4, <1>6, <1>9, Bounds DEF Goes
<1> QED BY <1>1, <1>3, <1>4, <1>7, <1>8, <1>10, <1>11, <1>12, <1>13 DEF PInv

\* issue(): the rest of the last batch is thrown away, and what waits goes out unless
\* there has been an error.
LEMMA IssueKeeps ==
  ASSUME NEW v, PInv(v), v.thrown = "none", ~Pending(v), Fates,
         v.error < Limit \/ From(v, v.second) # {}, NEW u \in Issue(v)
  PROVE  /\ PInv(u) /\ Goes(v, u)
         /\ u.thrown = "none" /\ v.error = Limit =>
              Pending(u) /\ u.second = PastLast /\ u.first = v.first
<1>1. PICK x : x = ObtainResult(v, FALSE)
  OBVIOUS
<1>2. u \in IF x.thrown = "none"
             THEN IF ~NoError(x) THEN {x} ELSE IF x.lost THEN {Throw(x, "failed")} ELSE {Sent(x)}
             ELSE {x}
  BY <1>1 DEF Issue, Then
<1>3. v \in Worlds /\ ~v.dummy
  <2>1. v \in Worlds /\ Issued(v) = {}
    BY IssuedIs DEF PInv
  <2> QED BY <2>1 DEF PInv, Wire, Failing
<1>4. CASE v.wire = <<>>
  <2>1. /\ PInv(x) /\ Receives(v, x) /\ x.thrown = "none" /\ x.error = v.error
        /\ x.first = v.first /\ ~Pending(x) /\ x.second = v.second
    BY <1>1, <1>3, <1>4, ObtainsNull
  <2>2. x \in Worlds /\ Goes(v, x) /\ From(x, x.second) = From(v, v.second)
    BY <2>1 DEF PInv, Receives, Goes, From
  <2>3. CASE x.error # Limit
    <3>1. u = x
      BY <2>1, <2>3, <1>2 DEF NoError
    <3> QED BY <3>1, <2>1, <2>2, <2>3
  <2>4. CASE x.error = Limit /\ x.lost
    <3>1. u = Throw(x, "failed")
      BY <2>1, <2>4, <1>2 DEF NoError
    <3>2. PInv(u) /\ Goes(x, u) /\ u.thrown = "failed"
      BY <3>1, <2>1, ThrowKeeps DEF Receives
    <3>3. Goes(v, u)
      BY <3>2, <2>2, <1>3, GoesOn DEF PInv
    <3> QED BY <3>2, <3>3
  <2>5. CASE x.error = Limit /\ ~x.lost
    <3>1. u = Sent(x)
      BY <2>1, <2>5, <1>2 DEF NoError
    <3>2. From(x, x.second) # {}
      BY <2>1, <2>2, <2>5, Bounds
    <3>3. PInv(u) /\ Goes(x, u) /\ Pending(u) /\ u.second = PastLast /\ u.first = x.first
      BY <3>1, <3>2, <2>1, <2>5, SentKeeps
    <3>4. Goes(v, u)
      BY <3>3, <2>2, <1>3, GoesOn DEF PInv
    <3> QED BY <3>3, <3>4, <2>1
  <2> QED BY <2>3, <2>4, <2>5
<1>5. CASE v.wire # <<>>
  <2>1. DOMAIN v.queries # {} \/ v.error < Limit
    BY DEF From
  <2>2. PInv(x) /\ Receives(v, x) /\ x.thrown = "surplus"
    BY <2>1, <1>1, <1>3, <1>5, ObtainsSurplus
  <2>3. u = x
    BY <2>2, <1>2
  <2> QED BY <2>2, <2>3 DEF Receives
<1> QED BY <1>4, <1>5
-----------------------------------------------------------------------------
(* The operations *)

\* What holds from any state to any later one: after an error nothing is run, and what has
\* been run stays so.
Lasts(v, u) ==
  /\ u.error <= v.error /\ v.qid <= u.qid
  /\ v.error < Limit => u.ran = v.ran
  /\ ToSet(v.ran) \subseteq ToSet(u.ran)

LEMMA GoesLast ==
  ASSUME NEW v \in Worlds, NEW u, Goes(v, u)
  PROVE  Lasts(v, u)
<1>1. v.qid \in Int
  BY WorldIs
<1> QED BY <1>1 DEF Goes, Lasts

LEMMA LastsOn ==
  ASSUME NEW v \in Worlds, NEW u \in Worlds, NEW x \in Worlds, Lasts(v, u), Lasts(u, x)
  PROVE  Lasts(v, x)
<1>1. v.error \in Int /\ u.error \in Int /\ x.error \in Int /\ Limit \in Int
  BY WorldIs, Bounds
<1>2. v.qid \in Int /\ u.qid \in Int /\ x.qid \in Int
  BY WorldIs
<1> QED BY <1>1, <1>2 DEF Lasts

\* If queries are counted as waiting then there are some, unless there was an error.
LEMMA Waits ==
  ASSUME NEW v, PInv(v), v.waiting # 0
  PROVE  v.error < Limit \/ From(v, v.second) # {}
<1>1. v.error \in 0..Limit
  BY WorldIs DEF PInv
<1>2. Cardinality({}) = 0
  BY FS_EmptySet
<1> QED BY <1>1, <1>2, Bounds DEF PInv, Places

LEMMA NoneWait ==
  ASSUME NEW v, PInv(v), v.waiting = 0, v.error = Limit
  PROVE  v.second = PastLast
<1>1. v \in Worlds /\ DOMAIN v.queries \subseteq 1..v.qid
  BY DEF PInv, Places
<1>2. IsFiniteSet(From(v, v.second)) /\ Cardinality(From(v, v.second)) = 0
  <2>1. From(v, v.second) \in SUBSET DOMAIN v.queries
    BY DEF From
  <2> QED BY <2>1, <1>1, Counted DEF PInv, Places
<1>3. From(v, v.second) = {}
  BY <1>2, FS_EmptySet
<1>4. v.second \in Nat
  BY <1>1, WorldIs, Bounds
<1>5. v.second \in DOMAIN v.queries => v.second \in From(v, v.second)
  BY <1>4 DEF From
<1> QED BY <1>3, <1>5 DEF PInv, Places

\* When all on its way has been received there is nothing left of it.
LEMMA ReceiveAllKeeps ==
  ASSUME NEW v, PInv(v), v.thrown = "none", NEW u \in ReceiveAll(v)
  PROVE  /\ PInv(u) /\ Receives(v, u)
         /\ u.thrown = "none" => ~Pending(u)
<1>1. v \in Worlds /\ v.second \in Nat /\ v.second <= v.second
  <2>1. v.second \in Nat
    BY WorldIs, Bounds DEF PInv
  <2> QED BY <2>1 DEF PInv
<1>2. CASE ~Pending(v)
  <2>1. u = v
    BY <1>2 DEF ReceiveAll
  <2> QED BY <2>1, <1>1, <1>2, NothingReceived
<1>3. CASE Pending(v)
  <2>1. u \in Receive(v, v.second)
    BY <1>3 DEF ReceiveAll
  <2>2. /\ PInv(u) /\ Receives(v, u)
        /\ u.thrown = "none" => u.error < Limit \/ u.first >= v.second
    BY <2>1, <1>1, <1>3, ReceiveKeeps
  <2>3. u \in Worlds /\ u.error \in 0..Limit /\ u.first \in Nat /\ u.second \in Nat
          /\ u.first <= u.second
    <3>1. u \in Worlds /\ u.first <= u.second
      BY <2>2 DEF PInv, Places
    <3> QED BY <3>1, WorldIs, Bounds
  <2>4. u.error < Limit => ~Pending(u)
    BY <2>2, <2>3, Bounds DEF PInv, Places
  <2>5. ~(u.error < Limit) => u.second = v.second
    BY <2>2, <2>3, Bounds DEF Receives
  <2>6. u.first >= v.second /\ u.second = v.second => u.first = u.second
    BY <2>3
  <2> QED BY <2>2, <2>4, <2>5, <2>6 DEF Pending
<1> QED BY <1>2, <1>3

\* The pipeline gives up the focus of the transaction.
LEMMA DetachKeeps ==
  ASSUME NEW v, PInv(v), ~Pending(v), v.error < Limit \/ v.second = PastLast
  PROVE  PInv(Detach(v)) /\ Goes(v, Detach(v)) /\ Detach(v).thrown = v.thrown
<1>1. PICK u : u = Detach(v)
  OBVIOUS
<1>2. v \in Worlds /\ u = [v EXCEPT !.registered = FALSE]
  BY <1>1 DEF PInv, Detach
<1>3. u \in Worlds /\ u.registered = FALSE
  BY <1>2 DEF Worlds
<1>4. /\ u.queries = v.queries /\ u.first = v.first /\ u.second = v.second /\ u.waiting = v.waiting
      /\ u.qid = v.qid /\ u.dummy = v.dummy /\ u.error = v.error
      /\ u.failed = v.failed /\ u.command = v.command /\ u.wire = v.wire /\ u.lost = v.lost
      /\ u.ran = v.ran /\ u.undone = v.undone /\ u.thrown = v.thrown
  BY <1>2 DEF Worlds
<1>5. Issued(u) = Issued(v) /\ From(u, u.second) = From(v, v.second) /\ Body(u) = Body(v)
        /\ ~Pending(u)
  BY <1>4 DEF Issued, From, Body, Pending
<1>6. Places(u)
  BY <1>4, <1>5 DEF PInv, Places
<1>7. Found(u)
  BY <1>4 DEF PInv, Found, Done
<1>8. History(u)
  BY <1>4, <1>5 DEF PInv, History
<1>9. Wire(u)
  <2>1. Answering(Body(u), u)
    BY <1>4, <1>5 DEF PInv, Wire, Answering, Done
  <2>2. u.dummy => Failing(u)
    BY <1>4, <1>5 DEF PInv, Wire, Failing
  <2>3. u.error = Limit => u.second = PastLast
    BY <1>4, Bounds
  <2> QED BY <1>4, <1>5, <2>1, <2>2, <2>3 DEF PInv, Wire
<1>10. Goes(v, u)
  <2>1. v.error \in Int /\ v.first \in Int
    BY <1>2, WorldIs, Bounds
  <2> QED BY <1>4, <2>1 DEF Goes
<1> QED BY <1>1, <1>3, <1>4, <1>6, <1>7, <1>8, <1>9, <1>10 DEF PInv

\* complete()
LEMMA CompleteKeeps ==
  ASSUME NEW v, PInv(v), v.thrown = "none", Fates, NEW u \in CompleteAll(v)
  PROVE  PInv(u) /\ Goes(v, u)
<1>1. v \in Worlds
  BY DEF PInv
<1>2. PICK S : S = UNION {IF x.thrown = "none" THEN IssueRest(x) ELSE {x} : x \in ReceiveAll(v)}
  OBVIOUS
<1>3. PICK y \in S : u \in IF y.thrown = "none" THEN {Detach(y)} ELSE {y}
  BY <1>2 DEF CompleteAll, Then
<1>4. PICK x \in ReceiveAll(v) : y \in IF x.thrown = "none" THEN IssueRest(x) ELSE {x}
  BY <1>2
<1>5. PInv(x) /\ Goes(v, x) /\ (x.thrown = "none" => ~Pending(x))
  BY <1>4, ReceiveAllKeeps DEF Receives
<1>6. /\ PInv(y) /\ Goes(x, y)
      /\ y.thrown = "none" => ~Pending(y) /\ (y.error < Limit \/ y.second = PastLast)
  <2>1. CASE x.thrown # "none"
    <3>1. y = x
      BY <2>1, <1>4
    <3> QED BY <3>1, <2>1, <1>5, WorldIs, Bounds DEF Goes, PInv
  <2>2. CASE x.thrown = "none" /\ ~(x.waiting > 0 /\ NoError(x))
    <3>1. y = x
      BY <2>2, <1>4 DEF IssueRest
    <3>2. x.error < Limit \/ x.second = PastLast
      <4>1. x.error \in 0..Limit /\ x.waiting \in Nat /\ Limit \in Nat
        BY <1>5, WorldIs, Bounds DEF PInv
      <4>2. x.error = Limit => x.waiting = 0
        BY <4>1, <2>2 DEF NoError
      <4>3. x.error = Limit => x.second = PastLast
        BY <4>2, <1>5, NoneWait
      <4> QED BY <4>1, <4>3
    <3> QED BY <3>1, <3>2, <2>2, <1>5, WorldIs, Bounds DEF Goes, PInv
  <2>3. CASE x.thrown = "none" /\ x.waiting > 0 /\ NoError(x)
    <3>1. PICK z \in Issue(x) : y \in IF z.thrown = "none" THEN Receive(z, PastLast) ELSE {z}
      BY <2>3, <1>4 DEF IssueRest, Then
    <3>2. x.error = Limit /\ (x.error < Limit \/ From(x, x.second) # {})
      <4>1. x.waiting # 0
        BY <2>3
      <4> QED BY <4>1, <2>3, <1>5, Waits DEF NoError
    <3>3. PInv(z) /\ Goes(x, z) /\ (z.thrown = "none" => Pending(z) /\ z.second = PastLast)
      BY <3>1, <3>2, <2>3, <1>5, IssueKeeps
    <3>4. CASE z.thrown # "none"
      <4>1. y = z
        BY <3>1, <3>4
      <4> QED BY <4>1, <3>3, <3>4
    <3>5. CASE z.thrown = "none"
      <4>1. y \in Receive(z, PastLast) /\ PastLast \in Nat /\ PastLast <= z.second /\ Pending(z)
        BY <3>1, <3>3, <3>5, Bounds
      <4>2. /\ PInv(y) /\ Goes(z, y)
            /\ y.thrown = "none" => y.error < Limit \/ y.first >= PastLast
        BY <4>1, <3>3, <3>5, ReceiveKeeps DEF Receives
      <4>3. Goes(x, y)
        BY <4>2, <3>3, <1>5, GoesOn DEF PInv
      <4>4. /\ y.first \in 1..PastLast /\ y.second \in 1..PastLast /\ y.first <= y.second
            /\ y.error \in 0..Limit
        <5>1. y \in Worlds /\ y.first <= y.second
          BY <4>2 DEF PInv, Places
        <5> QED BY <5>1, WorldIs
      <4>5. y.first >= PastLast => y.second = PastLast /\ ~Pending(y)
        BY <4>4, Bounds DEF Pending
      <4>6. y.error < Limit => ~Pending(y)
        BY <4>2, <4>4, Bounds DEF PInv, Places
      <4> QED BY <4>2, <4>3, <4>5, <4>6
    <3> QED BY <3>4, <3>5
  <2> QED BY <2>1, <2>2, <2>3
<1>7. Goes(v, y)
  BY <1>1, <1>5, <1>6, GoesOn DEF PInv
<1>8. CASE y.thrown # "none"
  <2>1. u = y
    BY <1>3, <1>8
  <2> QED BY <2>1, <1>6, <1>7
<1>9. CASE y.thrown = "none"
  <2>1. u = Detach(y)
    BY <1>3, <1>9
  <2>2. PInv(u) /\ Goes(y, u)
    BY <2>1, <1>6, <1>9, DetachKeeps
  <2> QED BY <2>2, <1>1, <1>6, <1>7, GoesOn DEF PInv
<1> QED BY <1>8, <1>9

\* What flush() forgets.
LEMMA ClearedKeeps ==
  ASSUME NEW v, PInv(v), v.thrown = "none", ~Pending(v)
  PROVE  LET u == Cleared(v)
         IN  PInv(u) /\ Lasts(v, u) /\ ~Pending(u) /\ u.second = PastLast
<1>1. PICK u, none : u = Cleared(v) /\ none = <<>>
  OBVIOUS
<1>2. v \in Worlds /\ none \in Maps /\ DOMAIN none = {}
  <2>1. DOMAIN none = {} /\ none \in [{} -> Answers]
    BY <1>1
  <2>2. {} \in SUBSET (1..MaxQ)
    OBVIOUS
  <2> QED BY <2>1, <2>2, MapIs DEF PInv
<1>3. u = [v EXCEPT !.first = PastLast, !.second = PastLast, !.waiting = 0, !.dummy = FALSE,
                    !.queries = none]
  BY <1>1 DEF Cleared
<1>4. u \in Worlds
  <2>1. 0 \in 0..MaxQ /\ PastLast \in 1..PastLast
    BY Bounds, PipeAssumption
  <2> QED BY <2>1, <1>2, <1>3 DEF Worlds
<1>5. /\ u.queries = none /\ u.first = PastLast /\ u.second = PastLast /\ u.waiting = 0
      /\ u.qid = v.qid /\ u.dummy = FALSE /\ u.error = v.error /\ u.registered = v.registered
      /\ u.failed = v.failed /\ u.command = v.command /\ u.wire = v.wire /\ u.lost = v.lost
      /\ u.ran = v.ran /\ u.undone = v.undone /\ u.thrown = v.thrown
  BY <1>2, <1>3 DEF Worlds
<1>6. From(u, u.second) = {} /\ ~Pending(u) /\ Issued(u) = {}
  BY <1>2, <1>5 DEF From, Pending, Issued
<1>7. Issued(v) = {} /\ ~v.dummy
  <2>1. Issued(v) = {}
    BY IssuedIs DEF PInv
  <2> QED BY <2>1 DEF PInv, Wire, Failing
<1>8. Body(u) = Body(v)
  BY <1>5, <1>7 DEF Body
<1>9. v.qid \in Nat /\ v.error \in Int
  BY <1>2, WorldIs
<1>10. Places(u)
  <2>1. Cardinality({}) = 0
    BY FS_EmptySet
  <2>2. v.error < Limit => v.error <= v.qid + 1
    BY DEF PInv, Places
  <2> QED BY <2>1, <2>2, <1>2, <1>5, <1>6, <1>9, Bounds DEF Places
<1>11. Found(u)
  BY <1>2, <1>5 DEF Found
<1>12. History(u)
  BY <1>5, <1>6 DEF PInv, History
<1>13. Wire(u)
  <2>1. Answering(Body(u), u)
    BY <1>5, <1>6, <1>7, <1>8 DEF PInv, Wire, Answering, Done
  <2> QED BY <2>1, <1>5, <1>6 DEF PInv, Wire
<1>14. Lasts(v, u)
  BY <1>5, <1>9 DEF Lasts
<1> QED BY <1>1, <1>4, <1>5, <1>6, <1>10, <1>11, <1>12, <1>13, <1>14 DEF PInv

\* flush()
LEMMA FlushKeeps ==
  ASSUME NEW v, PInv(v), v.thrown = "none", NEW u \in FlushAll(v)
  PROVE  PInv(u) /\ Lasts(v, u)
<1>1. v \in Worlds
  BY DEF PInv
<1>2. PICK S : S = UNION {IF x.thrown = "none" THEN {Cleared(x)} ELSE {x} : x \in ReceiveAll(v)}
  OBVIOUS
<1>3. PICK y \in (IF v.queries = <<>> THEN {v} ELSE S) :
        u \in IF y.thrown = "none" THEN {Detach(y)} ELSE {y}
  BY <1>2 DEF FlushAll, Then
<1>4. PInv(y) /\ Lasts(v, y) /\ (y.thrown = "none" => ~Pending(y) /\ y.second = PastLast)
  <2>1. CASE v.queries = <<>>
    <3>1. y = v
      BY <2>1, <1>3
    <3>2. DOMAIN v.queries = {}
      BY <2>1
    <3>3. v.first = PastLast /\ v.second = PastLast
      BY <3>2 DEF PInv, Places
    <3>4. Lasts(v, v)
      BY <1>1, WorldIs, Bounds DEF Lasts
    <3> QED BY <3>1, <3>3, <3>4 DEF Pending
  <2>2. CASE v.queries # <<>>
    <3>1. y \in S
      BY <2>2, <1>3
    <3>2. PICK x \in ReceiveAll(v) : y \in IF x.thrown = "none" THEN {Cleared(x)} ELSE {x}
      BY <3>1, <1>2
    <3>3. PInv(x) /\ Lasts(v, x) /\ (x.thrown = "none" => ~Pending(x))
      BY <3>2, <1>1, ReceiveAllKeeps, GoesLast DEF Receives
    <3>4. CASE x.thrown # "none"
      <4>1. y = x
        BY <3>2, <3>4
      <4> QED BY <4>1, <3>3, <3>4
    <3>5. CASE x.thrown = "none"
      <4>1. y = Cleared(x)
        BY <3>2, <3>5
      <4>2. PInv(y) /\ Lasts(x, y) /\ ~Pending(y) /\ y.second = PastLast
        BY <4>1, <3>3, <3>5, ClearedKeeps
      <4> QED BY <4>2, <3>3, <1>1, LastsOn DEF PInv
    <3> QED BY <3>4, <3>5
  <2> QED BY <2>1, <2>2
<1>5. CASE y.thrown # "none"
  <2>1. u = y
    BY <1>3, <1>5
  <2> QED BY <2>1, <1>4
<1>6. CASE y.thrown = "none"
  <2>1. u = Detach(y)
    BY <1>3, <1>6
  <2>2. PInv(u) /\ Goes(y, u)
    BY <2>1, <1>4, <1>6, DetachKeeps
  <2>3. Lasts(y, u)
    BY <2>2, <1>4, GoesLast DEF PInv
  <2> QED BY <2>2, <2>3, <1>1, <1>4, LastsOn DEF PInv
<1> QED BY <1>5, <1>6

\* resume_issuing()
LEMMA ResumeKeeps ==
  ASSUME NEW v, PInv(v), v.thrown = "none", Fates, NEW u \in ResumeIssuing(v)
  PROVE  PInv(u) /\ Goes(v, u)
<1>1. v \in Worlds
  BY DEF PInv
<1>2. PICK x \in (IF Pending(v) THEN ReceiveIfAvailable(v) ELSE {v}) :
        u \in IF x.thrown = "none"
              THEN IF Pending(x) \/ x.waiting = 0 THEN {x} ELSE Then(Issue(x), ReceiveIfAvailable)
              ELSE {x}
  BY DEF ResumeIssuing, Then
<1>3. PInv(x) /\ Goes(v, x)
  <2>1. CASE Pending(v)
    BY <2>1, <1>2, ReceiveIfAvailableKeeps DEF Receives
  <2>2. CASE ~Pending(v)
    <3>1. x = v
      BY <2>2, <1>2
    <3> QED BY <3>1, <1>1, NothingReceived DEF Receives
  <2> QED BY <2>1, <2>2
<1>4. CASE x.thrown # "none" \/ Pending(x) \/ x.waiting = 0
  <2>1. u = x
    BY <1>2, <1>4
  <2> QED BY <2>1, <1>3
<1>5. CASE x.thrown = "none" /\ ~Pending(x) /\ x.waiting # 0
  <2>1. PICK z \in Issue(x) : u \in IF z.thrown = "none" THEN ReceiveIfAvailable(z) ELSE {z}
    BY <1>2, <1>5 DEF Then
  <2>2. PInv(z) /\ Goes(x, z)
    BY <2>1, <1>3, <1>5, Waits, IssueKeeps
  <2>3. Goes(v, z)
    BY <2>2, <1>1, <1>3, GoesOn DEF PInv
  <2>4. CASE z.thrown # "none"
    <3>1. u = z
      BY <2>1, <2>4
    <3> QED BY <3>1, <2>2, <2>3
  <2>5. CASE z.thrown = "none"
    <3>1. PInv(u) /\ Goes(z, u)
      BY <2>1, <2>2, <2>5, ReceiveIfAvailableKeeps DEF Receives
    <3> QED BY <3>1, <2>2, <2>3, <1>1, GoesOn DEF PInv
  <2> QED BY <2>4, <2>5
<1> QED BY <1>4, <1>5

\* A query joins those that wait.
LEMMA InsertedKeeps ==
  ASSUME NEW v, PInv(v), v.thrown = "none", v.qid < MaxQ
  PROVE  LET u == Inserted(v)
         IN  /\ PInv(u) /\ Lasts(v, u) /\ u.thrown = "none"
             /\ From(u, u.second) # {}
<1>1. PICK u, q, f, s, m :
        /\ u = Inserted(v) /\ q = v.qid + 1
        /\ m = [i \in DOMAIN v.queries \cup {q} |-> IF i = q THEN None ELSE v.queries[i]]
        /\ s = (IF v.second = PastLast THEN q ELSE v.second)
        /\ f = (IF v.second = PastLast /\ v.first = PastLast THEN q ELSE v.first)
  OBVIOUS
<1>2. /\ v \in Worlds /\ v.qid \in Nat /\ q \in 1..MaxQ /\ q \in Nat /\ q < PastLast
      /\ q \in 1..PastLast /\ PastLast \in Nat
  <2>1. v \in Worlds
    BY DEF PInv
  <2>2. v.qid \in Nat
    BY <2>1, WorldIs
  <2>3. q \in 1..MaxQ
    BY <2>2, <1>1, PipeAssumption
  <2> QED BY <2>1, <2>2, <2>3, Bounds, PipeAssumption
<1>3. /\ DOMAIN v.queries \subseteq 1..v.qid /\ DOMAIN v.queries \subseteq 1..MaxQ
      /\ \A i \in DOMAIN v.queries : i < q /\ i \in Nat /\ i # q /\ v.queries[i] \in Answers
      /\ v.first \in DOMAIN v.queries \cup {PastLast} /\ v.second \in DOMAIN v.queries \cup {PastLast}
      /\ v.first <= v.second /\ v.waiting <= v.qid /\ v.waiting \in Nat
      /\ v.first \in Nat /\ v.second \in Nat /\ v.error \in Nat
  <2>1. /\ DOMAIN v.queries \subseteq 1..v.qid
        /\ v.first \in DOMAIN v.queries \cup {PastLast} /\ v.second \in DOMAIN v.queries \cup {PastLast}
        /\ v.first <= v.second /\ v.waiting <= v.qid
    BY DEF PInv, Places
  <2>2. \A i \in 1..v.qid : i < q /\ i \in Nat /\ i # q
    BY <1>1, <1>2
  <2>3. v.waiting \in Nat /\ v.first \in Nat /\ v.second \in Nat /\ v.error \in Nat
    BY <1>2, WorldIs, Bounds
  <2> QED BY <2>1, <2>2, <2>3, <1>2, WorldIs
<1>4. DOMAIN m = DOMAIN v.queries \cup {q} /\ m[q] = None
        /\ \A i \in DOMAIN v.queries : m[i] = v.queries[i]
  BY <1>1, <1>3
<1>5. m \in Maps
  <2>1. \A i \in DOMAIN m : m[i] \in Answers
    BY <1>3, <1>4 DEF Answers
  <2>2. m \in [DOMAIN m -> Answers]
    BY <2>1, <1>1
  <2>3. DOMAIN m \in SUBSET (1..MaxQ)
    BY <1>2, <1>3, <1>4
  <2> QED BY <2>2, <2>3, MapIs
<1>6. s \in 1..PastLast /\ f \in 1..PastLast /\ v.waiting + 1 \in 0..MaxQ /\ q \in 0..MaxQ
  <2>1. v.first \in 1..PastLast /\ v.second \in 1..PastLast
    BY <1>2, WorldIs
  <2>2. v.waiting + 1 \in 0..MaxQ
    BY <1>2, <1>3, PipeAssumption
  <2> QED BY <2>1, <2>2, <1>1, <1>2
<1>7. u = [v EXCEPT !.registered = TRUE, !.qid = q, !.queries = m, !.second = s, !.first = f,
                    !.waiting = v.waiting + 1]
  <2>1. PICK a : a = [v EXCEPT !.registered = TRUE]
    OBVIOUS
  <2>2. /\ a.queries = v.queries /\ a.first = v.first /\ a.second = v.second
        /\ a.waiting = v.waiting
    BY <2>1, <1>2 DEF Worlds
  <2>3. u = [a EXCEPT !.qid = q,
                      !.queries = [i \in DOMAIN a.queries \cup {q} |->
                                     IF i = q THEN None ELSE a.queries[i]],
                      !.second = IF a.second = PastLast THEN q ELSE a.second,
                      !.first = IF v.second = PastLast /\ a.first = PastLast THEN q ELSE a.first,
                      !.waiting = a.waiting + 1]
    BY <2>1, <1>1 DEF Inserted, Attach
  <2>4. u = [a EXCEPT !.qid = q, !.queries = m, !.second = s, !.first = f,
                      !.waiting = v.waiting + 1]
    BY <2>2, <2>3, <1>1
  <2> QED BY <2>1, <2>4
<1>8. u \in Worlds
  BY <1>2, <1>5, <1>6, <1>7 DEF Worlds
<1>9. /\ u.queries = m /\ u.first = f /\ u.second = s /\ u.waiting = v.waiting + 1
      /\ u.qid = q /\ u.dummy = v.dummy /\ u.error = v.error /\ u.registered = TRUE
      /\ u.failed = v.failed /\ u.command = v.command /\ u.wire = v.wire /\ u.lost = v.lost
      /\ u.ran = v.ran /\ u.undone = v.undone /\ u.thrown = v.thrown
  BY <1>2, <1>7 DEF Worlds
<1>10. /\ s \in Nat /\ s \in DOMAIN m /\ s <= q /\ (s = q \/ s \in DOMAIN v.queries)
       /\ f \in Nat /\ f \in DOMAIN m /\ f <= s
       /\ v.second # PastLast => s = v.second /\ f = v.first
       /\ v.second = PastLast => s = q
       /\ v.first # PastLast => f = v.first
       /\ v.first = PastLast => f = q /\ s = q
  <2>1. CASE v.second # PastLast
    <3>1. s = v.second /\ f = v.first /\ v.second \in DOMAIN v.queries
      BY <2>1, <1>1, <1>3
    <3>2. v.second < PastLast
      BY <3>1, <1>2, <1>3
    <3>3. v.first # PastLast
      BY <3>2, <1>2, <1>3
    <3>4. v.first \in DOMAIN v.queries /\ s <= q
      BY <3>1, <3>3, <1>2, <1>3
    <3> QED BY <2>1, <3>1, <3>3, <3>4, <1>3, <1>4
  <2>2. CASE v.second = PastLast /\ v.first = PastLast
    BY <2>2, <1>1, <1>2, <1>4
  <2>3. CASE v.second = PastLast /\ v.first # PastLast
    <3>1. s = q /\ f = v.first /\ f \in DOMAIN v.queries
      BY <2>3, <1>1, <1>3
    <3>2. f <= q /\ f \in Nat
      BY <3>1, <1>2, <1>3
    <3> QED BY <2>3, <3>1, <3>2, <1>2, <1>4
  <2> QED BY <2>1, <2>2, <2>3
<1>11. Issued(u) = Issued(v) /\ (Pending(u) <=> Pending(v))
  <2>1. Issued(v) = {j \in DOMAIN v.queries : v.first <= j /\ j < v.second}
    BY <1>2, IssuedIs DEF PInv
  <2>2. Issued(u) = {j \in DOMAIN m : f <= j /\ j < s}
    <3>1. \A j \in DOMAIN m : j \in Nat
      BY <1>2, <1>3, <1>4
    <3> QED BY <3>1, <1>9, <1>10 DEF Issued, From
  <2>3. ~(q < s)
    BY <1>2, <1>3, <1>10
  <2>4. CASE v.second # PastLast
    BY <2>1, <2>2, <2>3, <2>4, <1>4, <1>9, <1>10 DEF Pending
  <2>5. CASE v.second = PastLast /\ v.first = PastLast
    <3>1. \A j \in DOMAIN v.queries : ~(v.first <= j) /\ ~(f <= j)
      BY <2>5, <1>2, <1>3, <1>10
    <3>2. Issued(v) = {} /\ ~Pending(v)
      BY <2>1, <2>5, <3>1 DEF Pending
    <3>3. Issued(u) = {} /\ ~Pending(u)
      BY <2>2, <2>3, <2>5, <3>1, <1>4, <1>9, <1>10 DEF Pending
    <3> QED BY <3>2, <3>3
  <2>6. CASE v.second = PastLast /\ v.first # PastLast
    <3>1. s = q /\ f = v.first /\ v.first \in DOMAIN v.queries
      BY <2>6, <1>3, <1>10
    <3>2. \A j \in DOMAIN v.queries : j < s /\ j < v.second
      BY <2>6, <3>1, <1>2, <1>3
    <3>3. Issued(u) = Issued(v)
      BY <2>1, <2>2, <2>3, <3>1, <3>2, <1>4
    <3>4. Pending(u) /\ Pending(v)
      BY <2>6, <3>1, <1>2, <1>3, <1>9 DEF Pending
    <3> QED BY <3>3, <3>4
  <2> QED BY <2>4, <2>5, <2>6
<1>12. From(u, u.second) = From(v, v.second) \cup {q} /\ q \notin From(v, v.second)
  <2>1. From(v, v.second) = {j \in DOMAIN v.queries : j >= v.second}
          /\ From(u, u.second) = {j \in DOMAIN m : j >= s}
    BY <1>9 DEF From
  <2>2. q \notin DOMAIN v.queries /\ q >= s
    BY <1>2, <1>3, <1>10
  <2>3. \A j \in DOMAIN v.queries : j >= s <=> j >= v.second
    BY <1>2, <1>3, <1>10
  <2> QED BY <2>1, <2>2, <2>3, <1>4
<1>13. Places(u)
  <2>1. DOMAIN m \subseteq 1..q
    <3>1. 1..v.qid \subseteq 1..q /\ q \in 1..q
      BY <1>1, <1>2
    <3> QED BY <3>1, <1>3, <1>4
  <2>2. v.waiting + 1 <= q
    BY <1>1, <1>2, <1>3
  <2>3. Pending(u) => u.error = Limit
    BY <1>9, <1>11 DEF PInv, Places
  <2>4. u.error = Limit => u.waiting = Cardinality(From(u, u.second))
    <3>1. From(v, v.second) \in SUBSET DOMAIN v.queries
      BY DEF From
    <3>2. IsFiniteSet(From(v, v.second))
      BY <3>1, <1>2, <1>3, Counted
    <3>3. Cardinality(From(u, u.second)) = Cardinality(From(v, v.second)) + 1
      BY <3>2, <1>12, FS_AddElement
    <3> QED BY <3>3, <1>9 DEF PInv, Places
  <2>5. u.error < Limit =>
          u.error <= u.qid + 1 /\ \A i \in DOMAIN u.queries : i >= u.first => i >= u.error
    <3> SUFFICES ASSUME v.error < Limit
                 PROVE  v.error <= q + 1 /\ \A i \in DOMAIN m : i >= f => i >= v.error
      BY <1>9
    <3>1. v.error <= v.qid + 1 /\ \A i \in DOMAIN v.queries : i >= v.first => i >= v.error
      BY DEF PInv, Places
    <3>2. v.error <= q
      BY <3>1, <1>1
    <3>3. v.error <= q + 1 /\ q >= v.error
      BY <3>2, <1>2, <1>3
    <3>4. \A i \in DOMAIN v.queries : i >= f => i >= v.first
      BY <1>2, <1>3, <1>10
    <3> QED BY <3>1, <3>3, <3>4, <1>4
  <2> QED BY <2>1, <2>2, <2>3, <2>4, <2>5, <1>9, <1>10 DEF Places
<1>14. Found(u)
  <2>1. ~(q < f)
    BY <1>2, <1>10
  <2>2. \A i \in DOMAIN v.queries : i < f => i < v.first
    BY <1>2, <1>3, <1>10
  <2>3. \A i \in DOMAIN m :
          /\ m[i] \in {None, Failure} \/ (m[i] = [of |-> i, ok |-> TRUE] /\ Done(v, i))
          /\ i < f => m[i] # None
    <3> TAKE i \in DOMAIN m
    <3>1. CASE i = q
      BY <3>1, <2>1, <1>4
    <3>2. CASE i \in DOMAIN v.queries
      BY <3>2, <2>2, <1>4 DEF PInv, Found
    <3> QED BY <3>1, <3>2, <1>4
  <2>4. \A i : Done(v, i) => Done(u, i)
    BY <1>9 DEF Done
  <2> QED BY <2>3, <2>4, <1>9 DEF Found
<1>15. History(u)
  <2>1. v.ran \in Seq(1..MaxQ) /\ \A i \in DOMAIN v.ran : v.ran[i] \in Nat
    BY <1>2, WorldIs
  <2>2. \A i \in DOMAIN v.ran : v.ran[i] <= v.qid
    BY DEF PInv, History
  <2>3. \A i \in DOMAIN v.ran : v.ran[i] <= q /\ v.ran[i] < q
    BY <2>1, <2>2, <1>1, <1>2
  <2>4. 1..v.qid \subseteq 1..q
    BY <1>1, <1>2
  <2> QED BY <2>3, <2>4, <1>9, <1>12 DEF PInv, History
<1>16. Body(u) = Body(v)
  BY <1>9 DEF Body
<1>17. Wire(u)
  <2>1. Answering(Body(u), u)
    BY <1>9, <1>11, <1>16 DEF PInv, Wire, Answering, Done
  <2>2. u.dummy => Failing(u)
    <3> SUFFICES ASSUME v.dummy PROVE Failing(u)
      BY <1>9
    <3>1. Failing(v)
      BY DEF PInv, Wire
    <3>2. Pending(v)
      BY <3>1, <1>2, IssuedIs DEF PInv, Failing
    <3>3. v.first # PastLast
      BY <3>2, <1>2, <1>3 DEF Pending
    <3> QED BY <3>1, <3>3, <1>9, <1>10, <1>11 DEF Failing
  <2> QED BY <2>1, <2>2, <1>9, <1>11 DEF PInv, Wire
<1>18. Lasts(v, u)
  BY <1>1, <1>2, <1>3, <1>9 DEF Lasts
<1> QED BY <1>1, <1>8, <1>9, <1>12, <1>13, <1>14, <1>15, <1>17, <1>18 DEF PInv

\* insert()
LEMMA InsertKeeps ==
  ASSUME NEW v, PInv(v), v.thrown = "none", v.qid < MaxQ, Fates, NEW u \in InsertQuery(v)
  PROVE  PInv(u) /\ Lasts(v, u)
<1>1. PICK x : x = Inserted(v)
  OBVIOUS
<1>2. v \in Worlds /\ PInv(x) /\ Lasts(v, x) /\ x.thrown = "none" /\ From(x, x.second) # {}
        /\ x \in Worlds
  BY <1>1, InsertedKeeps DEF PInv
<1>3. CASE x.waiting <= x.retain
  <2>1. u = x
    BY <1>1, <1>3 DEF InsertQuery
  <2> QED BY <2>1, <1>2
<1>4. CASE ~(x.waiting <= x.retain)
  <2>1. PICK y \in (IF Pending(x) THEN ReceiveIfAvailable(x) ELSE {x}) :
          u \in IF y.thrown = "none" THEN IssueIdle(y) ELSE {y}
    BY <1>1, <1>4 DEF InsertQuery, Then
  <2>2. PInv(y) /\ Receives(x, y)
    <3>1. CASE Pending(x)
      BY <3>1, <2>1, <1>2, ReceiveIfAvailableKeeps
    <3>2. CASE ~Pending(x)
      <4>1. y = x
        BY <3>2, <2>1
      <4> QED BY <4>1, <1>2, NothingReceived
    <3> QED BY <3>1, <3>2
  <2>3. Lasts(v, y)
    BY <2>2, <1>2, GoesLast, LastsOn DEF PInv, Receives
  <2>4. CASE y.thrown # "none" \/ Pending(y)
    <3>1. u = y
      BY <2>1, <2>4 DEF IssueIdle
    <3> QED BY <3>1, <2>2, <2>3
  <2>5. CASE y.thrown = "none" /\ ~Pending(y)
    <3>1. u \in Issue(y)
      BY <2>1, <2>5 DEF IssueIdle
    <3>2. y.error < Limit \/ From(y, y.second) # {}
      <4>1. y.error \in 0..Limit
        BY <2>2, WorldIs DEF PInv
      <4>2. y.error = Limit => From(y, y.second) = From(x, x.second)
        BY <2>2 DEF Receives, Goes, From
      <4> QED BY <4>1, <4>2, <1>2, Bounds
    <3>3. PInv(u) /\ Goes(y, u)
      BY <3>1, <3>2, <2>2, <2>5, IssueKeeps
    <3>4. Lasts(y, u)
      BY <3>3, <2>2, GoesLast DEF PInv
    <3> QED BY <3>3, <3>4, <2>2, <2>3, <1>2, LastsOn DEF PInv
  <2> QED BY <2>4, <2>5
<1> QED BY <1>3, <1>4

\* A query that is to be retrieved is sent, unless there has been an error.
LEMMA SentForKeeps ==
  ASSUME NEW v, PInv(v), v.thrown = "none", Fates, NEW q \in DOMAIN v.queries, q < v.error,
         NEW u \in SentFor(v, q)
  PROVE  /\ PInv(u) /\ Goes(v, u)
         /\ u.thrown = "none" => /\ Pending(u) => q < u.second
                                 /\ ~Pending(u) => u.error < Limit \/ q < u.first
<1>1. /\ v \in Worlds /\ q \in Nat /\ q < PastLast /\ v.first \in Nat /\ v.second \in Nat
      /\ v.error \in 0..Limit
  <2>1. v \in Worlds
    BY DEF PInv
  <2>2. q \in 1..MaxQ
    BY <2>1, WorldIs
  <2> QED BY <2>1, <2>2, WorldIs, Bounds, PipeAssumption
<1>2. CASE v.second = PastLast \/ q < v.second
  <2>1. u = v /\ q < v.second
    BY <1>1, <1>2 DEF SentFor
  <2> QED BY <2>1, <1>1, NothingReceived DEF Receives, Pending
<1>3. CASE ~(v.second = PastLast \/ q < v.second)
  <2>1. v.error = Limit
    <3>1. v.error < Limit => ~Pending(v)
      BY <1>1, Bounds DEF PInv, Places
    <3>2. v.error < Limit => v.first = v.second /\ q >= v.first
      BY <3>1, <1>1, <1>3 DEF Pending
    <3>3. v.error < Limit => q >= v.error
      BY <3>2 DEF PInv, Places
    <3> QED BY <3>3, <1>1, Bounds
  <2>2. PICK x \in ReceiveAll(v) :
          u \in IF x.thrown = "none" THEN IF NoError(x) THEN Issue(x) ELSE {x} ELSE {x}
    BY <1>3 DEF SentFor, Then
  <2>3. PInv(x) /\ Receives(v, x) /\ Goes(v, x) /\ (x.thrown = "none" => ~Pending(x))
    BY <2>2, ReceiveAllKeeps DEF Receives
  <2>4. CASE x.thrown # "none" \/ ~NoError(x)
    <3>1. u = x
      BY <2>2, <2>4
    <3>2. x.error # Limit => x.error < Limit
      BY <2>3, WorldIs, Bounds DEF PInv
    <3> QED BY <3>1, <3>2, <2>3, <2>4 DEF NoError
  <2>5. CASE x.thrown = "none" /\ NoError(x)
    <3>1. u \in Issue(x) /\ x.error = Limit
      BY <2>2, <2>5 DEF NoError
    <3>2. q \in From(x, x.second)
      BY <3>1, <2>3, <1>1, <1>3 DEF Receives, Goes, From
    <3>3. PInv(u) /\ Goes(x, u) /\ (u.thrown = "none" => Pending(u) /\ u.second = PastLast)
      BY <3>1, <3>2, <2>3, <2>5, IssueKeeps
    <3>4. Goes(v, u)
      BY <3>3, <2>3, <1>1, GoesOn DEF PInv
    <3> QED BY <3>3, <3>4, <1>1
  <2> QED BY <2>4, <2>5
<1> QED BY <1>2, <1>3

\* Its result is received.
LEMMA GotForKeeps ==
  ASSUME NEW v, PInv(v), v.thrown = "none", NEW q \in DOMAIN v.queries,
         Pending(v) => q < v.second, ~Pending(v) => v.error < Limit \/ q < v.first,
         NEW u \in GotFor(v, q)
  PROVE  /\ PInv(u) /\ Goes(v, u)
         /\ u.thrown = "none" => u.error < Limit \/ q < u.first
<1>1. v \in Worlds /\ q \in 0..MaxQ /\ q \in Nat /\ v.first \in Nat /\ v.second \in Nat
  <2>1. v \in Worlds
    BY DEF PInv
  <2>2. q \in 1..MaxQ
    BY <2>1, WorldIs
  <2> QED BY <2>1, <2>2, WorldIs, Bounds, PipeAssumption
<1>2. CASE ~Pending(v)
  <2>1. u = v
    BY <1>2 DEF GotFor
  <2> QED BY <2>1, <1>1, <1>2, NothingReceived DEF Receives
<1>3. CASE Pending(v) /\ q >= v.first
  <2>1. PICK stop : stop = After(v, q)
    OBVIOUS
  <2>2. /\ stop \in DOMAIN v.queries \cup {PastLast} /\ q < stop
        /\ \A j \in DOMAIN v.queries : j > q => stop <= j
    BY <2>1, <1>1, AfterIs
  <2>3. stop \in Nat /\ stop <= PastLast
    <3>1. DOMAIN v.queries \subseteq 1..MaxQ
      BY <1>1, WorldIs
    <3> QED BY <3>1, <2>2, Bounds, PipeAssumption
  <2>4. stop <= v.second
    <3>1. v.second \in DOMAIN v.queries \cup {PastLast}
      BY DEF PInv, Places
    <3> QED BY <3>1, <2>2, <2>3, <1>1, <1>3
  <2>5. u \in Receive(v, stop)
    BY <2>1, <1>3 DEF GotFor
  <2>6. /\ PInv(u) /\ Goes(v, u)
        /\ u.thrown = "none" => u.error < Limit \/ u.first >= stop
    BY <2>3, <2>4, <2>5, <1>3, ReceiveKeeps DEF Receives
  <2>7. u.first \in Nat
    BY <2>6, WorldIs, Bounds DEF PInv
  <2> QED BY <2>2, <2>3, <2>6, <2>7, <1>1
<1>4. CASE Pending(v) /\ ~(q >= v.first)
  <2>1. u \in ReceiveIfAvailable(v)
    BY <1>4 DEF GotFor
  <2>2. PInv(u) /\ Goes(v, u)
    BY <2>1, ReceiveIfAvailableKeeps DEF Receives
  <2>3. u.first \in Nat /\ v.first <= u.first
    BY <2>2, WorldIs, Bounds DEF PInv, Goes
  <2> QED BY <2>2, <2>3, <1>1, <1>4
<1> QED BY <1>2, <1>3, <1>4

\* What waits goes out.
LEMMA KeptBusyKeeps ==
  ASSUME NEW v, PInv(v), v.thrown = "none", Fates, NEW q \in DOMAIN v.queries,
         v.error < Limit \/ q < v.first, NEW u \in KeptBusy(v, q)
  PROVE  PInv(u) /\ Goes(v, u) /\ (u.thrown = "none" => q < u.first)
<1>1. v \in Worlds /\ q \in Nat /\ v.first \in Nat /\ v.error \in Nat
  <2>1. v \in Worlds
    BY DEF PInv
  <2>2. q \in 1..MaxQ
    BY <2>1, WorldIs
  <2> QED BY <2>1, <2>2, WorldIs, Bounds, PipeAssumption
<1>2. CASE q >= v.error
  <2>1. u = Throw(v, "refused")
    BY <1>2 DEF KeptBusy
  <2> QED BY <2>1, ThrowKeeps DEF Receives
<1>3. CASE ~(q >= v.error)
  <2>1. q < v.first
    BY <1>1, <1>3 DEF PInv, Places
  <2>2. CASE v.waiting > 0 /\ ~Pending(v) /\ NoError(v)
    <3>1. u \in Issue(v) /\ v.waiting # 0
      BY <2>2, <1>3 DEF KeptBusy
    <3>2. PInv(u) /\ Goes(v, u)
      BY <3>1, <2>2, Waits, IssueKeeps
    <3>3. u.first \in Nat /\ v.first <= u.first
      BY <3>2, WorldIs, Bounds DEF PInv, Goes
    <3> QED BY <3>2, <3>3, <2>1, <1>1
  <2>3. CASE ~(v.waiting > 0 /\ ~Pending(v) /\ NoError(v))
    <3>1. u = v
      BY <2>3, <1>3 DEF KeptBusy
    <3> QED BY <3>1, <2>1, <1>1, NothingReceived DEF Receives
  <2> QED BY <2>2, <2>3
<1> QED BY <1>2, <1>3

\* The query is erased, and what is said of it is so.
LEMMA TakenKeeps ==
  ASSUME NEW v, PInv(v), v.thrown = "none", NEW q \in DOMAIN v.queries, q < v.first
  PROVE  LET u == ResultTaken(v, q)
         IN  /\ PInv(u) /\ Lasts(v, u) /\ DOMAIN u.queries = DOMAIN v.queries \ {q}
             /\ u.thrown = "none" => Done(u, q)
<1>1. PICK u, m, t : /\ u = ResultTaken(v, q) /\ m = [i \in DOMAIN v.queries \ {q} |-> v.queries[i]]
                     /\ t = (IF v.queries[q].ok THEN "none" ELSE "failed")
  OBVIOUS
<1>2. v \in Worlds /\ q \in Nat /\ v.first \in Nat /\ v.second \in Nat /\ v.error \in Nat
        /\ v.qid \in Nat
  <2>1. v \in Worlds
    BY DEF PInv
  <2>2. q \in 1..MaxQ
    BY <2>1, WorldIs
  <2> QED BY <2>1, <2>2, WorldIs, Bounds, PipeAssumption
<1>3. DOMAIN m = DOMAIN v.queries \ {q} /\ \A i \in DOMAIN m : m[i] = v.queries[i]
  BY <1>1
<1>4. m \in Maps
  <2>1. DOMAIN v.queries \subseteq 1..MaxQ /\ \A i \in DOMAIN v.queries : v.queries[i] \in Answers
    BY <1>2, WorldIs
  <2>2. m \in [DOMAIN m -> Answers]
    BY <2>1, <1>1
  <2>3. DOMAIN m \in SUBSET (1..MaxQ)
    BY <2>1, <1>3
  <2> QED BY <2>2, <2>3, MapIs
<1>5. u = [v EXCEPT !.queries = m, !.thrown = t]
  BY <1>1 DEF ResultTaken
<1>6. u \in Worlds /\ t \in {"none", "failed"}
  <2>1. t \in {"none", "failed"}
    BY <1>1
  <2> QED BY <2>1, <1>2, <1>4, <1>5 DEF Worlds
<1>7. /\ u.queries = m /\ u.first = v.first /\ u.second = v.second /\ u.waiting = v.waiting
      /\ u.qid = v.qid /\ u.dummy = v.dummy /\ u.error = v.error /\ u.registered = v.registered
      /\ u.failed = v.failed /\ u.command = v.command /\ u.wire = v.wire /\ u.lost = v.lost
      /\ u.ran = v.ran /\ u.undone = v.undone /\ u.thrown = t
  BY <1>2, <1>5 DEF Worlds
<1>8. v.first <= v.second /\ q # v.first /\ q # v.second
  <2>1. v.first <= v.second
    BY DEF PInv, Places
  <2> QED BY <2>1, <1>2
<1>9. From(u, u.second) = From(v, v.second) /\ From(u, u.first) = From(v, v.first)
        /\ (Pending(u) <=> Pending(v))
  <2>1. ~(q >= v.first) /\ ~(q >= v.second)
    BY <1>2, <1>8
  <2> QED BY <2>1, <1>3, <1>7 DEF From, Pending
<1>10. Issued(u) = Issued(v) /\ Body(u) = Body(v)
  BY <1>7, <1>9 DEF Issued, Body
<1>11. Places(u)
  <2>1. /\ DOMAIN v.queries \subseteq 1..v.qid
        /\ {v.first, v.second} \subseteq DOMAIN v.queries \cup {PastLast}
    BY DEF PInv, Places
  <2>2. DOMAIN m \subseteq 1..v.qid /\ {v.first, v.second} \subseteq DOMAIN m \cup {PastLast}
    BY <2>1, <1>3, <1>8
  <2>3. v.error < Limit => \A i \in DOMAIN m : i >= v.first => i >= v.error
    BY <1>3 DEF PInv, Places
  <2> QED BY <2>2, <2>3, <1>7, <1>9 DEF PInv, Places
<1>12. Found(u)
  <2>1. \A i \in DOMAIN m :
          /\ m[i] \in {None, Failure} \/ (m[i] = [of |-> i, ok |-> TRUE] /\ Done(v, i))
          /\ i < v.first => m[i] # None
    BY <1>3 DEF PInv, Found
  <2>2. \A i : Done(v, i) => Done(u, i)
    BY <1>7 DEF Done
  <2> QED BY <2>1, <2>2, <1>7 DEF Found
<1>13. History(u)
  BY <1>7, <1>9 DEF PInv, History
<1>14. Wire(u)
  <2>1. Answering(Body(u), u)
    BY <1>7, <1>10 DEF PInv, Wire, Answering, Done
  <2>2. u.dummy => Failing(u)
    BY <1>7, <1>10 DEF PInv, Wire, Failing
  <2> QED BY <2>1, <2>2, <1>6, <1>7, <1>9 DEF PInv, Wire
<1>15. Lasts(v, u)
  BY <1>2, <1>7 DEF Lasts
<1>16. u.thrown = "none" => Done(u, q)
  <2>1. u.thrown = "none" => v.queries[q].ok
    BY <1>1, <1>7
  <2>2. v.queries[q] # None
    BY DEF PInv, Found
  <2>3. v.queries[q].ok => v.queries[q] # Failure
    BY DEF Failure
  <2>4. v.queries[q] \in {None, Failure} \/ Done(v, q)
    BY DEF PInv, Found
  <2> QED BY <2>1, <2>2, <2>3, <2>4, <1>7 DEF Done
<1> QED BY <1>1, <1>3, <1>6, <1>7, <1>11, <1>12, <1>13, <1>14, <1>15, <1>16 DEF PInv

\* retrieve()
LEMMA RetrieveKeeps ==
  ASSUME NEW v, PInv(v), v.thrown = "none", Fates, NEW q \in DOMAIN v.queries,
         NEW u \in RetrieveResult(v, q)
  PROVE  /\ PInv(u) /\ Lasts(v, u)
         /\ q \notin DOMAIN u.queries /\ u.thrown = "none" => Done(u, q)
<1>1. v \in Worlds /\ q \in Nat /\ v.error \in Nat
  <2>1. v \in Worlds
    BY DEF PInv
  <2>2. q \in 1..MaxQ
    BY <2>1, WorldIs
  <2> QED BY <2>1, <2>2, WorldIs, Bounds, PipeAssumption
<1>2. CASE q >= v.error
  <2>1. u = Throw(v, "refused")
    BY <1>2 DEF RetrieveResult
  <2>2. PInv(u) /\ Goes(v, u) /\ u.thrown = "refused"
    BY <2>1, ThrowKeeps DEF Receives
  <2> QED BY <2>2, <1>1, GoesLast
<1>3. CASE ~(q >= v.error)
  <2>1. q < v.error
    BY <1>1, <1>3
  <2>2. PICK S, T :
          /\ S = UNION {IF x.thrown = "none" THEN GotFor(x, q) ELSE {x} : x \in SentFor(v, q)}
          /\ T = UNION {IF x.thrown = "none" THEN KeptBusy(x, q) ELSE {x} : x \in S}
    OBVIOUS
  <2>3. u \in UNION {IF x.thrown = "none" THEN {ResultTaken(x, q)} ELSE {x} : x \in T}
    BY <2>2, <1>3 DEF RetrieveResult, Then
  <2>4. PICK z \in T : u \in IF z.thrown = "none" THEN {ResultTaken(z, q)} ELSE {z}
    BY <2>3
  <2>5. PICK y \in S : z \in IF y.thrown = "none" THEN KeptBusy(y, q) ELSE {y}
    BY <2>2, <2>4
  <2>6. PICK x \in SentFor(v, q) : y \in IF x.thrown = "none" THEN GotFor(x, q) ELSE {x}
    BY <2>2, <2>5
  <2>7. /\ PInv(x) /\ Goes(v, x)
        /\ x.thrown = "none" => /\ Pending(x) => q < x.second
                                /\ ~Pending(x) => x.error < Limit \/ q < x.first
    BY <2>1, <2>6, SentForKeeps
  <2>8. x \in Worlds /\ q \in DOMAIN x.queries
    BY <2>7 DEF PInv, Goes
  <2>9. /\ PInv(y) /\ Goes(v, y) /\ q \in DOMAIN y.queries
        /\ y.thrown = "none" => y.error < Limit \/ q < y.first
    <3>1. CASE x.thrown # "none"
      <4>1. y = x
        BY <3>1, <2>6
      <4> QED BY <4>1, <3>1, <2>7, <2>8
    <3>2. CASE x.thrown = "none"
      <4>1. y \in GotFor(x, q)
        BY <3>2, <2>6
      <4>2. /\ PInv(y) /\ Goes(x, y)
            /\ y.thrown = "none" => y.error < Limit \/ q < y.first
        BY <4>1, <3>2, <2>7, <2>8, GotForKeeps
      <4>3. Goes(v, y)
        BY <4>2, <2>7, <2>8, <1>1, GoesOn DEF PInv
      <4> QED BY <4>2, <4>3, <2>8 DEF Goes
    <3> QED BY <3>1, <3>2
  <2>10. /\ PInv(z) /\ Goes(v, z) /\ q \in DOMAIN z.queries
         /\ z.thrown = "none" => q < z.first
    <3>1. CASE y.thrown # "none"
      <4>1. z = y
        BY <3>1, <2>5
      <4> QED BY <4>1, <3>1, <2>9
    <3>2. CASE y.thrown = "none"
      <4>1. z \in KeptBusy(y, q)
        BY <3>2, <2>5
      <4>2. PInv(z) /\ Goes(y, z) /\ (z.thrown = "none" => q < z.first)
        BY <4>1, <3>2, <2>9, KeptBusyKeeps
      <4>3. Goes(v, z)
        BY <4>2, <2>9, <1>1, GoesOn DEF PInv
      <4> QED BY <4>2, <4>3, <2>9 DEF Goes
    <3> QED BY <3>1, <3>2
  <2>11. Lasts(v, z) /\ z \in Worlds
    BY <2>10, <1>1, GoesLast DEF PInv
  <2>12. CASE z.thrown # "none"
    <3>1. u = z
      BY <2>4, <2>12
    <3> QED BY <3>1, <2>10, <2>11
  <2>13. CASE z.thrown = "none"
    <3>1. u = ResultTaken(z, q)
      BY <2>4, <2>13
    <3>2. PInv(u) /\ Lasts(z, u) /\ (u.thrown = "none" => Done(u, q))
      BY <3>1, <2>10, <2>13, TakenKeeps
    <3> QED BY <3>2, <2>11, <1>1, LastsOn DEF PInv
  <2> QED BY <2>12, <2>13
<1> QED BY <1>2, <1>3

\* retain(): nothing depends on how many are to wait.
LEMMA RetainKeeps ==
  ASSUME NEW v, PInv(v), NEW n \in Retains
  PROVE  LET u == [v EXCEPT !.retain = n]
         IN  PInv(u) /\ Goes(v, u) /\ u.thrown = v.thrown
<1>1. PICK u : u = [v EXCEPT !.retain = n]
  OBVIOUS
<1>2. v \in Worlds
  BY DEF PInv
<1>3. u \in Worlds
  BY <1>1, <1>2 DEF Worlds
<1>4. /\ u.queries = v.queries /\ u.first = v.first /\ u.second = v.second /\ u.waiting = v.waiting
      /\ u.qid = v.qid /\ u.dummy = v.dummy /\ u.error = v.error /\ u.registered = v.registered
      /\ u.failed = v.failed /\ u.command = v.command /\ u.wire = v.wire /\ u.lost = v.lost
      /\ u.ran = v.ran /\ u.undone = v.undone /\ u.thrown = v.thrown
  BY <1>1, <1>2 DEF Worlds
<1>5. Issued(u) = Issued(v) /\ From(u, u.second) = From(v, v.second) /\ Body(u) = Body(v)
        /\ (Pending(u) <=> Pending(v))
  BY <1>4 DEF Issued, From, Body, Pending
<1>6. Places(u)
  BY <1>4, <1>5 DEF PInv, Places
<1>7. Found(u)
  BY <1>4 DEF PInv, Found, Done
<1>8. History(u)
  BY <1>4, <1>5 DEF PInv, History
<1>9. Wire(u)
  <2>1. Answering(Body(u), u)
    BY <1>4, <1>5 DEF PInv, Wire, Answering, Done
  <2>2. u.dummy => Failing(u)
    BY <1>4, <1>5 DEF PInv, Wire, Failing
  <2> QED BY <1>4, <1>5, <2>1, <2>2 DEF PInv, Wire
<1>10. Goes(v, u)
  <2>1. v.error \in Int /\ v.first \in Int
    BY <1>2, WorldIs, Bounds
  <2> QED BY <1>4, <2>1 DEF Goes
<1> QED BY <1>1, <1>3, <1>4, <1>6, <1>7, <1>8, <1>9, <1>10 DEF PInv

\* Another call on the transaction throws nothing away that the pipeline waits for.
LEMMA ElsewhereKeeps ==
  ASSUME NEW v, PInv(v), ~v.registered
  PROVE  LET u == [v EXCEPT !.command = FALSE, !.wire = <<>>]
         IN  PInv(u) /\ Lasts(v, u)
<1>1. PICK u, none : none = <<>> /\ u = [v EXCEPT !.command = FALSE, !.wire = none]
  OBVIOUS
<1>2. v \in Worlds /\ none \in Seq(Answers)
  <2>1. <<>> \in Seq(Answers)
    OBVIOUS
  <2> QED BY <2>1, <1>1 DEF PInv
<1>3. u \in Worlds
  BY <1>1, <1>2 DEF Worlds
<1>4. /\ u.queries = v.queries /\ u.first = v.first /\ u.second = v.second /\ u.waiting = v.waiting
      /\ u.qid = v.qid /\ u.dummy = v.dummy /\ u.error = v.error /\ u.registered = v.registered
      /\ u.failed = v.failed /\ u.command = FALSE /\ u.wire = none /\ u.lost = v.lost
      /\ u.ran = v.ran /\ u.undone = v.undone /\ u.thrown = v.thrown
  BY <1>1, <1>2 DEF Worlds
<1>5. ~Pending(v) /\ Issued(v) = {} /\ ~v.dummy
  <2>1. ~Pending(v)
    BY DEF PInv, Wire
  <2>2. Issued(v) = {}
    BY <2>1, IssuedIs DEF PInv
  <2> QED BY <2>1, <2>2 DEF PInv, Wire, Failing
<1>6. Issued(u) = {} /\ From(u, u.second) = From(v, v.second) /\ ~Pending(u)
  BY <1>4, <1>5 DEF Issued, From, Pending
<1>7. Body(u) = none /\ DOMAIN none = {} /\ Len(none) = 0
  BY <1>1, <1>4, <1>5 DEF Body
<1>8. Places(u)
  BY <1>4, <1>6 DEF PInv, Places
<1>9. Found(u)
  BY <1>4 DEF PInv, Found, Done
<1>10. History(u)
  BY <1>4, <1>6 DEF PInv, History
<1>11. Wire(u)
  <2>1. Answering(Body(u), u)
    BY <1>7 DEF Answering, InOrder, AllAnswered
  <2> QED BY <2>1, <1>1, <1>4, <1>5, <1>6 DEF PInv, Wire
<1>12. Lasts(v, u)
  <2>1. v.error \in Int /\ v.qid \in Int
    BY <1>2, WorldIs
  <2> QED BY <2>1, <1>4 DEF Lasts
<1> QED BY <1>1, <1>3, <1>8, <1>9, <1>10, <1>11, <1>12 DEF PInv

\* Some answers, then an error, are in order if all the answers were.
LEMMA CutIsInOrder ==
  ASSUME NEW b, NEW c \in Seq(Answers), NEW S, InOrder(b, S),
         \A k \in DOMAIN c : (k = Len(c) /\ c[k] = Failure) \/ (k \in DOMAIN b /\ c[k] = b[k])
  PROVE  InOrder(c, S)
<1>1. DOMAIN c = 1..Len(c) /\ Len(c) \in Nat
  OBVIOUS
<1>2. ASSUME NEW k \in DOMAIN c, NEW j \in 1..(k - 1)
      PROVE  j \in DOMAIN c /\ j < k /\ j \in DOMAIN b /\ c[j] = b[j]
  <2>1. PICK n : n = Len(c)
    OBVIOUS
  <2>2. k \in 1..n /\ n \in Nat /\ DOMAIN c = 1..n
    BY <2>1, <1>1
  <2>3. j \in 1..n /\ j < k /\ j # n
    BY <2>2
  <2> QED BY <2>1, <2>2, <2>3
<1>3. ASSUME NEW j \in DOMAIN c, NEW k \in DOMAIN c, j < k, c[j] = Failure
      PROVE  c[k] = Failure
  <2>1. j \in 1..(k - 1)
    BY <1>1, <1>3
  <2>2. j \in DOMAIN b /\ b[j] = Failure
    BY <2>1, <1>2, <1>3
  <2> QED BY <2>2, <1>3 DEF InOrder
<1>4. ASSUME NEW k \in DOMAIN c, c[k] # Failure
      PROVE  /\ c[k].ok /\ c[k].of \in S
             /\ \A j \in 1..(k - 1) : c[j].of < c[k].of
             /\ \A i \in S : i < c[k].of => \E j \in 1..(k - 1) : c[j].of = i
  <2>1. k \in DOMAIN b /\ c[k] = b[k] /\ \A j \in 1..(k - 1) : c[j] = b[j]
    BY <1>2, <1>4
  <2> QED BY <2>1, <1>4 DEF InOrder
<1> QED BY <1>3, <1>4 DEF InOrder

\* The connection is lost: what has arrived can be read, then one error.
LEMMA LostKeeps ==
  ASSUME NEW v, PInv(v), ~v.lost, NEW k \in 0..Len(v.wire)
  PROVE  LET u == [v EXCEPT !.lost = TRUE,
                            !.wire = IF v.command THEN SubSeq(@, 1, k) \o <<Failure>> ELSE <<>>]
         IN  PInv(u) /\ Lasts(v, u)
<1>1. PICK u, c, h, none :
        /\ none = <<>> /\ h = SubSeq(v.wire, 1, k)
        /\ c = (IF v.command THEN h \o <<Failure>> ELSE none)
        /\ u = [v EXCEPT !.lost = TRUE, !.wire = c]
  OBVIOUS
<1>2. v \in Worlds /\ v.wire \in Seq(Answers) /\ Len(v.wire) \in Nat /\ v.command \in BOOLEAN
        /\ DOMAIN v.wire = 1..Len(v.wire) /\ v.dummy \in BOOLEAN
  <2>1. v \in Worlds
    BY DEF PInv
  <2>2. v.wire \in Seq(Answers) /\ v.command \in BOOLEAN /\ v.dummy \in BOOLEAN
    BY <2>1, WorldIs
  <2> QED BY <2>1, <2>2
<1>3. /\ c \in Seq(Answers) /\ Len(c) \in Nat /\ DOMAIN c = 1..Len(c)
      /\ \A j \in DOMAIN c : \/ j = Len(c) /\ c[j] = Failure
                             \/ j \in DOMAIN v.wire /\ c[j] = v.wire[j]
      /\ v.command => Len(c) > 0
      /\ ~v.command => c = none
  <2>1. CASE ~v.command
    <3>1. c = <<>>
      BY <2>1, <1>1
    <3>2. c \in Seq(Answers) /\ Len(c) = 0 /\ DOMAIN c = {} /\ DOMAIN c = 1..Len(c)
      BY <3>1
    <3> QED BY <3>1, <3>2, <2>1, <1>1
  <2>2. CASE v.command
    <3>1. PICK e : e = <<Failure>>
      OBVIOUS
    <3>2. e \in Seq(Answers) /\ Len(e) = 1 /\ e[1] = Failure /\ 1 \in 1..Len(e)
      <4>1. Failure \in Answers
        BY DEF Answers
      <4> QED BY <4>1, <3>1
    <3>3. h \in Seq(Answers) /\ Len(h) = k /\ \A j \in 1..k : h[j] = v.wire[j]
      BY <1>1, <1>2
    <3>4. c = h \o e
      BY <3>1, <2>2, <1>1
    <3>5. /\ c \in Seq(Answers) /\ Len(c) = Len(h) + Len(e) /\ DOMAIN c = 1..(Len(h) + Len(e))
          /\ \A j \in 1..Len(h) : c[j] = h[j]
          /\ \A j \in 1..Len(e) : c[Len(h) + j] = e[j]
      <4>1. h \in Seq(Answers) /\ e \in Seq(Answers)
        BY <3>2, <3>3
      <4> QED BY ONLY <4>1, <3>4, ConcatIs
    <3>6. k \in Nat /\ Len(c) = k + 1 /\ c[k + 1] = Failure /\ \A j \in 1..k : c[j] = v.wire[j]
      BY <3>2, <3>3, <3>5
    <3>7. DOMAIN c = 1..(k + 1) /\ \A j \in DOMAIN c : j = k + 1 \/ j \in 1..k
      BY <3>2, <3>3, <3>5, <3>6
    <3>8. \A j \in 1..k : j \in DOMAIN v.wire
      BY <1>2
    <3> QED BY <3>5, <3>6, <3>7, <3>8, <2>2
  <2> QED BY <2>1, <2>2, <1>2
<1>4. u \in Worlds
  BY <1>1, <1>2, <1>3 DEF Worlds
<1>5. /\ u.queries = v.queries /\ u.first = v.first /\ u.second = v.second /\ u.waiting = v.waiting
      /\ u.qid = v.qid /\ u.dummy = v.dummy /\ u.error = v.error /\ u.registered = v.registered
      /\ u.failed = v.failed /\ u.command = v.command /\ u.wire = c /\ u.lost = TRUE
      /\ u.ran = v.ran /\ u.undone = v.undone /\ u.thrown = v.thrown
  BY <1>1, <1>2 DEF Worlds
<1>6. Issued(u) = Issued(v) /\ From(u, u.second) = From(v, v.second) /\ (Pending(u) <=> Pending(v))
  BY <1>5 DEF Issued, From, Pending
<1>7. Places(u)
  BY <1>5, <1>6 DEF PInv, Places
<1>8. Found(u)
  BY <1>5 DEF PInv, Found, Done
<1>9. History(u)
  BY <1>5, <1>6 DEF PInv, History
<1>10. ASSUME v.dummy
       PROVE  v.command /\ v.wire # <<>> /\ c # <<>>
  <2>1. Failing(v)
    BY <1>10 DEF PInv, Wire
  <2>2. Pending(v)
    BY <2>1, <1>2, IssuedIs DEF PInv, Failing
  <2>3. v.command
    BY <2>2 DEF PInv, Wire
  <2> QED BY <2>1, <2>3, <1>3 DEF Failing
<1>11. u.dummy => Failing(u)
  <2> SUFFICES ASSUME v.dummy PROVE Failing(u)
    BY <1>5
  <2>1. Failing(v)
    BY DEF PInv, Wire
  <2>2. Head(c) = c[1] /\ 1 \in DOMAIN c /\ Head(v.wire) = v.wire[1]
    BY <1>2, <1>3, <1>10
  <2>3. Head(c) \in {None, Failure}
    BY <2>1, <2>2, <1>3 DEF Failing
  <2> QED BY <2>1, <2>3, <1>5, <1>6, <1>10 DEF Failing
<1>12. Answering(Body(u), u)
  <2>1. PICK a, b : a = Body(v) /\ b = Body(u)
    OBVIOUS
  <2>2. Answering(a, v)
    BY <2>1 DEF PInv, Wire
  <2>3. /\ b \in Seq(Answers)
        /\ \A j \in DOMAIN b : (j = Len(b) /\ b[j] = Failure) \/ (j \in DOMAIN a /\ b[j] = a[j])
    <3>1. CASE ~v.dummy
      <4>1. a = v.wire /\ b = c
        BY <3>1, <2>1, <1>5 DEF Body
      <4> QED BY <4>1, <1>3
    <3>2. CASE v.dummy
      <4>1. a = Tail(v.wire) /\ b = Tail(c)
        BY <3>2, <2>1, <1>5 DEF Body
      <4>2. /\ b \in Seq(Answers) /\ Len(b) = Len(c) - 1 /\ DOMAIN b = 1..Len(b)
            /\ \A j \in DOMAIN b : j + 1 \in DOMAIN c /\ b[j] = c[j + 1]
        BY <3>2, <4>1, <1>3, <1>10
      <4>3. DOMAIN a = 1..(Len(v.wire) - 1) /\ \A j \in DOMAIN a : a[j] = v.wire[j + 1]
        BY <3>2, <4>1, <1>2, <1>10
      <4>4. ASSUME NEW j \in DOMAIN b
            PROVE  (j = Len(b) /\ b[j] = Failure) \/ (j \in DOMAIN a /\ b[j] = a[j])
        <5>1. CASE j + 1 = Len(c) /\ c[j + 1] = Failure
          BY <5>1, <4>2, <1>3
        <5>2. CASE j + 1 \in DOMAIN v.wire /\ c[j + 1] = v.wire[j + 1]
          <6>1. j \in DOMAIN a
            BY <5>2, <4>2, <4>3, <1>2
          <6> QED BY <5>2, <6>1, <4>2, <4>3
        <5> QED BY <5>1, <5>2, <4>2, <1>3
      <4> QED BY <4>2, <4>4
    <3> QED BY <3>1, <3>2, <1>2
  <2>4. InOrder(b, Issued(u))
    BY <2>2, <2>3, <1>6, CutIsInOrder DEF Answering
  <2>5. \A j \in DOMAIN b : b[j] # Failure => Done(u, b[j].of)
    BY <2>2, <2>3, <1>5 DEF Answering, Done
  <2> QED BY <2>1, <2>4, <2>5, <1>5 DEF Answering
<1>13. Wire(u)
  <2>1. ~u.command => u.wire = <<>>
    BY <1>1, <1>3, <1>5
  <2> QED BY <2>1, <1>5, <1>6, <1>11, <1>12 DEF PInv, Wire
<1>14. Lasts(v, u)
  <2>1. v.error \in Int /\ v.qid \in Int
    BY <1>2, WorldIs
  <2> QED BY <2>1, <1>5 DEF Lasts
<1> QED BY <1>1, <1>4, <1>7, <1>8, <1>9, <1>13, <1>14 DEF PInv
-----------------------------------------------------------------------------
(* The invariant and what follows from it *)

\* What a caller has been told of a query besides.
Sound ==
  /\ PInv(w) /\ Fates
  /\ told \in [1..MaxQ -> {"none", "ok", "failed", "refused"}]
  /\ \A q \in 1..MaxQ : told[q] = "ok" => Done(w, q)

\* A pipeline that has just been made.
LEMMA FreshIs ==
  ASSUME NEW k \in {"work", "non"}
  PROVE  PInv(Fresh(k))
<1>1. PICK v, none, nowire, noran : /\ v = Fresh(k) /\ none = <<>>
                                    /\ nowire = <<>> /\ noran = <<>>
  OBVIOUS
<1>2. none \in Maps /\ DOMAIN none = {}
  <2>1. DOMAIN none = {} /\ none \in [{} -> Answers]
    BY <1>1
  <2>2. {} \in SUBSET (1..MaxQ)
    OBVIOUS
  <2> QED BY <2>1, <2>2, MapIs
<1>3. nowire \in Seq(Answers) /\ noran \in Seq(1..MaxQ) /\ DOMAIN nowire = {} /\ DOMAIN noran = {}
        /\ Len(nowire) = 0
  <2>1. <<>> \in Seq(Answers) /\ <<>> \in Seq(1..MaxQ)
    OBVIOUS
  <2> QED BY <2>1, <1>1
<1>4. v = [queries |-> none, first |-> PastLast, second |-> PastLast, waiting |-> 0, retain |-> 0,
           qid |-> 0, dummy |-> FALSE, error |-> Limit, registered |-> TRUE,
           kind |-> k, failed |-> FALSE, command |-> FALSE, wire |-> nowire,
           lost |-> FALSE, ran |-> noran, undone |-> {}, thrown |-> "none"]
  BY <1>1 DEF Fresh
<1>5. v \in Worlds
  <2>1. PastLast \in 1..PastLast /\ 0 \in 0..MaxQ /\ Limit \in 0..Limit
    BY Bounds, PipeAssumption
  <2> QED BY <2>1, <1>2, <1>3, <1>4 DEF Worlds
<1>6. From(v, v.second) = {} /\ ~Pending(v) /\ Issued(v) = {} /\ Body(v) = nowire
  BY <1>2, <1>4 DEF From, Pending, Issued, Body
<1>7. Places(v)
  <2>1. Cardinality({}) = 0 /\ ~(Limit < Limit)
    BY FS_EmptySet, Bounds
  <2>2. /\ v.queries = none /\ v.first = PastLast /\ v.second = PastLast /\ v.waiting = 0
        /\ v.qid = 0 /\ v.error = Limit
    BY <1>4
  <2>3. DOMAIN v.queries \subseteq 1..v.qid /\ v.waiting <= v.qid
          /\ {v.first, v.second} \subseteq DOMAIN v.queries \cup {PastLast} /\ v.first <= v.second
    BY <2>2, <1>2, Bounds
  <2>4. v.waiting = Cardinality(From(v, v.second)) /\ ~(v.error < Limit) /\ v.error = Limit
    BY <2>1, <2>2, <1>6
  <2> QED BY <2>3, <2>4 DEF Places
<1>8. Found(v)
  BY <1>2, <1>4 DEF Found
<1>9. History(v)
  BY <1>3, <1>4 DEF History
<1>10. Wire(v)
  <2>1. Answering(Body(v), v)
    BY <1>3, <1>6 DEF Answering, InOrder, AllAnswered
  <2> QED BY <2>1, <1>1, <1>4, <1>6 DEF Wire
<1> QED BY <1>1, <1>5, <1>7, <1>8, <1>9, <1>10 DEF PInv

LEMMA SoundAtFirst == PipeInit => Sound
<1> SUFFICES ASSUME PipeInit PROVE Sound
  OBVIOUS
<1>1. PInv(w)
  BY FreshIs DEF PipeInit
<1>2. Fates /\ told \in [1..MaxQ -> {"none", "ok", "failed", "refused"}]
        /\ \A q \in 1..MaxQ : told[q] # "ok"
  BY DEF PipeInit, Fates
<1> QED BY <1>1, <1>2 DEF Sound

\* A call starts with no exception on its way.
LEMMA CalledIs ==
  ASSUME Sound
  PROVE  /\ PInv(Called) /\ Called.thrown = "none" /\ Lasts(w, Called)
         /\ w \in Worlds /\ Called \in Worlds
         /\ Called.queries = w.queries /\ Called.qid = w.qid /\ Called.registered = w.registered
         /\ Called.lost = w.lost /\ Called.wire = w.wire /\ Called.command = w.command
         /\ (Pending(Called) <=> Pending(w))
<1>1. PInv(w) /\ w \in Worlds
  BY DEF Sound, PInv
<1>2. Called = Throw(w, "none")
  BY DEF Called, Throw
<1>3. PInv(Called) /\ Goes(w, Called) /\ Called.thrown = "none"
  BY <1>1, <1>2, ThrowKeeps DEF Receives
<1>4. Lasts(w, Called)
  BY <1>1, <1>3, GoesLast
<1>5. /\ Called.queries = w.queries /\ Called.qid = w.qid /\ Called.registered = w.registered
      /\ Called.lost = w.lost /\ Called.wire = w.wire /\ Called.command = w.command
      /\ Called.first = w.first /\ Called.second = w.second
  BY <1>1 DEF Called, Worlds
<1> QED BY <1>1, <1>3, <1>4, <1>5 DEF Pending, PInv

\* What a call leaves as it should is so in the next state.
LEMMA SoundNext ==
  ASSUME Sound, NEW u, u = w', PInv(u), Lasts(Called, u), fate' = fate,
         told' \in [1..MaxQ -> {"none", "ok", "failed", "refused"}],
         \A q \in 1..MaxQ : told'[q] = "ok" => told[q] = "ok" \/ Done(u, q)
  PROVE  Sound' /\ Lasts(w, w')
<1>1. Lasts(w, u)
  BY CalledIs, LastsOn DEF PInv
<1>2. PInv(w)'
  BY DEF PInv, Places, Found, History, Wire, Failing, Answering, Done
<1>3. Fates'
  BY DEF Sound, Fates
<1>4. \A q \in 1..MaxQ : told'[q] = "ok" => Done(u, q)
  BY <1>1 DEF Sound, Done, Lasts
<1>5. \A q \in 1..MaxQ : told'[q] = "ok" => Done(w, q)'
  BY <1>4 DEF Done
<1>6. Sound'
  BY <1>2, <1>3, <1>5 DEF Sound
<1> QED BY <1>1, <1>6

LEMMA SoundKept ==
  ASSUME Sound, [PipeNext]_pipeVars, "cancel" \notin PipeHabits
  PROVE  Sound' /\ Lasts(w, w')
<1>1. PICK v, u : v = Called /\ u = w'
  OBVIOUS
<1>2. /\ PInv(v) /\ v.thrown = "none" /\ Fates /\ v \in Worlds /\ w \in Worlds
      /\ Lasts(w, v) /\ (Pending(v) <=> Pending(w))
      /\ v.queries = w.queries /\ v.qid = w.qid /\ v.registered = w.registered
      /\ v.lost = w.lost /\ v.wire = w.wire /\ v.command = w.command
  BY <1>1, CalledIs DEF Sound
<1>3. told \in [1..MaxQ -> {"none", "ok", "failed", "refused"}]
  BY DEF Sound
<1>4. ASSUME PInv(u), Lasts(v, u), UNCHANGED <<fate, told>>
      PROVE  Sound' /\ Lasts(w, w')
  BY <1>1, <1>3, <1>4, SoundNext
<1>5. CASE UNCHANGED pipeVars
  <2>1. w' = w /\ fate' = fate /\ told' = told
    BY <1>5 DEF pipeVars
  <2>2. Sound'
    BY <2>1 DEF Sound, PInv, Places, Found, History, Wire, Failing, Answering, Done, Fates
  <2>3. Lasts(w, w)
    BY <1>2, WorldIs, Bounds DEF Lasts
  <2> QED BY <2>1, <2>2, <2>3
<1>6. ASSUME NEW q \in 1..MaxQ, RetrieveQuery(q)
      PROVE  Sound' /\ Lasts(w, w')
  <2>1. q \in DOMAIN v.queries /\ u \in RetrieveResult(v, q) /\ fate' = fate
    BY <1>1, <1>2, <1>6 DEF RetrieveQuery
  <2>2. told' = [told EXCEPT ![q] =
                   IF q \notin DOMAIN u.queries THEN (IF u.thrown = "none" THEN "ok" ELSE "failed")
                   ELSE IF u.thrown = "refused" THEN "refused" ELSE @]
    BY <1>1, <1>6 DEF RetrieveQuery
  <2>3. /\ PInv(u) /\ Lasts(v, u)
        /\ q \notin DOMAIN u.queries /\ u.thrown = "none" => Done(u, q)
    BY <2>1, <1>2, RetrieveKeeps
  <2>4. told' \in [1..MaxQ -> {"none", "ok", "failed", "refused"}]
    BY <2>2, <1>3
  <2>5. \A i \in 1..MaxQ : told'[i] = "ok" => told[i] = "ok" \/ Done(u, i)
    BY <2>2, <2>3, <1>3
  <2> QED BY <2>1, <2>3, <2>4, <2>5, <1>1, SoundNext
<1>7. CASE Insert
  <2>1. v.qid < MaxQ /\ u \in InsertQuery(v) /\ UNCHANGED <<fate, told>>
    BY <1>1, <1>2, <1>7 DEF Insert
  <2>2. PInv(u) /\ Lasts(v, u)
    BY <2>1, <1>2, InsertKeeps
  <2> QED BY <2>1, <2>2, <1>4
<1>8. CASE CompletePipe
  <2>1. u \in CompleteAll(v) /\ UNCHANGED <<fate, told>>
    BY <1>1, <1>8 DEF CompletePipe
  <2>2. PInv(u) /\ Lasts(v, u)
    BY <2>1, <1>2, CompleteKeeps, GoesLast
  <2> QED BY <2>1, <2>2, <1>4
<1>9. CASE Flush
  <2>1. u \in FlushAll(v) /\ UNCHANGED <<fate, told>>
    BY <1>1, <1>9 DEF Flush
  <2>2. PInv(u) /\ Lasts(v, u)
    BY <2>1, <1>2, FlushKeeps
  <2> QED BY <2>1, <2>2, <1>4
<1>10. CASE Cancel
  <2>1. ~Pending(v) /\ u \in CancelAll(v) /\ UNCHANGED <<fate, told>>
    BY <1>1, <1>2, <1>10 DEF Cancel
  <2>2. u = v
    BY <2>1 DEF CancelAll
  <2>3. Lasts(v, v)
    BY <1>2, WorldIs, Bounds DEF Lasts
  <2> QED BY <2>1, <2>2, <2>3, <1>2, <1>4
<1>11. CASE Resume
  <2>1. u \in ResumeIssuing(v) /\ UNCHANGED <<fate, told>>
    BY <1>1, <1>11 DEF Resume
  <2>2. PInv(u) /\ Lasts(v, u)
    BY <2>1, <1>2, ResumeKeeps, GoesLast
  <2> QED BY <2>1, <2>2, <1>4
<1>12. ASSUME NEW n \in Retains, Retain(n)
       PROVE  Sound' /\ Lasts(w, w')
  <2>1. PICK x : x = [v EXCEPT !.retain = n]
    OBVIOUS
  <2>2. u \in (IF x.waiting >= n THEN ResumeIssuing(x) ELSE {x}) /\ UNCHANGED <<fate, told>>
    BY <2>1, <1>1, <1>12 DEF Retain
  <2>3. PInv(x) /\ Goes(v, x) /\ x.thrown = "none"
    BY <2>1, <1>2, RetainKeeps
  <2>4. PInv(u) /\ Goes(v, u)
    <3>1. CASE x.waiting >= n
      <4>1. PInv(u) /\ Goes(x, u)
        BY <3>1, <2>2, <2>3, <1>2, ResumeKeeps
      <4> QED BY <4>1, <2>3, <1>2, GoesOn DEF PInv
    <3>2. CASE ~(x.waiting >= n)
      BY <3>2, <2>2, <2>3
    <3> QED BY <3>1, <3>2
  <2>5. Lasts(v, u)
    BY <2>4, <1>2, GoesLast
  <2> QED BY <2>2, <2>4, <2>5, <1>4
<1>13. CASE ElsewhereExec
  <2>1. ~v.registered /\ u = [v EXCEPT !.command = FALSE, !.wire = <<>>] /\ UNCHANGED <<fate, told>>
    BY <1>1, <1>2, <1>13 DEF ElsewhereExec
  <2>2. PInv(u) /\ Lasts(v, u)
    BY <2>1, <1>2, ElsewhereKeeps
  <2> QED BY <2>1, <2>2, <1>4
<1>14. CASE Lose
  <2>1. PICK k \in 0..Len(w.wire) :
          w' = [Called EXCEPT !.lost = TRUE,
                              !.wire = IF w.command THEN SubSeq(@, 1, k) \o <<Failure>> ELSE <<>>]
    BY <1>14 DEF Lose
  <2>2. /\ k \in 0..Len(v.wire) /\ ~v.lost /\ UNCHANGED <<fate, told>>
        /\ u = [v EXCEPT !.lost = TRUE,
                         !.wire = IF v.command THEN SubSeq(@, 1, k) \o <<Failure>> ELSE <<>>]
    BY <2>1, <1>1, <1>2, <1>14 DEF Lose
  <2>3. PInv(u) /\ Lasts(v, u)
    BY <2>2, <1>2, LostKeeps
  <2> QED BY <2>2, <2>3, <1>4
<1> QED BY <1>5, <1>6, <1>7, <1>8, <1>9, <1>10, <1>11, <1>12, <1>13, <1>14 DEF PipeNext

\* However the pipeline is used, but for going on with it after cancel().
THEOREM AlwaysSound ==
  ASSUME "cancel" \notin PipeHabits
  PROVE  PipeSpec => []Sound
<1>1. PipeInit => Sound
  BY SoundAtFirst
<1>2. Sound /\ [PipeNext]_pipeVars => Sound'
  BY SoundKept
<1> QED BY <1>1, <1>2, PTL DEF PipeSpec

\* PipeTypeOK: every call leaves the pipeline in one of the states it may be in.
THEOREM AlwaysPiped ==
  ASSUME "cancel" \notin PipeHabits
  PROVE  PipeSpec => []PipeTypeOK
<1>1. Sound => PipeTypeOK
  BY DEF Sound, PInv, Fates, PipeTypeOK
<1> QED BY <1>1, AlwaysSound, PTL

\* ResultsMatch: what is told of a query is its own result, there is one for each that is
\* said to be finished, and answers and queries are never out of step (obtain_result(),
\* obtain_dummy(), receive(), retrieve()).
THEOREM AlwaysMatched ==
  ASSUME "cancel" \notin PipeHabits
  PROVE  PipeSpec => []ResultsMatch
<1>1. ASSUME Sound
      PROVE  ResultsMatch
  <2>1. w \in Worlds /\ Places(w) /\ Found(w) /\ Wire(w)
    BY <1>1 DEF Sound, PInv
  <2>2. ToldTrue
    BY <1>1 DEF Sound, ToldTrue, Done
  <2>3. FinishedHasResult
    <3>1. \A q \in DOMAIN w.queries : q \in 1..MaxQ
      BY <2>1, WorldIs
    <3>2. \A q \in DOMAIN w.queries : q < PastLast
      BY <3>1, PipeAssumption DEF PastLast
    <3> QED BY <3>2, <2>1 DEF FinishedHasResult, IsFinished, Found
  <2>4. PendingIsFocus
    BY <2>1 DEF PendingIsFocus, Wire
  <2>5. IteratorsValid
    BY <2>1 DEF IteratorsValid, Places
  <2>6. AnswersAddUp
    BY <2>1 DEF AnswersAddUp, Wire
  <2> QED BY <2>2, <2>3, <2>4, <2>5, <2>6 DEF ResultsMatch
<1> QED BY <1>1, AlwaysSound, PTL

\* QueriesDone: the server runs each query at most once and in the order of insertion, and
\* when all have been retrieved all have been done (issue(), obtain_dummy()).
THEOREM AlwaysDone ==
  ASSUME "cancel" \notin PipeHabits
  PROVE  PipeSpec => []QueriesDone
<1>1. ASSUME Sound
      PROVE  QueriesDone
  <2>1. PInv(w) /\ w \in Worlds /\ History(w)
    BY <1>1 DEF Sound, PInv
  <2>2. RunInOrder
    BY <2>1 DEF RunInOrder, History
  <2>3. AllRetrievedMeansDone
    <3> SUFFICES ASSUME \A q \in 1..w.qid : told[q] = "ok"
                 PROVE  /\ ToSet(w.ran) = 1..w.qid /\ w.undone = {}
                        /\ w.kind = "work" => ~w.failed
      BY DEF AllRetrievedMeansDone
    <3>1. \A q \in 1..w.qid : q \in 1..MaxQ
      <4>1. w.qid \in 0..MaxQ
        BY <2>1, WorldIs
      <4> QED BY <4>1, PipeAssumption
    <3>2. \A q \in 1..w.qid : Done(w, q)
      BY <3>1, <1>1 DEF Sound
    <3>3. \A i \in DOMAIN w.ran : w.ran[i] \in 1..w.qid
      <4>1. \A i \in DOMAIN w.ran : w.ran[i] \in 1..MaxQ /\ w.ran[i] <= w.qid
        BY <2>1, WorldIs DEF History
      <4>2. w.qid \in Nat
        BY <2>1, WorldIs
      <4> QED BY <4>1, <4>2, PipeAssumption
    <3>4. ToSet(w.ran) = 1..w.qid
      BY <3>2, <3>3 DEF Done, ToSet
    <3>5. ~w.failed /\ w.undone = {}
      BY <3>2, <2>1 DEF Done, History
    <3> QED BY <3>4, <3>5
  <2> QED BY <2>2, <2>3 DEF QueriesDone
<1> QED BY <1>1, AlwaysSound, PTL

\* NothingBeyondError: once a query is known to have failed no call, of whatever kind, has
\* the server run it or one after it (set_error_at(), issue()).
THEOREM NeverBeyondError ==
  ASSUME "cancel" \notin PipeHabits
  PROVE  PipeSpec => NothingBeyondError
<1>1. ASSUME Sound, Sound', Lasts(w, w')
      PROVE  \A i \in DOMAIN w'.ran \ DOMAIN w.ran : w'.ran[i] < w.error
  <2>1. w \in Worlds /\ w' \in Worlds
    BY <1>1 DEF Sound, PInv
  <2>2. w.error \in 0..Limit
    BY <2>1, WorldIs
  <2>3. CASE w.error < Limit
    BY <2>3, <1>1 DEF Lasts
  <2>4. CASE w.error = Limit
    <3>1. \A i \in DOMAIN w'.ran : w'.ran[i] \in 1..MaxQ
      BY <2>1, WorldIs
    <3> QED BY <3>1, <2>4, PipeAssumption DEF Limit
  <2> QED BY <2>2, <2>3, <2>4, Bounds
<1>2. Sound /\ Sound' /\ [PipeNext]_pipeVars =>
        [\A i \in DOMAIN w'.ran \ DOMAIN w.ran : w'.ran[i] < w.error]_pipeVars
  BY <1>1, SoundKept
<1> QED BY <1>2, AlwaysSound, PTL DEF PipeSpec, NothingBeyondError
=============================================================================
