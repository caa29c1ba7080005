------------------------------ MODULE Induction ------------------------------
(***************************************************************************)
(* Induction over positions and over sequences, stated of sets and         *)
(* functions so that a proof can cite it for its own: what a loop of the   *)
(* models computes is a recursive function on 0..n, and what holds of it   *)
(* is a set of positions.  After it, what FlattenSeq makes of sequences,   *)
(* and what a text read character by character leads to.                   *)
(***************************************************************************)
EXTENDS Naturals, SequencesExt, SequenceTheorems, WellFoundedInduction, TLAPS

\* A set of naturals has a least element.
LEMMA LeastNumber ==
  ASSUME NEW T \in SUBSET Nat, T # {}
  PROVE  \E x \in T : \A y \in T : x <= y
<1>1. PICK R : R = OpToRel(<, Nat)
  OBVIOUS
<1>2. \A x, y \in Nat : <<x, y>> \in R <=> x < y
  BY <1>1 DEF OpToRel
<1>3. IsWellFoundedOn(R, Nat)
  BY <1>1, NatLessThanWellFounded, Zenon
<1>4. \E x \in T : \A y \in T : ~(<<y, x>> \in R)
  BY <1>3, WFMin, Zenon
<1>5. PICK x \in T : \A y \in T : ~(<<y, x>> \in R)
  BY <1>4
<1>6. \A y \in T : x <= y
  <2> TAKE y \in T
  <2>1. x \in Nat /\ y \in Nat
    OBVIOUS
  <2>2. ~(y < x)
    BY <2>1, <1>2, <1>5
  <2> QED BY <2>1, <2>2
<1> QED BY <1>6

\* What holds at 0 and, where it holds before a position, at that position, holds
\* at all of them.
LEMMA ByPositions ==
  ASSUME NEW n \in Nat, NEW T, 0 \in T, \A i \in 1..n : i - 1 \in T => i \in T
  PROVE  0..n \subseteq T
<1>1. SUFFICES ASSUME (0..n) \ T # {} PROVE FALSE
  OBVIOUS
<1>2. (0..n) \ T \in SUBSET Nat
  OBVIOUS
<1>3. PICK x \in (0..n) \ T : \A y \in (0..n) \ T : x <= y
  <2>1. PICK S : S = (0..n) \ T
    OBVIOUS
  <2>2. S \in SUBSET Nat /\ S # {}
    BY <1>1, <1>2, <2>1
  <2>3. \E x \in S : \A y \in S : x <= y
    BY <2>2, LeastNumber
  <2> QED BY <2>1, <2>3
<1>4. x \in 1..n /\ x - 1 \in 0..n /\ ~ (x <= x - 1)
  BY <1>3
<1>5. x - 1 \in T
  BY <1>3, <1>4
<1> QED BY <1>3, <1>4, <1>5

\* f is the value start, passed on from position to position by a step of each.
Passes(f, n, start, step) == f[0] = start /\ \A i \in 1..n : f[i] = step[i][f[i - 1]]

\* Whatever the steps, there is such a function.
LEMMA Passing ==
  ASSUME NEW n \in Nat, NEW X, NEW start \in X, NEW step \in [1..n -> [X -> X]]
  PROVE  \E f \in [0..n -> X] : Passes(f, n, start, step)
<1>1. PICK T : T = {m \in 0..n : \E f \in [0..m -> X] : Passes(f, m, start, step)}
  OBVIOUS
<1>2. 0 \in T
  <2>1. PICK f : f = [i \in 0..0 |-> start]
    OBVIOUS
  <2>2. f \in [0..0 -> X] /\ Passes(f, 0, start, step)
    BY <2>1 DEF Passes
  <2> QED BY <2>2, <1>1
<1>3. ASSUME NEW m \in 1..n, m - 1 \in T
      PROVE  m \in T
  <2>1. PICK f \in [0..(m - 1) -> X] : Passes(f, m - 1, start, step)
    BY <1>1, <1>3
  <2>2. PICK g : g = [i \in 0..m |-> IF i = m THEN step[m][f[m - 1]] ELSE f[i]]
    OBVIOUS
  <2>3. \A i \in 0..m : i # m => i \in 0..(m - 1)
    OBVIOUS
  <2>4. g \in [0..m -> X]
    <3>1. m - 1 \in 0..(m - 1)
      OBVIOUS
    <3> QED BY <3>1, <2>2, <2>3
  <2>5. Passes(g, m, start, step)
    <3>1. 0 \in 0..m /\ 0 # m
      OBVIOUS
    <3>2. g[0] = start
      BY <3>1, <2>1, <2>2 DEF Passes
    <3>3. ASSUME NEW i \in 1..m
          PROVE  g[i] = step[i][g[i - 1]]
      <4>1. i \in 0..m /\ i - 1 \in 0..m /\ i - 1 # m
        OBVIOUS
      <4>2. g[i - 1] = f[i - 1]
        BY <4>1, <2>2
      <4>3. CASE i = m
        BY <4>1, <4>2, <4>3, <2>2
      <4>4. CASE i # m
        <5>1. i \in 1..(m - 1)
          BY <4>4
        <5>2. g[i] = f[i]
          BY <4>1, <4>4, <2>2
        <5> QED BY <4>2, <5>1, <5>2, <2>1 DEF Passes
      <4> QED BY <4>3, <4>4
    <3> QED BY <3>2, <3>3 DEF Passes
  <2>6. m \in 0..n
    OBVIOUS
  <2> QED BY <2>4, <2>5, <2>6, <1>1
<1>4. n \in T
  <2>1. 0..n \subseteq T
    BY <1>2, <1>3, ByPositions
  <2> QED BY <2>1
<1> QED BY <1>1, <1>4

\* F says of each place what a function has there, and looks for it only at places of
\* a lower rank.
OnlyBelow(P, X, rank, F) ==
  /\ F \in [P -> [[P -> X] -> X]]
  /\ \A i \in P, g, h \in [P -> X] :
       (\A j \in P : rank[j] < rank[i] => g[j] = h[j]) => F[i][g] = F[i][h]

\* A function may be defined by what it is itself at lower places.
LEMMA ByRank ==
  ASSUME NEW n \in Nat, NEW P, NEW X, NEW x \in X, NEW rank \in [P -> 0..n], NEW F,
         OnlyBelow(P, X, rank, F)
  PROVE  \E f \in [P -> X] : \A i \in P : f[i] = F[i][f]
<1>1. PICK T : T = {m \in 0..(n + 1) : \E f \in [P -> X] : \A i \in P : rank[i] < m => f[i] = F[i][f]}
  OBVIOUS
<1>2. 0 \in T
  <2>1. PICK f : f = [i \in P |-> x]
    OBVIOUS
  <2>2. f \in [P -> X] /\ 0 \in 0..(n + 1) /\ \A i \in P : ~ (rank[i] < 0)
    BY <2>1
  <2> QED BY <2>2, <1>1
<1>3. ASSUME NEW k \in 1..(n + 1), k - 1 \in T
      PROVE  k \in T
  <2>1. PICK m, f : /\ m = k - 1 /\ f \in [P -> X]
                    /\ \A i \in P : rank[i] < m => f[i] = F[i][f]
    BY <1>1, <1>3
  <2>2. PICK g : g = [i \in P |-> IF rank[i] = m THEN F[i][f] ELSE f[i]]
    OBVIOUS
  <2>3. g \in [P -> X]
    BY <2>1, <2>2 DEF OnlyBelow
  <2>4. \A i \in P : rank[i] < k => F[i][g] = F[i][f]
    <3>1. \A i, j \in P : rank[i] < k /\ rank[j] < rank[i] => rank[j] # m
      BY <2>1
    <3>2. \A i, j \in P : rank[i] < k /\ rank[j] < rank[i] => g[j] = f[j]
      BY <3>1, <2>2
    <3> QED BY <3>2, <2>1, <2>3 DEF OnlyBelow
  <2>5. \A i \in P : rank[i] < k => g[i] = F[i][f]
    <3>1. \A i \in P : rank[i] < k /\ rank[i] # m => rank[i] < m
      BY <2>1
    <3> QED BY <3>1, <2>1, <2>2
  <2> QED BY <2>3, <2>4, <2>5, <1>1
<1>4. 0..(n + 1) \subseteq T
  BY <1>2, <1>3, ByPositions
<1>5. n + 1 \in T /\ \A i \in P : rank[i] < n + 1
  BY <1>4
<1> QED BY <1>1, <1>5

\* f reads n places from the end: at each it goes on from the place it jumps to, which is
\* behind it, or 0.
Jumps(f, n, ends, jump, step) ==
  \A i \in 0..(n + 1) : f[i] = IF i \in 1..n THEN step[i][f[jump[i]]] ELSE ends[i]

\* Wherever it jumps to, there is such a function.
LEMMA Jumping ==
  ASSUME NEW n \in Nat, NEW X, NEW ends \in [0..(n + 1) -> X], NEW jump \in [1..n -> 0..(n + 1)],
         NEW step \in [1..n -> [X -> X]], \A i \in 1..n : jump[i] = 0 \/ jump[i] > i
  PROVE  \E f \in [0..(n + 1) -> X] : Jumps(f, n, ends, jump, step)
<1>1. PICK P, rank : P = 0..(n + 1) /\ rank = [i \in P |-> IF i = 0 THEN 0 ELSE n + 1 - i]
  OBVIOUS
<1>2. PICK F : F = [i \in P |-> [g \in [P -> X] |->
                      IF i \in 1..n THEN step[i][g[jump[i]]] ELSE ends[i]]]
  OBVIOUS
<1>3. rank \in [P -> 0..(n + 1)]
  BY <1>1
<1>4. \A i \in 1..n : i \in P /\ jump[i] \in P /\ rank[jump[i]] < rank[i]
  BY <1>1
<1>5. OnlyBelow(P, X, rank, F)
  <2>1. \A i \in P, g \in [P -> X] : (IF i \in 1..n THEN step[i][g[jump[i]]] ELSE ends[i]) \in X
    BY <1>1, <1>4
  <2>2. F \in [P -> [[P -> X] -> X]]
    BY <1>2, <2>1
  <2>3. \A i \in P, g, h \in [P -> X] :
          (\A j \in P : rank[j] < rank[i] => g[j] = h[j]) => F[i][g] = F[i][h]
    BY <1>2, <1>4
  <2> QED BY <2>2, <2>3 DEF OnlyBelow
<1>6. 0 \in P /\ ends[0] \in X /\ n + 1 \in Nat
  BY <1>1
<1>7. PICK f \in [P -> X] : \A i \in P : f[i] = F[i][f]
  BY <1>3, <1>5, <1>6, ByRank
<1>8. \A i \in P : f[i] = IF i \in 1..n THEN step[i][f[jump[i]]] ELSE ends[i]
  BY <1>2, <1>7
<1> QED BY <1>1, <1>7, <1>8 DEF Jumps

\* What holds of a place whenever it holds of all the lower ones holds everywhere.
LEMMA AllByRank ==
  ASSUME NEW n \in Nat, NEW P, NEW rank \in [P -> 0..n], NEW T,
         \A i \in P : (\A j \in P : rank[j] < rank[i] => j \in T) => i \in T
  PROVE  P \subseteq T
<1>1. PICK M : M = {m \in 0..(n + 1) : \A i \in P : rank[i] < m => i \in T}
  OBVIOUS
<1>2. 0 \in M
  <2>1. 0 \in 0..(n + 1) /\ \A i \in P : ~ (rank[i] < 0)
    OBVIOUS
  <2> QED BY <2>1, <1>1
<1>3. ASSUME NEW k \in 1..(n + 1), k - 1 \in M
      PROVE  k \in M
  <2>1. \A i, j \in P : rank[i] < k /\ rank[j] < rank[i] => rank[j] < k - 1
    OBVIOUS
  <2>2. k \in 0..(n + 1) /\ \A j \in P : rank[j] < k - 1 => j \in T
    BY <1>1, <1>3
  <2> QED BY <2>1, <2>2, <1>1
<1>4. 0..(n + 1) \subseteq M
  BY <1>2, <1>3, ByPositions
<1>5. n + 1 \in M /\ \A i \in P : rank[i] < n + 1
  BY <1>4
<1> QED BY <1>1, <1>5

\* So may it where the ranks have no bound.
LEMMA ByAnyRank ==
  ASSUME NEW P, NEW X, NEW x \in X, NEW rank \in [P -> Nat], NEW F, OnlyBelow(P, X, rank, F)
  PROVE  \E f \in [P -> X] : \A i \in P : f[i] = F[i][f]
<1> DEFINE Good(f, m) == f \in [P -> X] /\ \A i \in P : rank[i] < m => f[i] = F[i][f]
<1>1. ASSUME NEW k \in Nat PROVE \E f : Good(f, k)
  <2>1. PICK T : T = {m \in Nat : \E f : Good(f, m)}
    OBVIOUS
  <2>2. 0 \in T
    <3>1. PICK f : f = [i \in P |-> x]
      OBVIOUS
    <3>2. f \in [P -> X] /\ 0 \in Nat /\ \A i \in P : ~ (rank[i] < 0)
      BY <3>1
    <3> QED BY <3>2, <2>1
  <2>3. ASSUME NEW l \in 1..k, l - 1 \in T
        PROVE  l \in T
    <3>1. PICK m, f : m = l - 1 /\ Good(f, m)
      BY <2>1, <2>3
    <3>2. PICK g : g = [i \in P |-> IF rank[i] = m THEN F[i][f] ELSE f[i]]
      OBVIOUS
    <3>3. g \in [P -> X]
      BY <3>1, <3>2 DEF OnlyBelow
    <3>4. \A i \in P : rank[i] < l => F[i][g] = F[i][f]
      <4>1. \A i, j \in P : rank[i] < l /\ rank[j] < rank[i] => rank[j] # m
        BY <3>1
      <4>2. \A i, j \in P : rank[i] < l /\ rank[j] < rank[i] => g[j] = f[j]
        BY <4>1, <3>2
      <4> QED BY <4>2, <3>1, <3>3 DEF OnlyBelow
    <3>5. \A i \in P : rank[i] < l => g[i] = F[i][f]
      <4>1. \A i \in P : rank[i] < l /\ rank[i] # m => rank[i] < m
        BY <3>1
      <4> QED BY <4>1, <3>1, <3>2
    <3>6. l \in Nat
      OBVIOUS
    <3> QED BY <3>3, <3>4, <3>5, <3>6, <2>1
  <2>4. 0..k \subseteq T
    BY <2>2, <2>3, ByPositions
  <2> QED BY <2>1, <2>4
<1>2. PICK g : g = [m \in Nat |-> CHOOSE f : Good(f, m)]
  OBVIOUS
<1>3. \A m \in Nat : Good(g[m], m)
  <2> HIDE DEF Good
  <2> QED BY <1>1, <1>2
<1>4. \A i \in P : \A m, k \in Nat : rank[i] < m /\ rank[i] < k => g[m][i] = g[k][i]
  <2>1. PICK T : T = {i \in P : \A m, k \in Nat : rank[i] < m /\ rank[i] < k => g[m][i] = g[k][i]}
    OBVIOUS
  <2>2. ASSUME NEW i \in P PROVE i \in T
    <3>0. PICK n \in Nat : n = rank[i] + 1
      OBVIOUS
    <3>1. PICK M : M = {r \in 0..n : \A j \in P : rank[j] < r => j \in T}
      OBVIOUS
    <3>2. 0 \in M
      <4>1. 0 \in 0..n /\ \A j \in P : ~ (rank[j] < 0)
        OBVIOUS
      <4> QED BY <4>1, <3>1
    <3>3. ASSUME NEW r \in 1..n, r - 1 \in M PROVE r \in M
      <4>1. ASSUME NEW j \in P, rank[j] < r PROVE j \in T
        <5>1. \A h \in P : rank[h] < rank[j] => h \in T
          BY <3>1, <3>3, <4>1
        <5>2. ASSUME NEW m \in Nat, NEW k \in Nat, rank[j] < m, rank[j] < k
              PROVE  g[m][j] = g[k][j]
          <6>1. \A h \in P : rank[h] < rank[j] => rank[h] < m /\ rank[h] < k
            BY <5>2
          <6>2. \A h \in P : rank[h] < rank[j] => g[m][h] = g[k][h]
            BY <6>1, <5>1, <2>1
          <6>3. g[m] \in [P -> X] /\ g[k] \in [P -> X] /\ g[m][j] = F[j][g[m]] /\ g[k][j] = F[j][g[k]]
            BY <1>3, <5>2
          <6>4. F[j][g[m]] = F[j][g[k]]
            BY <6>2, <6>3 DEF OnlyBelow
          <6> QED BY <6>3, <6>4
        <5> QED BY <5>2, <2>1
      <4>2. r \in 0..n
        BY <3>1
      <4> QED BY <4>1, <4>2, <3>1
    <3>4. 0..n \subseteq M
      BY <3>2, <3>3, ByPositions
    <3>5. n \in M /\ rank[i] < n
      BY <3>0, <3>4
    <3> QED BY <3>1, <3>5
  <2> QED BY <2>1, <2>2
<1>5. PICK f : f = [i \in P |-> g[rank[i] + 1][i]]
  OBVIOUS
<1>6. f \in [P -> X]
  <2>1. \A i \in P : rank[i] + 1 \in Nat
    OBVIOUS
  <2>2. \A m \in Nat : g[m] \in [P -> X]
    BY <1>3
  <2> QED BY <2>1, <2>2, <1>5
<1>7. ASSUME NEW i \in P PROVE f[i] = F[i][f]
  <2>1. PICK m \in Nat : m = rank[i] + 1
    OBVIOUS
  <2>2. rank[i] < m /\ \A j \in P : rank[j] < rank[i] => rank[j] + 1 \in Nat /\ rank[j] < rank[j] + 1 /\ rank[j] < m
    BY <2>1
  <2>3. \A j \in P : rank[j] < rank[i] => g[m][j] = f[j]
    BY <2>2, <1>4, <1>5
  <2>4. g[m] \in [P -> X] /\ g[m][i] = F[i][g[m]] /\ f[i] = g[m][i]
    BY <1>3, <1>5, <2>1, <2>2
  <2>5. F[i][g[m]] = F[i][f]
    BY <2>3, <2>4, <1>6 DEF OnlyBelow
  <2> QED BY <2>4, <2>5
<1> QED BY <1>6, <1>7

\* What holds of a number whenever it holds of all the lower ones holds of all.
LEMMA AllBelow ==
  ASSUME NEW T, \A n \in Nat : (\A m \in Nat : m < n => m \in T) => n \in T
  PROVE  Nat \subseteq T
<1> SUFFICES ASSUME NEW k \in Nat PROVE k \in T
  OBVIOUS
<1>1. PICK rank, P : P = 0..k /\ rank = [i \in P |-> i]
  OBVIOUS
<1>2. rank \in [P -> 0..k]
  BY <1>1
<1>3. \A i \in P : (\A j \in P : rank[j] < rank[i] => j \in T) => i \in T
  <2> SUFFICES ASSUME NEW i \in P, \A j \in P : rank[j] < rank[i] => j \in T PROVE i \in T
    OBVIOUS
  <2>1. i \in Nat /\ \A m \in Nat : m < i => m \in P /\ rank[m] < rank[i]
    BY <1>1
  <2> QED BY <2>1
<1>4. P \subseteq T
  BY <1>2, <1>3, AllByRank
<1> QED BY <1>1, <1>4

\* What holds behind the last place and, where it holds of all that is behind a place, of
\* that place, holds of all of them.
LEMMA FromTheEnd ==
  ASSUME NEW n \in Nat, NEW T, n + 1 \in T,
         \A i \in 1..n : (\A j \in (i + 1)..(n + 1) : j \in T) => i \in T
  PROVE  1..(n + 1) \subseteq T
<1>1. PICK P, rank : P = 1..(n + 1) /\ rank = [i \in P |-> n + 1 - i]
  OBVIOUS
<1>2. rank \in [P -> 0..n]
  BY <1>1
<1>3. ASSUME NEW i \in P, \A j \in P : rank[j] < rank[i] => j \in T
      PROVE  i \in T
  <2>1. CASE i \in 1..n
    <3>1. \A j \in (i + 1)..(n + 1) : j \in P /\ rank[j] < rank[i]
      BY <1>1, <2>1
    <3> QED BY <1>3, <2>1, <3>1
  <2>2. CASE i \notin 1..n
    BY <1>1, <2>2
  <2> QED BY <2>1, <2>2
<1>4. P \subseteq T
  BY <1>2, <1>3, AllByRank
<1> QED BY <1>1, <1>4

\* What holds of the empty sequence and, where it holds of a sequence, of that sequence
\* with one more element at its end, holds of all.
LEMMA BySequences ==
  ASSUME NEW S, NEW T, <<>> \in T,
         \A s \in Seq(S), e \in S : s \in T => Append(s, e) \in T
  PROVE  Seq(S) \subseteq T
<1>1. SUFFICES ASSUME NEW s \in Seq(S)
               PROVE  s \in T
  OBVIOUS
<1>2. PICK n : n = Len(s) /\ n \in Nat
  OBVIOUS
<1>3. PICK R : R = {i \in 0..n : SubSeq(s, 1, i) \in T}
  OBVIOUS
<1>4. 0 \in R
  <2>1. SubSeq(s, 1, 0) = <<>>
    BY SubSeqEmpty
  <2>2. 0 \in 0..n
    BY <1>2
  <2>3. SubSeq(s, 1, 0) \in T
    BY <2>1, Zenon
  <2> QED BY <2>2, <2>3, <1>3, Zenon
<1>5. ASSUME NEW i \in 1..n, i - 1 \in R
      PROVE  i \in R
  <2>1. i \in 1..Len(s) /\ 1 \in 1..Len(s) /\ i - 1 \in Int
    BY <1>2
  <2>2. SubSeq(s, 1, i) = SubSeq(s, 1, i - 1) \o <<s[i]>>
    BY <2>1, SubSeqRecursiveSecond
  <2>3. SubSeq(s, 1, i - 1) \in Seq(S) /\ s[i] \in S
    BY <2>1
  <2>4. SubSeq(s, 1, i) = Append(SubSeq(s, 1, i - 1), s[i])
    BY <2>2, <2>3, AppendIsConcat
  <2>5. SubSeq(s, 1, i - 1) \in T
    BY <1>3, <1>5
  <2>6. SubSeq(s, 1, i) \in T
    BY <2>3, <2>4, <2>5
  <2> QED BY <2>1, <2>6, <1>2, <1>3
<1>6. 0..n \subseteq R
  BY <1>2, <1>4, <1>5, ByPositions
<1>7. SubSeq(s, 1, n) \in T
  BY <1>2, <1>3, <1>6
<1> QED BY <1>2, <1>7, SubSeqFull

\* Concatenating many is concatenating one after the other.
Concats(f, ss) == f[0] = <<>> /\ \A i \in 1..Len(ss) : f[i] = f[i - 1] \o ss[i]

LEMMA FlattenIs ==
  ASSUME NEW S, NEW ss \in Seq(Seq(S))
  PROVE  \E f \in [0..Len(ss) -> Seq(S)] : Concats(f, ss) /\ FlattenSeq(ss) = f[Len(ss)]
<1>1. PICK n, none : n = Len(ss) /\ none = <<>>
  OBVIOUS
<1>2. n \in Nat /\ none \in Seq(S) /\ \A i \in 1..n : ss[i] \in Seq(S)
  BY <1>1
<1>3. \A i \in 1..n, t \in Seq(S) : t \o ss[i] \in Seq(S)
  BY <1>2, ConcatProperties
<1>4. PICK step : step = [i \in 1..n |-> [t \in Seq(S) |-> t \o ss[i]]]
  OBVIOUS
<1>5. step \in [1..n -> [Seq(S) -> Seq(S)]]
  BY <1>3, <1>4
<1>6. PICK f \in [0..n -> Seq(S)] : Passes(f, n, none, step)
  <2>1. PICK X : X = Seq(S)
    OBVIOUS
  <2>2. none \in X /\ step \in [1..n -> [X -> X]]
    BY <1>2, <1>5, <2>1
  <2>3. \E f \in [0..n -> X] : Passes(f, n, none, step)
    BY <1>2, <2>2, Passing
  <2> QED BY <2>1, <2>3
<1>7. f[0] = none /\ \A i \in 1..n : f[i - 1] \in Seq(S) /\ f[i] = f[i - 1] \o ss[i]
  <2>1. \A i \in 1..n : i - 1 \in 0..n
    BY <1>2
  <2> QED BY <2>1, <1>4, <1>6 DEF Passes
<1>8. FlattenSeq(ss) = f[n]
  <2>1. CASE n = 0
    BY <2>1, <1>1, <1>2, <1>7 DEF FlattenSeq
  <2>2. CASE n > 0
    <3> DEFINE flatten[i \in 1..Len(ss)] == IF i = 1 THEN ss[i] ELSE flatten[i - 1] \o ss[i]
    <3>1. PICK h : h = [i \in 1..n |-> f[i]]
      OBVIOUS
    <3>2. \A i \in 1..n : h[i] = IF i = 1 THEN ss[i] ELSE h[i - 1] \o ss[i]
      <4>1. ASSUME NEW i \in 1..n, i # 1
            PROVE  h[i] = h[i - 1] \o ss[i]
        <5>1. i - 1 \in 1..n
          BY <4>1, <1>2
        <5> QED BY <5>1, <3>1, <1>7
      <4>2. h[1] = ss[1]
        <5>1. 1 \in 1..n /\ 1 - 1 = 0
          BY <2>2, <1>2
        <5>2. f[1] = f[1 - 1] \o ss[1] /\ ss[1] \in Seq(S)
          BY <5>1, <1>2, <1>7, Zenon
        <5>3. f[1] = none \o ss[1]
          BY <5>1, <5>2, <1>7, Zenon
        <5>4. none \o ss[1] = ss[1]
          BY <5>2, <1>1, ConcatEmptySeq
        <5> QED BY <5>1, <5>3, <5>4, <3>1
      <4> QED BY <4>1, <4>2
    <3>3. h = [i \in 1..n |-> IF i = 1 THEN ss[i] ELSE h[i - 1] \o ss[i]]
      BY <3>1, <3>2
    <3>4. flatten = [i \in 1..n |-> IF i = 1 THEN ss[i] ELSE flatten[i - 1] \o ss[i]]
      BY <3>3, <1>1
    <3>5. FlattenSeq(ss) = flatten[n]
      BY <2>2, <1>1, <1>2 DEF FlattenSeq
    <3> HIDE DEF flatten
    <3>6. PICK T : T = {i \in 0..n : i = 0 \/ flatten[i] = f[i]}
      OBVIOUS
    <3>7. ASSUME NEW i \in 1..n, i - 1 \in T
          PROVE  i \in T
      <4>1. flatten[i] = IF i = 1 THEN ss[i] ELSE flatten[i - 1] \o ss[i]
        BY <3>4
      <4>2. h[i] = f[i]
        BY <3>1
      <4> QED BY <4>1, <4>2, <3>2, <3>1, <3>6, <3>7, <1>2, <1>7
    <3>8. 0..n \subseteq T
      <4>1. 0 \in T
        BY <1>2, <3>6
      <4> QED BY <4>1, <1>2, <3>7, ByPositions
    <3>9. flatten[n] = f[n]
      BY <2>2, <1>2, <3>6, <3>8
    <3> QED BY <3>5, <3>9
  <2> QED BY <2>1, <2>2, <1>2
<1> QED BY <1>1, <1>6, <1>7, <1>8 DEF Concats

\* Concatenating one more.
LEMMA FlattenAppend ==
  ASSUME NEW S, NEW ss \in Seq(Seq(S)), NEW s \in Seq(S)
  PROVE  /\ FlattenSeq(ss) \in Seq(S)
         /\ FlattenSeq(Append(ss, s)) = FlattenSeq(ss) \o s
<1>1. PICK tt, n : tt = Append(ss, s) /\ n = Len(ss)
  OBVIOUS
<1>2. /\ n \in Nat /\ tt \in Seq(Seq(S)) /\ Len(tt) = n + 1 /\ tt[n + 1] = s
      /\ \A i \in 1..n : tt[i] = ss[i]
  BY <1>1, AppendProperties
<1>3. PICK f \in [0..n -> Seq(S)] : Concats(f, ss) /\ FlattenSeq(ss) = f[n]
  BY <1>1, FlattenIs
<1>4. PICK g \in [0..(n + 1) -> Seq(S)] : Concats(g, tt) /\ FlattenSeq(tt) = g[n + 1]
  BY <1>2, FlattenIs
<1>5. f[0] = g[0] /\ \A i \in 1..n : f[i - 1] = g[i - 1] => f[i] = g[i]
  <2>1. \A i \in 1..n : i \in 1..Len(tt) /\ f[i] = f[i - 1] \o ss[i]
    <3>1. \A i \in 1..n : f[i] = f[i - 1] \o ss[i]
      BY <1>1, <1>3, Zenon DEF Concats
    <3>2. \A i \in 1..n : i \in 1..Len(tt)
      BY <1>2
    <3> QED BY <3>1, <3>2, Zenon
  <2>2. \A i \in 1..n : g[i] = g[i - 1] \o ss[i]
    BY <2>1, <1>2, <1>4, Zenon DEF Concats
  <2>3. f[0] = g[0]
    BY <1>3, <1>4, Zenon DEF Concats
  <2> QED BY <2>1, <2>2, <2>3, Zenon
<1>6. f[n] = g[n]
  <2>1. PICK T : T = {i \in 0..n : f[i] = g[i]}
    OBVIOUS
  <2>2. 0 \in T /\ \A i \in 1..n : i - 1 \in T => i \in T
    BY <1>2, <1>5, <2>1
  <2>3. 0..n \subseteq T
    BY <1>2, <2>2, ByPositions
  <2> QED BY <1>2, <2>1, <2>3
<1>7. g[n + 1] = g[n] \o s
  <2>1. n + 1 \in 1..Len(tt) /\ (n + 1) - 1 = n
    BY <1>2
  <2>2. g[n + 1] = g[(n + 1) - 1] \o tt[n + 1]
    BY <2>1, <1>4, Zenon DEF Concats
  <2> QED BY <2>1, <2>2, <1>2
<1>8. f[n] \in Seq(S)
  BY <1>2, <1>3
<1> QED BY <1>1, <1>3, <1>4, <1>6, <1>7, <1>8

\* Nothing concatenated is nothing.
LEMMA FlattenNone == FlattenSeq(<<>>) = <<>>
  BY DEF FlattenSeq

\* Every element replaced by a sequence.
SeqMaps(S, U) == [S -> Seq(U)]
Spread(g, s) == FlattenSeq([i \in DOMAIN s |-> g[s[i]]])

\* What it is made of.
LEMMA SpreadTyped ==
  ASSUME NEW S, NEW U, NEW g \in SeqMaps(S, U), NEW s \in Seq(S)
  PROVE  Spread(g, s) \in Seq(U)
<1>1. PICK ss, n : ss = [i \in DOMAIN s |-> g[s[i]]] /\ n = Len(s)
  OBVIOUS
<1>2. s \in [1..n -> S] /\ n \in Nat /\ g \in [S -> Seq(U)]
  BY <1>1 DEF SeqMaps
<1>3. ss \in [1..n -> Seq(U)]
  BY <1>1, <1>2
<1>4. ss \in Seq(Seq(U)) /\ <<>> \in Seq(U)
  BY <1>2, <1>3
<1>5. FlattenSeq(ss) \in Seq(U)
  BY <1>4, FlattenAppend
<1> QED BY <1>1, <1>5 DEF Spread

\* One element more, and its sequence is added.
LEMMA SpreadAppend ==
  ASSUME NEW S, NEW U, NEW g \in SeqMaps(S, U), NEW s \in Seq(S), NEW e \in S
  PROVE  Spread(g, Append(s, e)) = Spread(g, s) \o g[e]
<1>0. g \in [S -> Seq(U)]
  BY DEF SeqMaps
<1>1. PICK ss : ss = [i \in DOMAIN s |-> g[s[i]]]
  OBVIOUS
<1>2. ss \in Seq(Seq(U)) /\ Len(ss) = Len(s)
  <2>1. s \in [1..Len(s) -> S] /\ Len(s) \in Nat /\ DOMAIN s = 1..Len(s)
    OBVIOUS
  <2>2. ss \in [1..Len(s) -> Seq(U)]
    BY <1>0, <1>1, <2>1
  <2> QED BY <2>1, <2>2
<1>3. PICK tt : tt = [i \in DOMAIN Append(s, e) |-> g[Append(s, e)[i]]]
  OBVIOUS
<1>4. g[e] \in Seq(U)
  BY <1>0
<1>5. tt = Append(ss, g[e])
  <2>1. PICK n : n = Len(s) /\ n \in Nat
    OBVIOUS
  <2>2. DOMAIN tt = 1..(n + 1) /\ DOMAIN Append(ss, g[e]) = 1..(n + 1)
    BY <1>2, <1>3, <1>4, <2>1, AppendProperties
  <2>3. ASSUME NEW i \in 1..(n + 1)
        PROVE  tt[i] = Append(ss, g[e])[i]
    <3>1. tt[i] = g[Append(s, e)[i]]
      BY <1>3, <2>1, AppendProperties
    <3>2. CASE i = n + 1
      <4>1. Append(s, e)[i] = e /\ Append(ss, g[e])[i] = g[e]
        BY <3>2, <2>1, <1>2, <1>4, AppendProperties
      <4> QED BY <3>1, <4>1
    <3>3. CASE i # n + 1
      <4>1. i \in 1..n
        BY <3>3, <2>1
      <4>2. Append(s, e)[i] = s[i] /\ Append(ss, g[e])[i] = ss[i] /\ ss[i] = g[s[i]]
        BY <4>1, <2>1, <1>1, <1>2, <1>4, AppendProperties
      <4> QED BY <3>1, <4>2
    <3> QED BY <3>2, <3>3
  <2>4. tt = [i \in 1..(n + 1) |-> tt[i]]
        /\ Append(ss, g[e]) = [i \in 1..(n + 1) |-> Append(ss, g[e])[i]]
    BY <2>2, <1>2, <1>3, <1>4, <2>1, AppendProperties
  <2> QED BY <2>3, <2>4
<1>6. FlattenSeq(ss) \in Seq(U) /\ FlattenSeq(Append(ss, g[e])) = FlattenSeq(ss) \o g[e]
  BY <1>2, <1>4, FlattenAppend
<1> QED BY <1>1, <1>3, <1>5, <1>6 DEF Spread

\* Nothing to replace.
LEMMA SpreadNone ==
  ASSUME NEW g
  PROVE  Spread(g, <<>>) = <<>>
<1>1. PICK s : s = <<>>
  OBVIOUS
<1>2. DOMAIN s = {} /\ \A t : DOMAIN t = {} /\ t = [i \in DOMAIN t |-> t[i]] => t = <<>>
  BY <1>1
<1>3. [i \in DOMAIN s |-> g[s[i]]] = <<>>
  BY <1>2
<1> QED BY <1>1, <1>3, FlattenNone DEF Spread

\* One element alone.
LEMMA SpreadOne ==
  ASSUME NEW S, NEW U, NEW g \in SeqMaps(S, U), NEW e \in S
  PROVE  Spread(g, <<e>>) = g[e]
<1>1. <<>> \in Seq(S) /\ Append(<<>>, e) = <<e>> /\ g[e] \in Seq(U)
  BY DEF SeqMaps
<1>2. Spread(g, Append(<<>>, e)) = Spread(g, <<>>) \o g[e]
  BY <1>1, SpreadAppend, Zenon
<1>3. Spread(g, <<>>) = <<>> /\ <<>> \o g[e] = g[e]
  BY <1>1, SpreadNone, ConcatEmptySeq, Zenon
<1> QED BY <1>1, <1>2, <1>3, Zenon

\* Two sequences, one after the other.
LEMMA SpreadConcat ==
  ASSUME NEW S, NEW U, NEW g \in SeqMaps(S, U), NEW s \in Seq(S), NEW t \in Seq(S)
  PROVE  Spread(g, s \o t) = Spread(g, s) \o Spread(g, t)
<1>1. PICK T : T = {u \in Seq(S) : Spread(g, s \o u) = Spread(g, s) \o Spread(g, u)}
  OBVIOUS
<1>2. \A u \in Seq(S) : Spread(g, u) \in Seq(U)
  BY SpreadTyped
<1>3. <<>> \in T
  <2>1. s \o <<>> = s /\ Spread(g, s) \o <<>> = Spread(g, s)
    BY <1>2, ConcatEmptySeq, Zenon
  <2>2. Spread(g, <<>>) = <<>>
    BY SpreadNone
  <2>3. Spread(g, s \o <<>>) = Spread(g, s) \o Spread(g, <<>>)
    BY <2>1, <2>2, Zenon
  <2> QED BY <1>1, <2>3
<1>4. ASSUME NEW u \in Seq(S), NEW e \in S, u \in T
      PROVE  Append(u, e) \in T
  <2>1. s \o u \in Seq(S) /\ g[e] \in Seq(U) /\ Append(u, e) \in Seq(S)
    BY DEF SeqMaps
  <2>2. s \o Append(u, e) = Append(s \o u, e)
    <3>1. s \o (u \o <<e>>) = (s \o u) \o <<e>>
      BY ConcatAssociative
    <3> QED BY <2>1, <3>1, AppendIsConcat
  <2>3. Spread(g, Append(s \o u, e)) = Spread(g, s \o u) \o g[e]
    BY <2>1, SpreadAppend, Zenon
  <2>4. Spread(g, s \o u) = Spread(g, s) \o Spread(g, u)
    BY <1>1, <1>4
  <2>5. (Spread(g, s) \o Spread(g, u)) \o g[e] = Spread(g, s) \o (Spread(g, u) \o g[e])
    <3>1. \A x, y, z \in Seq(U) : (x \o y) \o z = x \o (y \o z)
      BY ConcatAssociative, SMTT(30)
    <3>2. Spread(g, s) \in Seq(U) /\ Spread(g, u) \in Seq(U)
      BY <1>2, Zenon
    <3> QED BY <2>1, <3>1, <3>2, Zenon
  <2>6. Spread(g, Append(u, e)) = Spread(g, u) \o g[e]
    BY <2>1, SpreadAppend, Zenon
  <2>7. Spread(g, s \o Append(u, e)) = Spread(g, s) \o Spread(g, Append(u, e))
    BY <2>2, <2>3, <2>4, <2>5, <2>6, Zenon
  <2> QED BY <1>1, <2>1, <2>7
<1>5. t \in T
  <2>1. Seq(S) \subseteq T
    BY <1>3, <1>4, BySequences
  <2> QED BY <2>1
<1> QED BY <1>1, <1>5

\* d says how far what s is made into has come after each element of s.
SpreadAt(d, g, s) ==
  /\ d \in [0..Len(s) -> 0..Len(Spread(g, s))] /\ d[0] = 0 /\ d[Len(s)] = Len(Spread(g, s))
  /\ \A j \in 1..Len(s) :
       /\ d[j] = d[j - 1] + Len(g[s[j]])
       /\ \A k \in 1..Len(g[s[j]]) : Spread(g, s)[d[j - 1] + k] = g[s[j]][k]

\* Where each element's sequence is.
LEMMA SpreadPlaces ==
  ASSUME NEW S, NEW U, NEW g \in SeqMaps(S, U), NEW s \in Seq(S)
  PROVE  \E d : SpreadAt(d, g, s)
<1>1. PICK T : T = {u \in Seq(S) : \E d : SpreadAt(d, g, u)}
  OBVIOUS
<1>2. <<>> \in T
  <2>1. PICK d, u : d = [j \in 0..0 |-> 0] /\ u = <<>>
    OBVIOUS
  <2>2. d \in [0..0 -> 0..0] /\ d[0] = 0 /\ u \in Seq(S) /\ Len(u) = 0
    BY <2>1
  <2>3. Spread(g, u) = <<>>
    BY <2>1, SpreadNone, Zenon
  <2>4. SpreadAt(d, g, u)
    BY <2>2, <2>3 DEF SpreadAt
  <2> QED BY <1>1, <2>1, <2>2, <2>4
<1>3. ASSUME NEW u \in Seq(S), NEW e \in S, u \in T
      PROVE  Append(u, e) \in T
  <2>1. PICK n, v, x, y, z : /\ n = Len(u) /\ v = Append(u, e) /\ x = g[e]
                             /\ y = Spread(g, u) /\ z = Spread(g, v)
    OBVIOUS
  <2>2. n \in Nat /\ x \in Seq(U) /\ y \in Seq(U) /\ v \in Seq(S)
    <3>1. y \in Seq(U)
      BY <2>1, SpreadTyped
    <3>2. x \in Seq(U)
      BY <2>1 DEF SeqMaps
    <3> QED BY <2>1, <3>1, <3>2
  <2>3. z = y \o x
    BY <2>1, SpreadAppend
  <2>4. Len(v) = n + 1 /\ v[n + 1] = e /\ \A j \in 1..n : v[j] = u[j]
    BY <2>1, AppendProperties
  <2>5. /\ Len(z) = Len(y) + Len(x) /\ \A k \in 1..Len(y) : z[k] = y[k]
        /\ \A k \in 1..Len(x) : z[Len(y) + k] = x[k]
    <3>1. z \in Seq(U) /\ Len(z) = Len(y) + Len(x)
          /\ \A k \in 1..(Len(y) + Len(x)) : z[k] = IF k <= Len(y) THEN y[k] ELSE x[k - Len(y)]
      BY <2>2, <2>3, ConcatProperties
    <3>2. Len(y) \in Nat /\ Len(x) \in Nat
      BY <2>2
    <3>3. \A k \in 1..Len(y) : k \in 1..(Len(y) + Len(x)) /\ k <= Len(y)
      BY <3>2
    <3>4. \A k \in 1..Len(x) : Len(y) + k \in 1..(Len(y) + Len(x)) /\ ~ (Len(y) + k <= Len(y))
                               /\ (Len(y) + k) - Len(y) = k
      BY <3>2
    <3> QED BY <3>1, <3>3, <3>4
  <2>6. PICK d : SpreadAt(d, g, u)
    BY <1>1, <1>3
  <2>7. /\ d \in [0..n -> 0..Len(y)] /\ d[0] = 0 /\ d[n] = Len(y)
        /\ \A j \in 1..n : /\ d[j] = d[j - 1] + Len(g[u[j]])
                          /\ \A k \in 1..Len(g[u[j]]) : y[d[j - 1] + k] = g[u[j]][k]
    BY <2>1, <2>6 DEF SpreadAt
  <2>8. PICK c : c = [j \in 0..(n + 1) |-> IF j = n + 1 THEN Len(y) + Len(x) ELSE d[j]]
    OBVIOUS
  <2>9. c \in [0..(n + 1) -> 0..Len(z)] /\ c[0] = 0 /\ c[n + 1] = Len(z)
        /\ \A j \in 0..n : c[j] = d[j]
    <3>1. /\ Len(y) + Len(x) \in Nat /\ 0 \in 0..(n + 1) /\ n + 1 \in 0..(n + 1) /\ 0 # n + 1
          /\ \A j \in 0..(n + 1) : j = n + 1 \/ j \in 0..n
          /\ \A j \in 0..n : j # n + 1 /\ j \in 0..(n + 1)
      BY <2>2
    <3>2. Len(y) + Len(x) \in 0..Len(z) /\ \A j \in 0..n : d[j] \in 0..Len(z)
      <4>1. Len(y) \in Nat /\ Len(x) \in Nat
        BY <2>2
      <4> QED BY <2>5, <2>7, <4>1
    <3> QED BY <2>5, <2>7, <2>8, <3>1, <3>2
  <2>10. \A j \in 1..n : d[j] <= Len(y) /\ d[j - 1] \in Nat /\ Len(g[u[j]]) \in Nat
    <3>1. \A j \in 1..n : Len(g[u[j]]) \in Nat
      <4>1. g \in [S -> Seq(U)] /\ \A j \in 1..n : u[j] \in S
        BY <2>1 DEF SeqMaps
      <4> QED BY <4>1
    <3>2. \A j \in 1..n : j \in 0..n /\ j - 1 \in 0..n
      BY <2>2
    <3>3. Len(y) \in Nat
      BY <2>2
    <3>4. \A j \in 0..n : d[j] \in Nat /\ d[j] <= Len(y)
      BY <2>7, <3>3
    <3> QED BY <3>1, <3>2, <3>4
  <2>11. ASSUME NEW j \in 1..(n + 1)
         PROVE  /\ c[j] = c[j - 1] + Len(g[v[j]])
                /\ \A k \in 1..Len(g[v[j]]) : z[c[j - 1] + k] = g[v[j]][k]
    <3>1. CASE j = n + 1
      <4>1. v[j] = e /\ c[j - 1] = Len(y) /\ g[v[j]] = x /\ c[j] = Len(y) + Len(x)
        <5>1. j - 1 = n /\ n \in 0..n /\ n + 1 \in 0..(n + 1)
          BY <2>2, <3>1
        <5> QED BY <2>1, <2>4, <2>7, <2>8, <2>9, <3>1, <5>1
      <4> QED BY <2>5, <4>1
    <3>2. CASE j # n + 1
      <4>1. j \in 1..n /\ j \in 0..n /\ j - 1 \in 0..n
        BY <2>2, <3>2
      <4>2. v[j] = u[j] /\ c[j] = d[j] /\ c[j - 1] = d[j - 1]
        BY <2>4, <2>9, <4>1
      <4>3. \A k \in 1..Len(g[u[j]]) : d[j - 1] + k \in 1..Len(y)
        <5>1. d[j] = d[j - 1] + Len(g[u[j]]) /\ d[j] <= Len(y) /\ d[j - 1] \in Nat /\ Len(g[u[j]]) \in Nat
          BY <2>7, <2>10, <4>1
        <5>2. Len(y) \in Nat
          BY <2>2
        <5> QED BY <5>1, <5>2
      <4>4. d[j] = d[j - 1] + Len(g[u[j]]) /\ \A k \in 1..Len(g[u[j]]) : y[d[j - 1] + k] = g[u[j]][k]
        BY <2>7, <4>1, Zenon
      <4>5. \A k \in 1..Len(g[u[j]]) : z[d[j - 1] + k] = y[d[j - 1] + k]
        BY <2>5, <4>3, Zenon
      <4>6. \A k \in 1..Len(g[u[j]]) : z[d[j - 1] + k] = g[u[j]][k]
        BY <4>4, <4>5, Zenon
      <4>7. g[v[j]] = g[u[j]]
        BY <4>2, Zenon
      <4> QED BY <4>2, <4>4, <4>6, <4>7, Zenon
    <3> QED BY <3>1, <3>2
  <2>12. SpreadAt(c, g, v)
    BY <2>1, <2>4, <2>9, <2>11, ZenonT(40) DEF SpreadAt
  <2> QED BY <1>1, <2>1, <2>2, <2>12
<1>4. s \in T
  <2>1. Seq(S) \subseteq T
    BY <1>2, <1>3, BySequences
  <2> QED BY <2>1
<1> QED BY <1>1, <1>4

\* What is left of s after its first j elements.
Rest(s, j) == [k \in 1..(Len(s) - j) |-> s[j + k]]

\* One more element is left, or all of them are, or none.
LEMMA RestIs ==
  ASSUME NEW S, NEW s \in Seq(S)
  PROVE  /\ Rest(s, 0) = s /\ Rest(s, Len(s)) = <<>>
         /\ \A j \in 0..Len(s) : Rest(s, j) \in Seq(S)
         /\ \A j \in 1..Len(s) : <<s[j]>> \o Rest(s, j) = Rest(s, j - 1)
<1>1. PICK n : n = Len(s)
  OBVIOUS
<1>2. n \in Nat /\ s \in [1..n -> S]
  BY <1>1
<1>3. Rest(s, 0) = s
  <2>1. Rest(s, 0) = [k \in 1..n |-> s[k]]
    BY <1>1, <1>2 DEF Rest
  <2> QED BY <1>2, <2>1
<1>4. Rest(s, n) = <<>>
  <2>1. 1..(n - n) = {}
    BY <1>2
  <2> QED BY <1>1, <2>1 DEF Rest
<1>5. \A j \in 0..n : Rest(s, j) \in Seq(S) /\ Len(Rest(s, j)) = n - j
  <2> TAKE j \in 0..n
  <2>1. n - j \in Nat /\ \A k \in 1..(n - j) : j + k \in 1..n
    BY <1>2
  <2>2. Rest(s, j) \in [1..(n - j) -> S]
    BY <1>1, <1>2, <2>1 DEF Rest
  <2> QED BY <2>1, <2>2
<1>6. ASSUME NEW j \in 1..n
      PROVE  <<s[j]>> \o Rest(s, j) = Rest(s, j - 1)
  <2>1. PICK a, b, c, m : a = <<s[j]>> /\ b = Rest(s, j) /\ c = Rest(s, j - 1) /\ m = n - j
    OBVIOUS
  <2>2. a \in Seq(S) /\ Len(a) = 1 /\ a[1] = s[j] /\ b \in Seq(S) /\ Len(b) = m /\ m \in Nat
        /\ c \in Seq(S) /\ Len(c) = m + 1
    <3>1. j \in 0..n /\ j - 1 \in 0..n /\ n - (j - 1) = m + 1 /\ m \in Nat /\ s[j] \in S
      BY <1>2, <2>1
    <3> QED BY <1>5, <2>1, <3>1
  <2>3. /\ a \o b \in Seq(S) /\ Len(a \o b) = m + 1
        /\ \A k \in 1..(m + 1) : (a \o b)[k] = IF k <= 1 THEN a[k] ELSE b[k - 1]
    <3>1. /\ a \o b \in Seq(S) /\ Len(a \o b) = Len(a) + Len(b)
          /\ \A k \in 1..(Len(a) + Len(b)) : (a \o b)[k] = IF k <= Len(a) THEN a[k] ELSE b[k - Len(a)]
      BY <2>2, ConcatProperties
    <3>2. 1 + m = m + 1
      BY <2>2
    <3> QED BY <2>2, <3>1, <3>2
  <2>4. ASSUME NEW k \in 1..(m + 1)
        PROVE  (a \o b)[k] = c[k]
    <3>1. c[k] = s[(j - 1) + k]
      <4>1. k \in 1..(Len(s) - (j - 1))
        BY <1>1, <1>2, <2>1, <2>4
      <4> QED BY <2>1, <4>1 DEF Rest
    <3>2. CASE k = 1
      BY <2>2, <2>3, <3>1, <3>2
    <3>3. CASE k # 1
      <4>1. k - 1 \in 1..m /\ ~ (k <= 1) /\ j + (k - 1) = (j - 1) + k
        BY <2>2, <3>3
      <4>2. b[k - 1] = s[j + (k - 1)]
        <5>1. k - 1 \in 1..(Len(s) - j)
          BY <1>1, <2>1, <4>1
        <5> QED BY <2>1, <5>1 DEF Rest
      <4> QED BY <2>3, <3>1, <4>1, <4>2
    <3> QED BY <3>2, <3>3
  <2>5. PICK ab : ab = a \o b
    OBVIOUS
  <2>6. ab \in [1..(m + 1) -> S] /\ c \in [1..(m + 1) -> S] /\ \A k \in 1..(m + 1) : ab[k] = c[k]
    <3>1. ab \in Seq(S) /\ Len(ab) = m + 1 /\ \A k \in 1..(m + 1) : ab[k] = c[k]
      BY <2>3, <2>4, <2>5
    <3>2. ab \in [1..(m + 1) -> S]
      BY <3>1
    <3>3. c \in [1..(m + 1) -> S]
      BY <2>2
    <3> QED BY <3>1, <3>2, <3>3
  <2>7. ab = c
    <3>1. ab = [k \in 1..(m + 1) |-> ab[k]] /\ c = [k \in 1..(m + 1) |-> c[k]]
      BY <2>6
    <3> QED BY <2>6, <3>1
  <2> QED BY <2>1, <2>5, <2>7
<1> QED BY <1>1, <1>3, <1>4, <1>5, <1>6
-----------------------------------------------------------------------------
(* A text read character by character: m says what each makes of a state.     *)

\* x is the states the text t leads through from s.
Runs(x, m, X, s, t) ==
  /\ x \in [0..Len(t) -> X] /\ x[0] = s
  /\ \A i \in 1..Len(t) : x[i] = m[x[i - 1]][t[i]]

\* Reading t takes s to e.
Leads(m, X, s, t, e) == \E x : Runs(x, m, X, s, t) /\ x[Len(t)] = e

LEMMA LeadsNowhere ==
  ASSUME NEW X, NEW m, NEW s \in X
  PROVE  Leads(m, X, s, <<>>, s)
<1>1. PICK x, t : x = [i \in 0..0 |-> s] /\ t = <<>>
  OBVIOUS
<1>2. Len(t) = 0 /\ x \in [0..0 -> X] /\ x[0] = s
  BY <1>1
<1>3. Runs(x, m, X, s, t)
  BY <1>2 DEF Runs
<1> QED BY <1>1, <1>2, <1>3 DEF Leads

\* One text after another.
LEMMA LeadsOn ==
  ASSUME NEW X, NEW C, NEW m, NEW s, NEW t \in Seq(C), NEW e, Leads(m, X, s, t, e),
         NEW u \in Seq(C), NEW r, Leads(m, X, e, u, r)
  PROVE  Leads(m, X, s, t \o u, r)
<1>1. PICK x : Runs(x, m, X, s, t) /\ x[Len(t)] = e
  BY DEF Leads
<1>2. PICK y : Runs(y, m, X, e, u) /\ y[Len(u)] = r
  BY DEF Leads
<1>3. PICK k, l, v : k = Len(t) /\ l = Len(u) /\ v = t \o u
  OBVIOUS
<1>4. /\ k \in Nat /\ l \in Nat /\ Len(v) = k + l
      /\ \A i \in 1..k : v[i] = t[i]
      /\ \A i \in (k + 1)..(k + l) : v[i] = u[i - k]
  BY <1>3
<1>5. x \in [0..k -> X] /\ x[0] = s /\ x[k] = e /\ \A i \in 1..k : x[i] = m[x[i - 1]][t[i]]
  BY <1>1, <1>3 DEF Runs
<1>6. y \in [0..l -> X] /\ y[0] = e /\ y[l] = r /\ \A i \in 1..l : y[i] = m[y[i - 1]][u[i]]
  BY <1>2, <1>3 DEF Runs
<1>7. PICK z : z = [i \in 0..(k + l) |-> IF i <= k THEN x[i] ELSE y[i - k]]
  OBVIOUS
<1>8. z \in [0..(k + l) -> X] /\ z[0] = s
  <2>1. \A i \in 0..(k + l) : (i <= k => i \in 0..k) /\ (~ (i <= k) => i - k \in 0..l)
    BY <1>4
  <2> QED BY <1>4, <1>5, <1>6, <1>7, <2>1
<1>9. z[k + l] = r
  <2>1. CASE l = 0
    BY <1>4, <1>5, <1>6, <1>7, <2>1
  <2>2. CASE l # 0
    <3>1. k + l \in 0..(k + l) /\ ~ (k + l <= k) /\ (k + l) - k = l
      BY <1>4, <2>2
    <3> QED BY <1>6, <1>7, <3>1
  <2> QED BY <2>1, <2>2
<1>10. ASSUME NEW i \in 1..(k + l)
       PROVE  z[i] = m[z[i - 1]][v[i]]
  <2>1. CASE i <= k
    <3>1. i \in 1..k /\ i \in 0..(k + l) /\ i - 1 \in 0..(k + l) /\ i - 1 <= k
      BY <1>4, <2>1
    <3> QED BY <1>4, <1>5, <1>7, <2>1, <3>1
  <2>2. CASE ~ (i <= k)
    <3>1. PICK j : j = i - k
      OBVIOUS
    <3>2. /\ j \in 1..l /\ i \in 0..(k + l) /\ i - 1 \in 0..(k + l) /\ i \in (k + 1)..(k + l)
          /\ (i - 1) - k = j - 1 /\ (i - 1 <= k => i - 1 = k /\ j - 1 = 0)
      BY <1>4, <2>2, <3>1
    <3>3. z[i - 1] = y[j - 1]
      BY <1>5, <1>6, <1>7, <3>2
    <3>4. z[i] = y[j] /\ v[i] = u[j]
      BY <1>4, <1>7, <2>2, <3>1, <3>2
    <3> QED BY <1>6, <3>2, <3>3, <3>4
  <2> QED BY <2>1, <2>2
<1>11. Runs(z, m, X, s, v)
  BY <1>4, <1>8, <1>10 DEF Runs
<1> QED BY <1>3, <1>4, <1>9, <1>11 DEF Leads

\* One character.
LEMMA LeadsOne ==
  ASSUME NEW X, NEW m, NEW s \in X, NEW c, NEW e \in X, e = m[s][c]
  PROVE  Leads(m, X, s, <<c>>, e)
<1>1. PICK x, t : x = [i \in 0..1 |-> IF i = 0 THEN s ELSE e] /\ t = <<c>>
  OBVIOUS
<1>2. Len(t) = 1 /\ t[1] = c
  BY <1>1
<1>3. x \in [0..1 -> X] /\ x[0] = s /\ x[1] = e
  BY <1>1, <1>2
<1>4. \A i \in 1..1 : x[i] = m[x[i - 1]][t[i]]
  <2>1. \A i \in 1..1 : i = 1 /\ i - 1 = 0
    OBVIOUS
  <2> QED BY <1>2, <1>3, <2>1
<1>5. Runs(x, m, X, s, t)
  BY <1>2, <1>3, <1>4 DEF Runs
<1> QED BY <1>1, <1>2, <1>3, <1>5 DEF Leads

\* A text in which every element has been replaced by a sequence.
LEMMA LeadsSpread ==
  ASSUME NEW S, NEW U, NEW g \in SeqMaps(S, U), NEW X, NEW m, NEW at \in [Seq(S) -> X],
         \A p \in Seq(S), c \in S : Leads(m, X, at[p], g[c], at[Append(p, c)]),
         NEW t \in Seq(S)
  PROVE  Leads(m, X, at[<<>>], Spread(g, t), at[t])
<1>1. PICK T : T = {p \in Seq(S) : Leads(m, X, at[<<>>], Spread(g, p), at[p])}
  OBVIOUS
<1>2. <<>> \in T
  <2>1. <<>> \in Seq(S) /\ at[<<>>] \in X
    <3>1. PICK e : e = <<>>
      OBVIOUS
    <3>2. e \in Seq(S)
      BY <3>1
    <3>3. at[e] \in X
      BY <3>2
    <3> QED BY <3>1, <3>2, <3>3, Zenon
  <2>2. Spread(g, <<>>) = <<>>
    BY SpreadNone
  <2>3. Leads(m, X, at[<<>>], <<>>, at[<<>>])
    BY <2>1, LeadsNowhere
  <2> QED BY <1>1, <2>1, <2>2, <2>3, Zenon
<1>3. ASSUME NEW p \in Seq(S), NEW c \in S, p \in T
      PROVE  Append(p, c) \in T
  <2>1. PICK y, z, a, b : y = Spread(g, p) /\ z = g[c] /\ a = at[p] /\ b = at[Append(p, c)]
    OBVIOUS
  <2>2. y \in Seq(U) /\ z \in Seq(U)
    <3>1. y \in Seq(U)
      BY <2>1, SpreadTyped
    <3> QED BY <2>1, <3>1 DEF SeqMaps
  <2>3. Leads(m, X, at[<<>>], y, a) /\ Leads(m, X, a, z, b)
    BY <1>1, <1>3, <2>1
  <2>4. Leads(m, X, at[<<>>], y \o z, b)
    BY <2>2, <2>3, LeadsOn
  <2>5. Spread(g, Append(p, c)) = y \o z
    BY <2>1, SpreadAppend
  <2>6. Append(p, c) \in Seq(S)
    OBVIOUS
  <2> QED BY <1>1, <2>1, <2>4, <2>5, <2>6, Zenon
<1> QED BY <1>1, <1>2, <1>3, BySequences

\* z goes from s wherever the text t leads.
Walks(z, m, X, s, t) ==
  z[0] = s /\ \A i \in 1..Len(t) : z[i - 1] \in X => z[i] = m[z[i - 1]][t[i]]

\* A loop over a text ends where the text leads to.
LEMMA LeadsThere ==
  ASSUME NEW X, NEW C, NEW m, NEW s, NEW t \in Seq(C), NEW e, Leads(m, X, s, t, e),
         NEW z, Walks(z, m, X, s, t)
  PROVE  z[Len(t)] = e
<1>1. PICK n : n = Len(t)
  OBVIOUS
<1>2. n \in Nat /\ z[0] = s /\ \A i \in 1..n : z[i - 1] \in X => z[i] = m[z[i - 1]][t[i]]
  BY <1>1 DEF Walks
<1>3. PICK x : /\ x \in [0..n -> X] /\ x[0] = s /\ x[n] = e
               /\ \A i \in 1..n : x[i] = m[x[i - 1]][t[i]]
  BY <1>1 DEF Leads, Runs
<1>4. PICK T : T = {i \in 0..n : z[i] = x[i]}
  OBVIOUS
<1>5. 0 \in T
  BY <1>2, <1>3, <1>4
<1>6. ASSUME NEW i \in 1..n, i - 1 \in T
      PROVE  i \in T
  <2>1. i - 1 \in 0..n /\ i \in 0..n
    BY <1>2
  <2>2. z[i - 1] = x[i - 1] /\ x[i - 1] \in X
    BY <1>3, <1>4, <1>6, <2>1
  <2> QED BY <1>2, <1>3, <1>4, <2>1, <2>2
<1>7. n \in T
  <2>1. 0..n \subseteq T
    BY <1>2, <1>5, <1>6, ByPositions
  <2> QED BY <1>2, <2>1
<1> QED BY <1>1, <1>3, <1>4, <1>7
=============================================================================
