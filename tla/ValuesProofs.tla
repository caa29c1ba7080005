---------------------------- MODULE ValuesProofs ----------------------------
(***************************************************************************)
(* Integers of any width and binary data come back from their text; and    *)
(* what the run "values" sees of encodings, statements and COPY holds for  *)
(* every input it picks, by the theorems of TextProofs about every text.   *)
(***************************************************************************)
EXTENDS MCValues, TextProofs

-----------------------------------------------------------------------------
(* Integers and binary data                                                  *)

\* Division by ten.
LEMMA Tenth ==
  ASSUME NEW n \in Nat
  PROVE  /\ n \div 10 \in Nat /\ n % 10 \in 0..9 /\ n = 10 * (n \div 10) + (n % 10)
         /\ n >= 10 => n \div 10 < n /\ n \div 10 > 0
  OBVIOUS

Decimals == Digits(10)

LEMMA DigitsDiffer ==
  /\ DOMAIN DigitChars = 1..16
  /\ \A d, e \in 1..16 : DigitChars[d] = DigitChars[e] => d = e
  BY DEF DigitChars

LEMMA DigitIs ==
  /\ \A n \in 0..15 : ToDigit(n) \in Digits(16) /\ ToNumber(ToDigit(n)) = n
  /\ \A n \in 0..9 : ToDigit(n) \in Digits(10)
  /\ \A c \in Digits(16) : ToNumber(c) \in 0..15 /\ ToDigit(ToNumber(c)) = c
  /\ \A c \in Digits(10) : ToNumber(c) \in 0..9
<1> HIDE DEF DigitChars
<1>1. ASSUME NEW n \in 0..15 PROVE ToNumber(ToDigit(n)) = n
  <2>1. n + 1 \in 1..16 /\ ToDigit(n) = DigitChars[n + 1]
    BY DEF ToDigit
  <2>2. PICK c, d : c = ToDigit(n) /\ d = CHOOSE e \in DOMAIN DigitChars : DigitChars[e] = c
    OBVIOUS
  <2>3. d \in 1..16 /\ DigitChars[d] = c
    BY <2>1, <2>2, DigitsDiffer
  <2>4. d = n + 1
    BY <2>1, <2>2, <2>3, DigitsDiffer
  <2>5. ToNumber(c) = d - 1
    BY <2>2 DEF ToNumber
  <2> QED BY <2>2, <2>4, <2>5
<1>2. \A d \in 1..16 : d - 1 \in 0..15 /\ ToDigit(d - 1) = DigitChars[d]
  BY DEF ToDigit
<1>3. \A n \in 0..15 : n + 1 \in 1..16 /\ ToDigit(n) = DigitChars[n + 1]
  BY DEF ToDigit
<1>4. \A n \in 0..9 : n + 1 \in 1..10
  OBVIOUS
<1>5. \A d \in 1..10 : d \in 1..16 /\ d - 1 \in 0..9
  OBVIOUS
<1> HIDE DEF ToDigit, ToNumber
<1>6. \A n \in 0..15 : ToDigit(n) \in Digits(16)
  BY <1>3 DEF Digits
<1>7. \A n \in 0..9 : ToDigit(n) \in Digits(10)
  BY <1>3, <1>4 DEF Digits
<1>8. ASSUME NEW c \in Digits(16) PROVE ToNumber(c) \in 0..15 /\ ToDigit(ToNumber(c)) = c
  <2>1. PICK d \in 1..16 : c = DigitChars[d]
    BY DEF Digits
  <2>2. PICK m : m = d - 1
    OBVIOUS
  <2> QED BY <2>1, <2>2, <1>1, <1>2
<1>9. ASSUME NEW c \in Digits(10) PROVE ToNumber(c) \in 0..9
  <2>1. PICK d \in 1..10 : c = DigitChars[d]
    BY DEF Digits
  <2>2. PICK m : m = d - 1
    OBVIOUS
  <2> QED BY <2>1, <2>2, <1>1, <1>2, <1>5
<1> QED BY <1>1, <1>6, <1>7, <1>8, <1>9

\* What it is to write the number n, whose tenth is written by f.
NonNegAt(f, n) == IF n < 10 THEN <<ToDigit(n)>> ELSE Append(f[n \div 10], ToDigit(n % 10))
Log10At(f, n) == IF n < 10 THEN 0 ELSE 1 + f[n \div 10]

LEMMA NonNegIs ==
  NonNeg \in [Nat -> Seq(Decimals)] /\ \A n \in Nat : NonNeg[n] = NonNegAt(NonNeg, n)
<1> DEFINE X == Seq(Decimals)
<1> HIDE DEF X
<1>1. PICK F : F = [n \in Nat |-> [f \in [Nat -> X] |-> NonNegAt(f, n)]]
  OBVIOUS
<1>2. PICK rank : rank = [n \in Nat |-> n]
  OBVIOUS
<1>3. \A n \in Nat, f \in [Nat -> X] : NonNegAt(f, n) \in X
  <2> TAKE n \in Nat, f \in [Nat -> X]
  <2>1. CASE n < 10
    <3>1. ToDigit(n) \in Decimals
      <4>1. n \in 0..9
        BY <2>1
      <4> QED BY <4>1, DigitIs DEF Decimals
    <3>2. <<ToDigit(n)>> \in X
      BY <3>1 DEF X
    <3> QED BY <2>1, <3>2, Zenon DEF NonNegAt
  <2>2. CASE ~(n < 10)
    <3>1. ToDigit(n % 10) \in Decimals
      BY Tenth, DigitIs, Zenon DEF Decimals
    <3>2. f[n \div 10] \in X
      BY Tenth, Zenon
    <3>3. Append(f[n \div 10], ToDigit(n % 10)) \in X
      BY <3>1, <3>2, AppendProperties DEF X
    <3> QED BY <2>2, <3>3, Zenon DEF NonNegAt
  <2> QED BY <2>1, <2>2
<1>4. OnlyBelow(Nat, X, rank, F)
  <2>1. F \in [Nat -> [[Nat -> X] -> X]]
    BY <1>1, <1>3
  <2>2. ASSUME NEW n \in Nat, NEW g \in [Nat -> X], NEW h \in [Nat -> X],
               \A j \in Nat : rank[j] < rank[n] => g[j] = h[j]
        PROVE  F[n][g] = F[n][h]
    <3>1. F[n][g] = NonNegAt(g, n) /\ F[n][h] = NonNegAt(h, n)
      BY <1>1
    <3>2. ~(n < 10) => g[n \div 10] = h[n \div 10]
      BY Tenth, <2>2, <1>2
    <3>3. NonNegAt(g, n) = NonNegAt(h, n)
      BY <3>2, Zenon DEF NonNegAt
    <3> QED BY <3>1, <3>3
  <2> QED BY <2>1, <2>2, Zenon DEF OnlyBelow
<1>5. rank \in [Nat -> Nat] /\ \E x : x \in X
  BY <1>2, EmptySeq DEF X
<1>6. PICK f \in [Nat -> X] : \A n \in Nat : f[n] = F[n][f]
  <2>1. PICK P : P = Nat
    OBVIOUS
  <2>0. PICK x : x \in X
    BY <1>5
  <2>2. rank \in [P -> Nat] /\ OnlyBelow(P, X, rank, F)
    BY <2>1, <1>4, <1>5
  <2>3. \E f \in [P -> X] : \A n \in P : f[n] = F[n][f]
    BY <2>0, <2>2, ByAnyRank
  <2> QED BY <2>1, <2>3
<1>7. \A n \in Nat : F[n][f] = NonNegAt(f, n)
  BY <1>1
<1>8. f = [n \in Nat |-> NonNegAt(f, n)]
  BY <1>6, <1>7
<1>9. NonNeg = CHOOSE g : g = [n \in Nat |-> NonNegAt(g, n)]
  BY Zenon DEF NonNeg, NonNegAt
<1>10. NonNeg = [n \in Nat |-> NonNegAt(NonNeg, n)]
  BY <1>8, <1>9, Zenon
<1>11. PICK h : h = NonNeg
  OBVIOUS
<1>12. h = [n \in Nat |-> NonNegAt(h, n)]
  BY <1>10, <1>11
<1>13. DOMAIN h = Nat /\ \A n \in Nat : h[n] = NonNegAt(h, n)
  BY <1>12
<1>14. \A n \in Nat : h[n] \in X
  <2>1. PICK T : T = {n \in Nat : h[n] \in X}
    OBVIOUS
  <2>2. ASSUME NEW n \in Nat, \A m \in Nat : m < n => m \in T PROVE n \in T
    <3>1. CASE n < 10
      <4>1. NonNegAt(h, n) = NonNegAt(f, n)
        BY <3>1, Zenon DEF NonNegAt
      <4> QED BY <4>1, <2>1, <1>13, <1>3, Zenon
    <3>2. CASE ~(n < 10)
      <4>1. n \div 10 \in Nat /\ n \div 10 < n
        BY <3>2, Tenth
      <4>2. h[n \div 10] \in X
        BY <4>1, <2>1, <2>2
      <4>3. ToDigit(n % 10) \in Decimals
        BY Tenth, DigitIs, Zenon DEF Decimals
      <4>4. Append(h[n \div 10], ToDigit(n % 10)) \in X
        BY <4>2, <4>3, AppendProperties DEF X
      <4>5. h[n] \in X
        BY <4>4, <3>2, <1>13, Zenon DEF NonNegAt
      <4> QED BY <4>5, <2>1
    <3> QED BY <3>1, <3>2
  <2>3. Nat \subseteq T
    BY <2>2, AllBelow
  <2> QED BY <2>1, <2>3
<1>15. h \in [Nat -> X]
  BY <1>12, <1>14
<1> QED BY <1>11, <1>13, <1>15, Zenon DEF X

LEMMA Log10Is ==
  Log10 \in [Nat -> Nat] /\ \A n \in Nat : Log10[n] = Log10At(Log10, n)
<1>1. PICK F : F = [n \in Nat |-> [f \in [Nat -> Nat] |-> Log10At(f, n)]]
  OBVIOUS
<1>2. PICK rank, P : rank = [n \in Nat |-> n] /\ P = Nat
  OBVIOUS
<1>3. \A n \in Nat, f \in [Nat -> Nat] : Log10At(f, n) \in Nat
  BY Tenth DEF Log10At
<1>4. OnlyBelow(Nat, Nat, rank, F)
  <2>1. F \in [Nat -> [[Nat -> Nat] -> Nat]]
    BY <1>1, <1>3
  <2>2. ASSUME NEW n \in Nat, NEW g \in [Nat -> Nat], NEW h \in [Nat -> Nat],
               \A j \in Nat : rank[j] < rank[n] => g[j] = h[j]
        PROVE  F[n][g] = F[n][h]
    <3>1. F[n][g] = Log10At(g, n) /\ F[n][h] = Log10At(h, n)
      BY <1>1
    <3>2. ~(n < 10) => g[n \div 10] = h[n \div 10]
      BY Tenth, <2>2, <1>2
    <3>3. Log10At(g, n) = Log10At(h, n)
      BY <3>2, Zenon DEF Log10At
    <3> QED BY <3>1, <3>3
  <2> QED BY <2>1, <2>2, Zenon DEF OnlyBelow
<1>5. PICK f \in [Nat -> Nat] : \A n \in Nat : f[n] = F[n][f]
  <2>1. PICK X : X = Nat
    OBVIOUS
  <2>2. rank \in [P -> Nat] /\ OnlyBelow(P, X, rank, F)
    BY <2>1, <1>2, <1>4
  <2>3. 0 \in X
    BY <2>1
  <2>4. \E f \in [P -> X] : \A n \in P : f[n] = F[n][f]
    BY <2>2, <2>3, ByAnyRank
  <2> QED BY <1>2, <2>1, <2>4
<1>6. \A n \in Nat : F[n][f] = Log10At(f, n)
  BY <1>1
<1>7. f = [n \in Nat |-> Log10At(f, n)]
  BY <1>5, <1>6
<1>8. Log10 = CHOOSE g : g = [n \in Nat |-> Log10At(g, n)]
  BY Zenon DEF Log10, Log10At
<1>9. Log10 = [n \in Nat |-> Log10At(Log10, n)]
  BY <1>7, <1>8, Zenon
<1>10. PICK h : h = Log10
  OBVIOUS
<1>11. h = [n \in Nat |-> Log10At(h, n)]
  BY <1>9, <1>10
<1>12. DOMAIN h = Nat /\ \A n \in Nat : h[n] = Log10At(h, n)
  BY <1>11
<1>13. \A n \in Nat : h[n] \in Nat
  <2>1. PICK T : T = {n \in Nat : h[n] \in Nat}
    OBVIOUS
  <2>2. ASSUME NEW n \in Nat, \A m \in Nat : m < n => m \in T PROVE n \in T
    <3>1. CASE n < 10
      BY <3>1, <2>1, <1>12 DEF Log10At
    <3>2. CASE ~(n < 10)
      <4>1. n \div 10 \in Nat /\ n \div 10 < n
        BY <3>2, Tenth
      <4>2. h[n \div 10] \in Nat
        BY <4>1, <2>1, <2>2
      <4>3. h[n] = 1 + h[n \div 10]
        BY <3>2, <1>12, Zenon DEF Log10At
      <4> QED BY <4>2, <4>3, <2>1
    <3> QED BY <3>1, <3>2
  <2>3. Nat \subseteq T
    BY <2>2, AllBelow
  <2> QED BY <2>1, <2>3
<1>14. h \in [Nat -> Nat]
  BY <1>11, <1>13
<1> QED BY <1>10, <1>12, <1>14, Zenon

\* As many digits are written as the logarithm says, and one more.
LEMMA NonNegLen ==
  ASSUME NEW k \in Nat
  PROVE  Len(NonNeg[k]) = Log10[k] + 1
<1>1. PICK T : T = {n \in Nat : Len(NonNeg[n]) = Log10[n] + 1}
  OBVIOUS
<1>2. ASSUME NEW n \in Nat, \A m \in Nat : m < n => m \in T PROVE n \in T
  <2>1. CASE n < 10
    <3>1. NonNeg[n] = <<ToDigit(n)>> /\ Log10[n] = 0
      BY <2>1, NonNegIs, Log10Is, Zenon DEF NonNegAt, Log10At
    <3>2. PICK d : d = ToDigit(n)
      OBVIOUS
    <3>3. Len(<<d>>) = 1
      OBVIOUS
    <3>4. Len(NonNeg[n]) = 1
      BY <3>1, <3>2, <3>3, Zenon
    <3>5. Len(NonNeg[n]) = Log10[n] + 1
      BY <3>1, <3>4
    <3> QED BY <3>5, <1>1
  <2>2. CASE ~(n < 10)
    <3>1. PICK m, d, s : m = n \div 10 /\ d = ToDigit(n % 10) /\ s = NonNeg[m]
      OBVIOUS
    <3>2. m \in Nat /\ m < n /\ d \in Decimals
      <4>1. ToDigit(n % 10) \in Decimals
        BY Tenth, DigitIs, Zenon DEF Decimals
      <4> QED BY <4>1, <2>2, <3>1, Tenth
    <3>3. NonNeg[n] = Append(s, d) /\ Log10[n] = 1 + Log10[m]
      BY <2>2, <3>1, NonNegIs, Log10Is, Zenon DEF NonNegAt, Log10At
    <3>4. s \in Seq(Decimals) /\ Log10[m] \in Nat
      BY <3>1, <3>2, NonNegIs, Log10Is
    <3>5. Len(s) = Log10[m] + 1
      BY <1>2, <1>1, <3>1, <3>2
    <3>6. Len(Append(s, d)) = Len(s) + 1
      BY <3>2, <3>4, AppendProperties
    <3> QED BY <3>3, <3>4, <3>5, <3>6, <1>1
  <2> QED BY <2>1, <2>2
<1>3. Nat \subseteq T
  BY <1>2, AllBelow
<1> QED BY <1>1, <1>3

LEMMA Log10Grows ==
  ASSUME NEW k \in Nat, NEW i \in Nat, i <= k
  PROVE  Log10[i] <= Log10[k]
<1>1. PICK T : T = {n \in Nat : \A m \in Nat : m <= n => Log10[m] <= Log10[n]}
  OBVIOUS
<1>2. ASSUME NEW n \in Nat, \A m \in Nat : m < n => m \in T PROVE n \in T
  <2> SUFFICES ASSUME NEW m \in Nat, m <= n PROVE Log10[m] <= Log10[n]
    BY <1>1
  <2>1. Log10[m] \in Nat /\ Log10[n] \in Nat
    BY Log10Is
  <2>2. CASE m < 10
    <3>1. Log10[m] = 0
      BY <2>2, Log10Is, Zenon DEF Log10At
    <3> QED BY <3>1, <2>1
  <2>3. CASE ~(m < 10)
    <3>1. PICK a, b : a = m \div 10 /\ b = n \div 10
      OBVIOUS
    <3>2. a \in Nat /\ b \in Nat /\ a <= b /\ b < n
      BY <3>1, <2>3
    <3>3. Log10[a] \in Nat /\ Log10[b] \in Nat /\ Log10[a] <= Log10[b]
      BY <3>2, <1>1, <1>2, Log10Is
    <3>4. ~(n < 10)
      BY <2>3
    <3>5. Log10[m] = 1 + Log10[a] /\ Log10[n] = 1 + Log10[b]
      BY <3>1, <3>4, <2>3, Log10Is, Zenon DEF Log10At
    <3> QED BY <3>3, <3>5
  <2> QED BY <2>2, <2>3
<1>3. Nat \subseteq T
  BY <1>2, AllBelow
<1> QED BY <1>1, <1>3

\* An integer type: an even number of values, half of them below zero if it has a sign.
IntegerTypes == [size : {2 * half : half \in Nat \ {0}}, signed : BOOLEAN]

LEMMA TypeIs ==
  ASSUME NEW T \in IntegerTypes
  PROVE  \E half \in Nat \ {0}, bottom \in Int, top \in Nat :
           /\ T.size = 2 * half /\ bottom = Bottom(T) /\ top = Top(T) /\ Values(T) = bottom..top
           /\ T.signed => bottom = -half /\ top = half - 1
           /\ ~T.signed => bottom = 0 /\ top = 2 * half - 1
<1>1. PICK half \in Nat \ {0} : T.size = 2 * half
  BY DEF IntegerTypes
<1>2. PICK size, signed : size = T.size /\ signed = T.signed /\ signed \in BOOLEAN
  BY DEF IntegerTypes
<1>3. size \div 2 = half
  BY <1>1, <1>2
<1>4. Bottom(T) = IF signed THEN -half ELSE 0
  BY <1>2, <1>3 DEF Bottom
<1>5. PICK bottom : bottom = Bottom(T)
  OBVIOUS
<1>6. PICK top : top = Top(T)
  OBVIOUS
<1>7. top = bottom + size - 1
  BY <1>2, <1>5, <1>6 DEF Top
<1>8. /\ bottom \in Int /\ top \in Nat
      /\ signed => bottom = -half /\ top = half - 1
      /\ ~signed => bottom = 0 /\ top = 2 * half - 1
  BY <1>1, <1>2, <1>4, <1>5, <1>7
<1>9. Values(T) = bottom..top
  BY <1>5, <1>6 DEF Values
<1> QED BY <1>1, <1>2, <1>5, <1>6, <1>8, <1>9

\* A digit more is absorbed exactly when the number is still one of the type.
LEMMA PositiveIs ==
  ASSUME NEW T \in IntegerTypes, NEW n \in 0..Top(T), NEW d \in 0..9
  PROVE  AbsorbPositive(T, n, d) = Is(n * 10 + d) \cap Values(T)
<1>1. PICK bottom \in Int, top \in Nat : bottom <= 0 /\ top = Top(T) /\ Values(T) = bottom..top
  BY TypeIs
<1>2. n \in Nat /\ n <= top
  BY <1>1
<1>3. CASE n > top \div 10
  <2>1. ~(n * 10 + d <= top)
    BY <1>2, <1>3
  <2>2. AbsorbPositive(T, n, d) = {}
    BY <1>1, <1>3 DEF AbsorbPositive, Failure
  <2> QED BY <2>1, <2>2, <1>1 DEF Is
<1>4. CASE ~(n > top \div 10) /\ n * 10 > top - d
  <2>1. ~(n * 10 + d <= top)
    BY <1>1, <1>2, <1>4
  <2>2. AbsorbPositive(T, n, d) = {}
    BY <1>1, <1>4 DEF AbsorbPositive, Failure
  <2> QED BY <2>1, <2>2, <1>1 DEF Is
<1>5. CASE ~(n > top \div 10) /\ ~(n * 10 > top - d)
  <2>1. n * 10 + d \in bottom..top
    BY <1>1, <1>2, <1>5
  <2>2. AbsorbPositive(T, n, d) = {n * 10 + d}
    BY <1>1, <1>5 DEF AbsorbPositive, Is
  <2> QED BY <2>1, <2>2, <1>1 DEF Is
<1> QED BY <1>3, <1>4, <1>5

LEMMA NegativeIs ==
  ASSUME NEW T \in IntegerTypes, T.signed, NEW n \in Nat, -n >= Bottom(T), NEW d \in 0..9
  PROVE  AbsorbNegative(T, -n, d) = Is(-(n * 10 + d)) \cap Values(T)
<1>1. PICK half \in Nat, bottom \in Int, top \in Nat :
        bottom = -half /\ bottom = Bottom(T) /\ Values(T) = bottom..top
  BY TypeIs
<1>2. n <= half /\ -bottom = half
  BY <1>1
<1>3. PICK low : low = -(half \div 10)
  OBVIOUS
<1>4. low = -((-Bottom(T)) \div 10)
  BY <1>1, <1>2, <1>3
<1>5. CASE -n < low
  <2>1. ~(-(n * 10 + d) >= bottom)
    BY <1>1, <1>2, <1>3, <1>5
  <2>2. AbsorbNegative(T, -n, d) = {}
    BY <1>4, <1>5, Zenon DEF AbsorbNegative, Failure
  <2>3. -(n * 10 + d) \notin Values(T)
    BY <2>1, <1>1
  <2> QED BY <2>2, <2>3, Zenon DEF Is
<1>6. CASE ~(-n < low) /\ (-n) * 10 < bottom + d
  <2>1. ~(-(n * 10 + d) >= bottom)
    BY <1>1, <1>2, <1>6
  <2>2. AbsorbNegative(T, -n, d) = {}
    <3>1. ~(-n < -((-Bottom(T)) \div 10)) /\ (-n) * 10 < Bottom(T) + d
      BY <1>1, <1>4, <1>6
    <3> QED BY <3>1, Zenon DEF AbsorbNegative, Failure
  <2>3. -(n * 10 + d) \notin Values(T)
    BY <2>1, <1>1
  <2> QED BY <2>2, <2>3, Zenon DEF Is
<1>7. CASE ~(-n < low) /\ ~((-n) * 10 < bottom + d)
  <2>1. -(n * 10 + d) \in bottom..top /\ (-n) * 10 - d = -(n * 10 + d)
    BY <1>1, <1>2, <1>7
  <2>2. AbsorbNegative(T, -n, d) = {(-n) * 10 - d}
    <3>1. ~(-n < -((-Bottom(T)) \div 10)) /\ ~((-n) * 10 < Bottom(T) + d)
      BY <1>1, <1>4, <1>7
    <3> QED BY <3>1, Zenon DEF AbsorbNegative, Is
  <2> QED BY <2>1, <2>2, <1>1 DEF Is
<1> QED BY <1>5, <1>6, <1>7

Signed(minus, n) == IF minus THEN -n ELSE n

LEMMA SignedZero ==
  ASSUME NEW minus \in BOOLEAN
  PROVE  Signed(minus, 0) = 0
<1>1. PICK n \in Nat : n = 0
  OBVIOUS
<1>2. -n = n
  <2>1. n <= 0
    BY <1>1
  <2> QED BY <2>1
<1>3. Signed(minus, n) = n
  BY <1>2, Zenon DEF Signed
<1> QED BY <1>1, <1>3

\* One turn of the loops of from_string_integer.
Turn(T, minus, c, got) ==
  UNION {IF minus THEN AbsorbNegative(T, n, ToNumber(c)) ELSE AbsorbPositive(T, n, ToNumber(c)) : n \in got}

LEMMA TurnIs ==
  ASSUME NEW T \in IntegerTypes, NEW minus \in BOOLEAN, minus => T.signed,
         NEW c \in Decimals, NEW n \in Nat
  PROVE  Turn(T, minus, c, Is(Signed(minus, n)) \cap Values(T))
           = Is(Signed(minus, n * 10 + ToNumber(c))) \cap Values(T)
<1>1. PICK d : d = ToNumber(c)
  OBVIOUS
<1>2. d \in 0..9
  BY <1>1, DigitIs DEF Decimals
<1>3. PICK bottom \in Int, top \in Nat :
        bottom <= 0 /\ bottom = Bottom(T) /\ top = Top(T) /\ Values(T) = bottom..top
  BY TypeIs
<1>4. PICK m : m = Signed(minus, n)
  OBVIOUS
<1>5. PICK e : e = n * 10 + d
  OBVIOUS
<1>6. e \in Nat /\ e >= n
  BY <1>2, <1>5
<1>7. CASE m \in Values(T)
  <2>1. Turn(T, minus, c, {m}) = IF minus THEN AbsorbNegative(T, m, d) ELSE AbsorbPositive(T, m, d)
    BY <1>1 DEF Turn
  <2>2. (IF minus THEN AbsorbNegative(T, m, d) ELSE AbsorbPositive(T, m, d)) = Is(Signed(minus, e)) \cap Values(T)
    <3>1. CASE minus
      <4>1. m = -n /\ -n >= Bottom(T)
        BY <3>1, <1>4, <1>7, <1>3 DEF Signed
      <4>2. AbsorbNegative(T, -n, d) = Is(-(n * 10 + d)) \cap Values(T)
        BY <3>1, <4>1, <1>2, NegativeIs
      <4> QED BY <3>1, <4>1, <4>2, <1>5, Zenon DEF Signed
    <3>2. CASE ~minus
      <4>1. m = n /\ n \in 0..Top(T)
        BY <3>2, <1>4, <1>7, <1>3 DEF Signed
      <4>2. AbsorbPositive(T, n, d) = Is(n * 10 + d) \cap Values(T)
        BY <3>2, <4>1, <1>2, PositiveIs
      <4> QED BY <3>2, <4>1, <4>2, <1>5, Zenon DEF Signed
    <3> QED BY <3>1, <3>2
  <2>3. Is(m) \cap Values(T) = {m}
    BY <1>7 DEF Is
  <2> QED BY <2>1, <2>2, <2>3, <1>1, <1>4, <1>5, Zenon
<1>8. CASE m \notin Values(T)
  <2>1. Is(m) \cap Values(T) = {}
    BY <1>8 DEF Is
  <2>2. Turn(T, minus, c, {}) = {}
    BY DEF Turn
  <2>3. Signed(minus, e) \notin Values(T)
    BY <1>3, <1>4, <1>6, <1>8 DEF Signed
  <2>4. Is(Signed(minus, e)) \cap Values(T) = {}
    BY <2>3 DEF Is
  <2> QED BY <2>1, <2>2, <2>4, <1>1, <1>4, <1>5, Zenon
<1> QED BY <1>7, <1>8

\* z counts the digits of s.
Counts(z, s) ==
  /\ z \in [0..Len(s) -> Nat] /\ z[0] = 0
  /\ \A i \in 1..Len(s) : z[i] = z[i - 1] * 10 + ToNumber(s[i])

LEMMA NumberIs ==
  ASSUME NEW s \in Seq(Decimals)
  PROVE  \E z : Counts(z, s) /\ Number(s) = z[Len(s)]
<1> DEFINE upTo[i \in 0..Len(s)] == IF i = 0 THEN 0 ELSE upTo[i - 1] * 10 + ToNumber(s[i])
<1>1. PICK n, d : n = Len(s) /\ d = [i \in 1..n |-> ToNumber(s[i])]
  OBVIOUS
<1>2. n \in Nat /\ \A i \in 1..n : s[i] \in Decimals
  BY <1>1
<1>3. \A i \in 1..n : d[i] = ToNumber(s[i]) /\ d[i] \in Nat
  BY <1>1, <1>2, DigitIs DEF Decimals
<1>4. PICK step : step = [i \in 1..n |-> [x \in Nat |-> x * 10 + d[i]]]
  OBVIOUS
<1>5. PICK f \in [0..n -> Nat] : Passes(f, n, 0, step)
  <2>1. PICK X : X = Nat
    OBVIOUS
  <2>2. step \in [1..n -> [X -> X]] /\ 0 \in X
    <3>1. \A i \in 1..n, x \in Nat : x * 10 + d[i] \in Nat
      BY <1>3
    <3> QED BY <3>1, <1>4, <2>1
  <2> HIDE DEF upTo
  <2>3. \E f \in [0..n -> X] : Passes(f, n, 0, step)
    BY <1>2, <2>2, Passing
  <2> QED BY <2>1, <2>3
<1>6. f[0] = 0 /\ \A i \in 1..n : i - 1 \in 0..n /\ f[i] = f[i - 1] * 10 + d[i]
  <2>1. \A i \in 1..n : i - 1 \in 0..n
    BY <1>2
  <2> QED BY <2>1, <1>4, <1>5 DEF Passes
<1>7. f = [i \in 0..n |-> IF i = 0 THEN 0 ELSE f[i - 1] * 10 + ToNumber(s[i])]
  <2>1. \A i \in 0..n : i # 0 => i \in 1..n
    BY <1>2
  <2>2. \A i \in 0..n : f[i] = IF i = 0 THEN 0 ELSE f[i - 1] * 10 + ToNumber(s[i])
    BY <2>1, <1>3, <1>6
  <2> QED BY <2>2, <1>5
<1>8. upTo = [i \in 0..n |-> IF i = 0 THEN 0 ELSE upTo[i - 1] * 10 + ToNumber(s[i])]
  BY <1>1, <1>7
<1>9. Number(s) = upTo[n]
  BY <1>1, Zenon DEF Number
<1> HIDE DEF upTo
<1>10. upTo[0] = 0 /\ \A i \in 1..n : upTo[i] = upTo[i - 1] * 10 + ToNumber(s[i])
  <2>1. \A i \in 0..n : upTo[i] = IF i = 0 THEN 0 ELSE upTo[i - 1] * 10 + ToNumber(s[i])
    BY <1>8
  <2>2. 0 \in 0..n /\ \A i \in 1..n : i \in 0..n /\ i # 0
    BY <1>2
  <2> QED BY <2>1, <2>2
<1>11. PICK z : z = upTo
  OBVIOUS
<1>12. PICK P : P = {i \in 0..n : z[i] \in Nat}
  OBVIOUS
<1>13. 0 \in P
  BY <1>2, <1>10, <1>11, <1>12
<1>14. \A i \in 1..n : i - 1 \in P => i \in P
  <2> SUFFICES ASSUME NEW i \in 1..n, i - 1 \in P PROVE i \in P
    OBVIOUS
  <2>1. z[i - 1] \in Nat /\ z[i] = z[i - 1] * 10 + ToNumber(s[i]) /\ i \in 0..n
    BY <1>2, <1>10, <1>11, <1>12
  <2>2. PICK x, e : x = z[i - 1] /\ e = ToNumber(s[i])
    OBVIOUS
  <2>3. x \in Nat /\ e \in Nat
    BY <1>3, <2>1, <2>2
  <2>4. z[i] \in Nat
    BY <2>1, <2>2, <2>3
  <2> QED BY <2>1, <2>4, <1>12
<1>15. \A i \in 0..n : z[i] \in Nat
  <2>1. 0..n \subseteq P
    BY <1>2, <1>13, <1>14, ByPositions
  <2> QED BY <2>1, <1>12
<1>16. z \in [0..n -> Nat]
  BY <1>8, <1>11, <1>15
<1> QED BY <1>1, <1>9, <1>10, <1>11, <1>16 DEF Counts

\* The loops of from_string_integer read digits as their number, if the type has it.
LEMMA DigitsAbsorbed ==
  ASSUME NEW T \in IntegerTypes, NEW minus \in BOOLEAN, minus => T.signed, NEW s \in Seq(Decimals)
  PROVE  AbsorbDigits(T, minus, s) = Is(Signed(minus, Number(s))) \cap Values(T)
<1> DEFINE upTo[i \in 0..Len(s)] ==
        IF i = 0 THEN Is(0)
        ELSE UNION {IF minus THEN AbsorbNegative(T, n, ToNumber(s[i]))
                    ELSE AbsorbPositive(T, n, ToNumber(s[i])) : n \in upTo[i - 1]}
<1>1. PICK n : n = Len(s)
  OBVIOUS
<1>2. n \in Nat /\ DOMAIN s = 1..n /\ \A i \in 1..n : s[i] \in Decimals
  BY <1>1
<1>3. PICK z : Counts(z, s) /\ Number(s) = z[n]
  BY <1>1, NumberIs
<1>4. z \in [0..n -> Nat] /\ z[0] = 0 /\ \A i \in 1..n : z[i] = z[i - 1] * 10 + ToNumber(s[i])
  BY <1>1, <1>3 DEF Counts
<1>5. PICK f : f = [i \in 0..n |-> Is(Signed(minus, z[i])) \cap Values(T)]
  OBVIOUS
<1>6. f[0] = Is(0)
  <2>1. PICK bottom \in Int, top \in Nat : bottom <= 0 /\ Values(T) = bottom..top
    BY TypeIs
  <2>2. Signed(minus, 0) = 0
    BY SignedZero
  <2>3. f[0] = Is(Signed(minus, 0)) \cap Values(T)
    BY <1>2, <1>4, <1>5
  <2> QED BY <2>1, <2>2, <2>3 DEF Is
<1>7. \A i \in 1..n : f[i] = Turn(T, minus, s[i], f[i - 1])
  <2> TAKE i \in 1..n
  <2>1. i \in 0..n /\ i - 1 \in 0..n /\ z[i - 1] \in Nat /\ s[i] \in Decimals
    BY <1>2, <1>4
  <2>2. f[i] = Is(Signed(minus, z[i])) \cap Values(T) /\ f[i - 1] = Is(Signed(minus, z[i - 1])) \cap Values(T)
    BY <2>1, <1>5
  <2>3. Turn(T, minus, s[i], Is(Signed(minus, z[i - 1])) \cap Values(T))
          = Is(Signed(minus, z[i - 1] * 10 + ToNumber(s[i]))) \cap Values(T)
    <3> HIDE DEF upTo
    <3> QED BY <2>1, TurnIs
  <2> QED BY <2>2, <2>3, <1>4
<1>8. f = [i \in 0..n |-> IF i = 0 THEN Is(0) ELSE Turn(T, minus, s[i], f[i - 1])]
  <2>1. \A i \in 0..n : i # 0 => i \in 1..n
    BY <1>2
  <2>2. \A i \in 0..n : f[i] = IF i = 0 THEN Is(0) ELSE Turn(T, minus, s[i], f[i - 1])
    BY <2>1, <1>6, <1>7
  <2> QED BY <2>2, <1>5
<1>9. upTo = CHOOSE g : g = [i \in 0..n |-> IF i = 0 THEN Is(0) ELSE Turn(T, minus, s[i], g[i - 1])]
  BY <1>1, Zenon DEF Turn
<1>10. AbsorbDigits(T, minus, s) = upTo[n]
  <2>1. ~ \E i \in DOMAIN s : s[i] \notin Digits(10)
    BY <1>2 DEF Decimals
  <2> QED BY <2>1, <1>1, Zenon DEF AbsorbDigits
<1> HIDE DEF upTo
<1>11. upTo = [i \in 0..n |-> IF i = 0 THEN Is(0) ELSE Turn(T, minus, s[i], upTo[i - 1])]
  BY <1>8, <1>9, Zenon
<1>12. PICK g : g = upTo
  OBVIOUS
<1>13. g[0] = Is(0) /\ \A i \in 1..n : g[i] = Turn(T, minus, s[i], g[i - 1])
  <2>1. \A i \in 0..n : g[i] = IF i = 0 THEN Is(0) ELSE Turn(T, minus, s[i], g[i - 1])
    BY <1>11, <1>12
  <2>2. 0 \in 0..n /\ \A i \in 1..n : i \in 0..n /\ i # 0
    BY <1>2
  <2> QED BY <2>1, <2>2
<1>14. PICK P : P = {i \in 0..n : g[i] = f[i]}
  OBVIOUS
<1>15. 0 \in P
  BY <1>2, <1>6, <1>13, <1>14
<1>16. \A i \in 1..n : i - 1 \in P => i \in P
  <2> SUFFICES ASSUME NEW i \in 1..n, i - 1 \in P PROVE i \in P
    OBVIOUS
  <2>1. i \in 0..n /\ g[i - 1] = f[i - 1]
    BY <1>2, <1>14
  <2>2. g[i] = f[i]
    BY <2>1, <1>7, <1>13
  <2> QED BY <2>1, <2>2, <1>14
<1>17. 0..n \subseteq P
  BY <1>2, <1>15, <1>16, ByPositions
<1>18. g[n] = f[n] /\ n \in 0..n
  BY <1>2, <1>14, <1>17
<1>19. f[n] = Is(Signed(minus, z[n])) \cap Values(T)
  BY <1>5, <1>18
<1> QED BY <1>3, <1>10, <1>12, <1>18, <1>19, Zenon

\* Digits and what they count.
LEMMA NumberCounts ==
  ASSUME NEW s \in Seq(Decimals), NEW c \in Decimals
  PROVE  /\ Number(s) \in Nat /\ Number(<<>>) = 0
         /\ Number(Append(s, c)) = Number(s) * 10 + ToNumber(c)
<1>1. PICK n, t : n = Len(s) /\ t = Append(s, c)
  OBVIOUS
<1>2. /\ n \in Nat /\ t \in Seq(Decimals) /\ Len(t) = n + 1 /\ t[n + 1] = c
      /\ \A i \in 1..n : t[i] = s[i]
  BY <1>1, AppendProperties
<1>3. PICK y : Counts(y, s) /\ Number(s) = y[n]
  BY <1>1, NumberIs
<1>4. PICK z : Counts(z, t) /\ Number(t) = z[n + 1]
  BY <1>2, NumberIs
<1>5. PICK P : P = {i \in 0..n : y[i] = z[i]}
  OBVIOUS
<1>6. 0 \in P
  BY <1>2, <1>3, <1>4, <1>5 DEF Counts
<1>7. \A i \in 1..n : i - 1 \in P => i \in P
  <2> SUFFICES ASSUME NEW i \in 1..n, i - 1 \in P PROVE i \in P
    OBVIOUS
  <2>1. i \in 0..n /\ i \in 1..(n + 1) /\ y[i - 1] = z[i - 1] /\ t[i] = s[i]
    BY <1>2, <1>5
  <2>2. y[i] = y[i - 1] * 10 + ToNumber(s[i])
    BY <1>1, <1>3 DEF Counts
  <2>3. z[i] = z[i - 1] * 10 + ToNumber(t[i])
    BY <1>2, <2>1, <1>4 DEF Counts
  <2> QED BY <2>1, <2>2, <2>3, <1>5
<1>8. y[n] = z[n] /\ y[n] \in Nat
  <2>1. 0..n \subseteq P /\ n \in 0..n
    <3>1. n \in Nat
      BY <1>2
    <3> QED BY <3>1, <1>6, <1>7, ByPositions
  <2>2. y \in [0..n -> Nat]
    BY <1>1, <1>3 DEF Counts
  <2> QED BY <2>1, <2>2, <1>5
<1>9. z[n + 1] = z[n] * 10 + ToNumber(c)
  <2>1. n + 1 \in 1..(n + 1) /\ (n + 1) - 1 = n
    BY <1>2
  <2>2. z[n + 1] = z[(n + 1) - 1] * 10 + ToNumber(t[n + 1])
    BY <1>2, <2>1, <1>4 DEF Counts
  <2> QED BY <1>2, <2>1, <2>2
<1>10. Number(<<>>) = 0
  <2>1. PICK e : e = <<>>
    OBVIOUS
  <2>2. e \in Seq(Decimals) /\ Len(e) = 0
    BY <2>1, EmptySeq
  <2>3. PICK x : Counts(x, e) /\ Number(e) = x[Len(e)]
    BY <2>2, NumberIs
  <2> QED BY <2>1, <2>2, <2>3 DEF Counts
<1> QED BY <1>1, <1>3, <1>4, <1>8, <1>9, <1>10

\* A number is written as digits that count it.
LEMMA NonNegNumber ==
  ASSUME NEW k \in Nat
  PROVE  NonNeg[k] \in Seq(Decimals) /\ Len(NonNeg[k]) > 0 /\ Number(NonNeg[k]) = k
<1>1. PICK T : T = {n \in Nat : Number(NonNeg[n]) = n}
  OBVIOUS
<1>2. ASSUME NEW n \in Nat, \A m \in Nat : m < n => m \in T PROVE n \in T
  <2>1. CASE n < 10
    <3>1. NonNeg[n] = <<ToDigit(n)>>
      BY <2>1, NonNegIs, Zenon DEF NonNegAt
    <3>2. PICK d, e : d = ToDigit(n) /\ e = <<>>
      OBVIOUS
    <3>3. n \in 0..9
      BY <2>1
    <3>4. d \in Decimals /\ ToNumber(d) = n
      BY <3>2, <3>3, DigitIs DEF Decimals
    <3>5. e \in Seq(Decimals) /\ Append(e, d) = <<d>>
      BY <3>2, EmptySeq
    <3>6. Number(Append(e, d)) = Number(e) * 10 + ToNumber(d) /\ Number(e) = 0
      BY <3>2, <3>4, <3>5, NumberCounts
    <3>7. Number(NonNeg[n]) = n
      BY <3>1, <3>2, <3>4, <3>5, <3>6
    <3> QED BY <3>7, <1>1
  <2>2. CASE ~(n < 10)
    <3>1. PICK m, r, d, s : m = n \div 10 /\ r = n % 10 /\ d = ToDigit(r) /\ s = NonNeg[m]
      OBVIOUS
    <3>2. m \in Nat /\ m < n /\ r \in 0..9 /\ n = 10 * m + r
      BY <2>2, <3>1, Tenth
    <3>3. NonNeg[n] = Append(s, d)
      BY <2>2, <3>1, NonNegIs, Zenon DEF NonNegAt
    <3>4. s \in Seq(Decimals) /\ d \in Decimals /\ ToNumber(d) = r
      <4>1. r \in 0..15
        BY <3>2
      <4> QED BY <4>1, <3>1, <3>2, NonNegIs, DigitIs DEF Decimals
    <3>5. Number(s) = m
      BY <1>1, <1>2, <3>1, <3>2
    <3>6. Number(Append(s, d)) = Number(s) * 10 + ToNumber(d)
      BY <3>4, NumberCounts
    <3>7. Number(NonNeg[n]) = n
      BY <3>2, <3>3, <3>4, <3>5, <3>6
    <3> QED BY <3>7, <1>1
  <2> QED BY <2>1, <2>2
<1>3. Nat \subseteq T
  BY <1>2, AllBelow
<1>4. NonNeg[k] \in Seq(Decimals) /\ Log10[k] \in Nat /\ Len(NonNeg[k]) = Log10[k] + 1
  BY NonNegIs, Log10Is, NonNegLen
<1> QED BY <1>1, <1>3, <1>4

\* text from its first character on that is no blank.
From(text, k) == SubSeq(text, k, Len(text))
Skips(text, k) == k \in 1..Len(text) /\ text[k] # Blank /\ \A i \in 1..(k - 1) : text[i] = Blank

LEMMA SkipIs ==
  ASSUME NEW S, NEW text \in Seq(S)
  PROVE  \/ SkipBlanks(text) = <<>> /\ \A i \in 1..Len(text) : text[i] = Blank
         \/ \E k : Skips(text, k) /\ SkipBlanks(text) = From(text, k)
<1>1. PICK n, solid : n = Len(text) /\ solid = {i \in DOMAIN text : text[i] # Blank}
  OBVIOUS
<1>2. n \in Nat /\ DOMAIN text = 1..n
  BY <1>1
<1>3. CASE solid = {}
  <2>1. SkipBlanks(text) = <<>>
    BY <1>1, <1>3, Zenon DEF SkipBlanks
  <2> QED BY <2>1, <1>1, <1>2, <1>3
<1>4. CASE solid # {}
  <2>1. solid \in SUBSET Nat
    BY <1>1, <1>2
  <2>2. \E i \in solid : \A j \in solid : i <= j
    BY <1>4, <2>1, LeastNumber
  <2>3. PICK k : k = CHOOSE i \in solid : \A j \in solid : i <= j
    OBVIOUS
  <2>4. k \in solid /\ \A j \in solid : k <= j
    BY <2>2, <2>3
  <2>5. SkipBlanks(text) = From(text, k)
    BY <1>1, <1>4, <2>3, Zenon DEF SkipBlanks, From
  <2>6. k \in 1..n /\ text[k] # Blank
    BY <1>1, <1>2, <2>4
  <2>7. \A i \in 1..(k - 1) : i \in 1..n /\ ~(k <= i)
    BY <1>2, <2>6
  <2>8. \A i \in 1..(k - 1) : text[i] = Blank
    BY <1>1, <1>2, <2>4, <2>7
  <2> QED BY <1>1, <2>5, <2>6, <2>8 DEF Skips
<1> QED BY <1>3, <1>4

LEMMA FromIs ==
  ASSUME NEW S, NEW text \in Seq(S), NEW k \in 1..Len(text)
  PROVE  /\ From(text, k) \in Seq(S) /\ Len(From(text, k)) = Len(text) - k + 1
         /\ From(text, k) # <<>> /\ From(text, k)[1] = text[k]
         /\ \A i \in k..Len(text) : From(text, k)[i - k + 1] = text[i]
<1>1. PICK n, t : n = Len(text) /\ t = From(text, k)
  OBVIOUS
<1>2. n \in Nat /\ text \in [1..n -> S] /\ k \in 1..n
  BY <1>1
<1>3. t = [i \in 1..(n - k + 1) |-> text[i + k - 1]]
  BY <1>1, <1>2 DEF From
<1>4. \A i \in 1..(n - k + 1) : i + k - 1 \in 1..n
  BY <1>2
<1>5. t \in [1..(n - k + 1) -> S] /\ n - k + 1 \in Nat /\ n - k + 1 > 0
  BY <1>2, <1>3, <1>4
<1>6. t \in Seq(S) /\ Len(t) = n - k + 1
  BY <1>5
<1>7. t # <<>>
  <2>1. Len(<<>>) = 0
    OBVIOUS
  <2> QED BY <2>1, <1>5, <1>6
<1>8. \A i \in k..n : i - k + 1 \in 1..(n - k + 1) /\ (i - k + 1) + k - 1 = i
  BY <1>2
<1>9. \A i \in k..n : t[i - k + 1] = text[i]
  BY <1>3, <1>8
<1>10. t[1] = text[k]
  <2>1. 1 \in 1..(n - k + 1) /\ 1 + k - 1 = k
    BY <1>2
  <2> QED BY <2>1, <1>3
<1> QED BY <1>1, <1>6, <1>7, <1>9, <1>10

\* Digits are read as their number, if the type has it, and nothing else is.
Bad(s) == \E i \in DOMAIN s : s[i] \notin Digits(10)

LEMMA GoodDigits ==
  ASSUME NEW S, NEW s \in Seq(S), ~Bad(s)
  PROVE  s \in Seq(Decimals)
<1>1. PICK n : n = Len(s)
  OBVIOUS
<1>2. n \in Nat /\ s \in [1..n -> S] /\ DOMAIN s = 1..n
  BY <1>1
<1>3. \A i \in 1..n : s[i] \in Decimals
  BY <1>2 DEF Bad, Decimals
<1>4. s \in [1..n -> Decimals]
  BY <1>2, <1>3
<1> QED BY <1>2, <1>4

LEMMA AnythingAbsorbed ==
  ASSUME NEW T \in IntegerTypes, NEW minus \in BOOLEAN, minus => T.signed, NEW S, NEW s \in Seq(S)
  PROVE  AbsorbDigits(T, minus, s)
           = IF Bad(s) THEN {} ELSE Is(Signed(minus, Number(s))) \cap Values(T)
<1>1. CASE Bad(s)
  <2>1. AbsorbDigits(T, minus, s) = {}
    BY <1>1, Zenon DEF AbsorbDigits, Bad, Failure
  <2> QED BY <1>1, <2>1
<1>2. CASE ~Bad(s)
  <2>1. s \in Seq(Decimals)
    BY <1>2, GoodDigits
  <2>2. AbsorbDigits(T, minus, s) = Is(Signed(minus, Number(s))) \cap Values(T)
    BY <2>1, DigitsAbsorbed
  <2> QED BY <1>2, <2>2
<1> QED BY <1>1, <1>2

Dash == "-"
NoDigitIsADash == Dash \notin Digits(10)

LEMMA DashIs == NoDigitIsADash
  BY DEF NoDigitIsADash, Dash, Digits, DigitChars

LEMMA BlankIs == Blank \notin Digits(10) /\ Blank # Dash
<1>1. \A d \in 1..10 : DigitChars[d] \in {"0", "1", "2", "3", "4", "5", "6", "7", "8", "9"}
  BY DEF DigitChars
<1>2. Digits(10) \subseteq {"0", "1", "2", "3", "4", "5", "6", "7", "8", "9"}
  BY <1>1, Zenon DEF Digits
<1>3. Blank \notin {"0", "1", "2", "3", "4", "5", "6", "7", "8", "9"}
  BY Zenon DEF Blank
<1>4. Blank # Dash
  BY Zenon DEF Blank, Dash
<1> QED BY <1>2, <1>3, <1>4, Zenon

\* What from_string_integer and the meaning of the text make of it once its blanks are
\* skipped.
LEMMA AfterBlanks ==
  ASSUME NEW T \in IntegerTypes, NEW S, NEW text \in Seq(S), NEW t \in Seq(S), t = SkipBlanks(text)
  PROVE  FromText(T, text) =
           IF ~T.signed /\ t # <<>> /\ t[1] = Dash THEN Failure ELSE Spelled(text) \cap Values(T)
<1>1. CASE t = <<>>
  <2>1. FromText(T, text) = Failure
    BY <1>1, Zenon DEF FromText
  <2>3. Spelled(text) = Failure
    BY <1>1, Zenon DEF Spelled
  <2> QED BY <1>1, <2>1, <2>3 DEF Failure
<1>2. CASE t = <<Dash>>
  <2>1. FromText(T, text) = Failure
    BY <1>2, Zenon DEF FromText, Dash
  <2>2. PICK d : d = Dash
    OBVIOUS
  <2>3. <<d>> # <<>> /\ <<d>>[1] = d /\ Tail(<<d>>) = <<>>
    OBVIOUS
  <2>4. t # <<>> /\ t[1] = "-" /\ Tail(t) = <<>>
    BY <1>2, <2>2, <2>3, Zenon DEF Dash
  <2>5. Spelled(text) = Failure
    BY <2>4, Zenon DEF Spelled
  <2> QED BY <2>1, <2>5 DEF Failure
<1>3. CASE t # <<>> /\ t[1] # Dash
  <2>1. FromText(T, text) = AbsorbDigits(T, FALSE, t)
    <3>1. PICK d : d = Dash
      OBVIOUS
    <3>2. <<d>>[1] = d
      OBVIOUS
    <3>3. t # <<Dash>>
      BY <1>3, <3>1, <3>2, Zenon
    <3> QED BY <1>3, <3>3, Zenon DEF FromText, Dash
  <2>2. Spelled(text) = IF Bad(t) THEN Failure ELSE Is(Number(t))
    BY <1>3, Zenon DEF Spelled, Dash, Bad
  <2>3. AbsorbDigits(T, FALSE, t) = IF Bad(t) THEN {} ELSE Is(Signed(FALSE, Number(t))) \cap Values(T)
    BY AnythingAbsorbed
  <2>4. Signed(FALSE, Number(t)) = Number(t)
    BY Zenon DEF Signed
  <2>5. AbsorbDigits(T, FALSE, t) = Spelled(text) \cap Values(T)
    <3>1. CASE Bad(t)
      BY <3>1, <2>2, <2>3 DEF Failure
    <3>2. CASE ~Bad(t)
      BY <3>2, <2>2, <2>3, <2>4, Zenon
    <3> QED BY <3>1, <3>2
  <2> QED BY <1>3, <2>1, <2>5, Zenon
<1>4. CASE t # <<>> /\ t # <<Dash>> /\ t[1] = Dash
  <2>1. PICK d : d = Tail(t)
    OBVIOUS
  <2>2. d \in Seq(S) /\ d # <<>> /\ d # t
    <3>1. d \in Seq(S) /\ Len(d) = Len(t) - 1
      BY <1>4, <2>1
    <3>2. ASSUME d = <<>> PROVE FALSE
      <4>1. Len(t) = 1
        <5>1. Len(<<>>) = 0
          OBVIOUS
        <5> QED BY <3>1, <3>2, <5>1
      <4>2. t = <<t[1]>>
        BY <4>1
      <4> QED BY <1>4, <4>2, Zenon
    <3>3. Len(t) \in Nat
      OBVIOUS
    <3> QED BY <3>1, <3>2, <3>3
  <2>3. FromText(T, text) = IF ~T.signed THEN Failure ELSE AbsorbDigits(T, TRUE, d)
    BY <1>4, <2>1, Zenon DEF FromText, Dash
  <2>4. Spelled(text) = IF Bad(d) THEN Failure ELSE Is(-Number(d))
    BY <1>4, <2>1, <2>2, Zenon DEF Spelled, Dash, Bad
  <2>5. CASE ~T.signed
    BY <1>4, <2>3, <2>5, Zenon
  <2>6. CASE T.signed
    <3>1. AbsorbDigits(T, TRUE, d) = IF Bad(d) THEN {} ELSE Is(Signed(TRUE, Number(d))) \cap Values(T)
      BY <2>2, <2>6, AnythingAbsorbed
    <3>2. Signed(TRUE, Number(d)) = -Number(d)
      BY Zenon DEF Signed
    <3>3. AbsorbDigits(T, TRUE, d) = Spelled(text) \cap Values(T)
      <4>1. CASE Bad(d)
        BY <4>1, <2>4, <3>1 DEF Failure
      <4>2. CASE ~Bad(d)
        BY <4>2, <2>4, <3>1, <3>2, Zenon
      <4> QED BY <4>1, <4>2
    <3> QED BY <2>3, <2>6, <3>3, Zenon
  <2> QED BY <2>5, <2>6
<1> QED BY <1>1, <1>2, <1>3, <1>4, Zenon

LEMMA ReadAsSpelled ==
  ASSUME NEW T \in IntegerTypes, NEW S, NEW text \in Seq(S)
  PROVE  FromText(T, text) =
           IF ~T.signed /\ Contains(text, "-") THEN Failure ELSE Spelled(text) \cap Values(T)
<1>1. PICK t : t = SkipBlanks(text)
  OBVIOUS
<1>2. t \in Seq(S)
  <2>1. CASE t = <<>>
    BY <2>1, EmptySeq
  <2>2. CASE t # <<>>
    <3>1. PICK k : Skips(text, k) /\ t = From(text, k)
      BY <1>1, <2>2, SkipIs
    <3>2. k \in 1..Len(text)
      BY <3>1 DEF Skips
    <3> QED BY <3>1, <3>2, FromIs
  <2> QED BY <2>1, <2>2
<1>3. FromText(T, text) =
        IF ~T.signed /\ t # <<>> /\ t[1] = Dash THEN Failure ELSE Spelled(text) \cap Values(T)
  BY <1>1, <1>2, AfterBlanks
<1>4. Contains(text, "-") <=> \E i \in 1..Len(text) : text[i] = Dash
  BY Zenon DEF Contains, Dash
<1>5. CASE t # <<>> /\ t[1] = Dash
  <2>1. PICK k : Skips(text, k) /\ t = From(text, k)
    BY <1>1, <1>5, SkipIs
  <2>2. k \in 1..Len(text) /\ text[k] = Dash
    BY <1>5, <2>1, FromIs DEF Skips
  <2>3. Contains(text, "-")
    BY <1>4, <2>2
  <2> QED BY <1>3, <1>5, <2>3, Zenon
<1>6. CASE ~(t # <<>> /\ t[1] = Dash)
  <2>1. FromText(T, text) = Spelled(text) \cap Values(T)
    BY <1>3, <1>6, Zenon
  <2>2. CASE ~Contains(text, "-")
    BY <2>1, <2>2, Zenon
  <2>3. CASE Contains(text, "-")
    <3>1. PICK i \in 1..Len(text) : text[i] = Dash
      BY <1>4, <2>3
    <3>2. PICK k : Skips(text, k) /\ t = From(text, k)
      BY <1>1, <3>1, SkipIs, BlankIs
    <3>3. k \in 1..Len(text) /\ ~(i \in 1..(k - 1))
      BY <3>1, <3>2, BlankIs DEF Skips
    <3>4. i \in k..Len(text)
      BY <3>3
    <3>5. t # <<>> /\ i - k + 1 \in DOMAIN t /\ t[i - k + 1] = Dash
      <4>1. t \in Seq(S) /\ Len(t) = Len(text) - k + 1 /\ t # <<>> /\ t[i - k + 1] = text[i]
        BY <3>2, <3>3, <3>4, FromIs
      <4>2. i - k + 1 \in 1..Len(t)
        BY <3>3, <3>4, <4>1
      <4> QED BY <4>1, <4>2, <3>1
    <3>6. Bad(t)
      BY <3>5, DashIs DEF Bad, NoDigitIsADash
    <3>7. t[1] # Dash
      BY <1>6, <3>5
    <3>8. Spelled(text) = Failure
      BY <1>1, <3>5, <3>6, <3>7, Zenon DEF Spelled, Dash, Bad
    <3>9. Spelled(text) \cap Values(T) = Failure
      BY <3>8 DEF Failure
    <3> QED BY <2>1, <3>9, Zenon
  <2> QED BY <2>2, <2>3
<1> QED BY <1>5, <1>6

\* A blank before a text changes nothing, and one behind it makes it no number.
LEMMA BlankBefore ==
  ASSUME NEW S, NEW text \in Seq(S)
  PROVE  SkipBlanks(<<Blank>> \o text) = SkipBlanks(text)
<1>1. PICK b, W, n : b = Blank /\ W = S \cup {b} /\ n = Len(text)
  OBVIOUS
<1>2. n \in Nat /\ text \in Seq(W) /\ <<b>> \in Seq(W) /\ Len(<<b>>) = 1 /\ <<b>>[1] = b
  BY <1>1
<1>3. PICK full : full = <<b>> \o text
  OBVIOUS
<1>4. full \in Seq(W) /\ Len(full) = n + 1
  <2>1. <<b>> \o text \in Seq(W) /\ Len(<<b>> \o text) = Len(<<b>>) + Len(text)
    BY <1>2, ConcatProperties
  <2> QED BY <1>1, <1>2, <1>3, <2>1
<1>5. full[1] = b /\ \A i \in 1..n : full[i + 1] = text[i]
  <2>1. \A i \in 1..Len(<<b>>) + Len(text) :
          (<<b>> \o text)[i] = IF i <= Len(<<b>>) THEN <<b>>[i] ELSE text[i - Len(<<b>>)]
    BY <1>2, ConcatProperties
  <2>2. \A i \in 1..n + 1 : full[i] = IF i <= 1 THEN b ELSE text[i - 1]
    <3>1. \A i \in 1..n + 1 : full[i] = IF i <= 1 THEN <<b>>[i] ELSE text[i - 1]
      BY <1>1, <1>2, <1>3, <2>1
    <3>2. \A i \in 1..n + 1 : i <= 1 => i = 1
      BY <1>2
    <3> QED BY <1>2, <3>1, <3>2
  <2>3. \A i \in 1..n : i + 1 \in 1..n + 1 /\ ~(i + 1 <= 1) /\ (i + 1) - 1 = i
    BY <1>2
  <2>4. 1 \in 1..n + 1
    BY <1>2
  <2> QED BY <2>2, <2>3, <2>4
<1>6. CASE SkipBlanks(text) = <<>> /\ \A i \in 1..Len(text) : text[i] = Blank
  <2>1. \A i \in 1..n + 1 : full[i] = b
    <3>1. \A i \in 1..n + 1 : i = 1 \/ (i - 1 \in 1..n /\ (i - 1) + 1 = i)
      BY <1>2
    <3>2. \A i \in 1..n : text[i] = b
      BY <1>1, <1>6
    <3> QED BY <1>5, <3>1, <3>2
  <2>2. ~ \E k : Skips(full, k)
    BY <1>1, <1>4, <2>1 DEF Skips
  <2>3. SkipBlanks(full) = <<>>
    BY <1>4, <2>2, SkipIs
  <2> QED BY <1>1, <1>3, <1>6, <2>3
<1>7. CASE \E k : Skips(text, k) /\ SkipBlanks(text) = From(text, k)
  <2>1. PICK k : Skips(text, k) /\ SkipBlanks(text) = From(text, k)
    BY <1>7
  <2>2. k \in 1..n /\ text[k] # b /\ \A i \in 1..(k - 1) : text[i] = b
    BY <1>1, <2>1 DEF Skips
  <2>3. k + 1 \in 1..n + 1 /\ full[k + 1] # b
    BY <1>2, <1>5, <2>2
  <2>4. PICK j : Skips(full, j) /\ SkipBlanks(full) = From(full, j)
    BY <1>1, <1>4, <2>3, SkipIs
  <2>5. j \in 1..n + 1 /\ full[j] # b /\ \A i \in 1..(j - 1) : full[i] = b
    BY <1>1, <1>4, <2>4 DEF Skips
  <2>6. j = k + 1
    <3>1. ~ (k + 1 \in 1..(j - 1))
      BY <2>3, <2>5
    <3>2. j # 1 /\ (j - 1) + 1 = j /\ j - 1 \in 1..n
      BY <1>2, <1>5, <2>5
    <3>3. text[j - 1] # b
      BY <1>5, <2>5, <3>2
    <3>4. ~ (j - 1 \in 1..(k - 1))
      BY <2>2, <3>3
    <3> QED BY <1>2, <2>2, <2>5, <3>1, <3>2, <3>4
  <2>7. PICK s, t : s = From(full, j) /\ t = From(text, k)
    OBVIOUS
  <2>8. s \in Seq(W) /\ Len(s) = n - k + 1 /\ \A i \in j..n + 1 : s[i - j + 1] = full[i]
    <3>1. /\ From(full, j) \in Seq(W) /\ Len(From(full, j)) = Len(full) - j + 1
          /\ \A i \in j..Len(full) : From(full, j)[i - j + 1] = full[i]
      BY <1>4, <2>5, FromIs
    <3>2. Len(full) - j + 1 = n - k + 1
      BY <1>2, <1>4, <2>2, <2>6
    <3> QED BY <1>4, <2>7, <3>1, <3>2
  <2>9. t \in Seq(W) /\ Len(t) = n - k + 1 /\ \A i \in k..n : t[i - k + 1] = text[i]
    <3>1. k \in 1..Len(text)
      BY <1>1, <2>2
    <3>2. /\ From(text, k) \in Seq(W) /\ Len(From(text, k)) = Len(text) - k + 1
          /\ \A i \in k..Len(text) : From(text, k)[i - k + 1] = text[i]
      BY <1>2, <3>1, FromIs
    <3> QED BY <1>1, <2>7, <3>2
  <2>10. \A i \in 1..Len(s) : s[i] = t[i]
    <3> SUFFICES ASSUME NEW i \in 1..Len(s) PROVE s[i] = t[i]
      OBVIOUS
    <3>1. PICK m : m = i + k - 1
      OBVIOUS
    <3>2. m \in k..n /\ m \in 1..n /\ m + 1 \in j..n + 1 /\ m - k + 1 = i /\ (m + 1) - j + 1 = i
      BY <1>2, <2>2, <2>6, <2>8, <3>1
    <3> QED BY <1>5, <2>8, <2>9, <3>2
  <2>11. s = t
    BY <2>8, <2>9, <2>10, SeqEqual
  <2> QED BY <1>1, <1>3, <2>1, <2>4, <2>7, <2>11
<1> QED BY <1>6, <1>7, SkipIs

LEMMA BlankBehind ==
  ASSUME NEW T \in IntegerTypes, NEW S, NEW text \in Seq(S)
  PROVE  FromText(T, Append(text, Blank)) = Failure
<1>1. PICK b, W, n : b = Blank /\ W = S \cup {b} /\ n = Len(text)
  OBVIOUS
<1>2. n \in Nat /\ text \in Seq(W) /\ b \in W
  BY <1>1
<1>3. PICK full : full = Append(text, b)
  OBVIOUS
<1>4. full \in Seq(W) /\ Len(full) = n + 1 /\ full[n + 1] = b
  BY <1>1, <1>2, <1>3, AppendProperties
<1>5. PICK t : t = SkipBlanks(full)
  OBVIOUS
<1>6. CASE t = <<>>
  BY <1>1, <1>3, <1>5, <1>6, Zenon DEF FromText
<1>7. CASE t # <<>>
  <2>1. PICK k : Skips(full, k) /\ t = From(full, k)
    BY <1>4, <1>5, <1>7, SkipIs
  <2>2. k \in 1..n + 1 /\ full[k] # b
    BY <1>1, <1>4, <2>1 DEF Skips
  <2>3. k \in 1..n /\ n + 1 \in k..n + 1
    BY <1>2, <1>4, <2>2
  <2>4. t \in Seq(W) /\ Len(t) = (n + 1) - k + 1 /\ t[(n + 1) - k + 1] = b
    <3>1. k \in 1..Len(full)
      BY <1>4, <2>2
    <3>2. /\ From(full, k) \in Seq(W) /\ Len(From(full, k)) = Len(full) - k + 1
          /\ \A i \in k..Len(full) : From(full, k)[i - k + 1] = full[i]
      BY <1>4, <3>1, FromIs
    <3> QED BY <1>4, <2>1, <2>3, <3>2
  <2>5. PICK l \in Nat : l = (n + 1) - k + 1 /\ l > 1
    BY <1>2, <2>3
  <2>6. Len(t) = l /\ t[l] = b /\ b \notin Digits(10)
    BY <1>1, <2>4, <2>5, BlankIs
  <2>7. Bad(t)
    BY <2>4, <2>5, <2>6 DEF Bad
  <2>8. PICK d : d = Tail(t)
    OBVIOUS
  <2>9. d \in Seq(W) /\ Len(d) = l - 1 /\ d[l - 1] = b
    BY <2>4, <2>5, <2>6, <2>8
  <2>10. Bad(d)
    BY <2>5, <2>6, <2>9 DEF Bad
  <2>11. Spelled(full) = Failure
    BY <1>5, <2>7, <2>8, <2>10, Zenon DEF Spelled, Bad
  <2>12. FromText(T, full) =
           IF ~T.signed /\ t # <<>> /\ t[1] = Dash THEN Failure ELSE Spelled(full) \cap Values(T)
    BY <1>4, <1>5, <2>4, AfterBlanks
  <2>13. Spelled(full) \cap Values(T) = Failure
    BY <2>11 DEF Failure
  <2> QED BY <1>1, <1>3, <2>12, <2>13, Zenon
<1> QED BY <1>6, <1>7

\* Whatever the text and whatever the integer type, the text is read as the number it
\* spells if the type has that number, and refused if not: an overflow is noticed before
\* it happens, at either end.  A blank before it changes nothing, whatever strconv.hxx:435
\* says, and one behind it makes it no number (strconv.cxx:349-472).
THEOREM EveryTextIsReadExactly ==
  ASSUME NEW T \in IntegerTypes, NEW S, NEW text \in Seq(S)
  PROVE  ReadsExactly(T, text)
<1>1. FromText(T, <<Blank>> \o text) = FromText(T, text)
  BY BlankBefore, Zenon DEF FromText
<1>2. FromText(T, Append(text, Blank)) = Failure
  BY BlankBehind
<1>3. FromText(T, text) =
        IF ~T.signed /\ Contains(text, "-") THEN Failure ELSE Spelled(text) \cap Values(T)
  BY ReadAsSpelled
<1> QED BY <1>1, <1>2, <1>3, Zenon DEF ReadsExactly

LEMMA NothingSkipped ==
  ASSUME NEW S, NEW t \in Seq(S), t # <<>>, t[1] # Blank
  PROVE  SkipBlanks(t) = t
<1>1. PICK n : n = Len(t)
  OBVIOUS
<1>2. n \in Nat /\ n > 0 /\ t \in [1..n -> S]
  BY <1>1
<1>3. PICK k : Skips(t, k) /\ SkipBlanks(t) = From(t, k)
  <2>1. 1 \in 1..Len(t)
    BY <1>1, <1>2
  <2> QED BY <2>1, SkipIs
<1>4. k = 1
  <2>1. k \in 1..n /\ ~(1 \in 1..(k - 1))
    BY <1>1, <1>3 DEF Skips
  <2> QED BY <2>1, <1>2
<1>5. From(t, 1) = t
  <2>1. From(t, 1) = [i \in 1..n |-> t[i]]
    BY <1>1, <1>2 DEF From
  <2> QED BY <1>2, <2>1
<1> QED BY <1>3, <1>4, <1>5

\* The texts of numbers spell them.
LEMMA NonNegSpelled ==
  ASSUME NEW n \in Nat
  PROVE  /\ NonNeg[n] # <<>> /\ NonNeg[n][1] # Dash
         /\ SkipBlanks(NonNeg[n]) = NonNeg[n] /\ Spelled(NonNeg[n]) = Is(n)
<1>1. PICK t : t = NonNeg[n]
  OBVIOUS
<1>2. t \in Seq(Decimals) /\ Len(t) > 0 /\ Number(t) = n
  BY <1>1, NonNegNumber
<1>3. t # <<>> /\ t[1] \in Decimals /\ \A i \in DOMAIN t : t[i] \in Decimals
  <2>1. PICK k : k = Len(t)
    OBVIOUS
  <2>2. k \in Nat /\ k > 0 /\ t \in [1..k -> Decimals]
    BY <1>2, <2>1
  <2>3. t # <<>>
    <3>1. Len(<<>>) = 0
      OBVIOUS
    <3> QED BY <2>1, <2>2, <3>1
  <2> QED BY <2>2, <2>3
<1>4. t[1] # Dash /\ t[1] # Blank
  BY <1>3, DashIs, BlankIs DEF Decimals, NoDigitIsADash
<1>5. SkipBlanks(t) = t
  BY <1>2, <1>3, <1>4, NothingSkipped
<1>6. ~ \E i \in DOMAIN t : t[i] \notin Digits(10)
  BY <1>3 DEF Decimals
<1>7. Spelled(t) = Is(Number(t))
  BY <1>3, <1>4, <1>5, <1>6, Zenon DEF Spelled, Dash
<1> QED BY <1>1, <1>2, <1>3, <1>4, <1>5, <1>7

LEMMA DashedSpelled ==
  ASSUME NEW n \in Nat
  PROVE  LET t == <<Dash>> \o NonNeg[n] IN
         /\ t \in Seq(Decimals \cup {Dash}) /\ Len(t) = 1 + Len(NonNeg[n])
         /\ SkipBlanks(t) = t /\ Spelled(t) = Is(-n)
<1>1. PICK s, t, k : s = NonNeg[n] /\ t = <<Dash>> \o s /\ k = Len(s)
  OBVIOUS
<1>2. s \in Seq(Decimals) /\ k \in Nat /\ k > 0 /\ Number(s) = n
  BY <1>1, NonNegNumber
<1>3. s \in [1..k -> Decimals]
  BY <1>1, <1>2
<1>4. PICK S : S = Decimals \cup {Dash}
  OBVIOUS
<1>5. <<Dash>> \in Seq(S) /\ s \in Seq(S) /\ Len(<<Dash>>) = 1
  <2>1. s \in [1..k -> S] /\ Dash \in S
    BY <1>3, <1>4
  <2>2. PICK d : d = Dash
    OBVIOUS
  <2>3. <<d>> \in Seq(S) /\ Len(<<d>>) = 1
    BY <2>1, <2>2
  <2> QED BY <1>2, <2>1, <2>2, <2>3
<1>6. PICK a : a = <<Dash>>
  OBVIOUS
<1>7. a \in Seq(S) /\ Len(a) = 1 /\ a[1] = Dash
  <2>1. PICK d : d = Dash
    OBVIOUS
  <2>2. <<d>>[1] = d
    OBVIOUS
  <2> QED BY <1>5, <1>6, <2>1, <2>2, Zenon
<1>8. /\ a \o s \in Seq(S) /\ Len(a \o s) = Len(a) + Len(s)
      /\ \A i \in 1..(Len(a) + Len(s)) :
           (a \o s)[i] = IF i <= Len(a) THEN a[i] ELSE s[i - Len(a)]
  <2>1. a \in Seq(S) /\ s \in Seq(S)
    BY <1>5, <1>7
  <2> QED BY <2>1, ConcatProperties
<1>9. t \in Seq(S) /\ Len(t) = 1 + k /\ t[1] = Dash /\ \A i \in 1..k : t[i + 1] = s[i]
  <2>1. t = a \o s
    BY <1>1, <1>6, Zenon
  <2>2. 1 \in 1..(1 + k) /\ \A i \in 1..k : i + 1 \in 1..(1 + k) /\ ~(i + 1 <= 1) /\ (i + 1) - 1 = i
    BY <1>2
  <2>3. PICK b : b = a \o s
    OBVIOUS
  <2>4. /\ b \in Seq(S) /\ Len(b) = 1 + k
        /\ \A i \in 1..(1 + k) : b[i] = IF i <= 1 THEN a[i] ELSE s[i - 1]
    BY <2>3, <1>1, <1>7, <1>8
  <2>5. b[1] = Dash /\ \A i \in 1..k : b[i + 1] = s[i]
    BY <2>2, <2>4, <1>7
  <2> QED BY <2>1, <2>3, <2>4, <2>5
<1>10. t # <<>>
  <2>1. Len(<<>>) = 0
    OBVIOUS
  <2> QED BY <1>2, <1>9, <2>1
<1>11. SkipBlanks(t) = t
  BY <1>9, <1>10, BlankIs, NothingSkipped
<1>12. Tail(t) = s
  <2>1. PICK r : r = Tail(t)
    OBVIOUS
  <2>2. r \in Seq(S) /\ Len(r) = k /\ \A i \in 1..k : r[i] = t[i + 1]
    BY <1>2, <1>9, <1>10, <2>1
  <2>3. \A i \in 1..k : r[i] = s[i]
    BY <1>9, <2>2
  <2>4. r = s
    BY <1>1, <1>5, <2>2, <2>3, SeqEqual
  <2> QED BY <2>1, <2>4
<1>13. s # t /\ s # <<>>
  <2>1. Len(<<>>) = 0 /\ k # 1 + k
    BY <1>2
  <2> QED BY <1>1, <1>2, <1>9, <2>1
<1>14. ~ \E i \in DOMAIN s : s[i] \notin Digits(10)
  BY <1>3 DEF Decimals
<1>15. Spelled(t) = Is(-Number(s))
  BY <1>9, <1>10, <1>11, <1>12, <1>13, <1>14, Zenon DEF Spelled, Dash
<1> QED BY <1>1, <1>2, <1>4, <1>9, <1>11, <1>15, Zenon

\* Every value of every integer type, the lowest one too, is written as text in the
\* buffer its type asks for, with the zero that ends it, and read back as itself
\* (strconv.cxx:66-184, :406-472; conversions.hxx:115).
THEOREM EveryIntegerGoesThrough ==
  ASSUME NEW T \in IntegerTypes, NEW v \in Values(T)
  PROVE  GoesThrough(T, v)
<1>1. PICK half \in Nat, bottom \in Int, top \in Nat :
        /\ T.size = 2 * half /\ bottom = Bottom(T) /\ top = Top(T) /\ Values(T) = bottom..top
        /\ T.signed => bottom = -half /\ top = half - 1
        /\ ~T.signed => bottom = 0 /\ top = 2 * half - 1
  BY TypeIs
<1>2. v \in Int /\ bottom <= v /\ v <= top
  BY <1>1
<1>0. PICK limit \in Nat : limit = top + 1
  BY <1>1
<1>3. PICK room : room = Log10[limit]
  OBVIOUS
<1>4. room \in Nat
  BY <1>3, Log10Is
<1>5. SizeBuffer(T) = (IF T.signed THEN 1 ELSE 0) + room + 1 + 1
  BY <1>0, <1>1, <1>3, Zenon DEF SizeBuffer, Digits10
<1>6. \A n \in Nat : n <= top + 1 => Len(NonNeg[n]) <= room + 1
  <2> SUFFICES ASSUME NEW n \in Nat, n <= top + 1 PROVE Len(NonNeg[n]) <= room + 1
    OBVIOUS
  <2>1. Log10[n] <= room /\ Log10[n] \in Nat
    <3>1. n <= limit
      BY <1>0
    <3> QED BY <3>1, <1>3, Log10Grows, Log10Is
  <2> QED BY <1>4, <2>1, NonNegLen
<1>7. CASE v >= 0
  <2>1. ToText(T, v) = NonNeg[v] /\ v \in Nat
    BY <1>2, <1>7 DEF ToText
  <2>2. Len(ToText(T, v)) + 1 <= SizeBuffer(T)
    <3>1. Len(NonNeg[v]) <= room + 1 /\ Len(NonNeg[v]) \in Nat
      BY <1>2, <1>6, <2>1, NonNegNumber
    <3>2. CASE T.signed
      BY <3>1, <3>2, <1>4, <1>5, <2>1
    <3>3. CASE ~T.signed
      BY <3>1, <3>3, <1>4, <1>5, <2>1
    <3> QED BY <3>2, <3>3
  <2>3. FromText(T, NonNeg[v]) = Is(v)
    <3>1. PICK t : t = NonNeg[v]
      OBVIOUS
    <3>2. t \in Seq(Decimals) /\ t = SkipBlanks(t) /\ t[1] # Dash /\ Spelled(t) = Is(v)
      BY <2>1, <3>1, NonNegNumber, NonNegSpelled
    <3>3. FromText(T, t) = Spelled(t) \cap Values(T)
      BY <3>2, AfterBlanks
    <3>4. Is(v) \cap Values(T) = Is(v)
      BY DEF Is
    <3> QED BY <3>1, <3>2, <3>3, <3>4
  <2> QED BY <2>1, <2>2, <2>3 DEF GoesThrough
<1>8. CASE ~(v >= 0)
  <2>1. PICK n \in Nat : n = -v
    BY <1>2, <1>8
  <2>2. T.signed /\ n <= top + 1 /\ v = -n
    <3>1. CASE ~T.signed
      BY <1>1, <1>2, <1>8, <3>1
    <3>2. CASE T.signed
      BY <1>1, <1>2, <2>1, <3>2
    <3> QED BY <3>1, <3>2
  <2>3. ToText(T, v) = <<Dash>> \o NonNeg[n]
    <3>1. CASE v > Bottom(T)
      BY <1>8, <2>1, <3>1, Zenon DEF ToText, Dash
    <3>2. CASE ~(v > Bottom(T))
      <4>1. T.size + v = n
        BY <1>1, <1>2, <2>1, <2>2, <3>2
      <4> QED BY <1>8, <3>2, <4>1, Zenon DEF ToText, Dash
    <3> QED BY <3>1, <3>2
  <2>4. PICK t : t = <<Dash>> \o NonNeg[n]
    OBVIOUS
  <2>5. /\ t \in Seq(Decimals \cup {Dash}) /\ Len(t) = 1 + Len(NonNeg[n])
        /\ SkipBlanks(t) = t /\ Spelled(t) = Is(-n)
    BY <2>4, DashedSpelled, Zenon
  <2>6. Len(t) + 1 <= SizeBuffer(T)
    <3>1. Len(NonNeg[n]) <= room + 1 /\ Len(NonNeg[n]) \in Nat
      BY <1>6, <2>2, NonNegNumber
    <3> QED BY <3>1, <1>4, <1>5, <2>2, <2>5
  <2>7. FromText(T, t) = Spelled(t) \cap Values(T)
    BY <2>2, <2>5, AfterBlanks
  <2>8. Is(v) \cap Values(T) = Is(v)
    BY DEF Is
  <2>9. FromText(T, t) = Is(v)
    BY <2>2, <2>5, <2>7, <2>8
  <2> QED BY <2>3, <2>4, <2>6, <2>9 DEF GoesThrough
<1> QED BY <1>7, <1>8

\* h is what esc_bin writes of data, two digits of each byte.
ByteValues == 0..255
Hex(b) == <<ToDigit(b \div 16), ToDigit(b % 16)>>
Hexes == [b \in ByteValues |-> Hex(b)]
Hexed(h, data) ==
  /\ h \in Seq(Digits(16)) /\ Len(h) = 2 * Len(data)
  /\ \A i \in 1..Len(data) :
       h[2 * i - 1] = ToDigit(data[i] \div 16) /\ h[2 * i] = ToDigit(data[i] % 16)

LEMMA ByteIs ==
  ASSUME NEW b \in ByteValues
  PROVE  /\ b \div 16 \in 0..15 /\ b % 16 \in 0..15 /\ (b \div 16) * 16 + (b % 16) = b
         /\ ToDigit(b \div 16) \in Digits(16) /\ ToDigit(b % 16) \in Digits(16)
<1>1. b \div 16 \in 0..15 /\ b % 16 \in 0..15 /\ (b \div 16) * 16 + (b % 16) = b
  BY DEF ByteValues
<1> QED BY <1>1, DigitIs

LEMMA BytesHexed ==
  ASSUME NEW data \in Seq(ByteValues)
  PROVE  Hexed(Spread(Hexes, data), data)
<1>1. PICK D : D = Digits(16)
  OBVIOUS
<1>2. Hexes \in SeqMaps(ByteValues, D)
  <2>1. \A b \in ByteValues : Hex(b) \in Seq(D)
    <3> TAKE b \in ByteValues
    <3>1. PICK x, y : x = ToDigit(b \div 16) /\ y = ToDigit(b % 16)
      OBVIOUS
    <3>2. x \in D /\ y \in D
      BY <1>1, <3>1, ByteIs
    <3>3. <<x, y>> \in Seq(D)
      BY <3>2
    <3> QED BY <3>1, <3>3, Zenon DEF Hex
  <2> QED BY <2>1 DEF Hexes, SeqMaps
<1>3. PICK T : T = {d \in Seq(ByteValues) : Hexed(Spread(Hexes, d), d)}
  OBVIOUS
<1>4. <<>> \in T
  <2>1. PICK e : e = <<>>
    OBVIOUS
  <2>2. e \in Seq(ByteValues) /\ e \in Seq(D) /\ Len(e) = 0
    BY <2>1, EmptySeq
  <2>3. Spread(Hexes, e) = e
    BY <2>1, SpreadNone
  <2>4. Hexed(e, e)
    BY <1>1, <2>2 DEF Hexed
  <2> QED BY <1>3, <2>1, <2>2, <2>3, <2>4
<1>5. ASSUME NEW d \in Seq(ByteValues), NEW b \in ByteValues, d \in T
      PROVE  Append(d, b) \in T
  <2>1. PICK n, h, c : n = Len(d) /\ h = Spread(Hexes, d) /\ c = Append(d, b)
    OBVIOUS
  <2>2. PICK x, y : x = ToDigit(b \div 16) /\ y = ToDigit(b % 16)
    OBVIOUS
  <2>3. x \in D /\ y \in D
    BY <1>1, <2>2, ByteIs
  <2>4. PICK two : two = <<x, y>>
    OBVIOUS
  <2>5. two \in Seq(D) /\ Len(two) = 2 /\ two[1] = x /\ two[2] = y
    BY <2>3, <2>4
  <2>6. Spread(Hexes, c) = h \o two
    <3>1. Spread(Hexes, c) = Spread(Hexes, d) \o Hexes[b]
      BY <1>2, <2>1, SpreadAppend
    <3>2. Hexes[b] = two
      BY <2>2, <2>4 DEF Hexes, Hex
    <3> QED BY <2>1, <3>1, <3>2
  <2>7. /\ n \in Nat /\ h \in Seq(D) /\ Len(h) = 2 * n
        /\ \A i \in 1..n : h[2 * i - 1] = ToDigit(d[i] \div 16) /\ h[2 * i] = ToDigit(d[i] % 16)
    BY <1>1, <1>3, <1>5, <2>1 DEF Hexed
  <2>8. /\ c \in Seq(ByteValues) /\ Len(c) = n + 1 /\ c[n + 1] = b
        /\ \A i \in 1..n : c[i] = d[i]
    BY <2>1, AppendProperties
  <2>9. PICK g : g = h \o two
    OBVIOUS
  <2>10. /\ g \in Seq(D) /\ Len(g) = Len(h) + Len(two)
         /\ \A i \in 1..(Len(h) + Len(two)) : g[i] = IF i <= Len(h) THEN h[i] ELSE two[i - Len(h)]
    <3>1. h \in Seq(D) /\ two \in Seq(D)
      BY <2>5, <2>7
    <3>2. /\ h \o two \in Seq(D) /\ Len(h \o two) = Len(h) + Len(two)
          /\ \A i \in 1..(Len(h) + Len(two)) :
               (h \o two)[i] = IF i <= Len(h) THEN h[i] ELSE two[i - Len(h)]
      BY <3>1, ConcatProperties
    <3> QED BY <3>2, <2>9
  <2>11. /\ Len(g) = 2 * (n + 1)
         /\ \A i \in 1..(2 * n + 2) : g[i] = IF i <= 2 * n THEN h[i] ELSE two[i - 2 * n]
    BY <2>5, <2>7, <2>10
  <2>12. \A i \in 1..n : g[2 * i - 1] = h[2 * i - 1] /\ g[2 * i] = h[2 * i]
    <3>1. \A i \in 1..n : /\ 2 * i - 1 \in 1..(2 * n + 2) /\ 2 * i - 1 <= 2 * n
                          /\ 2 * i \in 1..(2 * n + 2) /\ 2 * i <= 2 * n
      BY <2>7
    <3> QED BY <3>1, <2>11
  <2>13. g[2 * (n + 1) - 1] = x /\ g[2 * (n + 1)] = y
    <3>1. PICK j, k : j = 2 * (n + 1) - 1 /\ k = 2 * (n + 1)
      OBVIOUS
    <3>2. /\ j \in 1..(2 * n + 2) /\ ~(j <= 2 * n) /\ j - 2 * n = 1
          /\ k \in 1..(2 * n + 2) /\ ~(k <= 2 * n) /\ k - 2 * n = 2
      BY <3>1, <2>7
    <3>3. g[j] = two[1] /\ g[k] = two[2]
      BY <3>2, <2>11
    <3> QED BY <3>1, <3>3, <2>5
  <2>14. ASSUME NEW i \in 1..(n + 1)
         PROVE  g[2 * i - 1] = ToDigit(c[i] \div 16) /\ g[2 * i] = ToDigit(c[i] % 16)
    <3>1. CASE i \in 1..n
      BY <3>1, <2>7, <2>8, <2>12
    <3>2. CASE i = n + 1
      BY <3>2, <2>2, <2>8, <2>13
    <3> QED BY <2>7, <3>1, <3>2
  <2>15. Hexed(g, c)
    BY <1>1, <2>8, <2>10, <2>11, <2>14 DEF Hexed
  <2> QED BY <1>3, <2>1, <2>6, <2>8, <2>9, <2>15
<1>6. Seq(ByteValues) \subseteq T
  BY <1>4, <1>5, BySequences
<1> QED BY <1>3, <1>6

Prefix == <<"\\", "x">>

\* Whatever the bytes, they are written in hexadecimal digits and read back as
\* themselves (util.cxx:102-200).
THEOREM EveryBinaryGoesThrough ==
  ASSUME NEW data \in Seq(ByteValues)
  PROVE  UnescBin(EscBin(data)) = Is(data)
<1>1. PICK n, h, p : n = Len(data) /\ h = Spread(Hexes, data) /\ p = Prefix
  OBVIOUS
<1>2. n \in Nat /\ data \in [1..n -> ByteValues] /\ DOMAIN data = 1..n
  BY <1>1
<1>3. /\ h \in Seq(Digits(16)) /\ Len(h) = 2 * n
      /\ \A i \in 1..n : h[2 * i - 1] = ToDigit(data[i] \div 16) /\ h[2 * i] = ToDigit(data[i] % 16)
  BY <1>1, BytesHexed DEF Hexed
<1>4. EscBin(data) = p \o h
  <2>1. [i \in DOMAIN data |-> Hexes[data[i]]] = [i \in DOMAIN data |-> Hex(data[i])]
    BY <1>2 DEF Hexes
  <2>2. h = FlattenSeq([i \in DOMAIN data |-> Hex(data[i])])
    BY <1>1, <2>1, Zenon DEF Spread
  <2> QED BY <1>1, <2>2, Zenon DEF EscBin, Hex, Prefix
<1>5. PICK C, q : C = {p[1], p[2]} \cup Digits(16) /\ q = p \o h
  OBVIOUS
<1>6. p \in Seq(C) /\ h \in Seq(C) /\ Len(p) = 2
  <2>1. p = <<p[1], p[2]>>
    BY <1>1, Zenon DEF Prefix
  <2>2. PICK x, y : x = p[1] /\ y = p[2]
    OBVIOUS
  <2>3. <<x, y>> \in Seq(C) /\ Len(<<x, y>>) = 2
    BY <1>5, <2>2
  <2>4. h \in Seq(C)
    <3>1. h \in [1..(2 * n) -> Digits(16)] /\ 2 * n \in Nat
      BY <1>2, <1>3
    <3>2. h \in [1..(2 * n) -> C]
      BY <3>1, <1>5
    <3> QED BY <3>1, <3>2
  <2> QED BY <2>1, <2>2, <2>3, <2>4
<1>7. /\ q \in Seq(C) /\ Len(q) = Len(p) + Len(h)
      /\ \A i \in 1..(Len(p) + Len(h)) : q[i] = IF i <= Len(p) THEN p[i] ELSE h[i - Len(p)]
  <2>1. p \in Seq(C) /\ h \in Seq(C)
    BY <1>6
  <2>2. /\ p \o h \in Seq(C) /\ Len(p \o h) = Len(p) + Len(h)
        /\ \A i \in 1..(Len(p) + Len(h)) : (p \o h)[i] = IF i <= Len(p) THEN p[i] ELSE h[i - Len(p)]
    BY <2>1, ConcatProperties
  <2> QED BY <2>2, <1>5
<1>8. Len(q) = 2 * n + 2 /\ \A i \in 1..(2 * n + 2) : q[i] = IF i <= 2 THEN p[i] ELSE h[i - 2]
  BY <1>2, <1>3, <1>6, <1>7
<1>9. SubSeq(q, 1, 2) = <<"\\", "x">>
  <2>1. 1 \in 1..(2 * n + 2) /\ 2 \in 1..(2 * n + 2)
    BY <1>2
  <2>2. q[1] = p[1] /\ q[2] = p[2]
    BY <2>1, <1>8
  <2>3. SubSeq(q, 1, 2) = <<q[1], q[2]>>
    <3>1. PICK r, x, y : r = SubSeq(q, 1, 2) /\ x = q[1] /\ y = q[2]
      OBVIOUS
    <3>2. Len(q) \in Nat /\ 2 <= Len(q)
      BY <1>2, <1>8
    <3>3. r \in Seq(C) /\ Len(r) = 2 /\ r[1] = x /\ r[2] = y
      BY <3>1, <3>2, <1>7
    <3>4. r = <<r[1], r[2]>>
      BY <3>3
    <3> QED BY <3>1, <3>3, <3>4, Zenon
  <2>4. p = <<p[1], p[2]>>
    BY <1>1, Zenon DEF Prefix
  <2>5. SubSeq(q, 1, 2) = p
    BY <2>2, <2>3, <2>4, Zenon
  <2> QED BY <1>1, <2>5, Zenon DEF Prefix
<1>10. ~(Len(q) < 2) /\ ~(Len(q) % 2 # 0) /\ SizeUnescBin(Len(q)) = n
  BY <1>2, <1>8 DEF SizeUnescBin
<1>11. \A i \in 3..Len(q) : q[i] \in Digits(16)
  <2>1. h \in [1..(2 * n) -> Digits(16)]
    BY <1>3
  <2>2. \A i \in 3..Len(q) : i \in 1..(2 * n + 2) /\ ~(i <= 2) /\ i - 2 \in 1..(2 * n)
    BY <1>2, <1>8
  <2> QED BY <2>1, <2>2, <1>8
<1>12. ASSUME NEW i \in 1..n
       PROVE  Nibble(q[2 * i + 1]) * 16 + Nibble(q[2 * i + 2]) = data[i]
  <2>1. PICK j, k, b : j = 2 * i + 1 /\ k = 2 * i + 2 /\ b = data[i]
    OBVIOUS
  <2>2. /\ j \in 1..(2 * n + 2) /\ ~(j <= 2) /\ j - 2 = 2 * i - 1
        /\ k \in 1..(2 * n + 2) /\ ~(k <= 2) /\ k - 2 = 2 * i
    BY <2>1, <1>2
  <2>3. q[j] = ToDigit(b \div 16) /\ q[k] = ToDigit(b % 16)
    BY <2>1, <2>2, <1>3, <1>8
  <2>4. b \in ByteValues
    BY <1>2, <2>1
  <2>5. PICK x, y : x = b \div 16 /\ y = b % 16
    OBVIOUS
  <2>6. x \in 0..15 /\ y \in 0..15 /\ x * 16 + y = b
    BY <2>4, <2>5, ByteIs
  <2>7. Nibble(q[j]) = x /\ Nibble(q[k]) = y
    BY <2>3, <2>5, <2>6, DigitIs DEF Nibble
  <2> QED BY <2>1, <2>6, <2>7
<1>13. UnescBin(q) = Is([i \in 1..n |-> Nibble(q[2 * i + 1]) * 16 + Nibble(q[2 * i + 2])])
  BY <1>9, <1>10, <1>11, Zenon DEF UnescBin
<1>14. [i \in 1..n |-> Nibble(q[2 * i + 1]) * 16 + Nibble(q[2 * i + 2])] = data
  BY <1>2, <1>12
<1> QED BY <1>4, <1>5, <1>13, <1>14

-----------------------------------------------------------------------------
(* What the run "values" looks at                                            *)

\* What has been picked is an input of its part.
PickedIsInput == in = <<>> \/ \E x \in Inputs[part] : in = <<x>>

LEMMA PickedAlways == ValuesSpec => []PickedIsInput
<1>1. ValuesInit => PickedIsInput
  BY DEF ValuesInit, PickedIsInput
<1>2. PickedIsInput /\ [Pick \/ Phones]_<<vars, part, in>> => PickedIsInput'
  <2> SUFFICES ASSUME PickedIsInput, [Pick \/ Phones]_<<vars, part, in>>
               PROVE  PickedIsInput'
    OBVIOUS
  <2>1. CASE Pick
    <3>1. PICK x \in Inputs[part] : in' = <<x>>
      BY <2>1 DEF Pick
    <3>2. part' = part
      BY <2>1 DEF Pick
    <3> QED BY <3>1, <3>2 DEF PickedIsInput, Inputs
  <2>2. CASE Phones
    BY <2>2 DEF Phones, PickedIsInput, Inputs
  <2>3. CASE UNCHANGED <<vars, part, in>>
    BY <2>3 DEF PickedIsInput, Inputs
  <2> QED BY <2>1, <2>2, <2>3
<1> QED BY <1>1, <1>2, PTL DEF ValuesSpec

\* The inputs of the encodings are texts of bytes, in an encoding there is.
LEMMA EncodedInputsAre ==
  /\ Bytes \subseteq AnyByte /\ BoundedSeq(Bytes, 2) \subseteq Seq(AnyByte)
  /\ \A x \in EncodedInputs :
       /\ x.head \in Seq(AnyByte) /\ GroupOf[x.name] \in Groups
       /\ x.name # "MULE_INTERNAL" => GroupOf[x.name] # "MULE_INTERNAL"
<1>1. Bytes \subseteq AnyByte
  BY DEF Bytes, AnyByte
<1>2. BoundedSeq(Bytes, 2) \subseteq Seq(AnyByte)
  <2>1. \A m \in 0..2 : \A s \in [1..m -> Bytes] : s \in Seq(AnyByte)
    BY <1>1
  <2> QED BY <2>1 DEF BoundedSeq, SeqOf
<1>3. \A n \in DOMAIN GroupOf : /\ GroupOf[n] \in Groups
                                /\ n # "MULE_INTERNAL" => GroupOf[n] # "MULE_INTERNAL"
  BY DEF GroupOf, SingleByte, MultiByte, Groups
<1>4. \A x \in EncodedInputs : x.head \in BoundedSeq(Bytes, 2) /\ x.name \in DOMAIN GroupOf
  BY DEF EncodedInputs, MultiByte, SingleByte, GroupOf
<1> QED BY <1>1, <1>2, <1>3, <1>4

\* Characters end where their own bytes say and are found where they begin
\* (encodings.hxx): what the run "values" tries with a few bytes, by the theorems of
\* TextProofs, which say it of every text.
THEOREM TextsAlwaysScanned == ValuesSpec => []TextsAreScanned
<1>1. PickedIsInput => TextsAreScanned
  <2> SUFFICES ASSUME PickedIsInput, Picked("encodings")
               PROVE  \A tail \in BoundedSeq(Bytes, 2) :
                        /\ StaysInside(GroupOf[It.name], It.head \o tail)
                        /\ It.name # "MULE_INTERNAL" =>
                             /\ EndsItself(GroupOf[It.name], It.head \o tail)
                             /\ FindsCharacters(GroupOf[It.name], It.head \o tail, {\h5C})
    BY DEF TextsAreScanned, ScannersStayInside, SearchFindsCharacters
  <2>1. It \in EncodedInputs
    <3>1. PICK x \in Inputs["encodings"] : in = <<x>>
      BY DEF PickedIsInput, Picked
    <3>2. Inputs["encodings"] = EncodedInputs
      BY DEF Inputs
    <3> QED BY <3>1, <3>2 DEF It
  <2> TAKE tail \in BoundedSeq(Bytes, 2)
  <2>2. PICK group, text : group = GroupOf[It.name] /\ text = It.head \o tail
    OBVIOUS
  <2>3. group \in Groups /\ (It.name # "MULE_INTERNAL" => group # "MULE_INTERNAL")
    BY <2>1, <2>2, EncodedInputsAre
  <2>4. It.head \in Seq(AnyByte) /\ tail \in Seq(AnyByte)
    BY <2>1, EncodedInputsAre
  <2>5. text \in Seq(AnyByte)
    BY <2>2, <2>4, ConcatProperties
  <2>6. StaysInside(group, text)
    BY <2>3, <2>5, TextsStayInside
  <2>7. ASSUME It.name # "MULE_INTERNAL"
        PROVE  EndsItself(group, text) /\ FindsCharacters(group, text, {\h5C})
    <3>1. group \in Groups \ {"MULE_INTERNAL"}
      BY <2>3, <2>7
    <3>2. {\h5C} \in SUBSET Ascii
      BY DEF Ascii
    <3> QED BY <2>5, <3>1, <3>2, EveryCharacterEndsItself, EverySearchFindsCharacters
  <2> QED BY <2>2, <2>6, <2>7
<1> QED BY <1>1, PickedAlways, PTL

-----------------------------------------------------------------------------
(* What the run "values" looks at in a statement                             *)

\* The characters of the run's statements.
StatementCharacters == {"a", ".", ",", Apostrophe, DoubleQuote, Backslash, AnyOne, AnyMany, Gap}

\* Bounded sequences are sequences.
LEMMA BoundedAre ==
  ASSUME NEW C, NEW S, C \subseteq S, NEW k \in Nat
  PROVE  BoundedSeq(C, k) \subseteq Seq(S)
<1>1. ASSUME NEW l \in 0..k, NEW s \in [1..l -> C]
      PROVE  s \in Seq(S)
  <2>1. s \in [1..l -> S] /\ l \in Nat
    OBVIOUS
  <2> QED BY <2>1
<1> QED BY <1>1 DEF BoundedSeq, SeqOf

\* The inputs of the quoting are lists of texts.
LEMMA QuotingInputsAre == QuotingInputs \subseteq Seq(Seq(StatementCharacters))
<1>1. PICK C, D : /\ C = {"a", ".", ",", Apostrophe, DoubleQuote, Backslash, AnyOne, AnyMany}
                  /\ D = {"a", Apostrophe, DoubleQuote, Backslash, AnyMany}
  OBVIOUS
<1>2. C \subseteq StatementCharacters /\ D \subseteq StatementCharacters
  BY <1>1 DEF StatementCharacters
<1>3. QuotingInputs = BoundedSeq(BoundedSeq(C, 1), 3) \cup BoundedSeq(BoundedSeq(D, 2), 2)
  BY <1>1, Zenon DEF QuotingInputs
<1>4. BoundedSeq(C, 1) \subseteq Seq(StatementCharacters) /\ BoundedSeq(D, 2) \subseteq Seq(StatementCharacters)
  BY <1>2, BoundedAre
<1>5. BoundedSeq(BoundedSeq(C, 1), 3) \subseteq Seq(Seq(StatementCharacters))
  BY <1>4, BoundedAre
<1>6. BoundedSeq(BoundedSeq(D, 2), 2) \subseteq Seq(Seq(StatementCharacters))
  BY <1>4, BoundedAre
<1> QED BY <1>3, <1>5, <1>6

\* The inputs of the parameters are two lists of them.
LEMMA ParamInputsAre ==
  \A x \in ParamInputs : x.p \in Seq(ParamsOver({"a"})) /\ x.q \in Seq(ParamsOver({"a"}))
<1> DEFINE entries == {NullParam} \cup {Param(k, d) : k \in {"text", "binary"}, d \in BoundedSeq({"a"}, 2)}
<1>1. ParamInputs = [p : BoundedSeq(entries, 2), q : BoundedSeq(entries, 2)]
  BY DEF ParamInputs
<1>2. BoundedSeq({"a"}, 2) \subseteq Seq({"a"})
  BY BoundedAre
<1>3. entries \subseteq ParamsOver({"a"})
  <2>1. PICK X, B : X = Seq({"a"}) /\ B = BoundedSeq({"a"}, 2)
    OBVIOUS
  <2>2. /\ B \subseteq X
        /\ entries = {NullParam} \cup {Param(k, d) : k \in {"text", "binary"}, d \in B}
        /\ ParamsOver({"a"}) = {NullParam} \cup {Param(k, d) : k \in {"text", "binary"}, d \in X}
    BY <1>2, <2>1 DEF ParamsOver
  <2> HIDE DEF entries
  <2> QED BY <2>2
<1> HIDE DEF entries
<1>4. BoundedSeq(entries, 2) \subseteq Seq(ParamsOver({"a"}))
  BY <1>3, BoundedAre
<1> QED BY <1>1, <1>4

\* Short sequences.
LEMMA ShortAre ==
  ASSUME NEW S, NEW c \in S, NEW g \in S
  PROVE  <<>> \in Seq(S) /\ <<c>> \in Seq(S) /\ <<c, g>> \in Seq(S)
OBVIOUS

\* Quoted values and names.
LEMMA PickedAsMeant == PickedIsInput => QuotedAsMeant
<1> SUFFICES ASSUME PickedIsInput, Picked("quoting")
             PROVE  QuotedAsMeant
  BY DEF QuotedAsMeant
<1>1. It \in Seq(Seq(StatementCharacters))
  <2>1. PICK x \in Inputs["quoting"] : in = <<x>>
    BY DEF PickedIsInput, Picked
  <2>2. Inputs["quoting"] = QuotingInputs
    BY DEF Inputs
  <2>3. It = x
    BY <2>1 DEF It
  <2> QED BY <2>1, <2>2, <2>3, QuotingInputsAre
<1>2. PICK S, path : S = StatementCharacters /\ path = It
  OBVIOUS
<1>3. Apostrophe \in S /\ {DoubleQuote, ".", ","} \subseteq S /\ Gap \in S /\ "," \in S
  BY <1>2 DEF StatementCharacters
<1>7. path \in Seq(Seq(S))
  BY <1>1, <1>2, Zenon
<1>4. ASSUME NEW i \in DOMAIN path
      PROVE  /\ ServerLiteral(QuoteValue(FALSE, path[i])) = {path[i]}
             /\ Len(QuoteValue(FALSE, path[i])) < QuoteBuffer(path[i])
             /\ ServerLiteral(QuoteValue(TRUE, path[i])) = {}
  <2>1. path[i] \in Seq(S)
    BY <1>7
  <2> QED BY <1>3, <2>1, EveryValueIsQuoted
<1>5. ASSUME path # <<>>
      PROVE  /\ UNION {ServerNames(t, ".") : t \in QuoteTable(path)} = {path}
             /\ UNION {ServerNames(t, ",") : t \in QuoteColumns(path)} = {path}
  BY <1>3, <1>5, <1>7, EveryPathIsQuoted
<1>6. ASSUME NEW sep \in {<<>>, <<",">>, <<",", Gap>>}
      PROVE  SeparatedList(sep, [i \in DOMAIN path |-> Item(path[i])]) # {}
  <2>1. sep \in Seq(S)
    <3>1. <<>> \in Seq(S) /\ <<",">> \in Seq(S) /\ <<",", Gap>> \in Seq(S)
      BY <1>3, ShortAre
    <3> QED BY <1>6, <3>1, Zenon
  <2>2. PICK x : Joins(x, S, sep, path)
    BY <1>7, <2>1, ThereIsAList
  <2>3. SeparatedList(sep, ItemsOf(path)) = {x[Len(path)]}
    BY <1>7, <2>1, <2>2, SeparatedIs
  <2>4. ItemsOf(path) = [i \in DOMAIN path |-> Item(path[i])]
    BY DEF ItemsOf
  <2> QED BY <2>3, <2>4
<1> QED BY <1>2, <1>4, <1>5, <1>6, Zenon DEF QuotedAsMeant

\* Patterns.
LEMMA PickedMatchesItself == PickedIsInput => LikeMatchesItself
<1> SUFFICES ASSUME PickedIsInput, Picked("quoting"), Len(It) = 2, Backslash \notin Range(It[1])
             PROVE  Matches(It[2], EscLike(It[1], Backslash), Backslash) <=> It[2] = It[1]
  BY Zenon DEF LikeMatchesItself
<1>1. It \in Seq(Seq(StatementCharacters))
  <2>1. PICK x \in Inputs["quoting"] : in = <<x>>
    BY DEF PickedIsInput, Picked
  <2>2. Inputs["quoting"] = QuotingInputs
    BY DEF Inputs
  <2>3. It = x
    BY <2>1 DEF It
  <2> QED BY <2>1, <2>2, <2>3, QuotingInputsAre
<1>2. PICK S, x, y, b : S = StatementCharacters /\ x = It[1] /\ y = It[2] /\ b = Backslash
  OBVIOUS
<1>3. x \in Seq(S) /\ y \in Seq(S)
  <2>1. PICK two : two = It
    OBVIOUS
  <2>2. two \in Seq(Seq(S)) /\ Len(two) = 2 /\ x = two[1] /\ y = two[2]
    BY <1>1, <1>2, <2>1, Zenon
  <2> QED BY <2>2
<1>4. b # AnyOne
  BY <1>2, Zenon DEF Backslash, AnyOne
<1>5. b # AnyMany
  BY <1>2, Zenon DEF Backslash, AnyMany
<1>6. b \in S \ {AnyOne, AnyMany}
  BY <1>2, <1>4, <1>5 DEF StatementCharacters
<1>7. \A i \in 1..Len(x) : x[i] \in S \ {b}
  BY <1>2, <1>3 DEF Range
<1>8. x \in Seq(S \ {b})
  BY <1>3, <1>7
<1>9. Matches(y, EscLike(x, b), b) <=> y = x
  BY <1>3, <1>6, <1>8, EveryTextIsItsPattern
<1> QED BY <1>2, <1>9

\* Parameters.
LEMMA PickedInStep == PickedIsInput => ParamsInStep
<1> SUFFICES ASSUME PickedIsInput, Picked("params")
             PROVE  ParamsInStep
  BY DEF ParamsInStep
<1>1. It.p \in Seq(ParamsOver({"a"})) /\ It.q \in Seq(ParamsOver({"a"}))
  <2>1. PICK x \in Inputs["params"] : in = <<x>>
    BY DEF PickedIsInput, Picked
  <2>2. Inputs["params"] = ParamInputs
    BY DEF Inputs
  <2>3. It = x
    BY <2>1 DEF It
  <2> QED BY <2>1, <2>2, <2>3, ParamInputsAre
<1>2. PICK p, q, S : p = It.p /\ q = It.q /\ S = {"a"}
  OBVIOUS
<1>3. p \in Seq(ParamsOver(S)) /\ q \in Seq(ParamsOver(S))
  BY <1>1, <1>2
<1> QED BY <1>2, <1>3, EveryParameterIsSent DEF ParamsInStep

\* The connection string.
LEMMA PickedAlike == PickedIsInput => ReconnectsAlike
<1> SUFFICES ASSUME PickedIsInput, Picked("options")
             PROVE  ReconnectsAlike
  BY DEF ReconnectsAlike
<1>1. It \in OptionInputs
  <2>1. PICK x \in Inputs["options"] : in = <<x>>
    BY DEF PickedIsInput, Picked
  <2>2. Inputs["options"] = OptionInputs
    BY DEF Inputs
  <2>3. It = x
    BY <2>1 DEF It
  <2> QED BY <2>1, <2>2, <2>3
<1>2. PICK K, V : K = {"host", "port"} /\ V = {"x", "y"}
  OBVIOUS
<1>3. KeptApart(K, V)
  <2>1. Gap # "host" /\ Gap # "port" /\ Gap # "x" /\ Gap # "y"
    BY Zenon DEF Gap
  <2>2. Apostrophe # "x" /\ Apostrophe # "y" /\ Backslash # "x" /\ Backslash # "y"
    BY DEF Apostrophe, Backslash
  <2> QED BY <1>2, <2>1, <2>2 DEF KeptApart
<1>4. PICK o, p, options : o = It[1] /\ p = [It[2] EXCEPT !.keyword = "port"] /\ options = <<o, p>>
  OBVIOUS
<1>5. PICK Val : Val = {{}, {<<"x">>}, {<<"y">>}}
  OBVIOUS
<1>6. /\ o \in [keyword : {"host"}, val : Val, env : Val, compiled : Val]
      /\ p \in [keyword : {"port"}, val : Val, env : Val, compiled : Val]
  <2>1. It[1] \in [keyword : {"host"}, val : Val, env : Val, compiled : Val]
        /\ It[2] \in [keyword : {"host"}, val : Val, env : Val, compiled : Val]
    BY <1>1, <1>5 DEF OptionInputs
  <2> QED BY <1>4, <2>1
<1>7. Val \subseteq AtMostOne(Seq(V))
  <2>1. <<"x">> \in Seq(V) /\ <<"y">> \in Seq(V)
    BY <1>2
  <2> QED BY <1>5, <2>1 DEF AtMostOne
<1>8. o \in OptionsOver(K, V) /\ p \in OptionsOver(K, V)
  BY <1>2, <1>6, <1>7 DEF OptionsOver
<1>9. options \in Seq(OptionsOver(K, V)) /\ Len(options) = 2
  BY <1>4, <1>8
<1>10. options[1] = o /\ options[2] = p /\ o.keyword = "host" /\ p.keyword = "port"
  BY <1>4, <1>6
<1>11. ASSUME NEW i \in 1..2, options[i].val # {}
       PROVE  Reconnected(ConnectionString(options), options[i]) = options[i].val
  <2>1. OwnKeyword(options, i)
    BY <1>9, <1>10, <1>11 DEF OwnKeyword
  <2>2. Sayable(options[i])
    <3>1. options[i].val \in Val
      BY <1>6, <1>10, <1>11
    <3>2. <<>> # <<"x">> /\ <<>> # <<"y">>
      OBVIOUS
    <3> QED BY <1>5, <1>11, <3>1, <3>2 DEF Sayable
  <2>3. i \in 1..Len(options)
    BY <1>9, <1>11
  <2> QED BY <1>3, <1>9, <2>1, <2>2, <2>3, EveryOptionIsRestored
<1> QED BY <1>4, <1>11, Zenon DEF ReconnectsAlike

\* What goes into a statement besides its own text says there what was meant: quoted
\* values, names and patterns, parameters and the connection string (connection.cxx,
\* params.cxx).  What the run "values" tries is so for every such input.
THEOREM StatementsAlwaysSayIt == ValuesSpec => []StatementsSayWhatIsMeant
<1>1. PickedIsInput => StatementsSayWhatIsMeant
  BY PickedAsMeant, PickedMatchesItself, PickedInStep, PickedAlike DEF StatementsSayWhatIsMeant
<1> QED BY <1>1, PickedAlways, PTL

-----------------------------------------------------------------------------
(* What the run "values" looks at in COPY                                    *)

\* The characters of the run's rows, and all that a line of COPY marks.
CopyCharacters == {"a"} \cup CopySigns

\* The inputs of COPY are rows of one field or two.
LEMMA CopyInputsAre ==
  \A x \in CopyInputs : /\ x \in RowsOver(CopyCharacters) /\ Reverse(x) \in RowsOver(CopyCharacters)
                        /\ Len(x) \in 1..2 /\ DOMAIN x = 1..Len(x)
<1>1. PICK C, F, G, S : /\ C = {"a", "N", Escape, Tab, NewLine} /\ S = CopyCharacters
                        /\ F = CopyFields /\ G = FieldsOver(S)
  OBVIOUS
<1>2. C \subseteq S
  BY <1>1, SignsRead DEF CopyCharacters, CopySigns
<1>3. F \subseteq G
  <2>1. PICK B, Q : B = BoundedSeq(C, 2) /\ Q = Seq(S)
    OBVIOUS
  <2>2. B \subseteq Q
    BY <1>2, <2>1, BoundedAre
  <2>3. F = {Field(t) : t \in B} \cup {Null} /\ G = {Null} \cup {Field(t) : t \in Q}
    BY <1>1, <2>1, Zenon DEF CopyFields, FieldsOver
  <2> QED BY <2>2, <2>3
<1>4. CopyInputs = [1..1 -> F] \cup [1..2 -> F]
  BY <1>1 DEF CopyInputs
<1>5. ASSUME NEW n \in 1..2, NEW x \in [1..n -> F]
      PROVE  /\ x \in RowsOver(S) /\ Reverse(x) \in RowsOver(S)
             /\ Len(x) \in 1..2 /\ DOMAIN x = 1..Len(x)
  <2>1. x \in [1..n -> G] /\ n \in Nat
    BY <1>3
  <2>2. x \in Seq(G) /\ Len(x) = n /\ x # <<>>
    BY <2>1
  <2>3. PICK y : y = [i \in 1..Len(x) |-> x[(Len(x) - i) + 1]]
    OBVIOUS
  <2>4. y \in [1..n -> G]
    BY <2>1, <2>2, <2>3
  <2>5. y \in Seq(G) /\ y # <<>>
    BY <2>1, <2>4
  <2>6. Reverse(x) = y
    BY <2>3 DEF Reverse
  <2> QED BY <1>1, <2>1, <2>2, <2>5, <2>6 DEF RowsOver
<1>6. ASSUME NEW x \in CopyInputs
      PROVE  \E n \in 1..2 : x \in [1..n -> F]
  BY <1>4
<1> QED BY <1>1, <1>5, <1>6

\* Rows go through COPY in both directions (stream_to.cxx, stream_from.cxx): what the
\* run "values" tries with rows of one field and of two is so for every row of texts.
THEOREM RowsAlwaysGoThrough == ValuesSpec => []RowsGoThrough
<1>1. PickedIsInput => RowsGoThrough
  <2> SUFFICES ASSUME PickedIsInput, Picked("copy")
               PROVE  RowsWrittenAsMeant /\ RowsReadAsMeant
    BY Zenon DEF RowsGoThrough, RowsWrittenAsMeant, RowsReadAsMeant
  <2>1. It \in CopyInputs
    <3>1. PICK x \in Inputs["copy"] : in = <<x>>
      BY DEF PickedIsInput, Picked
    <3>2. Inputs["copy"] = CopyInputs
      BY DEF Inputs
    <3>3. It = x
      BY <3>1 DEF It
    <3> QED BY <3>1, <3>2, <3>3
  <2>2. PICK row, S, three : row = It /\ S = CopyCharacters /\ three = <<"optional", "optional", "optional">>
    OBVIOUS
  <2>3. row \in RowsOver(S) /\ Reverse(row) \in RowsOver(S) /\ CopySigns \subseteq S
        /\ Len(row) \in 1..2 /\ DOMAIN row = 1..Len(row)
    BY <2>1, <2>2, CopyInputsAre DEF CopyCharacters
  <2>4. PICK text : text = ReadCopyLine(ServerLine(row))
    OBVIOUS
  <2>5. /\ Forwarded(ServerLine(row)) = WriteValues(row)
        /\ ParseLine(text) = {row}
        /\ \A types \in Seq({"null", "string", "optional"}) :
             IF Len(types) = Len(row)
             THEN /\ Extracted(text, types) = ParseTyped(text, types)
                  /\ (\A i \in DOMAIN types : types[i] = "optional") => ParseTyped(text, types) = {row}
             ELSE Extracted(text, types) = {}
    BY <2>3, <2>4, EveryRowIsRead, Zenon
  <2>6. /\ ServerRows(WriteValues(row) \o WriteValues(Reverse(row))) = <<row, Reverse(row)>>
        /\ ServerRows(WriteValues(row)) = <<row>>
    BY <2>3, FewRowsAreStored
  <2>7. RowsWrittenAsMeant
    BY <2>2, <2>5, <2>6, Zenon DEF RowsWrittenAsMeant
  <2>8. ASSUME NEW types \in [1..Len(row) -> {"null", "string", "optional"}]
        PROVE  /\ Extracted(text, types) = ParseTyped(text, types)
               /\ (\A i \in 1..Len(row) : types[i] = "optional") => ParseTyped(text, types) = {row}
    <3>1. PICK n, T : n = Len(row) /\ T = {"null", "string", "optional"}
      OBVIOUS
    <3>2. n \in Nat /\ types \in [1..n -> T]
      BY <2>3, <3>1
    <3>3. types \in Seq(T) /\ Len(types) = n /\ DOMAIN types = 1..n
      BY <3>2
    <3> QED BY <2>5, <3>1, <3>3
  <2>9. Extracted(text, three) = {}
    <3>1. three \in Seq({"null", "string", "optional"}) /\ Len(three) = 3
      BY <2>2
    <3>2. Len(three) # Len(row)
      BY <2>3, <3>1
    <3> QED BY <2>5, <3>1, <3>2
  <2>10. RowsReadAsMeant
    BY <2>2, <2>4, <2>5, <2>8, <2>9, Zenon DEF RowsReadAsMeant
  <2> QED BY <2>7, <2>10
<1> QED BY <1>1, PickedAlways, PTL
=============================================================================
