---------------------------- MODULE TextProofs ----------------------------
(***************************************************************************)
(* Theorems about text: what the operators that join, split, quote and     *)
(* erase do to every text, and with it that the phones of a client reach   *)
(* the table and the screen as they were meant, whatever numbers callers   *)
(* use and however many phones a client has; that in every encoding a      *)
(* character ends by its own bytes and the search finds characters; that   *)
(* what ranges say of each other is true of what is in them; that quoted   *)
(* values, names and patterns, parameters and the options of a connection  *)
(* are read as what they were; and that rows go through COPY unharmed.     *)
(***************************************************************************)
EXTENDS PhoneList, Encodings, Ranges, Quoting, CopyText, Induction, TLAPS

-----------------------------------------------------------------------------
(* Joining and erasing                                                       *)

\* What a text joined from texts is made of.
LEMMA JoinTyped ==
  ASSUME NEW S, NEW sep \in Seq(S), NEW tt \in Seq(Seq(S))
  PROVE  JoinWith(sep, tt) \in Seq(S)
<1>1. PICK n, ss : n = Len(tt) /\ ss = [i \in DOMAIN tt |-> (IF i = 1 THEN <<>> ELSE sep) \o tt[i]]
  OBVIOUS
<1>2. n \in Nat /\ tt \in [1..n -> Seq(S)] /\ DOMAIN tt = 1..n
  BY <1>1
<1>3. \A i, x : x \in Seq(S) => (IF i = 1 THEN <<>> ELSE sep) \o x \in Seq(S)
  BY ConcatProperties, EmptySeq
<1>4. ss \in [1..n -> Seq(S)]
  BY <1>1, <1>2, <1>3
<1>5. ss \in Seq(Seq(S)) /\ <<>> \in Seq(S)
  BY <1>2, <1>4
<1> QED BY <1>1, <1>5, FlattenAppend DEF JoinWith

\* Joining one more text.
LEMMA JoinAppend ==
  ASSUME NEW S, NEW sep \in Seq(S), NEW tt \in Seq(Seq(S)), NEW t \in Seq(S)
  PROVE  JoinWith(sep, Append(tt, t)) = JoinWith(sep, tt) \o ((IF tt = <<>> THEN <<>> ELSE sep) \o t)
<1> DEFINE Part(i, x) == (IF i = 1 THEN <<>> ELSE sep) \o x
<1>1. PICK n, aa, ss : n = Len(tt) /\ aa = Append(tt, t) /\ ss = [i \in DOMAIN tt |-> Part(i, tt[i])]
  OBVIOUS
<1>2. n \in Nat /\ tt \in [1..n -> Seq(S)] /\ DOMAIN tt = 1..n
  BY <1>1
<1>3. aa \in [1..(n + 1) -> Seq(S)] /\ aa[n + 1] = t /\ \A i \in 1..n : aa[i] = tt[i]
  <2>1. /\ aa \in Seq(Seq(S)) /\ Len(aa) = Len(tt) + 1
        /\ \A i \in 1..Len(tt) : aa[i] = tt[i]
        /\ aa[Len(tt) + 1] = t
    <3> HIDE DEF Part
    <3>1. /\ Append(tt, t) \in Seq(Seq(S)) /\ Len(Append(tt, t)) = Len(tt) + 1
          /\ \A i \in 1..Len(tt) : Append(tt, t)[i] = tt[i]
          /\ Append(tt, t)[Len(tt) + 1] = t
      BY AppendProperties
    <3> QED BY <1>1, <3>1, Zenon
  <2>2. n = Len(tt)
    BY <1>1
  <2> HIDE DEF Part
  <2> QED BY <2>1, <2>2
<1>4. \A i, x : x \in Seq(S) => Part(i, x) \in Seq(S)
  BY ConcatProperties, EmptySeq
<1> HIDE DEF Part
<1>5. ss \in Seq(Seq(S)) /\ Len(ss) = n
  <2>1. ss \in [1..n -> Seq(S)]
    BY <1>1, <1>2, <1>4
  <2> QED BY <2>1, <1>2
<1>6. PICK last : last = Part(n + 1, t) /\ last \in Seq(S)
  BY <1>4
<1>7. [i \in DOMAIN aa |-> Part(i, aa[i])] = Append(ss, last)
  <2>1. PICK pp : pp = [i \in DOMAIN aa |-> Part(i, aa[i])]
    OBVIOUS
  <2>2. pp \in Seq(Seq(S)) /\ Len(pp) = n + 1
    <3>1. pp \in [1..(n + 1) -> Seq(S)]
      BY <2>1, <1>3, <1>4
    <3> QED BY <3>1, <1>2
  <2>3. Append(ss, last) \in Seq(Seq(S)) /\ Len(Append(ss, last)) = n + 1
    BY <1>5, <1>6, AppendProperties
  <2>4. \A i \in 1..n : pp[i] = Append(ss, last)[i]
    <3>1. \A i \in 1..n : pp[i] = Part(i, tt[i]) /\ ss[i] = Part(i, tt[i])
      BY <2>1, <1>1, <1>2, <1>3
    <3> QED BY <3>1, <1>5, <1>6, AppendProperties
  <2>5. pp[n + 1] = Append(ss, last)[n + 1]
    <3>1. n + 1 \in 1..(n + 1)
      BY <1>2
    <3>2. pp[n + 1] = last
      BY <3>1, <2>1, <1>3, <1>6
    <3> QED BY <3>2, <1>5, <1>6, AppendProperties
  <2>6. \A i \in 1..(n + 1) : pp[i] = Append(ss, last)[i]
    <3>1. \A i \in 1..(n + 1) : i \in 1..n \/ i = n + 1
      BY <1>2
    <3> QED BY <2>4, <2>5, <3>1, Zenon
  <2> QED BY <2>1, <2>2, <2>3, <2>6, SeqEqual
<1>8. FlattenSeq(ss) \in Seq(S) /\ FlattenSeq(Append(ss, last)) = FlattenSeq(ss) \o last
  BY <1>5, <1>6, FlattenAppend
<1>9. (n + 1 = 1) <=> (tt = <<>>)
  BY <1>1, <1>2
<1> QED BY <1>1, <1>6, <1>7, <1>8, <1>9 DEF JoinWith, Part

\* No text joined is no text, one is that text.
LEMMA JoinFew ==
  ASSUME NEW S, NEW sep \in Seq(S), NEW t \in Seq(S)
  PROVE  JoinWith(sep, <<>>) = <<>> /\ JoinWith(sep, <<t>>) = t
<1>1. PICK none : none = <<>>
  OBVIOUS
<1>2. DOMAIN none = {} /\ \A u : DOMAIN u = {} /\ u = [i \in DOMAIN u |-> u[i]] => u = <<>>
  BY <1>1
<1>3. [i \in DOMAIN none |-> (IF i = 1 THEN <<>> ELSE sep) \o none[i]] = <<>>
  BY <1>2
<1>4. JoinWith(sep, <<>>) = <<>>
  BY <1>1, <1>3, FlattenNone DEF JoinWith
<1>5. <<>> \in Seq(Seq(S)) /\ Append(<<>>, t) = <<t>> /\ <<>> \o (<<>> \o t) = t
  BY ConcatEmptySeq
<1>6. JoinWith(sep, Append(<<>>, t)) = JoinWith(sep, <<>>) \o (<<>> \o t)
  <2>1. JoinWith(sep, Append(<<>>, t)) =
          JoinWith(sep, <<>>) \o ((IF <<>> = <<>> THEN <<>> ELSE sep) \o t)
    BY <1>5, JoinAppend, Zenon
  <2> QED BY <2>1, Zenon
<1> QED BY <1>4, <1>5, <1>6, Zenon

\* What erasing makes of one character.
Kept(S, chars) == [c \in S |-> IF c \in chars THEN <<>> ELSE <<c>>]

\* Every character is kept or leaves nothing.
LEMMA KeptMaps ==
  ASSUME NEW S, NEW chars
  PROVE  Kept(S, chars) \in SeqMaps(S, S \ chars)
<1>1. ASSUME NEW c \in S
      PROVE  (IF c \in chars THEN <<>> ELSE <<c>>) \in Seq(S \ chars)
  <2>1. CASE c \in chars
    BY <2>1
  <2>2. CASE c \notin chars
    <3>1. c \in S \ chars
      BY <2>2
    <3>2. <<c>> \in Seq(S \ chars)
      BY <3>1
    <3> QED BY <2>2, <3>2
  <2> QED BY <2>1, <2>2
<1> QED BY <1>1 DEF Kept, SeqMaps

\* A text is erased character by character.
LEMMA ErasedIsSpread ==
  ASSUME NEW S, NEW chars, NEW t \in Seq(S)
  PROVE  Erased(t, chars) = Spread(Kept(S, chars), t)
<1>1. \A i \in DOMAIN t : Kept(S, chars)[t[i]] = IF t[i] \in chars THEN <<>> ELSE <<t[i]>>
  BY DEF Kept
<1>2. [i \in DOMAIN t |-> Kept(S, chars)[t[i]]] =
        [i \in DOMAIN t |-> IF t[i] \in chars THEN <<>> ELSE <<t[i]>>]
  BY <1>1
<1> QED BY <1>2 DEF Erased, Spread

\* Erasing leaves the other characters.
LEMMA ErasedTyped ==
  ASSUME NEW S, NEW chars, NEW t \in Seq(S)
  PROVE  Erased(t, chars) \in Seq(S \ chars)
<1>1. Kept(S, chars) \in SeqMaps(S, S \ chars)
  BY KeptMaps
<1>2. Spread(Kept(S, chars), t) \in Seq(S \ chars)
  BY <1>1, SpreadTyped, Zenon
<1> QED BY <1>2, ErasedIsSpread, Zenon

\* Erasing in two texts, one after the other.
LEMMA ErasedConcat ==
  ASSUME NEW S, NEW chars, NEW t \in Seq(S), NEW u \in Seq(S)
  PROVE  Erased(t \o u, chars) = Erased(t, chars) \o Erased(u, chars)
<1>1. t \o u \in Seq(S)
  BY ConcatProperties
<1>2. \A x \in Seq(S) : Erased(x, chars) = Spread(Kept(S, chars), x)
  BY ErasedIsSpread
<1>3. Spread(Kept(S, chars), t \o u) = Spread(Kept(S, chars), t) \o Spread(Kept(S, chars), u)
  <2>1. PICK k, U : k = Kept(S, chars) /\ U = S \ chars
    OBVIOUS
  <2>2. k \in SeqMaps(S, U)
    BY <2>1, KeptMaps, Zenon
  <2>3. Spread(k, t \o u) = Spread(k, t) \o Spread(k, u)
    BY <2>2, SpreadConcat
  <2> QED BY <2>1, <2>3, Zenon
<1> QED BY <1>1, <1>2, <1>3, Zenon

\* Erasing nothing.
LEMMA ErasedNone ==
  ASSUME NEW chars
  PROVE  Erased(<<>>, chars) = <<>>
<1>1. <<>> \in Seq({})
  OBVIOUS
<1>2. Erased(<<>>, chars) = Spread(Kept({}, chars), <<>>)
  BY <1>1, ErasedIsSpread, Zenon
<1> QED BY <1>2, SpreadNone

\* Erasing in a text of one character.
LEMMA ErasedOne ==
  ASSUME NEW c, NEW chars
  PROVE  Erased(<<c>>, chars) = IF c \in chars THEN <<>> ELSE <<c>>
<1>1. <<c>> \in Seq({c}) /\ c \in {c}
  OBVIOUS
<1>2. Erased(<<c>>, chars) = Spread(Kept({c}, chars), <<c>>)
  BY <1>1, ErasedIsSpread, Zenon
<1>3. Spread(Kept({c}, chars), <<c>>) = Kept({c}, chars)[c]
  BY <1>1, KeptMaps, SpreadOne, Zenon
<1>4. Kept({c}, chars)[c] = IF c \in chars THEN <<>> ELSE <<c>>
  BY DEF Kept
<1> QED BY <1>2, <1>3, <1>4

\* One character more.
LEMMA ErasedAppend ==
  ASSUME NEW S, NEW chars, NEW t \in Seq(S), NEW c \in S
  PROVE  Erased(Append(t, c), chars) = IF c \in chars THEN Erased(t, chars)
                                       ELSE Append(Erased(t, chars), c)
<1>1. <<c>> \in Seq(S) /\ Append(t, c) = t \o <<c>>
  BY AppendIsConcat
<1>2. Erased(t \o <<c>>, chars) = Erased(t, chars) \o Erased(<<c>>, chars)
  BY <1>1, ErasedConcat, Zenon
<1>3. Erased(<<c>>, chars) = IF c \in chars THEN <<>> ELSE <<c>>
  BY ErasedOne
<1>4. PICK e : e = Erased(t, chars) /\ e \in Seq(S \ chars)
  BY ErasedTyped
<1>5. e \o <<>> = e /\ (c \notin chars => e \o <<c>> = Append(e, c))
  BY <1>4, ConcatEmptySeq, AppendIsConcat
<1> QED BY <1>1, <1>2, <1>3, <1>4, <1>5

\* Erasing what is not there changes nothing.
LEMMA ErasedNothing ==
  ASSUME NEW S, NEW chars, S \cap chars = {}, NEW t \in Seq(S)
  PROVE  Erased(t, chars) = t
<1>1. PICK T : T = {u \in Seq(S) : Erased(u, chars) = u}
  OBVIOUS
<1>2. <<>> \in T
  <2>1. Erased(<<>>, chars) = <<>>
    BY ErasedNone
  <2> QED BY <1>1, <2>1
<1>3. ASSUME NEW u \in Seq(S), NEW c \in S, u \in T
      PROVE  Append(u, c) \in T
  <2>1. Erased(Append(u, c), chars) = Append(Erased(u, chars), c)
    BY ErasedAppend
  <2>2. Erased(u, chars) = u /\ Append(u, c) \in Seq(S)
    BY <1>1, <1>3
  <2> QED BY <1>1, <2>1, <2>2
<1>4. Seq(S) \subseteq T
  BY <1>2, <1>3, BySequences
<1> QED BY <1>1, <1>4

\* Erasing twice is erasing both.
LEMMA ErasedTwice ==
  ASSUME NEW S, NEW chars, NEW others, NEW t \in Seq(S)
  PROVE  Erased(Erased(t, chars), others) = Erased(t, chars \cup others)
<1>1. PICK T : T = {u \in Seq(S) : Erased(Erased(u, chars), others) = Erased(u, chars \cup others)}
  OBVIOUS
<1>2. \A x : Erased(<<>>, x) = <<>>
  BY ErasedNone
<1>3. <<>> \in T
  BY <1>1, <1>2
<1>4. ASSUME NEW u \in Seq(S), NEW c \in S, u \in T
      PROVE  Append(u, c) \in T
  <2>1. PICK e : e = Erased(u, chars) /\ e \in Seq(S)
    <3>1. Erased(u, chars) \in Seq(S \ chars)
      BY ErasedTyped
    <3>2. Seq(S \ chars) \subseteq Seq(S)
      BY SeqMonotonic
    <3> QED BY <3>1, <3>2
  <2>2. Erased(Append(u, c), chars) = IF c \in chars THEN e ELSE Append(e, c)
    BY <2>1, ErasedAppend
  <2>3. Erased(Append(e, c), others) = IF c \in others THEN Erased(e, others)
                                       ELSE Append(Erased(e, others), c)
    BY <2>1, ErasedAppend
  <2>4. Erased(Append(u, c), chars \cup others) =
          IF c \in chars \cup others THEN Erased(u, chars \cup others)
          ELSE Append(Erased(u, chars \cup others), c)
    BY ErasedAppend
  <2>5. Erased(e, others) = Erased(u, chars \cup others)
    BY <1>1, <1>4, <2>1
  <2>6. Erased(Erased(Append(u, c), chars), others) = Erased(Append(u, c), chars \cup others)
    <3>1. CASE c \in chars
      BY <3>1, <2>2, <2>4, <2>5
    <3>2. CASE c \notin chars /\ c \in others
      BY <3>2, <2>2, <2>3, <2>4, <2>5
    <3>3. CASE c \notin chars /\ c \notin others
      BY <3>3, <2>2, <2>3, <2>4, <2>5
    <3> QED BY <3>1, <3>2, <3>3
  <2>7. Append(u, c) \in Seq(S)
    OBVIOUS
  <2> QED BY <1>1, <2>6, <2>7
<1>5. Seq(S) \subseteq T
  BY <1>3, <1>4, BySequences
<1> QED BY <1>1, <1>5
-----------------------------------------------------------------------------
(* Splitting                                                                 *)

\* What a text is split into: one piece or more.
PiecesOf(S) == Seq(Seq(S)) \ {<<>>}

\* The last piece grows, or a comma begins another.
LEMMA ReadGrows ==
  ASSUME NEW S, NEW qs \in Seq(Seq(S)), NEW q \in Seq(S), NEW c \in S
  PROVE  /\ Read(Append(qs, q), c) = IF c = Comma THEN Append(Append(qs, q), <<>>)
                                     ELSE Append(qs, Append(q, c))
         /\ Read(Append(qs, q), c) \in PiecesOf(S)
<1>1. PICK ps, n : ps = Append(qs, q) /\ n = Len(qs)
  OBVIOUS
<1>2. /\ n \in Nat /\ ps \in Seq(Seq(S)) /\ Len(ps) = n + 1 /\ ps[n + 1] = q
      /\ \A i \in 1..n : ps[i] = qs[i]
  BY <1>1, AppendProperties
<1>3. CASE c = Comma
  <2>1. Read(ps, c) = Append(ps, <<>>)
    BY <1>3 DEF Read
  <2>2. Append(ps, <<>>) \in Seq(Seq(S)) /\ Append(ps, <<>>) # <<>>
    <3>1. <<>> \in Seq(S)
      OBVIOUS
    <3> QED BY <3>1, <1>2, AppendProperties, Zenon
  <2> QED BY <1>1, <1>3, <2>1, <2>2 DEF PiecesOf
<1>4. CASE c # Comma
  <2>1. PICK r : r = Append(q, c) /\ r \in Seq(S)
    BY AppendProperties
  <2>2. Read(ps, c) = [ps EXCEPT ![n + 1] = r]
    BY <1>2, <1>4, <2>1 DEF Read
  <2>3. n + 1 \in 1..Len(ps)
    BY <1>2
  <2>4. PICK es : es = [ps EXCEPT ![n + 1] = r]
    OBVIOUS
  <2>5. /\ es \in Seq(Seq(S)) /\ Len(es) = n + 1
        /\ \A j \in 1..(n + 1) : es[j] = IF j = n + 1 THEN r ELSE ps[j]
    BY <1>2, <2>1, <2>3, <2>4, ExceptSeq
  <2>6. PICK as : as = Append(qs, r)
    OBVIOUS
  <2>7. /\ as \in Seq(Seq(S)) /\ Len(as) = n + 1 /\ as # <<>> /\ as[n + 1] = r
        /\ \A i \in 1..n : as[i] = qs[i]
    <3>1. /\ as \in Seq(Seq(S)) /\ Len(as) = Len(qs) + 1
          /\ \A i \in 1..Len(qs) : as[i] = qs[i]
          /\ as[Len(qs) + 1] = r
      BY <2>1, <2>6, AppendProperties
    <3>2. as # <<>>
      BY <2>1, <2>6, AppendProperties
    <3> QED BY <3>1, <3>2, <1>1, Zenon
  <2>8. \A j \in 1..(n + 1) : es[j] = as[j]
    <3>1. \A j \in 1..(n + 1) : j = n + 1 \/ (j # n + 1 /\ j \in 1..n)
      BY <1>2
    <3> QED BY <3>1, <1>2, <2>5, <2>7, Zenon
  <2>9. es = as
    <3>1. Len(es) = Len(as) /\ \A j \in 1..Len(es) : es[j] = as[j]
      BY <2>5, <2>7, <2>8, Zenon
    <3>2. es \in Seq(Seq(S)) /\ as \in Seq(Seq(S))
      BY <2>5, <2>7
    <3> QED BY <3>1, <3>2, SeqEqual, Zenon
  <2>10. Read(ps, c) = as /\ as \in PiecesOf(S)
    BY <2>2, <2>4, <2>7, <2>9, Zenon DEF PiecesOf
  <2> QED BY <1>1, <1>4, <2>1, <2>6, <2>10, Zenon
<1> QED BY <1>3, <1>4

\* A comma begins another piece.
LEMMA ReadComma ==
  ASSUME NEW ps
  PROVE  Read(ps, Comma) = Append(ps, <<>>)
BY DEF Read

\* Another character is the last piece's.
LEMMA ReadOther ==
  ASSUME NEW S, NEW qs \in Seq(Seq(S)), NEW q \in Seq(S), NEW c \in S, c # Comma
  PROVE  Read(Append(qs, q), c) = Append(qs, Append(q, c))
BY ReadGrows

\* Reading makes pieces of pieces.
LEMMA ReadTyped ==
  ASSUME NEW S, NEW ps \in PiecesOf(S), NEW c \in S
  PROVE  Read(ps, c) \in PiecesOf(S)
<1>1. PICK qs \in Seq(Seq(S)), q \in Seq(S) : ps = Append(qs, q)
  BY SequenceEmptyOrAppend DEF PiecesOf
<1>2. Read(Append(qs, q), c) \in PiecesOf(S)
  BY ReadGrows
<1> QED BY <1>1, <1>2

\* f is the pieces of text, character by character.
Reads(f, text) == f[0] = <<<<>>>> /\ \A i \in 1..Len(text) : f[i] = Read(f[i - 1], text[i])

\* SplitAtCommas reads a text character by character (Client_Manager.cpp:147).
LEMMA PiecesAreRead ==
  ASSUME NEW S, NEW text \in Seq(S)
  PROVE  \E f \in [0..Len(text) -> PiecesOf(S)] : Reads(f, text) /\ Pieces(text) = f[Len(text)]
<1> DEFINE upTo[n \in 0..Len(text)] == IF n = 0 THEN <<<<>>>> ELSE Read(upTo[n - 1], text[n])
<1>1. PICK last, none : last = Len(text) /\ none = <<<<>>>>
  OBVIOUS
<1>2. last \in Nat /\ none \in PiecesOf(S) /\ \A n \in 1..last : text[n] \in S
  BY <1>1 DEF PiecesOf
<1>3. PICK X : X = PiecesOf(S)
  OBVIOUS
<1>4. \A n \in 1..last, ps \in X : Read(ps, text[n]) \in X
  BY <1>2, <1>3, ReadTyped
<1>5. PICK step : step = [n \in 1..last |-> [ps \in X |-> Read(ps, text[n])]]
  OBVIOUS
<1>6. PICK f \in [0..last -> X] : Passes(f, last, none, step)
  <2>1. step \in [1..last -> [X -> X]] /\ none \in X
    BY <1>2, <1>3, <1>4, <1>5
  <2> HIDE DEF upTo
  <2> QED BY <1>2, <2>1, Passing
<1>7. f = [n \in 0..last |-> IF n = 0 THEN none ELSE Read(f[n - 1], text[n])]
  <2>1. ASSUME NEW n \in 0..last
        PROVE  f[n] = IF n = 0 THEN none ELSE Read(f[n - 1], text[n])
    <3>1. CASE n = 0
      BY <3>1, <1>6 DEF Passes
    <3>2. CASE n # 0
      <4>1. n \in 1..last /\ n - 1 \in 0..last /\ f[n - 1] \in X
        BY <3>2, <1>2
      <4>2. f[n] = step[n][f[n - 1]]
        BY <4>1, <1>6 DEF Passes
      <4> QED BY <3>2, <4>1, <4>2, <1>5
    <3> QED BY <3>1, <3>2
  <2> QED BY <2>1
<1>8. upTo = [n \in 0..last |-> IF n = 0 THEN none ELSE Read(upTo[n - 1], text[n])]
  BY <1>1, <1>7
<1>9. Pieces(text) = upTo[last]
  BY <1>1 DEF Pieces
<1> HIDE DEF upTo
<1>10. upTo[0] = none /\ \A n \in 1..last : upTo[n] = Read(upTo[n - 1], text[n])
  <2>1. \A n \in 0..last : upTo[n] = IF n = 0 THEN none ELSE Read(upTo[n - 1], text[n])
    BY <1>8
  <2>2. 0 \in 0..last /\ \A n \in 1..last : n \in 0..last /\ n # 0
    BY <1>2
  <2> QED BY <2>1, <2>2
<1>11. \A n \in 0..last : upTo[n] \in X
  <2>1. PICK T : T = {n \in 0..last : upTo[n] \in X}
    OBVIOUS
  <2>2. 0 \in T
    BY <1>2, <1>3, <1>10, <2>1
  <2>3. \A n \in 1..last : n - 1 \in T => n \in T
    BY <1>2, <1>4, <1>10, <2>1
  <2>4. 0..last \subseteq T
    BY <1>2, <2>2, <2>3, ByPositions
  <2> QED BY <2>1, <2>4
<1>12. upTo \in [0..last -> X]
  BY <1>8, <1>11
<1> QED BY <1>1, <1>3, <1>9, <1>10, <1>12 DEF Reads

\* Before a character is read there is one empty piece.
LEMMA PiecesNone == Pieces(<<>>) = <<<<>>>>
<1>1. <<>> \in Seq({}) /\ Len(<<>>) = 0
  OBVIOUS
<1>2. PICK f \in [0..0 -> PiecesOf({})] : Reads(f, <<>>) /\ Pieces(<<>>) = f[0]
  BY <1>1, PiecesAreRead
<1> QED BY <1>2 DEF Reads

\* What pieces are.
LEMMA PiecesTyped ==
  ASSUME NEW S, NEW text \in Seq(S)
  PROVE  Pieces(text) \in PiecesOf(S)
<1>1. Len(text) \in 0..Len(text)
  OBVIOUS
<1> QED BY <1>1, PiecesAreRead

\* One character more is one more read.
LEMMA PiecesAppend ==
  ASSUME NEW S, NEW text \in Seq(S), NEW c \in S
  PROVE  Pieces(Append(text, c)) = Read(Pieces(text), c)
<1>1. PICK n, longer : n = Len(text) /\ longer = Append(text, c)
  OBVIOUS
<1>2. /\ n \in Nat /\ longer \in Seq(S) /\ Len(longer) = n + 1 /\ longer[n + 1] = c
      /\ \A i \in 1..n : longer[i] = text[i]
  BY <1>1, AppendProperties
<1>3. PICK f \in [0..n -> PiecesOf(S)] : Reads(f, text) /\ Pieces(text) = f[n]
  BY <1>1, PiecesAreRead
<1>4. PICK g \in [0..(n + 1) -> PiecesOf(S)] : Reads(g, longer) /\ Pieces(longer) = g[n + 1]
  BY <1>2, PiecesAreRead
<1>5. f[0] = g[0] /\ \A i \in 1..n : f[i - 1] = g[i - 1] => f[i] = g[i]
  <2>1. \A i \in 1..n : f[i] = Read(f[i - 1], text[i])
    BY <1>1, <1>3 DEF Reads
  <2>2. \A i \in 1..n : g[i] = Read(g[i - 1], text[i])
    <3>1. \A i \in 1..n : i \in 1..Len(longer) /\ longer[i] = text[i]
      BY <1>2
    <3> QED BY <3>1, <1>4 DEF Reads
  <2> QED BY <2>1, <2>2, <1>3, <1>4 DEF Reads
<1>6. f[n] = g[n]
  <2>1. PICK T : T = {i \in 0..n : f[i] = g[i]}
    OBVIOUS
  <2>2. 0 \in T /\ \A i \in 1..n : i - 1 \in T => i \in T
    BY <1>2, <1>5, <2>1
  <2>3. 0..n \subseteq T
    BY <1>2, <2>2, ByPositions
  <2> QED BY <1>2, <2>1, <2>3
<1>7. g[n + 1] = Read(g[n], c)
  <2>1. n + 1 \in 1..Len(longer) /\ (n + 1) - 1 = n
    BY <1>2
  <2> QED BY <2>1, <1>2, <1>4 DEF Reads
<1> QED BY <1>1, <1>3, <1>4, <1>6, <1>7

\* Appending to two sequences, one after the other.
LEMMA ConcatAppend ==
  ASSUME NEW S, NEW s \in Seq(S), NEW t \in Seq(S), NEW e \in S
  PROVE  s \o Append(t, e) = Append(s \o t, e)
<1>1. s \o (t \o <<e>>) = (s \o t) \o <<e>>
  BY ConcatAssociative
<1>2. Append(t, e) = t \o <<e>>
  BY AppendIsConcat
<1>3. PICK u : u = s \o t /\ u \in Seq(S)
  BY ConcatProperties
<1>4. Append(u, e) = u \o <<e>>
  BY <1>3, AppendIsConcat
<1> QED BY <1>1, <1>2, <1>3, <1>4, Zenon

\* Reading goes on in the last pieces.
LEMMA ReadConcat ==
  ASSUME NEW S, NEW ps \in Seq(Seq(S)), NEW rs \in PiecesOf(S), NEW c \in S
  PROVE  Read(ps \o rs, c) = ps \o Read(rs, c)
<1>1. PICK qs \in Seq(Seq(S)), q \in Seq(S) : rs = Append(qs, q)
  BY SequenceEmptyOrAppend DEF PiecesOf
<1>2. PICK pq : pq = ps \o qs
  OBVIOUS
<1>3. pq \in Seq(Seq(S)) /\ \A r \in Seq(S) : ps \o Append(qs, r) = Append(pq, r)
  <2>1. \A r \in Seq(S) : ps \o Append(qs, r) = Append(ps \o qs, r)
    BY ConcatAppend
  <2> QED BY <1>2, <2>1, ConcatProperties
<1>4. CASE c = Comma
  <2>1. Read(rs, c) = Append(rs, <<>>) /\ Read(ps \o rs, c) = Append(ps \o rs, <<>>)
    BY <1>4, ReadComma, Zenon
  <2>2. PICK none : none = <<>>
    OBVIOUS
  <2>3. ps \o Append(rs, <<>>) = Append(ps \o rs, <<>>)
    <3>1. rs \in Seq(Seq(S)) /\ none \in Seq(S)
      BY <2>2 DEF PiecesOf
    <3>2. ps \o Append(rs, none) = Append(ps \o rs, none)
      BY <3>1, ConcatAppend, SMTT(30)
    <3> QED BY <2>2, <3>2, Zenon
  <2> QED BY <2>1, <2>3, Zenon
<1>5. CASE c # Comma
  <2>1. Read(Append(qs, q), c) = Append(qs, Append(q, c))
    BY <1>5, ReadOther
  <2>2. Read(Append(pq, q), c) = Append(pq, Append(q, c))
    BY <1>3, <1>5, ReadOther
  <2>3. Append(q, c) \in Seq(S)
    BY AppendProperties
  <2> QED BY <1>1, <1>3, <2>1, <2>2, <2>3, Zenon
<1> QED BY <1>4, <1>5

\* Two texts with a comma between them.
LEMMA PiecesConcat ==
  ASSUME NEW S, Comma \in S, NEW a \in Seq(S), NEW b \in Seq(S)
  PROVE  Pieces((a \o <<Comma>>) \o b) = Pieces(a) \o Pieces(b)
<1>1. PICK ac, T : /\ ac = a \o <<Comma>>
                   /\ T = {t \in Seq(S) : Pieces(ac \o t) = Pieces(a) \o Pieces(t)}
  OBVIOUS
<1>2. ac \in Seq(S) /\ ac = Append(a, Comma)
  BY <1>1, AppendIsConcat, AppendProperties
<1>3. \A t \in Seq(S) : Pieces(t) \in PiecesOf(S)
  BY PiecesTyped
<1>4. PICK ps : ps = Pieces(a) /\ ps \in Seq(Seq(S))
  BY <1>3 DEF PiecesOf
<1>5. <<>> \in T
  <2>1. Pieces(ac) = Read(ps, Comma)
    BY <1>2, <1>4, PiecesAppend, Zenon
  <2>2. Pieces(ac) = Append(ps, <<>>)
    BY <2>1, ReadComma, Zenon
  <2>3. <<>> \in Seq(S) /\ ac \o <<>> = ac
    BY <1>2, ConcatEmptySeq
  <2>4. Append(ps, <<>>) = ps \o <<<<>>>>
    BY <1>4, <2>3, AppendIsConcat, Zenon
  <2>5. Pieces(ac \o <<>>) = Pieces(a) \o Pieces(<<>>)
    BY <1>4, <2>2, <2>3, <2>4, PiecesNone, Zenon
  <2> QED BY <1>1, <2>3, <2>5
<1>6. ASSUME NEW t \in Seq(S), NEW c \in S, t \in T
      PROVE  Append(t, c) \in T
  <2>1. PICK act : act = ac \o t /\ act \in Seq(S)
    BY <1>2, ConcatProperties
  <2>2. ac \o Append(t, c) = Append(act, c)
    <3>1. ac \in Seq(S)
      BY <1>2
    <3>2. ac \o Append(t, c) = Append(ac \o t, c)
      BY <3>1, ConcatAppend
    <3> QED BY <2>1, <3>2, Zenon
  <2>3. Pieces(Append(act, c)) = Read(Pieces(act), c) /\ Pieces(Append(t, c)) = Read(Pieces(t), c)
    BY <2>1, PiecesAppend, Zenon
  <2>4. Pieces(act) = ps \o Pieces(t)
    BY <1>1, <1>4, <1>6, <2>1
  <2>5. Read(ps \o Pieces(t), c) = ps \o Read(Pieces(t), c)
    <3>1. PICK rs : rs = Pieces(t)
      OBVIOUS
    <3>2. rs \in PiecesOf(S)
      BY <1>3, <3>1, Zenon
    <3>3. Read(ps \o rs, c) = ps \o Read(rs, c)
      <4>1. ps \in Seq(Seq(S))
        BY <1>4
      <4> QED BY <3>2, <4>1, ReadConcat
    <3> QED BY <3>1, <3>3, Zenon
  <2>6. Pieces(ac \o Append(t, c)) = Pieces(a) \o Pieces(Append(t, c))
    BY <1>4, <2>2, <2>3, <2>4, <2>5, Zenon
  <2>7. Append(t, c) \in Seq(S)
    BY AppendProperties
  <2> QED BY <1>1, <2>6, <2>7, Zenon
<1>7. Seq(S) \subseteq T
  BY <1>5, <1>6, BySequences
<1>8. b \in T
  BY <1>7
<1> QED BY <1>1, <1>8, Zenon

\* A text without a comma is one piece.
LEMMA PiecesOne ==
  ASSUME NEW S, Comma \notin S, NEW t \in Seq(S)
  PROVE  Pieces(t) = <<t>>
<1>1. PICK T : T = {u \in Seq(S) : Pieces(u) = <<u>>}
  OBVIOUS
<1>2. <<>> \in T
  BY <1>1, PiecesNone
<1>3. ASSUME NEW u \in Seq(S), NEW c \in S, u \in T
      PROVE  Append(u, c) \in T
  <2>1. Pieces(Append(u, c)) = Read(<<u>>, c)
    BY <1>1, <1>3, PiecesAppend
  <2>2. <<>> \in Seq(Seq(S)) /\ c # Comma /\ Append(u, c) \in Seq(S)
    BY AppendProperties
  <2>4. PICK none : none = <<>>
    OBVIOUS
  <2>5. Read(Append(none, u), c) = Append(none, Append(u, c))
    <3>1. none \in Seq(Seq(S)) /\ c # Comma
      BY <2>2, <2>4
    <3> QED BY <3>1, ReadOther
  <2>6. PICK uc : uc = Append(u, c)
    OBVIOUS
  <2>7. Append(none, u) = <<u>> /\ Append(none, uc) = <<uc>>
    BY <2>4
  <2>8. Pieces(Append(u, c)) = <<Append(u, c)>>
    BY <2>1, <2>5, <2>6, <2>7, Zenon
  <2> QED BY <1>1, <2>2, <2>8, Zenon
<1>4. Seq(S) \subseteq T
  BY <1>2, <1>3, BySequences
<1> QED BY <1>1, <1>4

\* Texts without a comma, joined with commas, are split again.
LEMMA PiecesJoin ==
  ASSUME NEW S, Comma \notin S, NEW tt \in Seq(Seq(S)), tt # <<>>
  PROVE  Pieces(JoinWith(<<Comma>>, tt)) = tt
<1>1. PICK U, sep : U = S \cup {Comma} /\ sep = <<Comma>>
  OBVIOUS
<1>2. Comma \in U /\ sep \in Seq(U) /\ Seq(S) \subseteq Seq(U)
  <2>1. Seq(S) \subseteq Seq(U)
    BY <1>1, SeqMonotonic
  <2> QED BY <1>1, <2>1
<1>3. Seq(Seq(S)) \subseteq Seq(Seq(U))
  BY <1>2, SeqMonotonic
<1>4. PICK T : T = {uu \in Seq(Seq(S)) : uu = <<>> \/ Pieces(JoinWith(sep, uu)) = uu}
  OBVIOUS
<1>5. <<>> \in T
  BY <1>4
<1>6. ASSUME NEW uu \in Seq(Seq(S)), NEW t \in Seq(S), uu \in T
      PROVE  Append(uu, t) \in T
  <2>1. Append(uu, t) \in Seq(Seq(S)) /\ t \in Seq(U) /\ uu \in Seq(Seq(U))
    BY <1>2, <1>3, AppendProperties
  <2>2. Pieces(t) = <<t>>
    BY PiecesOne
  <2>3. CASE uu = <<>>
    <3>1. Append(uu, t) = <<t>>
      BY <2>3
    <3>2. JoinWith(sep, <<t>>) = t
      BY <1>2, <2>1, JoinFew, Zenon
    <3> QED BY <1>4, <2>1, <2>2, <3>1, <3>2
  <2>4. CASE uu # <<>>
    <3>1. PICK j : j = JoinWith(sep, uu) /\ j \in Seq(U)
      BY <1>2, <2>1, JoinTyped
    <3>2. JoinWith(sep, Append(uu, t)) = j \o (sep \o t)
      <4>1. JoinWith(sep, Append(uu, t)) = JoinWith(sep, uu) \o ((IF uu = <<>> THEN <<>> ELSE sep) \o t)
        BY <1>2, <2>1, JoinAppend, Zenon
      <4> QED BY <2>4, <3>1, <4>1, Zenon
    <3>3. j \o (sep \o t) = (j \o sep) \o t
      <4>1. j \in Seq(U) /\ sep \in Seq(U) /\ t \in Seq(U)
        BY <1>2, <2>1, <3>1, Zenon
      <4>2. (j \o sep) \o t = j \o (sep \o t)
        BY <4>1, ConcatAssociative
      <4> QED BY <4>2, Zenon
    <3>4. Pieces((j \o sep) \o t) = Pieces(j) \o Pieces(t)
      BY <1>1, <1>2, <2>1, <3>1, PiecesConcat
    <3>5. Pieces(j) = uu
      BY <1>4, <1>6, <2>4, <3>1
    <3>6. Append(uu, t) = uu \o <<t>>
      BY AppendIsConcat
    <3>7. Pieces(JoinWith(sep, Append(uu, t))) = Append(uu, t)
      BY <2>2, <3>2, <3>3, <3>4, <3>5, <3>6, Zenon
    <3> QED BY <1>4, <2>1, <3>7, Zenon
  <2> QED BY <2>3, <2>4
<1>7. Seq(Seq(S)) \subseteq T
  BY <1>5, <1>6, BySequences
<1>8. tt \in T
  BY <1>7
<1> QED BY <1>1, <1>4, <1>8

\* The pieces hold everything but the commas.
LEMMA PiecesFlatten ==
  ASSUME NEW S, NEW text \in Seq(S)
  PROVE  FlattenSeq(Pieces(text)) = Erased(text, {Comma})
<1>1. PICK T : T = {t \in Seq(S) : FlattenSeq(Pieces(t)) = Erased(t, {Comma})}
  OBVIOUS
<1>2. <<>> \in T
  <2>1. <<>> \in Seq(S)
    OBVIOUS
  <2>2. FlattenSeq(<<<<>>>>) = <<>>
    BY DEF FlattenSeq
  <2>3. FlattenSeq(Pieces(<<>>)) = Erased(<<>>, {Comma})
    BY <2>2, PiecesNone, ErasedNone
  <2> QED BY <1>1, <2>1, <2>3
<1>3. ASSUME NEW t \in Seq(S), NEW c \in S, t \in T
      PROVE  Append(t, c) \in T
  <2>1. PICK e : e = Erased(t, {Comma})
    OBVIOUS
  <2>2. e \in Seq(S)
    <3>1. e \in Seq(S \ {Comma})
      BY <2>1, ErasedTyped
    <3>2. Seq(S \ {Comma}) \subseteq Seq(S)
      BY SeqMonotonic
    <3> QED BY <3>1, <3>2
  <2>3. Pieces(t) \in PiecesOf(S)
    BY PiecesTyped
  <2>4. PICK qs \in Seq(Seq(S)), q \in Seq(S) : Pieces(t) = Append(qs, q)
    BY <2>3, SequenceEmptyOrAppend DEF PiecesOf
  <2>5. PICK fs : fs = FlattenSeq(qs)
    OBVIOUS
  <2>6. fs \in Seq(S) /\ \A r \in Seq(S) : FlattenSeq(Append(qs, r)) = fs \o r
    BY <2>5, FlattenAppend
  <2>7. e = fs \o q
    BY <1>1, <1>3, <2>1, <2>4, <2>6
  <2>8. Pieces(Append(t, c)) = Read(Append(qs, q), c)
    BY <2>4, PiecesAppend, Zenon
  <2>9. Erased(Append(t, c), {Comma}) = IF c = Comma THEN e ELSE Append(e, c)
    BY <2>1, ErasedAppend
  <2>10. FlattenSeq(Read(Append(qs, q), c)) = Erased(Append(t, c), {Comma})
    <3>1. CASE c = Comma
      <4>1. PICK ps, none : ps = Append(qs, q) /\ none = <<>>
        OBVIOUS
      <4>2. ps \in Seq(Seq(S)) /\ none \in Seq(S)
        BY <4>1, AppendProperties
      <4>3. FlattenSeq(Append(ps, none)) = FlattenSeq(ps) \o none
        BY <4>2, FlattenAppend
      <4>4. FlattenSeq(ps) = e /\ e \o none = e
        BY <2>2, <2>6, <2>7, <4>1, ConcatEmptySeq
      <4>5. Read(ps, c) = Append(ps, none)
        BY <3>1, <4>1, ReadComma
      <4> QED BY <2>9, <3>1, <4>1, <4>3, <4>4, <4>5, Zenon
    <3>2. CASE c # Comma
      <4>1. PICK r : r = Append(q, c)
        OBVIOUS
      <4>2. r \in Seq(S)
        BY <4>1, AppendProperties
      <4>3. Read(Append(qs, q), c) = Append(qs, r)
        BY <3>2, <4>1, ReadOther
      <4>4. fs \o r = Append(fs \o q, c)
        <5>1. fs \in Seq(S)
          BY <2>6
        <5>2. fs \o Append(q, c) = Append(fs \o q, c)
          BY <5>1, ConcatAppend
        <5> QED BY <4>1, <5>2, Zenon
      <4> QED BY <2>6, <2>7, <2>9, <3>2, <4>2, <4>3, <4>4, Zenon
    <3> QED BY <3>1, <3>2
  <2>11. Append(t, c) \in Seq(S)
    BY AppendProperties
  <2> QED BY <1>1, <2>8, <2>10, <2>11, Zenon
<1>4. Seq(S) \subseteq T
  BY <1>2, <1>3, BySequences
<1> QED BY <1>1, <1>4

\* The last of a sequence, and what comes before it.
LEMMA FrontLast ==
  ASSUME NEW S, NEW s \in Seq(S), NEW e \in S
  PROVE  Last(Append(s, e)) = e /\ Front(Append(s, e)) = s
<1>1. PICK a, n : a = Append(s, e) /\ n = Len(s)
  OBVIOUS
<1>2. /\ n \in Nat /\ a \in Seq(S) /\ Len(a) = n + 1 /\ a[n + 1] = e
      /\ \A i \in 1..n : a[i] = s[i]
  BY <1>1, AppendProperties
<1>3. Last(a) = e
  BY <1>2 DEF Last
<1>4. PICK f : f = SubSeq(a, 1, n)
  OBVIOUS
<1>5. f \in Seq(S) /\ Len(f) = n /\ \A i \in 1..n : f[i] = a[i]
  <2>1. \A i \in 1..n : a[i] \in S
    BY <1>2
  <2>2. 1 \in Int /\ n \in Int /\ (IF 1 <= n THEN n - 1 + 1 ELSE 0) = n /\ n - 1 + 1 = n
    BY <1>2
  <2>3. /\ f \in Seq(S) /\ Len(f) = (IF 1 <= n THEN n - 1 + 1 ELSE 0)
        /\ \A i \in 1..(n - 1 + 1) : f[i] = a[1 + i - 1]
    BY <1>4, <2>1, <2>2, SubSeqProperties
  <2>4. \A i \in 1..n : 1 + i - 1 = i
    BY <1>2
  <2> QED BY <2>2, <2>3, <2>4
<1>6. f = s
  <2>1. Len(f) = Len(s) /\ \A i \in 1..Len(f) : f[i] = s[i]
    BY <1>1, <1>2, <1>5
  <2> QED BY <1>5, <2>1, SeqEqual
<1>7. Front(a) = f
  BY <1>2, <1>4 DEF Front
<1> QED BY <1>1, <1>3, <1>6, <1>7

\* However a text is cut at the commas, the rest of it is there.
LEMMA SplitFlatten ==
  ASSUME NEW S, NEW text \in Seq(S)
  PROVE  /\ SplitAtCommas(text) \in Seq(Seq(S))
         /\ FlattenSeq(SplitAtCommas(text)) = Erased(text, {Comma})
<1>1. Pieces(text) \in PiecesOf(S)
  BY PiecesTyped
<1>2. PICK qs \in Seq(Seq(S)), q \in Seq(S) : Pieces(text) = Append(qs, q)
  BY <1>1, SequenceEmptyOrAppend DEF PiecesOf
<1>3. Last(Pieces(text)) = q /\ Front(Pieces(text)) = qs
  BY <1>2, FrontLast
<1>4. FlattenSeq(Pieces(text)) = Erased(text, {Comma})
  BY PiecesFlatten
<1>5. CASE q = <<>>
  <2>1. SplitAtCommas(text) = qs
    BY <1>3, <1>5 DEF SplitAtCommas
  <2>2. PICK fs : fs = FlattenSeq(qs)
    OBVIOUS
  <2>3. fs \in Seq(S) /\ FlattenSeq(Append(qs, q)) = fs \o q
    BY <2>2, FlattenAppend
  <2>4. fs \o q = fs
    BY <1>5, <2>3, ConcatEmptySeq
  <2> QED BY <1>2, <1>4, <2>1, <2>2, <2>3, <2>4
<1>6. CASE q # <<>>
  <2>1. SplitAtCommas(text) = Pieces(text)
    BY <1>3, <1>6 DEF SplitAtCommas
  <2> QED BY <1>1, <1>4, <2>1 DEF PiecesOf
<1> QED BY <1>5, <1>6

\* Texts that are alike when erased one by one are alike when erased as a whole.
LEMMA ErasedAlike ==
  ASSUME NEW S, NEW chars, NEW ss \in Seq(Seq(S)), NEW tt \in Seq(Seq(S)), Len(ss) = Len(tt),
         \A i \in 1..Len(ss) : Erased(ss[i], chars) = Erased(tt[i], chars)
  PROVE  Erased(FlattenSeq(ss), chars) = Erased(FlattenSeq(tt), chars)
<1>1. PICK n : n = Len(ss) /\ n \in Nat
  OBVIOUS
<1>2. PICK f \in [0..n -> Seq(S)] : Concats(f, ss) /\ FlattenSeq(ss) = f[n]
  BY <1>1, FlattenIs
<1>3. PICK g \in [0..n -> Seq(S)] : Concats(g, tt) /\ FlattenSeq(tt) = g[n]
  BY <1>1, FlattenIs
<1>4. PICK T : T = {i \in 0..n : Erased(f[i], chars) = Erased(g[i], chars)}
  OBVIOUS
<1>5. 0 \in T
  BY <1>1, <1>2, <1>3, <1>4 DEF Concats
<1>6. ASSUME NEW i \in 1..n, i - 1 \in T
      PROVE  i \in T
  <2>1. i \in 0..n /\ i - 1 \in 0..n
    BY <1>1
  <2>2. PICK x, y, a, b : x = f[i - 1] /\ y = g[i - 1] /\ a = ss[i] /\ b = tt[i]
    OBVIOUS
  <2>3. x \in Seq(S) /\ y \in Seq(S) /\ a \in Seq(S) /\ b \in Seq(S)
    BY <2>1, <2>2, <1>1
  <2>4. f[i] = x \o a /\ g[i] = y \o b
    BY <2>2, <1>1, <1>2, <1>3 DEF Concats
  <2>5. Erased(x \o a, chars) = Erased(x, chars) \o Erased(a, chars)
    BY <2>3, ErasedConcat
  <2>6. Erased(y \o b, chars) = Erased(y, chars) \o Erased(b, chars)
    BY <2>3, ErasedConcat
  <2>7. Erased(x, chars) = Erased(y, chars) /\ Erased(a, chars) = Erased(b, chars)
    BY <1>1, <1>4, <1>6, <2>2
  <2>8. Erased(f[i], chars) = Erased(g[i], chars)
    BY <2>4, <2>5, <2>6, <2>7, Zenon
  <2> QED BY <1>4, <2>1, <2>8
<1>7. 0..n \subseteq T
  BY <1>1, <1>5, <1>6, ByPositions
<1> QED BY <1>1, <1>2, <1>3, <1>4, <1>7

\* What is erased from the separators is erased between the texts.
LEMMA ErasedJoin ==
  ASSUME NEW S, NEW chars, NEW sep \in Seq(S), Erased(sep, chars) = <<>>, NEW tt \in Seq(Seq(S))
  PROVE  Erased(JoinWith(sep, tt), chars) = Erased(FlattenSeq(tt), chars)
<1>1. PICK n, ss : n = Len(tt) /\ ss = [i \in DOMAIN tt |-> (IF i = 1 THEN <<>> ELSE sep) \o tt[i]]
  OBVIOUS
<1>2. n \in Nat /\ tt \in [1..n -> Seq(S)] /\ DOMAIN tt = 1..n
  BY <1>1
<1>3. \A i, x : x \in Seq(S) => /\ (IF i = 1 THEN <<>> ELSE sep) \o x \in Seq(S)
                                /\ Erased((IF i = 1 THEN <<>> ELSE sep) \o x, chars) = Erased(x, chars)
  <2> TAKE i, x
  <2> HAVE x \in Seq(S)
  <2>1. PICK p : p = (IF i = 1 THEN <<>> ELSE sep)
    OBVIOUS
  <2>2. p \in Seq(S)
    BY <2>1, EmptySeq
  <2>3. Erased(p, chars) = <<>>
    BY <2>1, ErasedNone
  <2>4. Erased(p \o x, chars) = Erased(p, chars) \o Erased(x, chars) /\ p \o x \in Seq(S)
    BY <2>2, ErasedConcat, ConcatProperties
  <2>5. Erased(x, chars) \in Seq(S \ chars)
    BY ErasedTyped
  <2>6. <<>> \o Erased(x, chars) = Erased(x, chars)
    BY <2>5, ConcatEmptySeq
  <2> QED BY <2>1, <2>3, <2>4, <2>6, Zenon
<1>4. \A i \in 1..n : ss[i] \in Seq(S) /\ Erased(ss[i], chars) = Erased(tt[i], chars)
  BY <1>1, <1>2, <1>3
<1>5. ss \in Seq(Seq(S)) /\ Len(ss) = n
  <2>1. ss \in [1..n -> Seq(S)]
    BY <1>1, <1>2, <1>4
  <2> QED BY <2>1, <1>2
<1>6. Erased(FlattenSeq(ss), chars) = Erased(FlattenSeq(tt), chars)
  <2>1. Len(ss) = Len(tt) /\ \A i \in 1..Len(ss) : Erased(ss[i], chars) = Erased(tt[i], chars)
    BY <1>1, <1>4, <1>5
  <2> QED BY <2>1, <1>5, ErasedAlike
<1> QED BY <1>1, <1>6 DEF JoinWith

\* Three texts, one after the other.
Grouped(u, v, w) == (u \o v) \o w = u \o (v \o w)

\* It is the same however they are grouped.
LEMMA Regroup ==
  ASSUME NEW S, NEW u \in Seq(S), NEW v \in Seq(S), NEW w \in Seq(S)
  PROVE  Grouped(u, v, w)
BY ConcatAssociative DEF Grouped

\* What is put before the first text is put before them all.
Prefixed(x, tt, uu) ==
  tt # <<>> /\ Len(uu) = Len(tt) /\ uu[1] = x \o tt[1] /\ (\A i \in 2..Len(tt) : uu[i] = tt[i])
JoinsPrefixed(sep, x, tt, uu) == JoinWith(sep, uu) = x \o JoinWith(sep, tt)

\* Joining them puts it before what is joined.
LEMMA JoinFirst ==
  ASSUME NEW S, NEW sep \in Seq(S), NEW x \in Seq(S), NEW tt \in Seq(Seq(S)), NEW uu \in Seq(Seq(S)),
         Prefixed(x, tt, uu)
  PROVE  JoinsPrefixed(sep, x, tt, uu)
<1>0. tt # <<>> /\ Len(uu) = Len(tt) /\ uu[1] = x \o tt[1] /\ (\A i \in 2..Len(tt) : uu[i] = tt[i])
  BY Zenon DEF Prefixed
<1> DEFINE Before(i) == IF i = 1 THEN <<>> ELSE sep
<1>1. PICK n, ss, vv : /\ n = Len(tt)
                       /\ ss = [i \in DOMAIN tt |-> Before(i) \o tt[i]]
                       /\ vv = [i \in DOMAIN uu |-> Before(i) \o uu[i]]
  OBVIOUS
<1>2. /\ n \in Nat /\ n > 0 /\ DOMAIN tt = 1..n /\ DOMAIN uu = 1..n
      /\ tt \in [1..n -> Seq(S)] /\ uu \in [1..n -> Seq(S)]
  BY <1>0, <1>1, EmptySeq
<1>3. \A i : Before(i) \in Seq(S)
  BY EmptySeq
<1>4. Before(1) = <<>>
  OBVIOUS
<1> HIDE DEF Before
<1>5. ss \in Seq(Seq(S)) /\ vv \in Seq(Seq(S)) /\ Len(ss) = n /\ Len(vv) = n
  <2>1. \A i \in 1..n : Before(i) \o tt[i] \in Seq(S) /\ Before(i) \o uu[i] \in Seq(S)
    BY <1>2, <1>3, ConcatProperties
  <2>2. ss \in [1..n -> Seq(S)] /\ vv \in [1..n -> Seq(S)]
    BY <1>1, <1>2, <2>1
  <2> QED BY <1>2, <2>2
<1>6. PICK f \in [0..n -> Seq(S)] : Concats(f, ss) /\ FlattenSeq(ss) = f[n]
  <2>1. ss \in Seq(Seq(S)) /\ Len(ss) = n
    BY <1>5
  <2>2. \E h \in [0..Len(ss) -> Seq(S)] : Concats(h, ss) /\ FlattenSeq(ss) = h[Len(ss)]
    BY <2>1, FlattenIs, Zenon
  <2> QED BY <2>1, <2>2
<1>7. PICK g \in [0..n -> Seq(S)] : Concats(g, vv) /\ FlattenSeq(vv) = g[n]
  <2>1. vv \in Seq(Seq(S)) /\ Len(vv) = n
    BY <1>5
  <2>2. \E h \in [0..Len(vv) -> Seq(S)] : Concats(h, vv) /\ FlattenSeq(vv) = h[Len(vv)]
    BY <2>1, FlattenIs, Zenon
  <2> QED BY <2>1, <2>2
<1>8. PICK T : T = {i \in 0..n : i = 0 \/ g[i] = x \o f[i]}
  OBVIOUS
<1>9. ASSUME NEW i \in 1..n, i - 1 \in T
      PROVE  i \in T
  <2>1. i \in 0..n /\ i - 1 \in 0..n
    BY <1>2
  <2>2. PICK a, b, p, q : a = f[i - 1] /\ b = g[i - 1] /\ p = ss[i] /\ q = vv[i]
    OBVIOUS
  <2>3. a \in Seq(S) /\ b \in Seq(S) /\ p \in Seq(S) /\ q \in Seq(S)
    <3>1. a \in Seq(S) /\ b \in Seq(S)
      BY <2>1, <2>2
    <3>2. p \in Seq(S) /\ q \in Seq(S)
      BY <1>5, <2>2, ElementOfSeq
    <3> QED BY <3>1, <3>2
  <2>4. f[i] = a \o p /\ g[i] = b \o q
    BY <1>5, <1>6, <1>7, <2>2 DEF Concats
  <2>5. CASE i = 1
    <3>1. a = <<>> /\ b = <<>>
      BY <1>6, <1>7, <2>2, <2>5 DEF Concats
    <3>2. p = Before(1) \o tt[1] /\ q = Before(1) \o uu[1]
      BY <1>1, <1>2, <2>2, <2>5
    <3>3. tt[1] \in Seq(S) /\ uu[1] \in Seq(S)
      BY <1>2, <2>5
    <3>4. p = tt[1] /\ q = uu[1]
      BY <1>4, <3>2, <3>3, ConcatEmptySeq
    <3>5. f[1] = tt[1] /\ g[1] = uu[1]
      <4>1. a \o p = p /\ b \o q = q
        BY <2>3, <3>1, ConcatEmptySeq, Zenon
      <4> QED BY <2>4, <2>5, <3>4, <4>1, Zenon
    <3>6. g[1] = x \o f[1]
      BY <1>0, <3>5
    <3> QED BY <1>8, <2>1, <2>5, <3>6
  <2>6. CASE i # 1
    <3>1. i \in 2..Len(tt) /\ i - 1 # 0
      BY <1>1, <1>2, <2>6
    <3>2. p = q
      BY <1>0, <1>1, <1>2, <2>2, <3>1
    <3>3. b = x \o a
      BY <1>8, <1>9, <2>2, <3>1
    <3>4. (x \o a) \o p = x \o (a \o p)
      <4>1. x \in Seq(S) /\ a \in Seq(S) /\ p \in Seq(S)
        BY <2>3
      <4>2. Grouped(x, a, p)
        BY <4>1, Regroup, Zenon
      <4> QED BY <4>2, Zenon DEF Grouped
    <3>5. g[i] = x \o f[i]
      BY <2>4, <3>2, <3>3, <3>4
    <3> QED BY <1>8, <2>1, <3>5
  <2> QED BY <2>5, <2>6
<1>10. 0..n \subseteq T
  <2>1. 0 \in T
    BY <1>2, <1>8
  <2> QED BY <1>2, <1>9, <2>1, ByPositions
<1>11. g[n] = x \o f[n]
  BY <1>2, <1>8, <1>10
<1>12. JoinWith(sep, tt) = FlattenSeq(ss) /\ JoinWith(sep, uu) = FlattenSeq(vv)
  BY <1>1 DEF JoinWith, Before
<1> QED BY <1>6, <1>7, <1>11, <1>12 DEF JoinsPrefixed

-----------------------------------------------------------------------------
(* The phones of a client: the array literal                                 *)

\* The first and the last of some positions.
LEMMA Ends ==
  ASSUME NEW n \in Nat, NEW solid \in SUBSET (1..n), solid # {}
  PROVE  \E lo, hi \in solid : lo <= hi /\ \A i \in solid : lo <= i /\ i <= hi
<1>1. PICK lo \in solid : \A i \in solid : lo <= i
  <2>1. solid \in SUBSET Nat
    OBVIOUS
  <2> QED BY <2>1, LeastNumber
<1>2. PICK back : back = {n - i : i \in solid}
  OBVIOUS
<1>3. back \in SUBSET Nat /\ back # {}
  BY <1>2
<1>4. PICK b \in back : \A k \in back : b <= k
  BY <1>3, LeastNumber
<1>5. PICK hi \in solid : b = n - hi
  BY <1>2, <1>4
<1>6. \A i \in solid : i <= hi
  BY <1>2, <1>4, <1>5
<1>7. lo <= hi
  BY <1>1, <1>5
<1> QED BY <1>1, <1>5, <1>6, <1>7

\* A trimmed text is made of the same characters; it is empty for spaces only.
LEMMA TrimIs ==
  ASSUME NEW S, NEW t \in Seq(S)
  PROVE  /\ Trim(t) \in Seq(S)
         /\ t \in Seq({Space}) => Trim(t) = <<>>
         /\ Trim(t) = <<>> => t \in Seq({Space})
<1>1. PICK n, solid : n = Len(t) /\ solid = {i \in DOMAIN t : t[i] # Space}
  OBVIOUS
<1>2. n \in Nat /\ DOMAIN t = 1..n /\ solid \in SUBSET (1..n) /\ t \in [1..n -> S]
  BY <1>1
<1>3. CASE solid = {}
  <2>1. Trim(t) = <<>>
    BY <1>1, <1>3, Zenon DEF Trim
  <2>2. t \in [1..n -> {Space}]
    BY <1>1, <1>2, <1>3
  <2> QED BY <1>2, <2>1, <2>2
<1>4. CASE solid # {}
  <2>1. PICK lo, hi : /\ lo = CHOOSE i \in solid : \A j \in solid : i <= j
                      /\ hi = CHOOSE i \in solid : \A j \in solid : j <= i
    OBVIOUS
  <2>2. lo \in solid /\ hi \in solid /\ lo <= hi
    <3>1. \E i \in solid : \A j \in solid : i <= j
      BY <1>2, <1>4, Ends
    <3>2. \E i \in solid : \A j \in solid : j <= i
      BY <1>2, <1>4, Ends
    <3> QED BY <2>1, <3>1, <3>2
  <2>3. Trim(t) = SubSeq(t, lo, hi)
    BY <1>1, <1>4, <2>1, Zenon DEF Trim
  <2>4. PICK s : s = SubSeq(t, lo, hi)
    OBVIOUS
  <2>5. lo \in 1..n /\ hi \in 1..n /\ \A i \in lo..hi : t[i] \in S
    BY <1>2, <2>2
  <2>6. s \in Seq(S) /\ Len(s) = hi - lo + 1
    BY <2>2, <2>4, <2>5, SubSeqProperties
  <2>7. Trim(t) \in Seq(S) /\ Trim(t) # <<>>
    <3>1. lo \in Int /\ hi \in Int /\ hi - lo + 1 # 0
      BY <2>2, <2>5
    <3>2. s # <<>>
      BY <2>6, <3>1, EmptySeq
    <3> QED BY <2>3, <2>4, <2>6, <3>2, Zenon
  <2>8. t \notin Seq({Space})
    BY <1>1, <2>2
  <2> QED BY <2>7, <2>8
<1> QED BY <1>3, <1>4

\* The clean texts over some characters.
CleanOf(S) == {t \in Seq(S) : Clean(t)}

\* A clean text has no comma.
LEMMA CleanIs ==
  ASSUME NEW S, NEW t \in CleanOf(S)
  PROVE  t \in Seq(S \ {Comma}) /\ t # <<>> /\ Trim(t) = t
<1>1. t \in Seq(S) /\ t # <<>> /\ Trim(t) = t /\ ~Contains(t, Comma)
  BY Zenon DEF CleanOf, Clean
<1>2. \A i \in 1..Len(t) : t[i] \in S \ {Comma}
  BY <1>1 DEF Contains
<1> QED BY <1>1, <1>2

\* The server reads clean numbers from the array literal as they were written.
LEMMA LiteralIsRead ==
  ASSUME NEW S, NEW phones \in Seq(CleanOf(S))
  PROVE  ArrayIn(Literal(phones)) = phones
<1>1. PICK U : U = S \ {Comma}
  OBVIOUS
<1>2. CleanOf(S) \subseteq Seq(U)
  BY <1>1, CleanIs
<1>3. phones \in Seq(Seq(U)) /\ Comma \notin U
  BY <1>1, <1>2, SeqMonotonic
<1>4. PICK body : body = Literal(phones)
  OBVIOUS
<1>5. CASE phones = <<>>
  <2>1. PICK none : none = <<>>
    OBVIOUS
  <2>2. none \in Seq(U) /\ none \in Seq({Space})
    BY <2>1
  <2>3. JoinWith(<<Comma>>, none) = none
    BY <2>1, FlattenNone DEF JoinWith
  <2>4. body = none
    BY <1>4, <1>5, <2>1, <2>3 DEF Literal
  <2>5. Trim(body) = <<>>
    BY <2>2, <2>4, TrimIs
  <2> QED BY <1>4, <1>5, <2>5 DEF ArrayIn
<1>6. CASE phones # <<>>
  <2>1. PICK n : n = Len(phones) /\ n \in Nat \ {0} /\ DOMAIN phones = 1..n
    BY <1>6, EmptySeq
  <2>2. \A i \in 1..n : phones[i] \in CleanOf(S)
    BY <2>1
  <2>3. \A i \in 1..n : phones[i] # <<>> /\ Trim(phones[i]) = phones[i]
    BY <2>2, CleanIs
  <2>4. Pieces(body) = phones
    BY <1>3, <1>4, <1>6, PiecesJoin DEF Literal
  <2>5. Trim(body) # <<>>
    <3>1. SUFFICES ASSUME Trim(body) = <<>> PROVE FALSE
      OBVIOUS
    <3>2. PICK W : W = U \cup {Comma}
      OBVIOUS
    <3>3. body \in Seq(W)
      <4>1. PICK sep : sep = <<Comma>>
        OBVIOUS
      <4>2. sep \in Seq(W) /\ phones \in Seq(Seq(W))
        BY <1>3, <3>2, <4>1, SeqMonotonic
      <4> QED BY <1>4, <4>1, <4>2, JoinTyped DEF Literal
    <3>4. body \in Seq({Space})
      BY <3>1, <3>3, TrimIs
    <3>5. Pieces(body) = <<body>>
      <4>1. Comma \notin {Space}
        BY DEF Comma, Space
      <4> QED BY <3>4, <4>1, PiecesOne
    <3>6. phones[1] = body
      BY <2>4, <3>5
    <3>7. 1 \in 1..n
      BY <2>1
    <3> QED BY <2>3, <3>1, <3>6, <3>7, Zenon
  <2>6. ArrayIn(body) = [i \in DOMAIN phones |-> Trim(phones[i])]
    BY <2>4, <2>5, Zenon DEF ArrayIn
  <2>7. [i \in DOMAIN phones |-> Trim(phones[i])] = phones
    <3>1. phones = [i \in 1..n |-> phones[i]]
      BY <2>1
    <3> QED BY <2>1, <2>3, <3>1
  <2> QED BY <1>4, <2>6, <2>7, Zenon
<1> QED BY <1>5, <1>6

-----------------------------------------------------------------------------
(* The phones of a client: what is found and shown                           *)

Marks == {Open, Close, Quote}
Apart == {SingleQuote}

\* An element of the array's text is the phone, but for quotes.
LEMMA ElementIs ==
  ASSUME NEW S, NEW p \in Seq(S)
  PROVE  /\ ElementOut(p) \in Seq(S \cup {Quote})
         /\ \A chars : Quote \in chars => Erased(ElementOut(p), chars) = Erased(p, chars)
<1>1. PICK W, q : W = S \cup {Quote} /\ q = <<Quote>>
  OBVIOUS
<1>2. p \in Seq(W)
  BY <1>1, SeqMonotonic
<1>3. q \in Seq(W)
  BY <1>1
<1>4. q \o p \in Seq(W) /\ (q \o p) \o q \in Seq(W)
  BY <1>2, <1>3, ConcatProperties
<1>5. ElementOut(p) = p \/ ElementOut(p) = (q \o p) \o q
  BY <1>1 DEF ElementOut
<1>6. ASSUME NEW chars, Quote \in chars
      PROVE  Erased((q \o p) \o q, chars) = Erased(p, chars)
  <2>1. Erased((q \o p) \o q, chars) = Erased(q \o p, chars) \o Erased(q, chars)
    BY <1>3, <1>4, ErasedConcat
  <2>2. Erased(q \o p, chars) = Erased(q, chars) \o Erased(p, chars)
    BY <1>2, <1>3, ErasedConcat
  <2>3. Erased(q, chars) = <<>>
    BY <1>1, <1>6, ErasedOne
  <2>4. PICK e : e = Erased(p, chars)
    OBVIOUS
  <2>5. e \in Seq(S \ chars)
    BY <2>4, ErasedTyped
  <2>6. <<>> \o e = e /\ e \o <<>> = e
    BY <2>5, ConcatEmptySeq
  <2> QED BY <2>1, <2>2, <2>3, <2>4, <2>6
<1> QED BY <1>1, <1>2, <1>4, <1>5, <1>6

\* The elements of the array's text.
Elements(phones) == [i \in DOMAIN phones |-> ElementOut(phones[i])]

\* They are as many as the phones.
LEMMA ElementsAre ==
  ASSUME NEW S, NEW phones \in Seq(Seq(S))
  PROVE  /\ Elements(phones) \in Seq(Seq(S \cup {Quote}))
         /\ Len(Elements(phones)) = Len(phones)
         /\ \A i \in 1..Len(phones) : \A chars : Quote \in chars =>
              Erased(Elements(phones)[i], chars) = Erased(phones[i], chars)
<1>1. PICK n, W : n = Len(phones) /\ W = Seq(S \cup {Quote})
  OBVIOUS
<1>2. n \in Nat /\ DOMAIN phones = 1..n /\ phones \in [1..n -> Seq(S)]
  BY <1>1
<1>3. \A i \in 1..n : ElementOut(phones[i]) \in W
  BY <1>1, <1>2, ElementIs
<1>4. PICK ee : ee = Elements(phones)
  OBVIOUS
<1>5. ee \in [1..n -> W] /\ \A i \in 1..n : ee[i] = ElementOut(phones[i])
  BY <1>2, <1>3, <1>4 DEF Elements
<1>6. ee \in Seq(W) /\ Len(ee) = n
  BY <1>2, <1>5
<1>7. \A i \in 1..n : \A chars : Quote \in chars => Erased(ee[i], chars) = Erased(phones[i], chars)
  BY <1>2, <1>5, ElementIs
<1> QED BY <1>1, <1>4, <1>6, <1>7

\* The array's text holds the phones, but for what is erased from both.
LEMMA ArrayErased ==
  ASSUME NEW S, NEW chars, Marks \cup {Comma} \subseteq chars, NEW phones \in Seq(Seq(S))
  PROVE  /\ ArrayOut(phones) \in Seq(S \cup Marks \cup {Comma})
         /\ Erased(ArrayOut(phones), chars) = Erased(FlattenSeq(phones), chars)
<1>1. PICK W, sep, open, close : /\ W = S \cup Marks \cup {Comma} /\ sep = <<Comma>>
                                 /\ open = <<Open>> /\ close = <<Close>>
  OBVIOUS
<1>2. sep \in Seq(W) /\ open \in Seq(W) /\ close \in Seq(W)
  BY <1>1 DEF Marks
<1>3. Erased(sep, chars) = <<>> /\ Erased(open, chars) = <<>> /\ Erased(close, chars) = <<>>
  BY <1>1, ErasedOne DEF Marks
<1>4. PICK ee : ee = Elements(phones)
  OBVIOUS
<1>5. ee \in Seq(Seq(W)) /\ phones \in Seq(Seq(W))
  <2>1. S \cup {Quote} \subseteq W /\ S \subseteq W
    BY <1>1 DEF Marks
  <2>2. Seq(S \cup {Quote}) \subseteq Seq(W) /\ Seq(S) \subseteq Seq(W)
    BY <2>1, SeqMonotonic
  <2>3. ee \in Seq(Seq(S \cup {Quote}))
    BY <1>4, ElementsAre
  <2> QED BY <2>2, <2>3, SeqMonotonic
<1>6. Len(ee) = Len(phones) /\ \A i \in 1..Len(ee) : Erased(ee[i], chars) = Erased(phones[i], chars)
  BY <1>4, ElementsAre DEF Marks
<1>7. PICK j : j = JoinWith(sep, ee)
  OBVIOUS
<1>8. j \in Seq(W)
  BY <1>2, <1>5, <1>7, JoinTyped
<1>9. ArrayOut(phones) = (open \o j) \o close
  BY <1>1, <1>4, <1>7, Zenon DEF ArrayOut, Elements
<1>10. open \o j \in Seq(W) /\ (open \o j) \o close \in Seq(W)
  BY <1>2, <1>8, ConcatProperties
<1>11. Erased((open \o j) \o close, chars) = Erased(j, chars)
  <2>1. Erased((open \o j) \o close, chars) = Erased(open \o j, chars) \o Erased(close, chars)
    BY <1>2, <1>10, ErasedConcat
  <2>2. Erased(open \o j, chars) = Erased(open, chars) \o Erased(j, chars)
    BY <1>2, <1>8, ErasedConcat
  <2>3. PICK e : e = Erased(j, chars)
    OBVIOUS
  <2>4. e \in Seq(W \ chars)
    BY <1>8, <2>3, ErasedTyped
  <2>5. <<>> \o e = e /\ e \o <<>> = e
    BY <2>4, ConcatEmptySeq
  <2> QED BY <1>3, <2>1, <2>2, <2>3, <2>5
<1>12. Erased(j, chars) = Erased(FlattenSeq(ee), chars)
  BY <1>2, <1>3, <1>5, <1>7, ErasedJoin
<1>13. Erased(FlattenSeq(ee), chars) = Erased(FlattenSeq(phones), chars)
  BY <1>5, <1>6, ErasedAlike
<1> QED BY <1>1, <1>9, <1>10, <1>11, <1>12, <1>13

\* What ShowFoundClients prints for some phones, with its separators.
Printed(phones) ==
  [i \in DOMAIN phones |-> phones[i] \o (IF phones[i] = Last(phones) THEN <<>> ELSE <<Comma, Space>>)]

\* What is shown before the apostrophes are erased.
Unmarked(phones) == Erased(FlattenSeq(Printed(phones)), Marks)

\* As many texts as phones, each with what follows it (Client_Manager.cpp:231).
LEMMA PrintedIs ==
  ASSUME NEW S, {Comma, Space} \subseteq S, NEW phones \in Seq(Seq(S))
  PROVE  /\ Printed(phones) \in Seq(Seq(S))
         /\ Len(Printed(phones)) = Len(phones)
         /\ \A i \in 1..Len(phones) : Printed(phones)[i] =
              phones[i] \o (IF phones[i] = Last(phones) THEN <<>> ELSE <<Comma, Space>>)
<1> DEFINE After(p) == IF p = Last(phones) THEN <<>> ELSE <<Comma, Space>>
<1>1. \A p : After(p) \in Seq(S)
  BY EmptySeq
<1>2. Printed(phones) = [i \in DOMAIN phones |-> phones[i] \o After(phones[i])]
  BY DEF Printed
<1> HIDE DEF After
<1>3. PICK n, W, pp : n = Len(phones) /\ W = Seq(S) /\ pp = Printed(phones)
  OBVIOUS
<1>4. n \in Nat /\ DOMAIN phones = 1..n /\ \A i \in 1..n : phones[i] \in W
  BY <1>3
<1>5. \A i \in 1..n : phones[i] \o After(phones[i]) \in W
  BY <1>1, <1>3, <1>4, ConcatProperties
<1>6. pp \in [1..n -> W] /\ \A i \in 1..n : pp[i] = phones[i] \o After(phones[i])
  BY <1>2, <1>3, <1>4, <1>5
<1>7. pp \in Seq(W) /\ Len(pp) = n
  BY <1>4, <1>6
<1> QED BY <1>3, <1>6, <1>7 DEF After

\* The apostrophes may as well be erased last.
LEMMA ShowUnmarks ==
  ASSUME NEW S, {Comma, Space} \subseteq S, NEW phones \in Seq(Seq(S))
  PROVE  Show(phones) = Erased(Unmarked(phones), Apart)
<1>1. PICK pp, text : pp = Printed(phones) /\ text = FlattenSeq(pp)
  OBVIOUS
<1>2. pp \in Seq(Seq(S))
  BY <1>1, PrintedIs
<1>3. text \in Seq(S)
  <2>1. PICK none : none = <<>>
    OBVIOUS
  <2>2. none \in Seq(S)
    BY <2>1
  <2> QED BY <1>1, <1>2, <2>2, FlattenAppend
<1>4. Show(phones) = Erased(text, {Open, Close, Quote, SingleQuote})
  BY <1>1, Zenon DEF Show, Printed
<1>5. {Open, Close, Quote, SingleQuote} = Marks \cup Apart
  BY DEF Marks, Apart
<1>6. Erased(Erased(text, Marks), Apart) = Erased(text, Marks \cup Apart)
  BY <1>3, ErasedTwice
<1> QED BY <1>1, <1>4, <1>5, <1>6 DEF Unmarked

\* Whatever was found, what is shown of it is all there but for the separators and
\* the apostrophes.
LEMMA ShowErased ==
  ASSUME NEW S, {Comma, Space} \subseteq S, NEW phones \in Seq(Seq(S))
  PROVE  Solid(Show(phones)) =
           Erased(FlattenSeq(phones), Marks \cup {Space, Comma, SingleQuote})
<1>1. PICK pp, Y, gaps : /\ pp = Printed(phones) /\ gaps = {Space, Comma, SingleQuote}
                         /\ Y = Marks \cup gaps
  OBVIOUS
<1>2. /\ pp \in Seq(Seq(S)) /\ Len(pp) = Len(phones)
      /\ \A i \in 1..Len(phones) :
           pp[i] = phones[i] \o (IF phones[i] = Last(phones) THEN <<>> ELSE <<Comma, Space>>)
  BY <1>1, PrintedIs
<1>3. PICK text : text = FlattenSeq(pp)
  OBVIOUS
<1>4. text \in Seq(S)
  <2>1. PICK none : none = <<>>
    OBVIOUS
  <2>2. none \in Seq(S)
    BY <2>1
  <2> QED BY <1>2, <1>3, <2>2, FlattenAppend
<1>5. Show(phones) = Erased(text, Marks \cup Apart)
  <2>1. Show(phones) = Erased(text, {Open, Close, Quote, SingleQuote})
    BY <1>1, <1>3, Zenon DEF Show, Printed
  <2> QED BY <2>1 DEF Marks, Apart
<1>6. Solid(Show(phones)) = Erased(text, Y)
  <2>1. Erased(Erased(text, Marks \cup Apart), gaps) = Erased(text, (Marks \cup Apart) \cup gaps)
    BY <1>4, ErasedTwice
  <2>2. (Marks \cup Apart) \cup gaps = Y
    BY <1>1 DEF Apart
  <2> QED BY <1>1, <1>5, <2>1, <2>2, Zenon DEF Solid
<1>7. ASSUME NEW p \in Seq(S), NEW after \in {<<>>, <<Comma, Space>>}
      PROVE  Erased(p \o after, Y) = Erased(p, Y)
  <2>1. after \in Seq(S)
    <3>1. <<>> \in Seq(S)
      BY EmptySeq
    <3>2. <<Comma, Space>> \in Seq(S)
      OBVIOUS
    <3> QED BY <3>1, <3>2
  <2>2. Erased(after, Y) = <<>>
    <3>1. CASE after = <<>>
      BY <3>1, ErasedNone
    <3>2. CASE after = <<Comma, Space>>
      <4>1. PICK a, b : a = <<Comma>> /\ b = <<Space>>
        OBVIOUS
      <4>2. a \in Seq(S) /\ b \in Seq(S)
        BY <4>1
      <4>3. after = a \o b
        BY <3>2, <4>1
      <4>4. Erased(a \o b, Y) = Erased(a, Y) \o Erased(b, Y)
        BY <4>2, ErasedConcat
      <4>5. Erased(a, Y) = <<>> /\ Erased(b, Y) = <<>>
        <5>1. Comma \in Y /\ Space \in Y
          BY <1>1
        <5> QED BY <4>1, <5>1, ErasedOne
      <4>6. <<>> \o <<>> = <<>>
        OBVIOUS
      <4> QED BY <4>3, <4>4, <4>5, <4>6
    <3> QED BY <3>1, <3>2
  <2>3. Erased(p \o after, Y) = Erased(p, Y) \o Erased(after, Y)
    BY <2>1, ErasedConcat
  <2>4. PICK e : e = Erased(p, Y)
    OBVIOUS
  <2>5. e \in Seq(S \ Y)
    BY <2>4, ErasedTyped
  <2>6. e \o <<>> = e
    BY <2>5, ConcatEmptySeq
  <2> QED BY <2>2, <2>3, <2>4, <2>6
<1>8. \A i \in 1..Len(pp) : Erased(pp[i], Y) = Erased(phones[i], Y)
  <2> TAKE i \in 1..Len(pp)
  <2>1. PICK p, after : p = phones[i] /\ after = (IF phones[i] = Last(phones) THEN <<>> ELSE <<Comma, Space>>)
    OBVIOUS
  <2>2. i \in 1..Len(phones)
    BY <1>2
  <2>3. p \in Seq(S)
    BY <2>1, <2>2, ElementOfSeq
  <2>4. after \in {<<>>, <<Comma, Space>>}
    BY <2>1
  <2>5. Erased(p \o after, Y) = Erased(p, Y)
    BY <1>7, <2>3, <2>4, Zenon
  <2> QED BY <1>2, <2>1, <2>2, <2>5, Zenon
<1>9. Erased(FlattenSeq(pp), Y) = Erased(FlattenSeq(phones), Y)
  BY <1>2, <1>8, ErasedAlike
<1> QED BY <1>1, <1>3, <1>6, <1>9

\* What is found is made of the characters of the phones and of the array's.
LEMMA FoundTyped ==
  ASSUME NEW C, C \cap Marks = {}, NEW phones \in Seq(Seq(C))
  PROVE  FoundPhones(phones) \in Seq(Seq(C \cup Marks \cup {Comma, Space}))
<1>1. PICK W, Y : W = C \cup Marks \cup {Comma, Space} /\ Y = Marks \cup {Space, Comma}
  OBVIOUS
<1>2. PICK text : text = ArrayOut(phones)
  OBVIOUS
<1>3. text \in Seq(W)
  <2>1. text \in Seq(C \cup Marks \cup {Comma})
    <3>1. Marks \cup {Comma} \subseteq Y
      BY <1>1
    <3> QED BY <1>2, <3>1, ArrayErased
  <2>2. C \cup Marks \cup {Comma} \subseteq W
    BY <1>1
  <2> QED BY <2>1, <2>2, SeqMonotonic
<1>4. SplitAtCommas(text) \in Seq(Seq(W))
  BY <1>3, SplitFlatten
<1> QED BY <1>1, <1>2, <1>4 DEF FoundPhones

\* Nothing of the phones is lost on their way to the screen but spaces, commas and
\* apostrophes.
LEMMA AllIsShown ==
  ASSUME NEW C, C \cap Marks = {}, NEW phones \in Seq(Seq(C))
  PROVE  Solid(Show(FoundPhones(phones))) = Solid(JoinWith(<<>>, phones))
<1>1. PICK W, Y, none : /\ W = C \cup Marks \cup {Comma, Space}
                        /\ Y = Marks \cup {Space, Comma, SingleQuote} /\ none = <<>>
  OBVIOUS
<1>2. PICK text, ff : text = ArrayOut(phones) /\ ff = SplitAtCommas(text)
  OBVIOUS
<1>3. text \in Seq(W)
  <2>1. text \in Seq(C \cup Marks \cup {Comma})
    <3>1. Marks \cup {Comma} \subseteq Y
      BY <1>1
    <3> QED BY <1>2, <3>1, ArrayErased
  <2>2. C \cup Marks \cup {Comma} \subseteq W
    BY <1>1
  <2> QED BY <2>1, <2>2, SeqMonotonic
<1>4. Erased(text, Y) = Erased(FlattenSeq(phones), Y)
  BY <1>1, <1>2, ArrayErased
<1>5. ff \in Seq(Seq(W)) /\ FlattenSeq(ff) = Erased(text, {Comma})
  BY <1>2, <1>3, SplitFlatten
<1>6. Erased(FlattenSeq(ff), Y) = Erased(text, Y)
  <2>1. Erased(Erased(text, {Comma}), Y) = Erased(text, {Comma} \cup Y)
    BY <1>3, ErasedTwice
  <2>2. {Comma} \cup Y = Y
    BY <1>1
  <2> QED BY <1>5, <2>1, <2>2
<1>7. Solid(Show(ff)) = Erased(FlattenSeq(ff), Y)
  <2>1. {Comma, Space} \subseteq W
    BY <1>1
  <2> QED BY <1>1, <1>5, <2>1, ShowErased
<1>8. PICK j : j = JoinWith(none, phones)
  OBVIOUS
<1>9. none \in Seq(C)
  BY <1>1
<1>10. j \in Seq(C)
  BY <1>8, <1>9, JoinTyped
<1>11. Erased(j, Y) = Erased(FlattenSeq(phones), Y)
  <2>1. Erased(none, Y) = <<>>
    BY <1>1, ErasedNone
  <2> QED BY <1>8, <1>9, <2>1, ErasedJoin
<1>12. Solid(j) = Erased(j, Y)
  <2>1. Erased(j, Marks) = j
    BY <1>10, ErasedNothing
  <2>2. Erased(Erased(j, Marks), {Space, Comma, SingleQuote}) =
          Erased(j, Marks \cup {Space, Comma, SingleQuote})
    BY <1>10, ErasedTwice
  <2> QED BY <1>1, <2>1, <2>2 DEF Solid
<1> QED BY <1>1, <1>2, <1>4, <1>6, <1>7, <1>8, <1>11, <1>12 DEF FoundPhones

\* Four texts, one after the other.
Regrouped(b, x, e, y) == (b \o x) \o (e \o y) = (b \o (x \o e)) \o y

\* Here, too, it is the same however they are grouped.
LEMMA RegroupFour ==
  ASSUME NEW S, NEW b \in Seq(S), NEW x \in Seq(S), NEW e \in Seq(S), NEW y \in Seq(S)
  PROVE  Regrouped(b, x, e, y)
<1>1. PICK bx, xe : bx = b \o x /\ xe = x \o e
  OBVIOUS
<1>2. bx \in Seq(S) /\ xe \in Seq(S)
  BY <1>1, ConcatProperties
<1>3. (bx \o e) \o y = bx \o (e \o y)
  <2>1. Grouped(bx, e, y)
    BY <1>2, Regroup, Zenon
  <2> QED BY <2>1 DEF Grouped
<1>4. bx \o e = b \o xe
  <2>1. Grouped(b, x, e)
    BY Regroup, Zenon
  <2> QED BY <1>1, <2>1 DEF Grouped
<1> QED BY <1>1, <1>3, <1>4 DEF Regrouped

\* Phones that differ from the last are shown with a separator behind each but it.
Shows(ff, ee) ==
  /\ ff # <<>> /\ Len(ee) = Len(ff)
  /\ \A i \in 1..Len(ff) : Erased(ff[i], Marks) = ee[i]
  /\ \A i \in 1..Len(ff) : ff[i] = Last(ff) => i = Len(ff)

\* Pieces that end in no separator are printed with one between any two.
LEMMA ShownJoined ==
  ASSUME NEW S, NEW ff \in Seq(Seq(S)), NEW ee \in Seq(Seq(S)), {Comma, Space} \subseteq S,
         Shows(ff, ee)
  PROVE  Unmarked(ff) = JoinWith(<<Comma, Space>>, ee)
<1>0. /\ {Comma, Space} \subseteq S /\ ff # <<>> /\ Len(ee) = Len(ff)
      /\ \A i \in 1..Len(ff) : Erased(ff[i], Marks) = ee[i]
      /\ \A i \in 1..Len(ff) : ff[i] = Last(ff) => i = Len(ff)
  BY Zenon DEF Shows
<1>1. PICK n, sep, none, pp : n = Len(ff) /\ sep = <<Comma, Space>> /\ none = <<>> /\ pp = Printed(ff)
  OBVIOUS
<1>2. n \in Nat /\ n # 0 /\ DOMAIN ff = 1..n /\ DOMAIN ee = 1..n /\ n = Len(ff)
  BY <1>0, <1>1, EmptySeq
<1>3. sep \in Seq(S) /\ none \in Seq(S)
  BY <1>0, <1>1
<1>4. Erased(sep, Marks) = sep /\ Erased(none, Marks) = none
  <2>1. sep \in Seq({Comma, Space})
    BY <1>1
  <2>2. Erased(sep, Marks) = sep
    <3>1. {Comma, Space} \cap Marks = {}
      BY DEF Comma, Space, Marks, Open, Close, Quote
    <3> QED BY <2>1, <3>1, ErasedNothing
  <2> QED BY <1>1, <2>2, ErasedNone
<1> DEFINE After(i) == IF i = n \/ i = 0 THEN none ELSE sep
           Before(i) == IF i = 1 THEN none ELSE sep
<1>5. \A i : After(i) \in Seq(S) /\ Before(i) \in Seq(S) /\ Erased(After(i), Marks) = After(i)
  BY <1>3, <1>4
<1>6. \A i \in 1..n : i - 1 \in 0..n /\ Before(i) = After(i - 1)
  BY <1>2
<1>7. After(0) = none /\ After(n) = none
  OBVIOUS
<1>8. \A i \in 1..n : (IF ff[i] = Last(ff) THEN <<>> ELSE <<Comma, Space>>) = After(i)
  <2>1. Last(ff) = ff[n]
    BY <1>1 DEF Last
  <2>2. \A i \in 1..n : ff[i] = Last(ff) <=> i = n
    BY <1>0, <1>1, <2>1
  <2>3. \A i \in 1..n : i # 0
    OBVIOUS
  <2> QED BY <1>1, <2>2, <2>3
<1>9. PICK ss : ss = [i \in DOMAIN ee |-> (IF i = 1 THEN <<>> ELSE sep) \o ee[i]]
  OBVIOUS
<1>10. \A i \in 1..n : ss[i] = Before(i) \o ee[i]
  BY <1>1, <1>2, <1>9
<1> HIDE DEF After, Before
<1>11. pp \in Seq(Seq(S)) /\ Len(pp) = n /\ \A i \in 1..n : pp[i] = ff[i] \o After(i)
  <2>1. /\ pp \in Seq(Seq(S)) /\ Len(pp) = n
        /\ \A i \in 1..n : pp[i] = ff[i] \o (IF ff[i] = Last(ff) THEN <<>> ELSE <<Comma, Space>>)
    BY <1>0, <1>1, PrintedIs
  <2> QED BY <1>8, <2>1, Zenon
<1>12. ss \in Seq(Seq(S)) /\ Len(ss) = n
  <2>1. \A i \in 1..n : ee[i] \in Seq(S)
    BY <1>0, <1>1, ElementOfSeq
  <2>2. \A i \in 1..n : Before(i) \o ee[i] \in Seq(S)
    BY <1>5, <2>1, ConcatProperties
  <2>3. ss \in [1..n -> Seq(S)]
    BY <1>2, <1>9, <1>10, <2>2
  <2>4. n \in Nat
    BY <1>2
  <2> QED BY <2>3, <2>4
<1>13. PICK f \in [0..n -> Seq(S)] : Concats(f, pp) /\ FlattenSeq(pp) = f[n]
  <2>1. pp \in Seq(Seq(S)) /\ Len(pp) = n
    BY <1>11
  <2>2. \E h \in [0..Len(pp) -> Seq(S)] : Concats(h, pp) /\ FlattenSeq(pp) = h[Len(pp)]
    BY <2>1, FlattenIs, Zenon
  <2> QED BY <2>1, <2>2
<1>14. PICK g \in [0..n -> Seq(S)] : Concats(g, ss) /\ FlattenSeq(ss) = g[n]
  <2>1. ss \in Seq(Seq(S)) /\ Len(ss) = n
    BY <1>12
  <2>2. \E h \in [0..Len(ss) -> Seq(S)] : Concats(h, ss) /\ FlattenSeq(ss) = h[Len(ss)]
    BY <2>1, FlattenIs, Zenon
  <2> QED BY <2>1, <2>2
<1>15. PICK T : T = {i \in 0..n : Erased(f[i], Marks) = g[i] \o After(i)}
  OBVIOUS
<1>16. 0 \in T
  <2>1. f[0] = none /\ g[0] = none
    BY <1>1, <1>13, <1>14 DEF Concats
  <2>2. none \o none = none
    BY <1>3, <1>1, ConcatEmptySeq
  <2>3. Erased(f[0], Marks) = g[0] \o After(0)
    BY <1>4, <1>7, <2>1, <2>2, Zenon
  <2> QED BY <1>2, <1>15, <2>3
<1>17. ASSUME NEW i \in 1..n, i - 1 \in T
       PROVE  i \in T
  <2>1. PICK a, b, p, e, x, y : /\ a = f[i - 1] /\ b = g[i - 1] /\ p = ff[i] /\ e = ee[i]
                                /\ x = Before(i) /\ y = After(i)
    OBVIOUS
  <2>2. a \in Seq(S) /\ b \in Seq(S) /\ x \in Seq(S) /\ y \in Seq(S)
    BY <1>5, <1>6, <2>1
  <2>3. p \in Seq(S) /\ e \in Seq(S)
    BY <1>0, <1>2, <2>1, ElementOfSeq
  <2>4. f[i] = a \o (p \o y) /\ g[i] = b \o (x \o e)
    <3>1. f[i] = a \o pp[i] /\ g[i] = b \o ss[i]
      BY <1>11, <1>12, <1>13, <1>14, <2>1 DEF Concats
    <3>2. pp[i] = p \o y /\ ss[i] = x \o e
      BY <1>10, <1>11, <2>1
    <3> QED BY <3>1, <3>2
  <2>5. Erased(a, Marks) = b \o x
    BY <1>6, <1>15, <1>17, <2>1
  <2>6. Erased(p \o y, Marks) = e \o y
    <3>1. Erased(p \o y, Marks) = Erased(p, Marks) \o Erased(y, Marks)
      BY <2>2, <2>3, ErasedConcat
    <3>2. Erased(p, Marks) = e
      BY <1>0, <1>2, <2>1
    <3>3. Erased(y, Marks) = y
      BY <1>5, <2>1
    <3> QED BY <3>1, <3>2, <3>3
  <2>7. Erased(f[i], Marks) = (b \o x) \o (e \o y)
    <3>1. p \o y \in Seq(S)
      BY <2>2, <2>3, ConcatProperties
    <3>2. Erased(a \o (p \o y), Marks) = Erased(a, Marks) \o Erased(p \o y, Marks)
      BY <2>2, <3>1, ErasedConcat
    <3> QED BY <2>4, <2>5, <2>6, <3>2
  <2>8. (b \o x) \o (e \o y) = (b \o (x \o e)) \o y
    <3>1. b \in Seq(S) /\ x \in Seq(S) /\ e \in Seq(S) /\ y \in Seq(S)
      BY <2>2, <2>3
    <3>2. Regrouped(b, x, e, y)
      BY <3>1, RegroupFour
    <3> QED BY <3>2 DEF Regrouped
  <2>9. Erased(f[i], Marks) = g[i] \o After(i)
    BY <2>1, <2>4, <2>7, <2>8, Zenon
  <2> QED BY <1>15, <2>9
<1>18. Erased(f[n], Marks) = g[n]
  <2>1. 0..n \subseteq T
    BY <1>2, <1>16, <1>17, ByPositions
  <2>2. n \in 0..n
    BY <1>2
  <2>3. Erased(f[n], Marks) = g[n] \o none /\ g[n] \in Seq(S)
    BY <1>7, <1>15, <2>1, <2>2
  <2>4. g[n] \o none = g[n]
    BY <1>1, <2>3, ConcatEmptySeq
  <2> QED BY <2>3, <2>4
<1>19. Unmarked(ff) = Erased(FlattenSeq(pp), Marks)
  BY <1>1, Zenon DEF Unmarked
<1>20. JoinWith(sep, ee) = FlattenSeq(ss)
  BY <1>9 DEF JoinWith
<1> QED BY <1>1, <1>13, <1>14, <1>18, <1>19, <1>20

\* The pieces of clean phones: an opening brace on the first, a closing one on the last.
FoundAs(phones, qs, q) ==
  /\ FoundPhones(phones) = Append(qs, Append(q, Close))
  /\ Len(phones) = Len(qs) + 1
  /\ \A i \in 1..Len(qs) : Erased(qs[i], Marks) = phones[i]
  /\ Erased(q, Marks) = phones[Len(qs) + 1]

\* The text of an array is cut into its elements, the first with the opening brace
\* and the last with the closing one (Client_Manager.cpp:147).
LEMMA PiecesOfPhones ==
  ASSUME NEW C, C \cap (Marks \cup {Comma}) = {}, NEW phones \in Seq(Seq(C)), phones # <<>>
  PROVE  \E qs \in Seq(Seq(C \cup {Quote, Open})), q \in Seq(C \cup {Quote, Open}) :
           FoundAs(phones, qs, q)
<1>1. PICK U, V, open, sep : /\ U = C \cup {Quote, Open} /\ V = U \cup {Comma, Close}
                             /\ open = <<Open>> /\ sep = <<Comma>>
  OBVIOUS
<1>2. Comma \notin U /\ C \cup {Quote} \subseteq U /\ C \subseteq U /\ U \subseteq V
  BY <1>1 DEF Marks, Comma, Quote, Open
<1>3. open \in Seq(U) /\ sep \in Seq(V) /\ open \in Seq(V)
  BY <1>1
<1>4. PICK n : n = Len(phones)
  OBVIOUS
<1>5. n \in Nat /\ n # 0
  BY <1>4, EmptySeq
<1>6. PICK ee : ee = Elements(phones)
  OBVIOUS
<1>7. ee \in Seq(Seq(U)) /\ Len(ee) = n
  <2>1. ee \in Seq(Seq(C \cup {Quote})) /\ Len(ee) = n
    BY <1>4, <1>6, ElementsAre
  <2>2. Seq(Seq(C \cup {Quote})) \subseteq Seq(Seq(U))
    BY <1>2, SeqMonotonic
  <2> QED BY <2>1, <2>2
<1>8. \A i \in 1..n : Erased(ee[i], Marks) = phones[i]
  <2> TAKE i \in 1..n
  <2>1. Erased(ee[i], Marks) = Erased(phones[i], Marks)
    BY <1>4, <1>6, ElementsAre DEF Marks
  <2>2. phones[i] \in Seq(C)
    BY <1>4, ElementOfSeq
  <2>3. Erased(phones[i], Marks) = phones[i]
    BY <2>2, ErasedNothing
  <2> QED BY <2>1, <2>3
<1>9. PICK uu : uu = [i \in 1..n |-> IF i = 1 THEN open \o ee[i] ELSE ee[i]]
  OBVIOUS
<1>10. uu \in Seq(Seq(U)) /\ Len(uu) = n
  <2>1. \A i \in 1..n : ee[i] \in Seq(U)
    BY <1>7, ElementOfSeq
  <2>2. \A i \in 1..n : open \o ee[i] \in Seq(U)
    BY <1>3, <2>1, ConcatProperties
  <2>3. uu \in [1..n -> Seq(U)]
    BY <1>9, <2>1, <2>2
  <2> QED BY <1>5, <2>3
<1>11. \A i \in 1..n : Erased(uu[i], Marks) = phones[i]
  <2> TAKE i \in 1..n
  <2>1. PICK e : e = ee[i]
    OBVIOUS
  <2>2. e \in Seq(U) /\ phones[i] \in Seq(C)
    BY <1>4, <1>7, <2>1, ElementOfSeq
  <2>3. Erased(open \o e, Marks) = Erased(open, Marks) \o Erased(e, Marks)
    BY <1>3, <2>2, ErasedConcat
  <2>4. Erased(open, Marks) = <<>>
    BY <1>1, ErasedOne DEF Marks
  <2>5. <<>> \o phones[i] = phones[i]
    BY <2>2, ConcatEmptySeq
  <2> QED BY <1>8, <1>9, <2>1, <2>3, <2>4, <2>5
<1>12. JoinWith(sep, uu) = open \o JoinWith(sep, ee)
  <2>1. uu \in Seq(Seq(V)) /\ ee \in Seq(Seq(V))
    <3>1. Seq(Seq(U)) \subseteq Seq(Seq(V))
      BY <1>2, SeqMonotonic
    <3> QED BY <1>7, <1>10, <3>1
  <2>2. ee # <<>> /\ Len(uu) = Len(ee) /\ uu[1] = open \o ee[1] /\ (\A i \in 2..Len(ee) : uu[i] = ee[i])
    BY <1>5, <1>7, <1>9, <1>10, EmptySeq
  <2>3. Prefixed(open, ee, uu)
    BY <2>2, Zenon DEF Prefixed
  <2>4. JoinsPrefixed(sep, open, ee, uu)
    BY <1>3, <2>1, <2>3, JoinFirst, Zenon
  <2> QED BY <2>4, Zenon DEF JoinsPrefixed
<1>13. PICK text : text = JoinWith(sep, uu)
  OBVIOUS
<1>14. uu # <<>>
  BY <1>5, <1>10, EmptySeq
<1>15. text \in Seq(V) /\ Pieces(text) = uu
  <2>1. Seq(Seq(U)) \subseteq Seq(Seq(V))
    BY <1>2, SeqMonotonic
  <2>2. text \in Seq(V)
    BY <1>3, <1>10, <1>13, <2>1, JoinTyped
  <2>3. Pieces(text) = uu
    BY <1>1, <1>2, <1>10, <1>13, <1>14, PiecesJoin
  <2> QED BY <2>2, <2>3
<1>16. PICK qs \in Seq(Seq(U)), q \in Seq(U) : uu = Append(qs, q)
  BY <1>10, <1>14, SequenceEmptyOrAppend
<1>17. PICK r : r = Append(q, Close)
  OBVIOUS
<1>18. ArrayOut(phones) = Append(text, Close)
  <2>1. ArrayOut(phones) = (open \o JoinWith(sep, ee)) \o <<Close>>
    BY <1>1, <1>6, Zenon DEF ArrayOut, Elements
  <2>2. ArrayOut(phones) = text \o <<Close>>
    BY <1>12, <1>13, <2>1
  <2>3. Close \in V
    BY <1>1
  <2> QED BY <1>15, <2>2, <2>3, AppendIsConcat
<1>19. qs \in Seq(Seq(V)) /\ q \in Seq(V) /\ r \in Seq(V)
  <2>1. Seq(U) \subseteq Seq(V) /\ Seq(Seq(U)) \subseteq Seq(Seq(V))
    BY <1>2, SeqMonotonic
  <2>2. Close \in V
    BY <1>1
  <2>3. q \in Seq(V)
    BY <2>1
  <2> QED BY <1>17, <2>1, <2>2, <2>3, AppendProperties
<1>20. Pieces(ArrayOut(phones)) = Append(qs, r)
  <2>1. Close \in V /\ Close # Comma
    BY <1>1 DEF Close, Comma
  <2>2. Pieces(Append(text, Close)) = Read(Pieces(text), Close)
    BY <1>15, <2>1, PiecesAppend
  <2>3. Read(Append(qs, q), Close) = Append(qs, Append(q, Close))
    BY <1>19, <2>1, ReadOther
  <2> QED BY <1>15, <1>16, <1>17, <1>18, <2>2, <2>3, Zenon
<1>21. FoundPhones(phones) = Append(qs, r)
  <2>1. Last(Append(qs, r)) = r
    BY <1>19, FrontLast
  <2>2. r # <<>>
    <3>1. q \in Seq(V) /\ Close \in V
      BY <1>1, <1>19
    <3>2. Append(q, Close) # <<>>
      BY <3>1, AppendProperties
    <3> QED BY <1>17, <3>2
  <2> QED BY <1>20, <2>1, <2>2, Zenon DEF FoundPhones, SplitAtCommas
<1>22. Len(qs) + 1 = n /\ uu[Len(qs) + 1] = q /\ \A i \in 1..Len(qs) : uu[i] = qs[i] /\ i \in 1..n
  BY <1>10, <1>16, AppendProperties
<1>23. Len(phones) = Len(qs) + 1
  BY <1>4, <1>22
<1>24. \A i \in 1..Len(qs) : Erased(qs[i], Marks) = phones[i]
  BY <1>11, <1>22, Zenon
<1>25. Erased(q, Marks) = phones[Len(qs) + 1]
  <2>1. n \in 1..n
    BY <1>5
  <2> QED BY <1>11, <1>22, <2>1
<1>26. FoundAs(phones, qs, q)
  BY <1>17, <1>21, <1>23, <1>24, <1>25, Zenon DEF FoundAs
<1> QED BY <1>1, <1>26

\* An array without phones is found as its braces, and shown as nothing.
LEMMA NoneShown ==
  FoundPhones(<<>>) = <<<<Open, Close>>>> /\ Unmarked(FoundPhones(<<>>)) = <<>>
<1>1. PICK S, open, close, none, sep : /\ S = {Open, Close} /\ open = <<Open>> /\ close = <<Close>>
                                       /\ none = <<>> /\ sep = <<Comma>>
  OBVIOUS
<1>2. open \in Seq(S) /\ close \in Seq(S) /\ none \in Seq(S)
  BY <1>1
<1>3. ArrayOut(none) = (open \o JoinWith(sep, Elements(none))) \o close
  BY <1>1, Zenon DEF ArrayOut, Elements
<1>4. JoinWith(sep, Elements(none)) = none
  <2>1. DOMAIN none = {} /\ \A t : DOMAIN t = {} /\ t = [i \in DOMAIN t |-> t[i]] => t = <<>>
    BY <1>1
  <2>2. Elements(none) = <<>>
    BY <2>1 DEF Elements
  <2>3. JoinWith(sep, <<>>) = <<>>
    <3>1. PICK V : V = {Comma}
      OBVIOUS
    <3>2. sep \in Seq(V) /\ <<>> \in Seq(V)
      BY <1>1, <3>1
    <3> QED BY <3>2, JoinFew
  <2> QED BY <1>1, <2>2, <2>3
<1>5. PICK text : text = open \o close
  OBVIOUS
<1>6. text \in Seq(S) /\ text # <<>>
  <2>1. Len(open) = 1 /\ Len(close) = 1
    BY <1>1
  <2>2. text \in Seq(S) /\ Len(text) = Len(open) + Len(close)
    BY <1>2, <1>5, ConcatProperties
  <2>3. Len(text) # 0
    BY <2>1, <2>2
  <2> QED BY <2>2, <2>3, EmptySeq
<1>7. ArrayOut(none) = text
  <2>1. open \o none = open
    BY <1>1, <1>2, ConcatEmptySeq
  <2> QED BY <1>3, <1>4, <1>5, <2>1
<1>8. Pieces(text) = <<text>>
  <2>1. Comma \notin S
    BY <1>1 DEF Comma, Open, Close
  <2> QED BY <1>6, <2>1, PiecesOne
<1>9. PICK ff : ff = <<text>>
  OBVIOUS
<1>10. Last(ff) = text
  BY <1>9 DEF Last
<1>11. FoundPhones(none) = ff
  BY <1>6, <1>7, <1>8, <1>9, <1>10, Zenon DEF FoundPhones, SplitAtCommas
<1>12. Erased(text, Marks) = <<>>
  <2>1. Erased(text, Marks) = Erased(open, Marks) \o Erased(close, Marks)
    BY <1>2, <1>5, ErasedConcat
  <2>2. Erased(open, Marks) = <<>> /\ Erased(close, Marks) = <<>>
    BY <1>1, ErasedOne DEF Marks
  <2>3. <<>> \o <<>> = <<>>
    OBVIOUS
  <2> QED BY <2>1, <2>2, <2>3
<1>13. PICK W, ee : W = {Open, Close, Comma, Space} /\ ee = <<none>>
  OBVIOUS
<1>14. ff \in Seq(Seq(W)) /\ ee \in Seq(Seq(W)) /\ Len(ff) = 1 /\ Len(ee) = 1 /\ ff # <<>>
  <2>1. none \in Seq(W) /\ text \in Seq(W)
    BY <1>1, <1>6, <1>13
  <2> QED BY <1>9, <1>13, <2>1
<1>15. Unmarked(ff) = JoinWith(<<Comma, Space>>, ee)
  <2>1. Shows(ff, ee)
    <3>1. \A i \in 1..Len(ff) : i = 1
      BY <1>14
    <3>2. ff[1] = text /\ ee[1] = <<>>
      BY <1>1, <1>9, <1>13
    <3> QED BY <1>12, <1>14, <3>1, <3>2 DEF Shows
  <2>2. {Comma, Space} \subseteq W
    BY <1>13
  <2> QED BY <1>14, <2>1, <2>2, ShownJoined, Zenon
<1>16. JoinWith(<<Comma, Space>>, ee) = none
  <2>1. PICK s : s = <<Comma, Space>>
    OBVIOUS
  <2>2. s \in Seq(W) /\ none \in Seq(W)
    BY <1>1, <1>13, <2>1
  <2>3. JoinWith(s, <<none>>) = none
    BY <2>2, JoinFew
  <2> QED BY <1>13, <2>1, <2>3
<1>17. text = <<Open, Close>>
  <2>1. PICK both : both = <<Open, Close>>
    OBVIOUS
  <2>2. both \in Seq(S) /\ Len(both) = 2 /\ both[1] = Open /\ both[2] = Close
    BY <1>1, <2>1
  <2>3. Len(open) = 1 /\ Len(close) = 1 /\ open[1] = Open /\ close[1] = Close
    BY <1>1
  <2>4. Len(text) = 2 /\ text[1] = Open /\ text[2] = Close
    <3>1. /\ Len(open \o close) = Len(open) + Len(close)
          /\ \A i \in 1..Len(open) + Len(close) :
               (open \o close)[i] = IF i <= Len(open) THEN open[i] ELSE close[i - Len(open)]
      BY <1>2, ConcatProperties
    <3>2. Len(open) + Len(close) = 2
      BY <2>3
    <3>3. 1 \in 1..Len(open) + Len(close) /\ 2 \in 1..Len(open) + Len(close)
      BY <3>2
    <3>4. (open \o close)[1] = open[1]
      BY <2>3, <3>1, <3>3
    <3>5. (open \o close)[2] = close[1]
      BY <2>3, <3>1, <3>3
    <3> QED BY <1>5, <2>3, <3>1, <3>2, <3>4, <3>5
  <2>5. \A i \in 1..2 : i = 1 \/ i = 2
    OBVIOUS
  <2>6. \A i \in 1..Len(text) : text[i] = both[i]
    BY <2>2, <2>4, <2>5
  <2> QED BY <1>6, <2>1, <2>2, <2>4, <2>6, SeqEqual
<1> QED BY <1>1, <1>9, <1>11, <1>15, <1>16, <1>17

\* Clean phones are shown as they are, one after the other.
LEMMA CleanAreShown ==
  ASSUME NEW C, C \cap Marks = {}, NEW phones \in Seq(CleanOf(C))
  PROVE  Unmarked(FoundPhones(phones)) = JoinWith(<<Comma, Space>>, phones)
<1>1. CASE phones = <<>>
  <2>1. JoinWith(<<Comma, Space>>, <<>>) = <<>>
    <3>1. PICK V, s : V = {Comma, Space} /\ s = <<Comma, Space>>
      OBVIOUS
    <3>2. s \in Seq(V) /\ <<>> \in Seq(V)
      BY <3>1
    <3>3. JoinWith(s, <<>>) = <<>>
      BY <3>2, JoinFew
    <3> QED BY <3>1, <3>3
  <2> QED BY <1>1, <2>1, NoneShown
<1>2. CASE phones # <<>>
  <2>1. PICK D, U, W : /\ D = C \ {Comma} /\ U = D \cup {Quote, Open}
                       /\ W = U \cup {Close, Comma, Space}
    OBVIOUS
  <2>2. phones \in Seq(Seq(D)) /\ D \cap (Marks \cup {Comma}) = {}
    <3>1. CleanOf(C) \subseteq Seq(D)
      BY <2>1, CleanIs
    <3>2. phones \in Seq(Seq(D))
      BY <3>1, SeqMonotonic
    <3> QED BY <2>1, <3>2
  <2>0. PICK qs \in Seq(Seq(U)), q \in Seq(U) : FoundAs(phones, qs, q)
    <3>1. \E qs \in Seq(Seq(D \cup {Quote, Open})), q \in Seq(D \cup {Quote, Open}) :
            FoundAs(phones, qs, q)
      BY <1>2, <2>2, PiecesOfPhones, Zenon
    <3> QED BY <2>1, <3>1
  <2>3. /\ FoundPhones(phones) = Append(qs, Append(q, Close))
        /\ Len(phones) = Len(qs) + 1
        /\ \A i \in 1..Len(qs) : Erased(qs[i], Marks) = phones[i]
        /\ Erased(q, Marks) = phones[Len(qs) + 1]
    BY <2>0, Zenon DEF FoundAs
  <2>4. PICK k, r, ff : k = Len(qs) /\ r = Append(q, Close) /\ ff = Append(qs, r)
    OBVIOUS
  <2>5. Close \notin U /\ Close \in W /\ Close \in Marks /\ {Comma, Space} \subseteq W
    BY <2>1 DEF Marks, Quote, Open, Close
  <2>6. k \in Nat /\ qs \in Seq(Seq(W)) /\ q \in Seq(W) /\ phones \in Seq(Seq(W))
    <3>1. U \subseteq W /\ D \subseteq W
      BY <2>1
    <3>2. Seq(Seq(U)) \subseteq Seq(Seq(W)) /\ Seq(U) \subseteq Seq(W) /\ Seq(Seq(D)) \subseteq Seq(Seq(W))
      BY <3>1, SeqMonotonic
    <3>3. k \in Nat
      BY <2>4
    <3> QED BY <2>2, <3>2, <3>3
  <2>7. r \in Seq(W) /\ r[Len(q) + 1] = Close /\ Len(r) = Len(q) + 1
    BY <2>4, <2>5, <2>6, AppendProperties
  <2>8. /\ ff \in Seq(Seq(W)) /\ Len(ff) = k + 1 /\ ff[k + 1] = r
        /\ \A i \in 1..k : ff[i] = qs[i]
    BY <2>4, <2>6, <2>7, AppendProperties
  <2>9. Last(ff) = r
    <3>1. qs \in Seq(Seq(W)) /\ r \in Seq(W)
      BY <2>6, <2>7
    <3>2. Last(Append(qs, r)) = r
      BY <3>1, FrontLast
    <3> QED BY <2>4, <3>2, Zenon
  <2>10. \A i \in 1..k : ff[i] # r
    <3> TAKE i \in 1..k
    <3>1. PICK p : p = qs[i]
      OBVIOUS
    <3>2. p \in Seq(U)
      BY <2>4, <3>1, ElementOfSeq
    <3>3. p # r
      <4>1. SUFFICES ASSUME p = r PROVE FALSE
        OBVIOUS
      <4>2. Len(q) + 1 \in 1..Len(p)
        BY <2>7, <2>6, <4>1
      <4>3. p[Len(q) + 1] \in U
        BY <3>2, <4>2, ElementOfSeq
      <4> QED BY <2>5, <2>7, <4>1, <4>3
    <3> QED BY <2>8, <3>1, <3>3
  <2>11. Erased(r, Marks) = Erased(q, Marks)
    BY <2>4, <2>5, <2>6, ErasedAppend
  <2>12. \A i \in 1..(k + 1) : i \in 1..k \/ i = k + 1
    BY <2>6
  <2>13. \A i \in 1..(k + 1) : Erased(ff[i], Marks) = phones[i]
    BY <2>3, <2>4, <2>8, <2>11, <2>12
  <2>14. Unmarked(ff) = JoinWith(<<Comma, Space>>, phones)
    <3>1. ff # <<>> /\ Len(phones) = Len(ff)
      <4>1. Len(phones) = Len(ff)
        BY <2>3, <2>4, <2>8
      <4>2. Len(ff) # 0
        BY <2>6, <2>8
      <4> QED BY <4>1, <4>2, EmptySeq
    <3>2. \A i \in 1..Len(ff) : ff[i] = Last(ff) => i = Len(ff)
      BY <2>8, <2>9, <2>10, <2>12
    <3>3. \A i \in 1..Len(ff) : Erased(ff[i], Marks) = phones[i]
      BY <2>8, <2>13
    <3>4. Shows(ff, phones)
      BY <3>1, <3>2, <3>3, Zenon DEF Shows
    <3>5. ff \in Seq(Seq(W)) /\ phones \in Seq(Seq(W)) /\ {Comma, Space} \subseteq W
      BY <2>5, <2>6, <2>8
    <3> QED BY <3>4, <3>5, ShownJoined, Zenon
  <2> QED BY <2>3, <2>4, <2>14
<1> QED BY <1>1, <1>2

-----------------------------------------------------------------------------
(* The phones of a client: from the callers to the screen                    *)

Symbols == UNION {ToSet(t) : t \in Texts}
Alphabet == Symbols \cup {Space, Comma}

\* What a phone is made of has no braces and no quotes.
LEMMA TextsTyped == Texts \subseteq Seq(Alphabet) /\ Alphabet \cap Marks = {}
<1>1. ASSUME NEW t \in Texts
      PROVE  t \in Seq(Alphabet) /\ ToSet(t) \cap Marks = {}
  <2>1. t \in Seq(ToSet(t)) /\ ToSet(t) \cap {Open, Close, Quote} = {}
    BY TextsAssumption DEF Unmodelled
  <2>2. ToSet(t) \subseteq Alphabet
    BY Zenon DEF Alphabet, Symbols
  <2> QED BY <2>1, <2>2, SeqMonotonic DEF Marks
<1>2. {Space, Comma} \cap Marks = {}
  BY DEF Space, Comma, Marks, Open, Close, Quote
<1> QED BY <1>1, <1>2 DEF Alphabet, Symbols

\* What the server makes of an array literal.
LEMMA ArrayInTyped ==
  ASSUME NEW S, NEW body \in Seq(S)
  PROVE  ArrayIn(body) \in Seq(Seq(S))
<1>1. PICK pp, n : pp = Pieces(body) /\ n = Len(pp)
  OBVIOUS
<1>2. pp \in Seq(Seq(S))
  BY <1>1, PiecesTyped DEF PiecesOf
<1>3. n \in Nat /\ DOMAIN pp = 1..n /\ \A i \in 1..n : pp[i] \in Seq(S)
  BY <1>1, <1>2
<1>4. \A i \in 1..n : Trim(pp[i]) \in Seq(S)
  BY <1>3, TrimIs
<1>5. [i \in DOMAIN pp |-> Trim(pp[i])] \in [1..n -> Seq(S)]
  BY <1>3, <1>4
<1>6. [i \in DOMAIN pp |-> Trim(pp[i])] \in Seq(Seq(S))
  BY <1>3, <1>5
<1>7. ArrayIn(body) = <<>> \/ ArrayIn(body) = [i \in DOMAIN pp |-> Trim(pp[i])]
  BY <1>1 DEF ArrayIn
<1> QED BY <1>6, <1>7, EmptySeq

\* Erasing elements keeps the others' kind.
LEMMA ErasedStays ==
  ASSUME NEW S, NEW chars, NEW s \in Seq(S)
  PROVE  Erased(s, chars) \in Seq(S)
<1>1. Erased(s, chars) \in Seq(S \ chars)
  BY ErasedTyped
<1>2. Seq(S \ chars) \subseteq Seq(S)
  BY SeqMonotonic
<1> QED BY <1>1, <1>2

\* The phones in the table are texts over the alphabet; as long as all the texts
\* used were clean, they are the clean texts meant; what is found and shown is
\* found and shown of them.
PhonesInv ==
  /\ stored \in Seq(Seq(Alphabet))
  /\ clean => stored = meant /\ stored \in Seq(CleanOf(Alphabet))
  /\ found # <<>> => found = FoundPhones(stored) /\ shown = Show(found)

\* There are no phones in the beginning.
LEMMA PhonesInit == Init => PhonesInv
<1>1. \A S : <<>> \in Seq(S)
  BY EmptySeq
<1> QED BY <1>1 DEF Init, PhonesInv

\* Each call keeps the invariant: AddClient by ArrayIn undoing Literal, AddPhone and
\* DeletePhone by doing the same to both lists, FindAndShow by what it is.
LEMMA PhonesStep == PhonesInv /\ [Next]_vars => PhonesInv'
<1> SUFFICES ASSUME PhonesInv, [Next]_vars PROVE PhonesInv'
  OBVIOUS
<1>1. PICK A, K : A = Seq(Alphabet) /\ K = CleanOf(Alphabet)
  OBVIOUS
<1>2. Texts \subseteq A /\ \A p \in Texts : Clean(p) => p \in K
  BY <1>1, TextsTyped DEF CleanOf
<1>3. ASSUME NEW phones \in BoundedSeq(Texts, MaxPhones), AddClient(phones)
      PROVE  PhonesInv'
  <2>1. phones \in Seq(Texts)
    BY <1>3, BoundAssumption DEF BoundedSeq, SeqOf
  <2>2. phones \in Seq(A)
    BY <1>2, <2>1, SeqMonotonic
  <2>3. CASE Malformed(Literal(phones))
    BY <1>3, <2>3 DEF AddClient, Forget, PhonesInv
  <2>4. CASE ~Malformed(Literal(phones))
    <3>1. /\ meant' = phones /\ stored' = ArrayIn(Literal(phones)) /\ found' = <<>>
          /\ clean' = \A i \in DOMAIN phones : Clean(phones[i])
      BY <1>3, <2>4 DEF AddClient, Forget
    <3>2. PICK sep : sep = <<Comma>>
      OBVIOUS
    <3>3. sep \in Seq(Alphabet)
      BY <3>2 DEF Alphabet
    <3>4. Literal(phones) \in Seq(Alphabet)
      BY <1>1, <2>2, <3>2, <3>3, JoinTyped DEF Literal
    <3>5. stored' \in Seq(A)
      BY <1>1, <3>1, <3>4, ArrayInTyped
    <3>6. ASSUME clean'
          PROVE  stored' = phones /\ phones \in Seq(K)
      <4>1. \A i \in 1..Len(phones) : phones[i] \in K
        <5>1. \A i \in DOMAIN phones : Clean(phones[i])
          BY <3>1, <3>6, Zenon
        <5>2. DOMAIN phones = 1..Len(phones) /\ \A i \in 1..Len(phones) : phones[i] \in Texts
          BY <2>1
        <5> QED BY <1>2, <5>1, <5>2, Zenon
      <4>2. phones \in Seq(K)
        BY <2>1, <4>1
      <4> QED BY <1>1, <3>1, <4>2, LiteralIsRead
    <3> QED BY <1>1, <3>1, <3>5, <3>6 DEF PhonesInv
  <2> QED BY <2>3, <2>4
<1>4. ASSUME NEW p \in Texts, AddPhone(p)
      PROVE  PhonesInv'
  <2>1. /\ meant' = Append(meant, p) /\ stored' = Append(stored, p) /\ found' = <<>>
        /\ clean' = (clean /\ Clean(p))
    BY <1>4 DEF AddPhone, Forget
  <2>2. stored \in Seq(A) /\ p \in A
    BY <1>1, <1>2 DEF PhonesInv
  <2>3. stored' \in Seq(A)
    BY <2>1, <2>2
  <2>4. ASSUME clean'
        PROVE  stored' = meant' /\ stored' \in Seq(K)
    <3>1. stored = meant /\ stored \in Seq(K) /\ p \in K
      BY <1>1, <1>2, <2>1, <2>4 DEF PhonesInv
    <3> QED BY <2>1, <3>1
  <2> QED BY <1>1, <2>1, <2>3, <2>4 DEF PhonesInv
<1>5. ASSUME NEW p \in Texts, DeletePhone(p)
      PROVE  PhonesInv'
  <2>1. /\ meant' = Erased(meant, {p}) /\ stored' = Erased(stored, {p}) /\ found' = <<>>
        /\ clean' = (clean /\ Clean(p))
    BY <1>5 DEF DeletePhone, Forget
  <2>2. stored' \in Seq(A)
    BY <1>1, <2>1, ErasedStays DEF PhonesInv
  <2>3. ASSUME clean'
        PROVE  stored' = meant' /\ stored' \in Seq(K)
    <3>1. stored = meant /\ stored \in Seq(K)
      BY <1>1, <2>1, <2>3 DEF PhonesInv
    <3> QED BY <2>1, <3>1, ErasedStays
  <2> QED BY <1>1, <2>1, <2>2, <2>3 DEF PhonesInv
<1>6. CASE DeleteClient
  <2>1. PICK none : none = <<>>
    OBVIOUS
  <2>2. meant' = none /\ stored' = none /\ found' = none
    BY <1>6, <2>1 DEF DeleteClient, Forget
  <2>3. none \in Seq(A) /\ none \in Seq(K)
    BY <2>1, EmptySeq
  <2> QED BY <1>1, <2>1, <2>2, <2>3 DEF PhonesInv
<1>7. CASE FindAndShow
  BY <1>7 DEF FindAndShow, PhonesInv
<1>8. CASE UNCHANGED vars
  BY <1>8 DEF vars, PhonesInv
<1> QED BY <1>3, <1>4, <1>5, <1>6, <1>7, <1>8 DEF Next

\* Init and every step of Next keep the invariant.
THEOREM PhonesInvariant == Spec => []PhonesInv
<1> QED BY PhonesInit, PhonesStep, PTL DEF Spec

\* Clean numbers reach the table as they were given, whether AddClient's array
\* literal or AddPhone carried them: for all numbers without braces and quotes
\* and any number of them (Client_Manager.cpp:35, :83).
THEOREM PhonesAreStored == Spec => []StoredAsMeant
<1>1. PhonesInv => StoredAsMeant
  BY DEF PhonesInv, StoredAsMeant
<1> QED BY <1>1, PhonesInvariant, PTL

\* Clean numbers are printed as they were given but for their apostrophes, each one,
\* in order and apart, also those equal to the last (Client_Manager.cpp:231), and for
\* a client without phones one is found that is nothing but braces.
THEOREM PhonesAreShown == Spec => []ShownAsMeant
<1>1. PhonesInv => ShownAsMeant
  <2> SUFFICES ASSUME PhonesInv, clean, found # <<>>
               PROVE  /\ shown = Erased(JoinWith(<<Comma, Space>>, meant), {SingleQuote})
                      /\ meant = <<>> => found = <<<<Open, Close>>>>
    BY DEF ShownAsMeant
  <2>1. /\ stored = meant /\ stored \in Seq(CleanOf(Alphabet)) /\ stored \in Seq(Seq(Alphabet))
        /\ found = FoundPhones(stored) /\ shown = Show(FoundPhones(stored))
    BY DEF PhonesInv
  <2>2. Unmarked(FoundPhones(stored)) = JoinWith(<<Comma, Space>>, stored)
    BY <2>1, TextsTyped, CleanAreShown
  <2>3. Show(FoundPhones(stored)) = Erased(Unmarked(FoundPhones(stored)), {SingleQuote})
    <3>1. PICK W : W = Alphabet \cup Marks \cup {Comma, Space}
      OBVIOUS
    <3>2. FoundPhones(stored) \in Seq(Seq(W)) /\ {Comma, Space} \subseteq W
      BY <2>1, <3>1, TextsTyped, FoundTyped
    <3> QED BY <3>2, ShowUnmarks DEF Apart
  <2>4. meant = <<>> => found = <<<<Open, Close>>>>
    BY <2>1, NoneShown
  <2> QED BY <2>1, <2>2, <2>3, <2>4
<1> QED BY <1>1, PhonesInvariant, PTL

\* Whatever numbers the callers use that hold no braces, quotes or backslashes, clean
\* or not: everything stored is printed, but for spaces, commas and apostrophes
\* (Client_Manager.cpp:147, :237).
THEOREM PhonesAreAllThere == Spec => []NothingLost
<1>1. PhonesInv => NothingLost
  <2> SUFFICES ASSUME PhonesInv, found # <<>>
               PROVE  Solid(shown) = Solid(JoinWith(<<>>, stored))
    BY DEF NothingLost
  <2>1. stored \in Seq(Seq(Alphabet)) /\ shown = Show(FoundPhones(stored))
    BY DEF PhonesInv
  <2>2. Solid(Show(FoundPhones(stored))) = Solid(JoinWith(<<>>, stored))
    BY <2>1, TextsTyped, AllIsShown
  <2> QED BY <2>1, <2>2
<1> QED BY <1>1, PhonesInvariant, PTL

-----------------------------------------------------------------------------
(* Text in the encodings                                                     *)

\* Each of the shapes has one to four bytes.
HaveBytes(S) == \A s \in S : Len(s) \in 1..4 /\ DOMAIN s = 1..Len(s)

\* A character has one to four bytes in every encoding (encodings.cxx).
LEMMA ShapesHaveBytes ==
  ASSUME NEW group \in Groups
  PROVE  HaveBytes(Shapes[group])
<1>1. HaveBytes(Big5) /\ HaveBytes(EucCn) /\ HaveBytes(EucKr) /\ HaveBytes(Johab) /\ HaveBytes(Sjis)
  BY DEF HaveBytes, Big5, EucCn, EucKr, Johab, Sjis
<1>2. HaveBytes(EucJp) /\ HaveBytes(EucTw) /\ HaveBytes(Gb18030) /\ HaveBytes(Uhc)
  BY DEF HaveBytes, EucJp, EucTw, Gb18030, Uhc
<1>3. HaveBytes(Gbk)
  BY DEF HaveBytes, Gbk
<1>4. HaveBytes(Mule) /\ HaveBytes(Utf8)
  BY DEF HaveBytes, Mule, Utf8
<1>5. HaveBytes({<<To(\h80, \hFF)>>})
  <2>1. PICK x : x = <<To(\h80, \hFF)>>
    OBVIOUS
  <2>2. Len(x) = 1 /\ DOMAIN x = 1..1
    BY <2>1
  <2>3. Len(x) \in 1..4 /\ DOMAIN x = 1..Len(x)
    BY <2>2
  <2>4. HaveBytes({x})
    BY <2>3 DEF HaveBytes
  <2> QED BY <2>1, <2>4
<1> QED BY <1>1, <1>2, <1>3, <1>4, <1>5 DEF Groups, Shapes

\* Where a character may end that begins at a position of a text.
Behind(text, here) == {BadText} \cup (here + 1)..(Len(text) + 1)

\* A character never reaches over the end of the text (encodings.hxx).
LEMMA ScanIsInside ==
  ASSUME NEW group \in Groups, NEW text \in Seq(AnyByte), NEW here \in 1..Len(text)
  PROVE  Scan(group, text, here) \in Behind(text, here)
<1>1. PICK n : n = Len(text)
  OBVIOUS
<1>2. n \in Nat /\ here \in 1..n
  BY <1>1
<1>3. here + 1 \in Behind(text, here) /\ BadText \in Behind(text, here)
  BY <1>1, <1>2 DEF Behind
<1>4. here + 3 <= n => here + 4 \in Behind(text, here)
  BY <1>1, <1>2 DEF Behind
<1>5. PICK fit : fit = {x \in Shapes[group] : Fits(text, here, x)}
  OBVIOUS
<1>6. fit # {} => here + Len(CHOOSE x \in fit : TRUE) \in Behind(text, here)
  <2>1. HAVE fit # {}
  <2>2. PICK x : x = CHOOSE y \in fit : TRUE
    OBVIOUS
  <2>3. x \in Shapes[group] /\ Fits(text, here, x)
    BY <1>5, <2>1, <2>2
  <2>4. Len(x) \in 1..4
    BY <2>3, ShapesHaveBytes DEF HaveBytes
  <2>5. here + Len(x) - 1 <= n
    BY <1>1, <2>3 DEF Fits
  <2>6. \A l \in 1..4 : here + l - 1 <= n => here + l \in Behind(text, here)
    BY <1>1, <1>2 DEF Behind
  <2>7. here + Len(x) \in Behind(text, here)
    BY <2>4, <2>5, <2>6
  <2> QED BY <2>2, <2>7
<1> QED BY <1>1, <1>3, <1>4, <1>5, <1>6, Zenon DEF Scan

LEMMA TextsStayInside ==
  ASSUME NEW group \in Groups, NEW text \in Seq(AnyByte)
  PROVE  StaysInside(group, text)
<1>1. DOMAIN text = 1..Len(text)
  OBVIOUS
<1> QED BY <1>1, ScanIsInside, Zenon DEF StaysInside, Behind

\* Shapes of different lengths differ in one of their first two bytes.
TellApart(S) ==
  \A s, t \in S : Len(s) # Len(t) =>
    1 \in DOMAIN s /\ 1 \in DOMAIN t /\ 2 \in DOMAIN s /\ 2 \in DOMAIN t
    /\ (s[1] \cap t[1] = {} \/ s[2] \cap t[2] = {})

LEMMA ShapesTellApart ==
  ASSUME NEW group \in Groups \ {"MULE_INTERNAL"}
  PROVE  TellApart(Shapes[group])
<1>1. TellApart(Big5) /\ TellApart(EucCn) /\ TellApart(EucKr) /\ TellApart(Johab) /\ TellApart(Sjis)
  BY DEF TellApart, Big5, EucCn, EucKr, Johab, Sjis
<1>2. TellApart(Uhc)
  BY DEF TellApart, Uhc
<1>3. TellApart(Gbk)
  <2>1. \A s \in Gbk : Len(s) = 2
    BY DEF Gbk
  <2> QED BY <2>1 DEF TellApart
<1>4. TellApart(EucJp)
  <2>1. ({\h8E} \cup High) \cap {\h8F} = {} /\ {\h8F} \cap ({\h8E} \cup High) = {}
    BY DEF High, To
  <2> QED BY <2>1 DEF TellApart, EucJp
<1>5. TellApart(EucTw)
  <2>1. High \cap {\h8E} = {} /\ {\h8E} \cap High = {}
    BY DEF High, To
  <2> QED BY <2>1 DEF TellApart, EucTw
<1>6. TellApart(Gb18030)
  <2>1. But7F(\h40, \hFE) \cap To(\h30, \h39) = {} /\ To(\h30, \h39) \cap But7F(\h40, \hFE) = {}
    BY DEF But7F, To
  <2> QED BY <2>1 DEF TellApart, Gb18030
<1>7. TellApart(Utf8)
  <2>1. PICK c, e, f, more : /\ c = To(\hC0, \hDF) /\ e = To(\hE0, \hEF) /\ f = To(\hF0, \hF7)
                             /\ more = To(\h80, \hBF)
    OBVIOUS
  <2>2. c \cap e = {} /\ c \cap f = {} /\ e \cap c = {} /\ e \cap f = {} /\ f \cap c = {} /\ f \cap e = {}
    BY <2>1 DEF To
  <2>3. Utf8 = {<<c, more>>, <<e, more, more>>, <<f, more, more, more>>}
    BY <2>1 DEF Utf8
  <2> QED BY <2>2, <2>3 DEF TellApart
<1>8. TellApart({<<To(\h80, \hFF)>>})
  BY DEF TellApart
<1> QED BY <1>1, <1>2, <1>3, <1>4, <1>5, <1>6, <1>7, <1>8 DEF Groups, Shapes

\* The same shapes fit a text that is cut off behind them, and only those.
LEMMA FitsCutOff ==
  ASSUME NEW group \in Groups, NEW text \in Seq(AnyByte), NEW i \in 1..Len(text), NEW k \in i..Len(text),
         NEW s \in Shapes[group]
  PROVE  Fits(SubSeq(text, 1, k), i, s) <=> Fits(text, i, s) /\ i + Len(s) <= k + 1
<1>1. PICK n, l, p : n = Len(text) /\ l = Len(s) /\ p = SubSeq(text, 1, k)
  OBVIOUS
<1>2. n \in Nat /\ i \in 1..n /\ k \in i..n /\ l \in 1..4 /\ DOMAIN s = 1..l
  <2>1. HaveBytes(Shapes[group])
    BY ShapesHaveBytes
  <2>2. l \in 1..4 /\ DOMAIN s = 1..l
    BY <1>1, <2>1 DEF HaveBytes
  <2> QED BY <1>1, <2>2
<1>3. Len(p) = k /\ \A j \in 1..k : p[j] = text[j]
  <2>1. p = [j \in 1..k |-> text[j]] /\ k \in Nat
    BY <1>1, <1>2
  <2> QED BY <2>1
<1>4. Fits(p, i, s) <=> i + l - 1 <= k /\ \A j \in 1..l : p[i + j - 1] \in s[j]
  BY <1>1, <1>2, <1>3 DEF Fits
<1>5. Fits(text, i, s) <=> i + l - 1 <= n /\ \A j \in 1..l : text[i + j - 1] \in s[j]
  BY <1>1, <1>2 DEF Fits
<1>6. i + l - 1 <= k <=> i + l <= k + 1
  BY <1>2
<1>7. i + l - 1 <= k => i + l - 1 <= n /\ \A j \in 1..l : i + j - 1 \in 1..k
  BY <1>2
<1> QED BY <1>1, <1>3, <1>4, <1>5, <1>6, <1>7

\* TextsAreScanned's first part, for every text of bytes and every encoding but
\* MULE_INTERNAL: where a character ends is told by its own bytes, so that what is
\* behind it, or that nothing is, makes no difference (encodings.hxx).
THEOREM EveryCharacterEndsItself ==
  ASSUME NEW group \in Groups \ {"MULE_INTERNAL"}, NEW text \in Seq(AnyByte)
  PROVE  EndsItself(group, text)
<1>1. SUFFICES ASSUME NEW i \in 1..Len(text), NEW end, end = Scan(group, text, i), end # BadText,
                      NEW k \in i..Len(text)
               PROVE  Scan(group, SubSeq(text, 1, k), i) = IF end <= k + 1 THEN end ELSE BadText
  BY DEF EndsItself
<1>2. PICK n, p : n = Len(text) /\ p = SubSeq(text, 1, k)
  OBVIOUS
<1>3. n \in Nat /\ i \in 1..n /\ k \in i..n /\ group # "MULE_INTERNAL"
  BY <1>1, <1>2
<1>4. p[i] = text[i]
  <2>1. p = [j \in 1..k |-> text[j]] /\ i \in 1..k
    BY <1>2, <1>3
  <2> QED BY <2>1
<1>5. CASE OneByte(group, text[i])
  <2>1. end = i + 1 /\ Scan(group, p, i) = i + 1
    BY <1>1, <1>4, <1>5, Zenon DEF Scan
  <2>2. i + 1 <= k + 1
    BY <1>3
  <2> QED BY <1>2, <2>1, <2>2
<1>6. CASE ~ OneByte(group, text[i])
  <2>1. PICK fit, cut : /\ fit = {x \in Shapes[group] : Fits(text, i, x)}
                        /\ cut = {x \in Shapes[group] : Fits(p, i, x)}
    OBVIOUS
  <2>2. Scan(group, text, i) = IF fit = {} THEN BadText ELSE i + Len(CHOOSE x \in fit : TRUE)
    <3>1. CASE fit = {}
      BY <1>3, <1>6, <2>1, <3>1, Zenon DEF Scan
    <3>2. CASE fit # {}
      <4>1. fit = {x \in Shapes[group] : Fits(text, i, x)}
        BY <2>1
      <4>2. Scan(group, text, i) = i + Len(CHOOSE x \in fit : TRUE)
        BY <1>3, <1>6, <3>2, <4>1, Zenon DEF Scan
      <4> QED BY <3>2, <4>2
    <3> QED BY <3>1, <3>2
  <2>3. Scan(group, p, i) = IF cut = {} THEN BadText ELSE i + Len(CHOOSE x \in cut : TRUE)
    <3>1. CASE cut = {}
      BY <1>3, <1>4, <1>6, <2>1, <3>1, Zenon DEF Scan
    <3>2. CASE cut # {}
      <4>1. cut = {x \in Shapes[group] : Fits(p, i, x)}
        BY <2>1
      <4>2. Scan(group, p, i) = i + Len(CHOOSE x \in cut : TRUE)
        BY <1>3, <1>4, <1>6, <3>2, <4>1, Zenon DEF Scan
      <4> QED BY <3>2, <4>2
    <3> QED BY <3>1, <3>2
  <2>4. PICK y : y = CHOOSE x \in fit : TRUE
    OBVIOUS
  <2>5. y \in fit /\ end = i + Len(y)
    BY <1>1, <2>2, <2>4
  <2>6. \A x \in fit : Len(x) = Len(y)
    <3>1. ASSUME NEW x \in fit, Len(x) # Len(y) PROVE FALSE
      <4>1. x \in Shapes[group] /\ y \in Shapes[group]
        BY <2>1, <2>5
      <4>2. /\ 1 \in DOMAIN x /\ 1 \in DOMAIN y /\ 2 \in DOMAIN x /\ 2 \in DOMAIN y
            /\ x[1] \cap y[1] = {} \/ x[2] \cap y[2] = {}
        BY <3>1, <4>1, ShapesTellApart DEF TellApart
      <4>3. /\ text[i + 1 - 1] \in x[1] /\ text[i + 1 - 1] \in y[1]
            /\ text[i + 2 - 1] \in x[2] /\ text[i + 2 - 1] \in y[2]
        BY <2>1, <2>5, <4>2 DEF Fits
      <4> QED BY <4>2, <4>3
    <3> QED BY <3>1
  <2>7. \A x \in Shapes[group] : x \in cut <=> x \in fit /\ i + Len(x) <= k + 1
    BY <1>2, <2>1, FitsCutOff
  <2>8. CASE end <= k + 1
    <3>1. cut = fit
      BY <2>1, <2>5, <2>6, <2>7, <2>8
    <3> QED BY <1>1, <1>2, <2>2, <2>3, <2>8, <3>1
  <2>9. CASE ~ (end <= k + 1)
    <3>1. cut = {}
      BY <2>1, <2>5, <2>6, <2>7, <2>9
    <3> QED BY <1>2, <2>3, <2>9, <3>1
  <2> QED BY <2>8, <2>9
<1> QED BY <1>5, <1>6

\* b is where the characters of the rest of a text begin, at each position.
BeginsAre(b, group, text) ==
  /\ b[0] = <<BadText>> /\ b[Len(text) + 1] = <<>>
  /\ \A i \in 1..Len(text) : b[i] = <<i>> \o b[Scan(group, text, i)]

\* for_glyphs reads a text character by character (encodings.hxx).
LEMMA GlyphsAreRead ==
  ASSUME NEW group \in Groups, NEW text \in Seq(AnyByte)
  PROVE  \E b \in [0..(Len(text) + 1) -> Seq(Nat)] :
           BeginsAre(b, group, text) /\ Glyphs(group, text) = b[1]
<1> DEFINE from[here \in 0..(Len(text) + 1)] ==
             IF here = BadText THEN <<BadText>> ELSE IF here > Len(text) THEN <<>>
             ELSE <<here>> \o from[Scan(group, text, here)]
<1>1. PICK n, X : n = Len(text) /\ X = Seq(Nat)
  OBVIOUS
<1>2. n \in Nat
  BY <1>1
<1>3. PICK ends : ends = [i \in 0..(n + 1) |-> IF i = BadText THEN <<BadText>> ELSE <<>>]
  OBVIOUS
<1>4. PICK jump : jump = [i \in 1..n |-> Scan(group, text, i)]
  OBVIOUS
<1>5. PICK step : step = [i \in 1..n |-> [s \in X |-> <<i>> \o s]]
  OBVIOUS
<1>6. jump \in [1..n -> 0..(n + 1)] /\ \A i \in 1..n : jump[i] = 0 \/ jump[i] > i
  <2>1. \A i \in 1..n : Behind(text, i) \subseteq 0..(n + 1) /\ \A j \in Behind(text, i) : j = 0 \/ j > i
    BY <1>1, <1>2 DEF Behind, BadText
  <2>2. \A i \in 1..n : jump[i] \in Behind(text, i)
    BY <1>1, <1>4, ScanIsInside
  <2> QED BY <1>4, <2>1, <2>2
<1>7. \A i \in 1..n, s \in X : <<i>> \o s \in X
  <2>1. \A i \in 1..n : <<i>> \in X
    BY <1>1, <1>2
  <2> QED BY <1>1, <2>1, ConcatProperties
<1>8. ends \in [0..(n + 1) -> X] /\ step \in [1..n -> [X -> X]]
  <2>1. <<>> \in X /\ <<BadText>> \in X
    BY <1>1 DEF BadText
  <2> QED BY <1>3, <1>5, <1>7, <2>1
<1>9. PICK f \in [0..(n + 1) -> X] : Jumps(f, n, ends, jump, step)
  <2> HIDE DEF from
  <2> QED BY <1>2, <1>6, <1>8, Jumping
<1>10. f = [here \in 0..(n + 1) |->
              IF here = BadText THEN <<BadText>> ELSE IF here > n THEN <<>>
              ELSE <<here>> \o f[Scan(group, text, here)]]
  <2> HIDE DEF from
  <2>1. ASSUME NEW i \in 0..(n + 1)
        PROVE  f[i] = IF i = BadText THEN <<BadText>> ELSE IF i > n THEN <<>>
                      ELSE <<i>> \o f[Scan(group, text, i)]
    <3>1. CASE i \in 1..n
      <4>1. f[i] = step[i][f[jump[i]]] /\ f[jump[i]] \in X
        BY <1>6, <1>9, <3>1 DEF Jumps
      <4>2. ~ (i = BadText) /\ ~ (i > n)
        BY <1>2, <3>1 DEF BadText
      <4> QED BY <1>4, <1>5, <3>1, <4>1, <4>2
    <3>2. CASE i \notin 1..n
      <4>1. i = BadText \/ (i # BadText /\ i > n)
        BY <1>2, <3>2 DEF BadText
      <4> QED BY <1>3, <1>9, <3>2, <4>1 DEF Jumps
    <3> QED BY <3>1, <3>2
  <2> QED BY <1>9, <2>1
<1>11. from = [here \in 0..(n + 1) |->
              IF here = BadText THEN <<BadText>> ELSE IF here > n THEN <<>>
              ELSE <<here>> \o from[Scan(group, text, here)]]
  BY <1>1, <1>10
<1>12. Glyphs(group, text) = from[1]
  BY DEF Glyphs
<1> HIDE DEF from
<1>13. \A i \in 0..(n + 1) : from[i] = IF i = BadText THEN <<BadText>> ELSE IF i > n THEN <<>>
                                     ELSE <<i>> \o from[Scan(group, text, i)]
  BY <1>11
<1>14. BeginsAre(from, group, text)
  <2>1. 0 \in 0..(n + 1) /\ n + 1 \in 0..(n + 1) /\ n + 1 > n /\ n + 1 # 0
        /\ \A i \in 1..n : i \in 0..(n + 1) /\ i # 0 /\ ~ (i > n)
    BY <1>2
  <2> QED BY <1>1, <1>13, <2>1 DEF BeginsAre, BadText
<1>15. from \in [0..(n + 1) -> X]
  <2>1. PICK T, rank : T = {i \in 0..(n + 1) : from[i] \in X}
                       /\ rank = [i \in 0..(n + 1) |-> IF i = 0 THEN 0 ELSE n + 1 - i]
    OBVIOUS
  <2>2. rank \in [0..(n + 1) -> 0..(n + 1)] /\ n + 1 \in Nat
    BY <1>2, <2>1
  <2>3. ASSUME NEW i \in 0..(n + 1), \A j \in 0..(n + 1) : rank[j] < rank[i] => j \in T
        PROVE  i \in T
    <3>1. CASE i \in 1..n
      <4>1. jump[i] \in 0..(n + 1) /\ rank[jump[i]] < rank[i]
        BY <1>2, <1>6, <2>1, <3>1
      <4>2. from[jump[i]] \in X /\ jump[i] = Scan(group, text, i)
        BY <1>4, <2>1, <2>3, <3>1, <4>1
      <4>3. <<i>> \o from[jump[i]] \in X
        BY <1>7, <3>1, <4>2
      <4> QED BY <1>1, <1>14, <2>1, <3>1, <4>2, <4>3 DEF BeginsAre
    <3>2. CASE i \notin 1..n
      <4>1. i = 0 \/ i = n + 1
        BY <1>2, <3>2
      <4>2. <<>> \in X /\ <<BadText>> \in X
        BY <1>1 DEF BadText
      <4> QED BY <1>1, <1>14, <2>1, <4>1, <4>2 DEF BeginsAre
    <3> QED BY <3>1, <3>2
  <2>4. PICK P, m : P = 0..(n + 1) /\ m = n + 1
    OBVIOUS
  <2>5. m \in Nat /\ rank \in [P -> 0..m]
    BY <2>2, <2>4
  <2>6. \A i \in P : (\A j \in P : rank[j] < rank[i] => j \in T) => i \in T
    BY <2>3, <2>4
  <2>7. P \subseteq T
    BY <2>5, <2>6, AllByRank
  <2>8. \A i \in 0..(n + 1) : from[i] \in X
    BY <2>1, <2>4, <2>7
  <2>9. PICK g : g = from
    OBVIOUS
  <2>10. g = [i \in 0..(n + 1) |-> g[i]]
    BY <1>11, <2>9
  <2> QED BY <2>8, <2>9, <2>10
<1> QED BY <1>1, <1>12, <1>14, <1>15

\* f is the first needle from each position on, as the search meets them.
FindsAre(f, group, text, needles) ==
  /\ f[0] = BadText /\ f[Len(text) + 1] = Len(text) + 1
  /\ \A i \in 1..Len(text) : f[i] = IF text[i] \in needles THEN i ELSE f[Scan(group, text, i)]

\* find_ascii_char reads a text character by character (encodings.hxx).
LEMMA FindsAreRead ==
  ASSUME NEW group \in Groups, NEW text \in Seq(AnyByte), NEW needles
  PROVE  \E f : FindsAre(f, group, text, needles) /\ FindFrom(group, text, needles, 1) = f[1]
<1> DEFINE from[here \in 0..(Len(text) + 1)] ==
             IF here = BadText \/ here > Len(text) \/ text[here] \in needles THEN here
             ELSE from[Scan(group, text, here)]
<1>1. PICK n : n = Len(text)
  OBVIOUS
<1>2. n \in Nat
  BY <1>1
<1>3. PICK ends : ends = [i \in 0..(n + 1) |-> i]
  OBVIOUS
<1>4. PICK jump : jump = [i \in 1..n |-> Scan(group, text, i)]
  OBVIOUS
<1>5. PICK step : step = [i \in 1..n |-> [x \in Nat |-> IF text[i] \in needles THEN i ELSE x]]
  OBVIOUS
<1>6. jump \in [1..n -> 0..(n + 1)] /\ \A i \in 1..n : jump[i] = 0 \/ jump[i] > i
  <2>1. \A i \in 1..n : Behind(text, i) \subseteq 0..(n + 1) /\ \A j \in Behind(text, i) : j = 0 \/ j > i
    BY <1>1, <1>2 DEF Behind, BadText
  <2>2. \A i \in 1..n : jump[i] \in Behind(text, i)
    BY <1>1, <1>4, ScanIsInside
  <2> QED BY <1>4, <2>1, <2>2
<1>7. ends \in [0..(n + 1) -> Nat] /\ step \in [1..n -> [Nat -> Nat]]
  BY <1>2, <1>3, <1>5
<1>8. PICK f \in [0..(n + 1) -> Nat] : Jumps(f, n, ends, jump, step)
  <2> HIDE DEF from
  <2> QED BY <1>2, <1>6, <1>7, Jumping
<1>9. f = [here \in 0..(n + 1) |->
             IF here = BadText \/ here > n \/ text[here] \in needles THEN here
             ELSE f[Scan(group, text, here)]]
  <2> HIDE DEF from
  <2>1. ASSUME NEW i \in 0..(n + 1)
        PROVE  f[i] = IF i = BadText \/ i > n \/ text[i] \in needles THEN i
                      ELSE f[Scan(group, text, i)]
    <3>1. CASE i \in 1..n
      <4>1. f[i] = step[i][f[jump[i]]] /\ f[jump[i]] \in Nat
        BY <1>6, <1>8, <3>1 DEF Jumps
      <4>2. ~ (i = BadText) /\ ~ (i > n)
        BY <1>2, <3>1 DEF BadText
      <4> QED BY <1>4, <1>5, <3>1, <4>1, <4>2
    <3>2. CASE i \notin 1..n
      <4>1. i = BadText \/ i > n
        BY <1>2, <3>2 DEF BadText
      <4> QED BY <1>3, <1>8, <3>2, <4>1 DEF Jumps
    <3> QED BY <3>1, <3>2
  <2> QED BY <1>8, <2>1
<1>10. from = [here \in 0..(n + 1) |->
                IF here = BadText \/ here > n \/ text[here] \in needles THEN here
                ELSE from[Scan(group, text, here)]]
  BY <1>1, <1>9
<1>11. FindFrom(group, text, needles, 1) = from[1]
  BY DEF FindFrom
<1> HIDE DEF from
<1>12. \A i \in 0..(n + 1) : from[i] = IF i = BadText \/ i > n \/ text[i] \in needles THEN i
                                     ELSE from[Scan(group, text, i)]
  BY <1>10
<1>13. FindsAre(from, group, text, needles)
  <2>1. 0 \in 0..(n + 1) /\ n + 1 \in 0..(n + 1) /\ n + 1 > n
        /\ \A i \in 1..n : i \in 0..(n + 1) /\ i # 0 /\ ~ (i > n)
    BY <1>2
  <2> QED BY <1>1, <1>12, <2>1 DEF FindsAre, BadText
<1> QED BY <1>11, <1>13

\* The bytes that stand for themselves in every encoding.
Ascii == 0..127

\* The encodings the search reads byte by byte, but MULE_INTERNAL.
ByteByByte == AsciiSafe \ {"MULE_INTERNAL"}

\* Behind its first byte a shape has no ASCII.
NoAsciiBehind(S) == \A s \in S : \A k \in 2..Len(s) : s[k] \cap Ascii = {}

\* In those a character has no ASCII byte but, perhaps, its first
\* (encodings.hxx: "we can just pretend").
LEMMA NoAsciiInside ==
  ASSUME NEW group \in ByteByByte
  PROVE  NoAsciiBehind(Shapes[group])
<1>1. High \cap Ascii = {} /\ To(\h80, \hBF) \cap Ascii = {}
  BY DEF High, To, Ascii
<1>2. NoAsciiBehind(EucCn) /\ NoAsciiBehind(EucKr) /\ NoAsciiBehind({<<To(\h80, \hFF)>>})
  BY <1>1 DEF NoAsciiBehind, EucCn, EucKr
<1>3. NoAsciiBehind(EucJp)
  BY <1>1 DEF NoAsciiBehind, EucJp
<1>4. NoAsciiBehind(EucTw)
  <2>1. To(\hA1, \hB0) \cap Ascii = {}
    BY DEF To, Ascii
  <2> QED BY <1>1, <2>1 DEF NoAsciiBehind, EucTw
<1>5. NoAsciiBehind(Utf8)
  BY <1>1, SMTT(30) DEF NoAsciiBehind, Utf8
<1> QED BY <1>2, <1>3, <1>4, <1>5 DEF ByteByByte, AsciiSafe, Shapes

\* Behind the first byte of a character there is no ASCII.
LEMMA NoAsciiInCharacter ==
  ASSUME NEW group \in ByteByByte, NEW text \in Seq(AnyByte), NEW here \in 1..Len(text),
         Scan(group, text, here) # BadText
  PROVE  \A k \in (here + 1)..(Scan(group, text, here) - 1) : k \in 1..Len(text) /\ text[k] \notin Ascii
<1>1. PICK n, next : n = Len(text) /\ next = Scan(group, text, here)
  OBVIOUS
<1>2. n \in Nat /\ here \in 1..n
  BY <1>1
<1>3. group \in Groups /\ group # "MULE_INTERNAL"
  BY DEF ByteByByte, AsciiSafe, Groups
<1>4. PICK fit : fit = {x \in Shapes[group] : Fits(text, here, x)}
  OBVIOUS
<1>5. CASE OneByte(group, text[here])
  <2>1. next = here + 1
    BY <1>1, <1>5 DEF Scan
  <2> QED BY <1>1, <1>2, <2>1
<1>6. CASE ~ OneByte(group, text[here])
  <2>1. fit # {} /\ next = here + Len(CHOOSE x \in fit : TRUE)
    BY <1>1, <1>3, <1>4, <1>6, Zenon DEF Scan
  <2>2. PICK x : x = CHOOSE y \in fit : TRUE
    OBVIOUS
  <2>3. x \in Shapes[group] /\ Fits(text, here, x)
    BY <1>4, <2>1, <2>2
  <2>4. Len(x) \in 1..4 /\ DOMAIN x = 1..Len(x)
    BY <1>3, <2>3, ShapesHaveBytes DEF HaveBytes
  <2>5. \A k \in 2..Len(x) : x[k] \cap Ascii = {}
    BY <2>3, NoAsciiInside DEF NoAsciiBehind
  <2>6. here + Len(x) - 1 <= n /\ \A k \in 1..Len(x) : text[here + k - 1] \in x[k]
    BY <1>1, <2>3, <2>4 DEF Fits
  <2>7. PICK l : l = Len(x)
    OBVIOUS
  <2>8. next = here + l
    BY <2>1, <2>2, <2>7
  <2>9. ASSUME NEW k \in (here + 1)..(next - 1)
        PROVE  k \in 1..n /\ text[k] \notin Ascii
    <3>1. l \in 1..4 /\ here + l - 1 <= n
      BY <2>4, <2>6, <2>7
    <3>2. PICK j : j = k - here + 1
      OBVIOUS
    <3>3. j \in 2..l /\ j \in 1..l /\ here + j - 1 = k /\ k \in 1..n
      BY <1>2, <2>8, <2>9, <3>1, <3>2
    <3>4. text[k] \in x[j]
      BY <2>6, <2>7, <3>3
    <3> QED BY <2>5, <2>7, <3>3, <3>4
  <2> QED BY <1>1, <2>9
<1> QED BY <1>5, <1>6

\* The search in a single-byte encoding takes every byte.
LEMMA OneByteAtATime ==
  ASSUME NEW text \in Seq(AnyByte), NEW here \in 1..Len(text)
  PROVE  Scan("MONOBYTE", text, here) = here + 1
<1>1. PICK byte : byte = text[here]
  OBVIOUS
<1>2. byte \in 0..255
  <2>1. byte \in AnyByte
    BY <1>1
  <2> QED BY <2>1 DEF AnyByte
<1>3. CASE byte < \h80
  BY <1>1, <1>3 DEF Scan, OneByte
<1>4. CASE ~ (byte < \h80)
  <2>1. PICK x : x = <<To(\h80, \hFF)>>
    OBVIOUS
  <2>2. Len(x) = 1 /\ DOMAIN x = {1} /\ x[1] = \h80..\hFF
    BY <2>1 DEF To
  <2>3. here + 1 - 1 <= Len(text) /\ here + 1 - 1 = here
    OBVIOUS
  <2>4. byte \in \h80..\hFF
    BY <1>2, <1>4
  <2>5. Fits(text, here, x)
    BY <1>1, <2>2, <2>3, <2>4 DEF Fits
  <2>6. Shapes["MONOBYTE"] = {x}
    BY <2>1 DEF Shapes
  <2>7. {s \in Shapes["MONOBYTE"] : Fits(text, here, s)} = {x}
    BY <2>5, <2>6
  <2>8. (CHOOSE s \in {x} : TRUE) = x
    OBVIOUS
  <2>9. ~ OneByte("MONOBYTE", byte)
    BY <1>4 DEF OneByte
  <2>10. {s \in Shapes["MONOBYTE"] : Fits(text, here, s)} # {}
    BY <2>7
  <2>11. "MONOBYTE" # "MULE_INTERNAL"
    OBVIOUS
  <2>12. Scan("MONOBYTE", text, here) = here + Len(x)
    BY <1>1, <2>7, <2>8, <2>9, <2>10, <2>11, Zenon DEF Scan
  <2> QED BY <2>2, <2>12
<1> QED BY <1>3, <1>4

\* From a character that is no needle the search comes to the next one, whether it goes
\* character by character or byte by byte.
LEMMA SearchPasses ==
  ASSUME NEW group \in Groups \ {"MULE_INTERNAL"}, NEW text \in Seq(AnyByte),
         NEW needles \in SUBSET Ascii, NEW f, FindsAre(f, SearchGroup(group), text, needles),
         NEW here \in 1..Len(text), text[here] \notin needles,
         Scan(group, text, here) # BadText
  PROVE  f[here] = f[Scan(group, text, here)]
<1>1. CASE group \notin AsciiSafe
  <2>1. SearchGroup(group) = group
    BY <1>1 DEF SearchGroup
  <2> QED BY <2>1 DEF FindsAre
<1>2. CASE group \in AsciiSafe
  <2>1. SearchGroup(group) = "MONOBYTE" /\ group \in ByteByByte
    BY <1>2 DEF SearchGroup, ByteByByte
  <2>2. \A i \in 1..Len(text) : text[i] \notin needles => f[i] = f[i + 1]
    BY <2>1, OneByteAtATime DEF FindsAre
  <2>3. PICK n, next : n = Len(text) /\ next = Scan(group, text, here)
    OBVIOUS
  <2>4. n \in Nat /\ here \in 1..n /\ next \in (here + 1)..(n + 1)
    <3>1. next \in Behind(text, here) /\ next # BadText
      BY <2>3, ScanIsInside
    <3> QED BY <2>3, <3>1 DEF Behind
  <2>5. \A k \in (here + 1)..(next - 1) : k \in 1..n /\ text[k] \notin needles
    BY <2>1, <2>3, NoAsciiInCharacter
  <2>6. PICK d, T : d = next - here - 1 /\ T = {k \in 0..d : f[here] = f[here + 1 + k]}
    OBVIOUS
  <2>7. d \in Nat /\ here + 1 + d = next /\ here + 1 + 0 = here + 1
    BY <2>4, <2>6
  <2>8. 0 \in T
    BY <2>2, <2>3, <2>4, <2>6, <2>7
  <2>9. ASSUME NEW k \in 1..d, k - 1 \in T
        PROVE  k \in T
    <3>1. PICK j : j = here + k
      OBVIOUS
    <3>2. j \in (here + 1)..(next - 1) /\ here + 1 + (k - 1) = j /\ here + 1 + k = j + 1 /\ k \in 0..d
      BY <2>4, <2>7, <2>9, <3>1
    <3>3. f[here] = f[j]
      BY <2>6, <2>9, <3>2
    <3>4. f[j] = f[j + 1]
      BY <2>2, <2>3, <2>5, <3>2
    <3> QED BY <2>6, <3>2, <3>3, <3>4
  <2>10. 0..d \subseteq T
    BY <2>7, <2>8, <2>9, ByPositions
  <2>11. d \in T
    BY <2>7, <2>10
  <2> QED BY <2>3, <2>6, <2>7, <2>11
<1> QED BY <1>1, <1>2

\* Of the places a text's characters begin at, those where the search may stop.
Hits(group, text, needles, begins) ==
  {i \in ToSet(begins) : text[i] \in needles /\ Scan(group, text, i) = i + 1}

\* The first of them, or the end of the text.
FirstHit(hits, text) ==
  IF hits = {} THEN Len(text) + 1 ELSE CHOOSE i \in hits : \A j \in hits : i <= j

\* One element more at the front of a sequence.
AddedInFront(x, s) == ToSet(<<x>> \o s) = {x} \cup ToSet(s)

\* Its elements are that one and the others.
LEMMA SetWithFirst ==
  ASSUME NEW S, NEW x \in S, NEW s \in Seq(S)
  PROVE  AddedInFront(x, s)
<1>1. PICK n, t : n = Len(s) /\ t = <<x>> \o s
  OBVIOUS
<1>2. n \in Nat /\ DOMAIN s = 1..n
  BY <1>1
<1>3. DOMAIN t = 1..(n + 1) /\ t[1] = x /\ \A i \in 1..n : t[i + 1] = s[i]
  <2>1. <<x>> \in Seq(S) /\ Len(<<x>>) = 1 /\ <<x>>[1] = x
    OBVIOUS
  <2>2. t \in Seq(S) /\ Len(t) = n + 1
    BY <1>1, <2>1, ConcatProperties
  <2>3. \A i \in 1..(n + 1) : t[i] = IF i <= 1 THEN <<x>>[i] ELSE s[i - 1]
    BY <1>1, <1>2, <2>1, ConcatProperties
  <2> QED BY <1>2, <2>1, <2>2, <2>3
<1>4. \A i \in 1..(n + 1) : i = 1 \/ (i - 1 \in 1..n /\ t[i] = s[i - 1])
  <2>1. \A i \in 1..(n + 1) : i = 1 \/ (i - 1 \in 1..n /\ i - 1 + 1 = i)
    BY <1>2
  <2> QED BY <1>3, <2>1
<1>5. 1 \in 1..(n + 1) /\ \A i \in 1..n : i + 1 \in 1..(n + 1)
  BY <1>2
<1>6. ToSet(t) = {x} \cup ToSet(s)
  <2>1. \A y : y \in ToSet(s) <=> \E i \in 1..n : y = s[i]
    BY <1>2 DEF ToSet
  <2>2. \A y : y \in ToSet(t) <=> \E i \in 1..(n + 1) : y = t[i]
    BY <1>3 DEF ToSet
  <2>3. ASSUME NEW y, y \in ToSet(t)
        PROVE  y = x \/ y \in ToSet(s)
    BY <1>3, <1>4, <2>1, <2>2, <2>3
  <2>4. ASSUME NEW y, y = x \/ y \in ToSet(s)
        PROVE  y \in ToSet(t)
    BY <1>3, <1>5, <2>1, <2>2, <2>4
  <2> QED BY <2>3, <2>4
<1> QED BY <1>1, <1>6 DEF AddedInFront

\* TextsAreScanned's second part, for every text of bytes, every set of ASCII characters
\* and every encoding but MULE_INTERNAL, whose third bytes may be any: in a text that is
\* one of its encoding, the search finds the first character that is a needle, also
\* where it goes byte by byte.  Of other bytes it says nothing.
THEOREM EverySearchFindsCharacters ==
  ASSUME NEW group \in Groups \ {"MULE_INTERNAL"}, NEW text \in Seq(AnyByte),
         NEW needles \in SUBSET Ascii
  PROVE  FindsCharacters(group, text, needles)
<1>1. PICK n : n = Len(text)
  OBVIOUS
<1>2. n \in Nat /\ DOMAIN text = 1..n /\ n + 1 \in 1..(n + 1) /\ 1 \in 1..(n + 1)
  BY <1>1
<1>3. PICK b \in [0..(n + 1) -> Seq(Nat)] : BeginsAre(b, group, text) /\ Glyphs(group, text) = b[1]
  BY <1>1, GlyphsAreRead
<1>4. PICK f : /\ FindsAre(f, SearchGroup(group), text, needles)
               /\ FindFrom(SearchGroup(group), text, needles, 1) = f[1]
  <2>1. SearchGroup(group) \in Groups
    BY DEF SearchGroup, Groups
  <2> QED BY <2>1, FindsAreRead
<1> DEFINE Right(i) ==
      /\ \A j \in ToSet(b[i]) : j \in i..n
      /\ f[i] = FirstHit(Hits(group, text, needles, b[i]), text)
<1>5. PICK T : T = {i \in 1..(n + 1) : BadText \notin ToSet(b[i]) => Right(i)}
  OBVIOUS
<1>6. n + 1 \in T
  <2>1. b[n + 1] = <<>> /\ f[n + 1] = n + 1
    BY <1>1, <1>3, <1>4 DEF BeginsAre, FindsAre
  <2>2. ToSet(b[n + 1]) = {}
    BY <2>1 DEF ToSet
  <2>3. Hits(group, text, needles, b[n + 1]) = {}
    BY <2>2 DEF Hits
  <2>4. Right(n + 1)
    BY <1>1, <2>1, <2>2, <2>3 DEF FirstHit
  <2> QED BY <1>2, <1>5, <2>4
<1>7. ASSUME NEW i \in 1..n, \A j \in (i + 1)..(n + 1) : j \in T
      PROVE  i \in T
  <2>0. i \in 1..(n + 1) /\ i \in 1..Len(text) /\ i \in i..n /\ i \in Nat
    BY <1>1, <1>2
  <2>1. SUFFICES ASSUME BadText \notin ToSet(b[i]) PROVE Right(i)
    BY <1>5, <2>0
  <2>2. PICK e : e = Scan(group, text, i)
    OBVIOUS
  <2>3. e = BadText \/ e \in (i + 1)..(n + 1)
    <3>1. e \in Behind(text, i)
      BY <1>1, <2>2, ScanIsInside
    <3> QED BY <1>1, <3>1 DEF Behind
  <2>4. e \in 0..(n + 1)
    BY <1>2, <2>3 DEF BadText
  <2>5. ToSet(b[i]) = {i} \cup ToSet(b[e])
    <3>1. b[i] = <<i>> \o b[e]
      BY <1>1, <1>3, <2>2 DEF BeginsAre
    <3>2. b[e] \in Seq(Nat)
      BY <1>3, <2>4
    <3>3. ToSet(<<i>> \o b[e]) = {i} \cup ToSet(b[e])
      <4>1. i \in Nat
        BY <2>0
      <4>2. AddedInFront(i, b[e])
        BY <3>2, <4>1, SetWithFirst
      <4> QED BY <4>2 DEF AddedInFront
    <3> QED BY <3>1, <3>3, Zenon
  <2>6. e # BadText
    <3>1. ToSet(<<BadText>>) = {BadText}
      BY DEF ToSet
    <3> QED BY <1>3, <2>1, <2>5, <3>1 DEF BeginsAre, BadText
  <2>7. e \in (i + 1)..(n + 1) /\ e \in T
    BY <1>7, <2>3, <2>6
  <2>8. BadText \notin ToSet(b[e])
    BY <2>1, <2>5
  <2>9. Right(e)
    BY <1>5, <2>7, <2>8
  <2>10. \A j \in ToSet(b[i]) : j \in i..n
    <3>1. \A j \in e..n : j \in i..n
      BY <1>2, <2>7
    <3> QED BY <2>0, <2>5, <2>9, <3>1
  <2>11. CASE text[i] \in needles
    <3>1. f[i] = i
      BY <1>1, <1>4, <2>11 DEF FindsAre
    <3>2. e = i + 1
      <4>1. text[i] \in 0..127
        BY <2>11 DEF Ascii
      <4>2. \A v \in 0..127 : v < \h80
        OBVIOUS
      <4> QED BY <2>2, <4>1, <4>2 DEF Scan, OneByte
    <3>3. PICK hits : hits = Hits(group, text, needles, b[i])
      OBVIOUS
    <3>4. i \in hits /\ \A j \in hits : j \in i..n
      BY <2>2, <2>5, <2>10, <2>11, <3>2, <3>3 DEF Hits
    <3>5. (CHOOSE j \in hits : \A k \in hits : j <= k) = i
      <4>1. \A j \in hits : i <= j /\ (j <= i => j = i)
        BY <2>0, <3>4
      <4> QED BY <3>4, <4>1
    <3>6. FirstHit(hits, text) = i
      BY <3>4, <3>5 DEF FirstHit
    <3> QED BY <2>10, <3>1, <3>3, <3>6
  <2>12. CASE text[i] \notin needles
    <3>1. f[i] = f[e]
      <4>1. i \in 1..Len(text) /\ FindsAre(f, SearchGroup(group), text, needles)
        BY <1>4, <2>0
      <4>2. Scan(group, text, i) # BadText
        BY <2>2, <2>6
      <4>3. f[i] = f[Scan(group, text, i)]
        BY <2>12, <4>1, <4>2, SearchPasses
      <4> QED BY <2>2, <4>3
    <3>2. Hits(group, text, needles, b[i]) = Hits(group, text, needles, b[e])
      BY <2>5, <2>12 DEF Hits
    <3> QED BY <2>9, <2>10, <3>1, <3>2
  <2> QED BY <2>11, <2>12
<1>8. 1 \in T
  <2>1. 1..(n + 1) \subseteq T
    <3> HIDE DEF Right
    <3> QED BY <1>2, <1>6, <1>7, FromTheEnd
  <2> QED BY <1>2, <2>1
<1>9. IsText(group, text) => Right(1)
  BY <1>3, <1>5, <1>8 DEF IsText
<1>10. IsText(group, text) =>
         Find(group, text, needles, 1) = FirstHit(Hits(group, text, needles, Glyphs(group, text)), text)
  BY <1>3, <1>4, <1>9 DEF Find
<1> QED BY <1>10, Zenon DEF FindsCharacters, FirstHit, Hits

-----------------------------------------------------------------------------
(* Ranges                                                                    *)

\* The bounds of a range at half the step are even, so that something lies between any
\* two of them that differ.
Even == {v \in Int : \E k \in Int : v = 2 * k}

Held(r) == {v \in Int : ContainsValue(r, v)}

\* The lowest and the highest number within a bound.
Lowest(b) == IF IsInclusive(b) THEN b.value ELSE b.value + 1
Highest(b) == IF IsInclusive(b) THEN b.value ELSE b.value - 1

Within(lo, up, v) ==
  /\ IsLimited(lo) => Lowest(lo) <= v
  /\ IsLimited(up) => v <= Highest(up)

\* Bounds are what they are made as.
IsBound(b) ==
  /\ b.kind \in {"none", "inclusive", "exclusive"} /\ b.value \in Int
  /\ b.kind = "none" => b = NoBound
  /\ b.kind = "inclusive" => b = Inclusive(b.value)
  /\ b.kind = "exclusive" => b = Exclusive(b.value)

\* And the bounds of ranges are bounds, at even numbers.
LEMMA BoundsAre ==
  ASSUME NEW r \in RangesOf(Even)
  PROVE  /\ IsBound(r.lower) /\ IsBound(r.upper) /\ r = [lower |-> r.lower, upper |-> r.upper]
         /\ IsLimited(r.lower) => r.lower.value \in Even
         /\ IsLimited(r.upper) => r.upper.value \in Even
         /\ InOrder(r.lower, r.upper)
<1>1. \A b \in Bounds(Even) : IsBound(b) /\ (IsLimited(b) => b.value \in Even)
  <2>1. Even \subseteq Int
    BY DEF Even
  <2> QED BY <2>1 DEF Bounds, IsBound, IsLimited, NoBound, Inclusive, Exclusive
<1>2. r \in [lower : Bounds(Even), upper : Bounds(Even)] /\ InOrder(r.lower, r.upper)
  BY DEF RangesOf
<1>3. r.lower \in Bounds(Even) /\ r.upper \in Bounds(Even) /\ r = [lower |-> r.lower, upper |-> r.upper]
  BY <1>2
<1> QED BY <1>1, <1>2, <1>3

\* What a range holds, as an interval.
LEMMA MembersAre ==
  ASSUME NEW r, IsBound(r.lower), IsBound(r.upper), NEW v \in Int
  PROVE  v \in Held(r) <=> Within(r.lower, r.upper, v)
BY DEF Held, ContainsValue, ExtendsDownTo, ExtendsUpTo, IsLimited, IsInclusive, IsExclusive,
       Lowest, Highest, IsBound, Within

\* A range is empty when nothing is in it (range.hxx:271).
LEMMA EmptyHasNone ==
  ASSUME NEW r \in RangesOf(Even)
  PROVE  /\ IsEmpty(r) => Held(r) = {}
         /\ ~ IsEmpty(r) => Held(r) # {}
         /\ ~ IsEmpty(r) /\ IsLimited(r.lower) /\ IsLimited(r.upper) =>
              Lowest(r.lower) <= Highest(r.upper)
<1>1. PICK lo, up : lo = r.lower /\ up = r.upper
  OBVIOUS
<1>2. /\ IsBound(lo) /\ IsBound(up) /\ InOrder(lo, up)
      /\ IsLimited(lo) => lo.value \in Even
      /\ IsLimited(up) => up.value \in Even
  BY <1>1, BoundsAre
<1>3. PICK l, h : l = lo.value /\ h = up.value
  OBVIOUS
<1>4. l \in Int /\ h \in Int
  BY <1>2, <1>3 DEF IsBound
<1>5. \A v \in Int : v \in Held(r) <=> Within(lo, up, v)
  BY <1>1, <1>2, MembersAre
<1>6. Lowest(lo) \in Int /\ Highest(up) \in Int
  BY <1>3, <1>4 DEF Lowest, Highest
<1>7. ASSUME IsEmpty(r) PROVE Held(r) = {}
  <2>1. IsLimited(lo) /\ IsLimited(up) /\ Lowest(lo) > Highest(up)
    BY <1>1, <1>2, <1>3, <1>4, <1>7 DEF IsEmpty, IsLimited, IsExclusive, IsInclusive, Lowest, Highest
  <2>2. \A v \in Int : v \notin Held(r)
    BY <1>5, <1>6, <2>1 DEF Within
  <2> QED BY <2>2 DEF Held
<1>8. ASSUME ~ IsEmpty(r), IsLimited(lo), IsLimited(up) PROVE Lowest(lo) <= Highest(up)
  <2>1. PICK j \in Int, k \in Int : l = 2 * j /\ h = 2 * k
    BY <1>2, <1>3, <1>8 DEF Even
  <2>2. (IsExclusive(lo) \/ IsExclusive(up)) => l < h
    BY <1>1, <1>3, <1>8 DEF IsEmpty
  <2>3. ~ (h < l)
    BY <1>2, <1>3, <1>8 DEF InOrder
  <2>4. (IsInclusive(lo) \/ IsExclusive(lo)) /\ (IsInclusive(up) \/ IsExclusive(up))
    BY <1>2, <1>8 DEF IsBound, IsLimited, IsInclusive, IsExclusive
  <2>5. ~ (IsInclusive(lo) /\ IsExclusive(lo)) /\ ~ (IsInclusive(up) /\ IsExclusive(up))
    BY DEF IsInclusive, IsExclusive
  <2> QED BY <1>3, <1>4, <2>1, <2>2, <2>3, <2>4, <2>5 DEF Lowest, Highest
<1>9. ASSUME ~ IsEmpty(r) PROVE Held(r) # {}
  <2>1. CASE IsLimited(lo)
    BY <1>5, <1>6, <1>8, <1>9, <2>1 DEF Within
  <2>2. CASE IsLimited(up)
    BY <1>5, <1>6, <1>8, <1>9, <2>2 DEF Within
  <2>3. CASE ~ IsLimited(lo) /\ ~ IsLimited(up)
    BY <1>5, <1>6, <2>3 DEF Within
  <2> QED BY <2>1, <2>2, <2>3
<1> QED BY <1>1, <1>7, <1>8, <1>9

\* Ranges are equal when the same is in them (range.hxx:285).
LEMMA SameHaveSame ==
  ASSUME NEW a \in RangesOf(Even), NEW b \in RangesOf(Even)
  PROVE  SameRange(a, b) <=> Held(a) = Held(b)
<1>1. PICK al, au, bl, bu : al = a.lower /\ au = a.upper /\ bl = b.lower /\ bu = b.upper
  OBVIOUS
<1>2. /\ IsBound(al) /\ IsBound(au) /\ IsBound(bl) /\ IsBound(bu)
      /\ IsLimited(al) => al.value \in Even
      /\ IsLimited(au) => au.value \in Even
      /\ IsLimited(bl) => bl.value \in Even
      /\ IsLimited(bu) => bu.value \in Even
  BY <1>1, BoundsAre
<1>3. /\ \A v \in Int : v \in Held(a) <=> Within(al, au, v)
      /\ \A v \in Int : v \in Held(b) <=> Within(bl, bu, v)
  BY <1>1, <1>2, MembersAre
<1>4. /\ Lowest(al) \in Int /\ Lowest(bl) \in Int /\ Highest(au) \in Int /\ Highest(bu) \in Int
  BY <1>2 DEF Lowest, Highest, IsBound
<1>5. /\ IsLimited(al) /\ IsLimited(bl) => (SameBound(al, bl) <=> Lowest(al) = Lowest(bl))
      /\ IsLimited(au) /\ IsLimited(bu) => (SameBound(au, bu) <=> Highest(au) = Highest(bu))
  <2>1. \A x \in Even, y \in Even : x \in Int /\ y \in Int /\ x # y + 1 /\ x + 1 # y
    BY DEF Even
  <2>2. IsLimited(al) /\ IsLimited(bl) => (SameBound(al, bl) <=> Lowest(al) = Lowest(bl))
    <3>1. HAVE IsLimited(al) /\ IsLimited(bl)
    <3>2. PICK x, y : x = al.value /\ y = bl.value
      OBVIOUS
    <3>3. x \in Int /\ y \in Int /\ x # y + 1 /\ x + 1 # y
      BY <1>2, <2>1, <3>1, <3>2
    <3>4. SameBound(al, bl) <=> (IsInclusive(al) <=> IsInclusive(bl)) /\ x = y
      BY <3>1, <3>2 DEF SameBound, IsInclusive
    <3> QED BY <3>2, <3>3, <3>4 DEF Lowest
  <2>3. IsLimited(au) /\ IsLimited(bu) => (SameBound(au, bu) <=> Highest(au) = Highest(bu))
    <3>1. HAVE IsLimited(au) /\ IsLimited(bu)
    <3>2. PICK x, y : x = au.value /\ y = bu.value
      OBVIOUS
    <3>3. x \in Int /\ y \in Int /\ x # y + 1 /\ x + 1 # y
      BY <1>2, <2>1, <3>1, <3>2
    <3>4. SameBound(au, bu) <=> (IsInclusive(au) <=> IsInclusive(bu)) /\ x = y
      BY <3>1, <3>2 DEF SameBound, IsInclusive
    <3> QED BY <3>2, <3>3, <3>4 DEF Highest
  <2> QED BY <2>2, <2>3
<1>6. /\ SameBound(al, bl) => (IsLimited(al) <=> IsLimited(bl))
      /\ SameBound(au, bu) => (IsLimited(au) <=> IsLimited(bu))
      /\ ~ IsLimited(al) /\ ~ IsLimited(bl) => SameBound(al, bl)
      /\ ~ IsLimited(au) /\ ~ IsLimited(bu) => SameBound(au, bu)
  BY DEF SameBound
<1>7. ASSUME SameBound(al, bl), SameBound(au, bu) PROVE Held(a) = Held(b)
  <2>1. \A v \in Int : v \in Held(a) <=> v \in Held(b)
    BY <1>3, <1>5, <1>6, <1>7 DEF Within
  <2> QED BY <2>1 DEF Held
<1>8. ASSUME Held(a) = Held(b), ~ IsEmpty(a), ~ IsEmpty(b)
      PROVE  SameBound(al, bl) /\ SameBound(au, bu)
  <2>1. PICK v \in Int : v \in Held(a)
    BY <1>8, EmptyHasNone DEF Held
  <2>2. PICK p, q, s, t : p = Lowest(al) /\ q = Highest(au) /\ s = Lowest(bl) /\ t = Highest(bu)
    OBVIOUS
  <2>3. \A x \in Int : ((IsLimited(al) => p <= x) /\ (IsLimited(au) => x <= q))
                     <=> ((IsLimited(bl) => s <= x) /\ (IsLimited(bu) => x <= t))
    BY <1>3, <1>8, <2>2 DEF Within
  <2>4. /\ p \in Int /\ q \in Int /\ s \in Int /\ t \in Int
        /\ IsLimited(al) => p <= v
        /\ IsLimited(au) => v <= q
        /\ IsLimited(bl) => s <= v
        /\ IsLimited(bu) => v <= t
    BY <1>3, <1>4, <2>1, <2>2, <2>3 DEF Within
  <2>5. (IsLimited(al) <=> IsLimited(bl)) /\ (IsLimited(al) => p = s)
    <3>1. CASE IsLimited(al)
      <4>1. p - 1 \in Int /\ p \in Int /\ s \in Int
        BY <2>4
      <4>2. ~ (p <= p - 1) /\ p - 1 <= v
        BY <2>4, <3>1
      <4>3. IsLimited(bl) /\ s > p - 1
        <5>1. ~ ((IsLimited(bl) => s <= p - 1) /\ (IsLimited(bu) => p - 1 <= t))
          BY <2>3, <3>1, <4>1, <4>2
        <5>2. IsLimited(bu) => p - 1 <= t
          BY <2>4, <4>1, <4>2
        <5> QED BY <4>1, <5>1, <5>2
      <4>4. s <= p
        BY <2>3, <2>4, <3>1, <4>3
      <4> QED BY <3>1, <4>1, <4>3, <4>4
    <3>2. CASE IsLimited(bl)
      <4>1. s - 1 \in Int
        BY <2>4
      <4>2. ~ (s <= s - 1) /\ s - 1 <= v
        BY <2>4, <3>2
      <4>3. IsLimited(al)
        BY <2>3, <2>4, <3>2, <4>1, <4>2
      <4> QED BY <3>1, <4>3
    <3> QED BY <3>1, <3>2
  <2>6. (IsLimited(au) <=> IsLimited(bu)) /\ (IsLimited(au) => q = t)
    <3>1. CASE IsLimited(au)
      <4>1. q + 1 \in Int /\ q \in Int /\ t \in Int
        BY <2>4
      <4>2. ~ (q + 1 <= q) /\ v <= q + 1
        BY <2>4, <3>1
      <4>3. IsLimited(bu) /\ t < q + 1
        <5>1. ~ ((IsLimited(bl) => s <= q + 1) /\ (IsLimited(bu) => q + 1 <= t))
          BY <2>3, <3>1, <4>1, <4>2
        <5>2. IsLimited(bl) => s <= q + 1
          BY <2>4, <4>1, <4>2
        <5> QED BY <4>1, <5>1, <5>2
      <4>4. q <= t
        BY <2>3, <2>4, <3>1, <4>3
      <4> QED BY <3>1, <4>1, <4>3, <4>4
    <3>2. CASE IsLimited(bu)
      <4>1. t + 1 \in Int
        BY <2>4
      <4>2. ~ (t + 1 <= t) /\ v <= t + 1
        BY <2>4, <3>2
      <4>3. IsLimited(au)
        BY <2>3, <2>4, <3>2, <4>1, <4>2
      <4> QED BY <3>1, <4>3
    <3> QED BY <3>1, <3>2
  <2> QED BY <1>5, <1>6, <2>2, <2>5, <2>6
<1>9. /\ IsEmpty(a) => (IsEmpty(b) <=> Held(b) = {}) /\ Held(a) = {}
      /\ IsEmpty(b) => (IsEmpty(a) <=> Held(a) = {}) /\ Held(b) = {}
  BY EmptyHasNone
<1>10. SameRange(a, b) <=> (SameBound(al, bl) /\ SameBound(au, bu)) \/ (IsEmpty(a) /\ IsEmpty(b))
  BY <1>1 DEF SameRange
<1> QED BY <1>7, <1>8, <1>9, <1>10

\* What both of two bounds are within.
LEMMA BoundsMeet ==
  ASSUME NEW a, NEW b, IsBound(a), IsBound(b)
  PROVE  /\ HigherLower(a, b) \in {a, b} /\ LowerUpper(a, b) \in {a, b}
         /\ \A v \in Int : ExtendsDownTo(HigherLower(a, b), v) <=> ExtendsDownTo(a, v) /\ ExtendsDownTo(b, v)
         /\ \A v \in Int : ExtendsUpTo(LowerUpper(a, b), v) <=> ExtendsUpTo(a, v) /\ ExtendsUpTo(b, v)
<1>1. HigherLower(a, b) \in {a, b} /\ LowerUpper(a, b) \in {a, b}
  BY DEF HigherLower, LowerUpper
<1>2. PICK x, y : x = a.value /\ y = b.value
  OBVIOUS
<1>3. x \in Int /\ y \in Int
  BY <1>2 DEF IsBound
<1>4. /\ IsLimited(a) <=> IsInclusive(a) \/ IsExclusive(a)
      /\ IsLimited(b) <=> IsInclusive(b) \/ IsExclusive(b)
      /\ ~ (IsInclusive(a) /\ IsExclusive(a)) /\ ~ (IsInclusive(b) /\ IsExclusive(b))
  BY DEF IsBound, IsLimited, IsInclusive, IsExclusive
<1>5. ASSUME NEW v \in Int
      PROVE  ExtendsDownTo(HigherLower(a, b), v) <=> ExtendsDownTo(a, v) /\ ExtendsDownTo(b, v)
  <2>1. HigherLower(a, b) = IF ~ IsLimited(a) THEN b ELSE IF ~ IsLimited(b) THEN a
                            ELSE IF x < y THEN b ELSE IF y < x THEN a
                            ELSE IF IsExclusive(a) THEN a ELSE b
    BY <1>2 DEF HigherLower
  <2>2. CASE HigherLower(a, b) = a
    BY <1>2, <1>3, <1>4, <2>1, <2>2 DEF ExtendsDownTo
  <2>3. CASE HigherLower(a, b) = b
    BY <1>2, <1>3, <1>4, <2>1, <2>3 DEF ExtendsDownTo
  <2> QED BY <1>1, <2>2, <2>3
<1>6. ASSUME NEW v \in Int
      PROVE  ExtendsUpTo(LowerUpper(a, b), v) <=> ExtendsUpTo(a, v) /\ ExtendsUpTo(b, v)
  <2>1. LowerUpper(a, b) = IF ~ IsLimited(a) THEN b ELSE IF ~ IsLimited(b) THEN a
                           ELSE IF y < x THEN b ELSE IF x < y THEN a
                           ELSE IF IsExclusive(a) THEN a ELSE b
    BY <1>2 DEF LowerUpper
  <2>2. CASE LowerUpper(a, b) = a
    BY <1>2, <1>3, <1>4, <2>1, <2>2 DEF ExtendsUpTo
  <2>3. CASE LowerUpper(a, b) = b
    BY <1>2, <1>3, <1>4, <2>1, <2>3 DEF ExtendsUpTo
  <2> QED BY <1>1, <2>2, <2>3
<1> QED BY <1>1, <1>5, <1>6

\* The intersection is a range, and holds what both hold (range.hxx:357).
LEMMA IntersectionHasBoth ==
  ASSUME NEW a \in RangesOf(Even), NEW b \in RangesOf(Even)
  PROVE  Intersection(a, b) \in RangesOf(Even) /\ Held(Intersection(a, b)) = Held(a) \cap Held(b)
<1>1. PICK lo, up : lo = HigherLower(a.lower, b.lower) /\ up = LowerUpper(a.upper, b.upper)
  OBVIOUS
<1>2. IsBound(a.lower) /\ IsBound(a.upper) /\ IsBound(b.lower) /\ IsBound(b.upper)
  BY BoundsAre
<1>3. lo \in {a.lower, b.lower} /\ up \in {a.upper, b.upper}
  BY <1>1, <1>2, BoundsMeet
<1>4. \A v \in Int : ContainsValue(a, v) /\ ContainsValue(b, v) <=> ExtendsDownTo(lo, v) /\ ExtendsUpTo(up, v)
  <2>1. \A v \in Int : ExtendsDownTo(lo, v) <=> ExtendsDownTo(a.lower, v) /\ ExtendsDownTo(b.lower, v)
    BY <1>1, <1>2, BoundsMeet
  <2>2. \A v \in Int : ExtendsUpTo(up, v) <=> ExtendsUpTo(a.upper, v) /\ ExtendsUpTo(b.upper, v)
    BY <1>1, <1>2, BoundsMeet
  <2> QED BY <2>1, <2>2 DEF ContainsValue
<1>5. lo \in Bounds(Even) /\ up \in Bounds(Even)
  <2>1. a.lower \in Bounds(Even) /\ a.upper \in Bounds(Even) /\ b.lower \in Bounds(Even) /\ b.upper \in Bounds(Even)
    BY DEF RangesOf
  <2> QED BY <1>3, <2>1
<1>6. CASE InOrder(lo, up)
  <2>1. PICK r : r = [lower |-> lo, upper |-> up]
    OBVIOUS
  <2>2. Intersection(a, b) = r
    BY <1>1, <1>6, <2>1 DEF Intersection
  <2>3. r \in RangesOf(Even)
    BY <1>5, <1>6, <2>1 DEF RangesOf
  <2>4. \A v \in Int : ContainsValue(r, v) <=> ContainsValue(a, v) /\ ContainsValue(b, v)
    BY <1>4, <2>1 DEF ContainsValue
  <2> QED BY <2>2, <2>3, <2>4 DEF Held
<1>7. CASE ~ InOrder(lo, up)
  <2>1. Intersection(a, b) = EmptyRange
    BY <1>1, <1>7 DEF Intersection
  <2>2. EmptyRange \in RangesOf(Even)
    <3>1. 0 \in Even
      BY DEF Even
    <3>2. Exclusive(0) \in Bounds(Even)
      BY <3>1 DEF Bounds
    <3>3. InOrder(Exclusive(0), Exclusive(0))
      BY DEF InOrder, Exclusive
    <3> QED BY <3>2, <3>3 DEF RangesOf, EmptyRange
  <2>3. IsEmpty(EmptyRange)
    BY DEF IsEmpty, EmptyRange, Exclusive, IsExclusive, IsLimited
  <2>4. Held(EmptyRange) = {}
    BY <2>2, <2>3, EmptyHasNone
  <2>5. \A v \in Int : ~ (ExtendsDownTo(lo, v) /\ ExtendsUpTo(up, v))
    <3>1. IsBound(lo) /\ IsBound(up)
      BY <1>2, <1>3
    <3>2. PICK x, y : x = lo.value /\ y = up.value
      OBVIOUS
    <3>3. x \in Int /\ y \in Int /\ y < x /\ IsLimited(lo) /\ IsLimited(up)
      BY <1>7, <3>1, <3>2 DEF InOrder, IsBound
    <3> QED BY <3>2, <3>3 DEF ExtendsDownTo, ExtendsUpTo
  <2> QED BY <1>4, <2>1, <2>2, <2>4, <2>5 DEF Held
<1> QED BY <1>6, <1>7

\* As long as the bounds are even, what a range says of a value and of another range is
\* what the set of its values says (range.hxx:271-376).
LEMMA EvenRangesAreSets ==
  ASSUME NEW a \in RangesOf(Even), NEW b \in RangesOf(Even)
  PROVE  /\ IsEmpty(a) <=> Held(a) = {}
         /\ Held(Intersection(a, b)) = Held(a) \cap Held(b)
         /\ ContainsRange(a, b) <=> Held(b) \subseteq Held(a)
         /\ SameRange(a, b) <=> Held(a) = Held(b)
         /\ SameRange(Intersection(a, b), Intersection(b, a))
<1>1. IsEmpty(a) <=> Held(a) = {}
  BY EmptyHasNone
<1>2. PICK c, d : c = Intersection(a, b) /\ d = Intersection(b, a)
  OBVIOUS
<1>3. /\ c \in RangesOf(Even) /\ Held(c) = Held(a) \cap Held(b)
      /\ d \in RangesOf(Even) /\ Held(d) = Held(b) \cap Held(a)
  BY <1>2, IntersectionHasBoth
<1>4. SameRange(a, b) <=> Held(a) = Held(b)
  BY SameHaveSame
<1>5. SameRange(c, d)
  <2>1. Held(c) = Held(d)
    BY <1>3
  <2> QED BY <1>3, <2>1, SameHaveSame
<1>6. ContainsRange(a, b) <=> Held(b) \subseteq Held(a)
  <2>1. SameRange(c, b) <=> Held(c) = Held(b)
    BY <1>3, SameHaveSame
  <2> QED BY <1>2, <1>3, <2>1 DEF ContainsRange
<1> QED BY <1>1, <1>2, <1>3, <1>4, <1>5, <1>6

\* Half the step makes every range of integers one with even bounds, and changes nothing
\* in what it says of others.
LEMMA HalvedIs ==
  ASSUME NEW a \in RangesOf(Int), NEW b \in RangesOf(Int)
  PROVE  /\ Halved(a) \in RangesOf(Even)
         /\ IsEmpty(Halved(a)) <=> IsEmpty(a)
         /\ SameRange(Halved(a), Halved(b)) <=> SameRange(a, b)
         /\ Intersection(a, b) \in RangesOf(Int)
         /\ Halved(Intersection(a, b)) = Intersection(Halved(a), Halved(b))
<1>1. PICK al, au, bl, bu : al = a.lower /\ au = a.upper /\ bl = b.lower /\ bu = b.upper
  OBVIOUS
<1>2. /\ {al, au, bl, bu} \subseteq Bounds(Int) /\ InOrder(al, au) /\ InOrder(bl, bu)
      /\ a = [lower |-> al, upper |-> au] /\ b = [lower |-> bl, upper |-> bu]
  BY <1>1 DEF RangesOf
<1>3. PICK al2, au2, bl2, bu2 :
        al2 = AtTwice(al) /\ au2 = AtTwice(au) /\ bl2 = AtTwice(bl) /\ bu2 = AtTwice(bu)
  OBVIOUS
<1>4. ASSUME NEW x \in Bounds(Int)
      PROVE  /\ AtTwice(x) \in Bounds(Even) /\ x.value \in Int
             /\ AtTwice(x).value = 2 * x.value /\ AtTwice(x).kind = x.kind
  <2>1. x.value \in Int /\ x = [kind |-> x.kind, value |-> x.value]
        /\ x.kind \in {"none", "inclusive", "exclusive"} /\ (x.kind = "none" => x.value = 0)
    BY DEF Bounds, NoBound, Inclusive, Exclusive
  <2>2. AtTwice(x) = [kind |-> x.kind, value |-> 2 * x.value]
    BY <2>1 DEF AtTwice
  <2>3. 2 * x.value \in Even
    BY <2>1 DEF Even
  <2>4. CASE x.kind = "none"
    <3>1. AtTwice(x) = NoBound
      BY <2>1, <2>2, <2>4 DEF NoBound
    <3> QED BY <2>1, <2>2, <3>1 DEF Bounds
  <2>5. CASE x.kind = "inclusive"
    BY <2>1, <2>2, <2>3, <2>5 DEF Bounds, Inclusive
  <2>6. CASE x.kind = "exclusive"
    BY <2>1, <2>2, <2>3, <2>6 DEF Bounds, Exclusive
  <2> QED BY <2>1, <2>4, <2>5, <2>6
<1>5. ASSUME NEW x \in Bounds(Int), NEW y \in Bounds(Int)
      PROVE  /\ InOrder(AtTwice(x), AtTwice(y)) <=> InOrder(x, y)
             /\ SameBound(AtTwice(x), AtTwice(y)) <=> SameBound(x, y)
             /\ AtTwice(HigherLower(x, y)) = HigherLower(AtTwice(x), AtTwice(y))
             /\ AtTwice(LowerUpper(x, y)) = LowerUpper(AtTwice(x), AtTwice(y))
             /\ HigherLower(x, y) \in Bounds(Int) /\ LowerUpper(x, y) \in Bounds(Int)
  <2>1. PICK v, w, x2, y2 : v = x.value /\ w = y.value /\ x2 = AtTwice(x) /\ y2 = AtTwice(y)
    OBVIOUS
  <2>2. /\ v \in Int /\ w \in Int /\ x2.value = 2 * v /\ y2.value = 2 * w
        /\ x2.kind = x.kind /\ y2.kind = y.kind
    BY <1>4, <2>1
  <2>3. (2 * v < 2 * w <=> v < w) /\ (2 * w < 2 * v <=> w < v) /\ (2 * v = 2 * w <=> v = w)
    BY <2>2
  <2>4. /\ IsLimited(x2) <=> IsLimited(x)
        /\ IsLimited(y2) <=> IsLimited(y)
        /\ IsExclusive(x2) <=> IsExclusive(x)
        /\ IsInclusive(x2) = IsInclusive(x) /\ IsInclusive(y2) = IsInclusive(y)
    BY <2>2 DEF IsLimited, IsExclusive, IsInclusive
  <2>5. InOrder(x2, y2) <=> InOrder(x, y)
    BY <2>1, <2>2, <2>3, <2>4 DEF InOrder
  <2>6. SameBound(x2, y2) <=> SameBound(x, y)
    BY <2>1, <2>2, <2>3, <2>4 DEF SameBound
  <2>7. AtTwice(HigherLower(x, y)) = HigherLower(x2, y2) /\ HigherLower(x, y) \in {x, y}
    BY <2>1, <2>2, <2>3, <2>4 DEF HigherLower
  <2>8. AtTwice(LowerUpper(x, y)) = LowerUpper(x2, y2) /\ LowerUpper(x, y) \in {x, y}
    BY <2>1, <2>2, <2>3, <2>4 DEF LowerUpper
  <2> QED BY <2>1, <2>5, <2>6, <2>7, <2>8
<1>6. /\ Halved(a) = [lower |-> al2, upper |-> au2] /\ Halved(b) = [lower |-> bl2, upper |-> bu2]
      /\ {al2, au2, bl2, bu2} \subseteq Bounds(Even)
  BY <1>1, <1>2, <1>3, <1>4 DEF Halved
<1>7. Halved(a) \in RangesOf(Even)
  <2>1. InOrder(al2, au2)
    BY <1>2, <1>3, <1>5
  <2> QED BY <1>6, <2>1 DEF RangesOf
<1>8. ASSUME NEW l \in Bounds(Int), NEW u \in Bounds(Int), NEW r, NEW s,
             r = [lower |-> l, upper |-> u], s = [lower |-> AtTwice(l), upper |-> AtTwice(u)]
      PROVE  IsEmpty(s) <=> IsEmpty(r)
  <2>1. PICK v, w, l2, u2 : v = l.value /\ w = u.value /\ l2 = AtTwice(l) /\ u2 = AtTwice(u)
    OBVIOUS
  <2>2. /\ v \in Int /\ w \in Int /\ l2.value = 2 * v /\ u2.value = 2 * w
        /\ l2.kind = l.kind /\ u2.kind = u.kind
    BY <1>4, <2>1
  <2>3. 2 * v < 2 * w <=> v < w
    BY <2>2
  <2>4. s.lower = l2 /\ s.upper = u2 /\ r.lower = l /\ r.upper = u
    BY <1>8, <2>1
  <2> QED BY <2>1, <2>2, <2>3, <2>4 DEF IsEmpty, IsExclusive, IsLimited
<1>9. (IsEmpty(Halved(a)) <=> IsEmpty(a)) /\ (IsEmpty(Halved(b)) <=> IsEmpty(b))
  BY <1>2, <1>3, <1>6, <1>8
<1>10. SameRange(Halved(a), Halved(b)) <=> SameRange(a, b)
  <2>1. (SameBound(al2, bl2) <=> SameBound(al, bl)) /\ (SameBound(au2, bu2) <=> SameBound(au, bu))
    BY <1>2, <1>3, <1>5
  <2> QED BY <1>1, <1>6, <1>9, <2>1 DEF SameRange
<1>11. PICK lo, up : lo = HigherLower(al, bl) /\ up = LowerUpper(au, bu)
  OBVIOUS
<1>12. PICK lo2, up2 : lo2 = HigherLower(al2, bl2) /\ up2 = LowerUpper(au2, bu2)
  OBVIOUS
<1>13. /\ lo \in Bounds(Int) /\ up \in Bounds(Int) /\ lo2 = AtTwice(lo) /\ up2 = AtTwice(up)
       /\ InOrder(lo2, up2) <=> InOrder(lo, up)
  BY <1>2, <1>3, <1>5, <1>11, <1>12
<1>14. /\ Intersection(a, b) = IF InOrder(lo, up) THEN [lower |-> lo, upper |-> up] ELSE EmptyRange
       /\ Intersection(Halved(a), Halved(b))
            = IF InOrder(lo2, up2) THEN [lower |-> lo2, upper |-> up2] ELSE EmptyRange
  <2>1. Halved(a).lower = al2 /\ Halved(a).upper = au2 /\ Halved(b).lower = bl2 /\ Halved(b).upper = bu2
    BY <1>6
  <2> QED BY <1>1, <1>11, <1>12, <2>1 DEF Intersection
<1>15. CASE InOrder(lo, up)
  <2>1. Halved([lower |-> lo, upper |-> up]) = [lower |-> lo2, upper |-> up2]
    BY <1>13 DEF Halved
  <2>2. [lower |-> lo, upper |-> up] \in RangesOf(Int)
    BY <1>13, <1>15 DEF RangesOf
  <2> QED BY <1>7, <1>9, <1>10, <1>13, <1>14, <1>15, <2>1, <2>2
<1>16. CASE ~ InOrder(lo, up)
  <2>1. PICK x : x = Exclusive(0)
    OBVIOUS
  <2>2. x \in Bounds(Int) /\ x.kind = "exclusive" /\ x.value = 0 /\ EmptyRange = [lower |-> x, upper |-> x]
    BY <2>1 DEF Bounds, Exclusive, EmptyRange
  <2>3. AtTwice(x) = x
    BY <2>1 DEF AtTwice, Exclusive
  <2>4. Halved(EmptyRange) = EmptyRange
    BY <2>2, <2>3 DEF Halved
  <2>5. EmptyRange \in RangesOf(Int)
    BY <2>2 DEF RangesOf, InOrder
  <2> QED BY <1>7, <1>9, <1>10, <1>13, <1>14, <1>16, <2>4, <2>5
<1> QED BY <1>15, <1>16, <1>7, <1>9, <1>10

\* A range holds a number where, at half the step, it holds its double.
LEMMA HeldAtHalf ==
  ASSUME NEW r \in RangesOf(Int), NEW v \in Int
  PROVE  v \in Members(Int, r) <=> 2 * v \in Members(Int, Halved(r))
<1>1. PICK l, u : l = r.lower /\ u = r.upper
  OBVIOUS
<1>2. l \in Bounds(Int) /\ u \in Bounds(Int)
  BY <1>1 DEF RangesOf
<1>3. l.value \in Int /\ u.value \in Int /\ l = [kind |-> l.kind, value |-> l.value]
      /\ u = [kind |-> u.kind, value |-> u.value]
  BY <1>2 DEF Bounds, NoBound, Inclusive, Exclusive
<1>4. PICK l2, u2 : l2 = AtTwice(l) /\ u2 = AtTwice(u)
  OBVIOUS
<1>5. l2.kind = l.kind /\ u2.kind = u.kind /\ l2.value = 2 * l.value /\ u2.value = 2 * u.value
  <2>1. l2 = [kind |-> l.kind, value |-> 2 * l.value] /\ u2 = [kind |-> u.kind, value |-> 2 * u.value]
    BY <1>3, <1>4 DEF AtTwice
  <2> QED BY <2>1
<1>6. Halved(r).lower = l2 /\ Halved(r).upper = u2
  BY <1>1, <1>4 DEF Halved
<1>7. PICK p, q : p = l.value /\ q = u.value
  OBVIOUS
<1>8. /\ 2 * v < 2 * p <=> v < p
      /\ 2 * p < 2 * v <=> p < v
      /\ 2 * v < 2 * q <=> v < q
      /\ 2 * q < 2 * v <=> q < v
  BY <1>3, <1>7
<1>9. (ExtendsDownTo(l2, 2 * v) <=> ExtendsDownTo(l, v)) /\ (ExtendsUpTo(u2, 2 * v) <=> ExtendsUpTo(u, v))
  BY <1>5, <1>7, <1>8 DEF ExtendsDownTo, ExtendsUpTo, IsLimited, IsInclusive, IsExclusive
<1>10. ContainsValue(Halved(r), 2 * v) <=> ContainsValue(r, v)
  BY <1>1, <1>6, <1>9 DEF ContainsValue
<1>11. 2 * v \in Int
  OBVIOUS
<1> QED BY <1>10, <1>11 DEF Members

\* A range that holds no integer and does not know it is open, around no integer.
LEMMA OnlyThenFilled ==
  ASSUME NEW r \in RangesOf(Int), Members(Int, r) = {}
  PROVE  IsEmpty(r) \/ LooksFilled(r)
<1>1. PICK l, u : l = r.lower /\ u = r.upper
  OBVIOUS
<1>2. l \in Bounds(Int) /\ u \in Bounds(Int) /\ InOrder(l, u)
  BY <1>1 DEF RangesOf
<1>3. IsBound(l) /\ IsBound(u)
  BY <1>2 DEF Bounds, IsBound, NoBound, Inclusive, Exclusive
<1>4. PICK p \in Int, q \in Int : p = l.value /\ q = u.value
  BY <1>3 DEF IsBound
<1>5. \A v \in Int : ~ Within(l, u, v)
  <2>1. \A v \in Int : ~ ContainsValue(r, v)
    BY DEF Members
  <2>2. \A v \in Int : v \notin Held(r)
    BY <2>1 DEF Held
  <2> QED BY <1>1, <1>3, <2>2, MembersAre
<1>6. Lowest(l) \in Int /\ Highest(u) \in Int
  BY <1>4 DEF Lowest, Highest
<1>7. IsLimited(l) /\ IsLimited(u)
  BY <1>5, <1>6 DEF Within
<1>8. Lowest(l) > Highest(u)
  <2>1. ~ (Lowest(l) <= Highest(u)) 
    BY <1>5, <1>6, <1>7 DEF Within
  <2> QED BY <1>6, <2>1
<1>9. ~ (q < p)
  BY <1>2, <1>4, <1>7 DEF InOrder
<1>10. /\ IsInclusive(l) \/ IsExclusive(l)
       /\ IsInclusive(u) \/ IsExclusive(u)
       /\ ~ (IsInclusive(l) /\ IsExclusive(l)) /\ ~ (IsInclusive(u) /\ IsExclusive(u))
  BY <1>3, <1>7 DEF IsBound, IsLimited, IsInclusive, IsExclusive
<1>11. CASE p < q
  <2>1. IsExclusive(l) /\ IsExclusive(u) /\ q = p + 1
    BY <1>4, <1>8, <1>10, <1>11 DEF Lowest, Highest
  <2> QED BY <1>1, <1>4, <2>1 DEF LooksFilled
<1>12. CASE ~ (p < q)
  <2>1. IsExclusive(l) \/ IsExclusive(u)
    BY <1>4, <1>8, <1>9, <1>10, <1>12 DEF Lowest, Highest
  <2> QED BY <1>1, <1>4, <1>7, <1>12, <2>1 DEF IsEmpty
<1> QED BY <1>11, <1>12

\* RangesAreSets, for all ranges of integers, adjacent bounds included: the intersection
\* holds what both hold, and empty(), contains() and == answer as for values that come
\* as close as one likes, so that what they affirm is true of the integers and only a
\* range open around no integer is wrongly taken for filled (range.hxx:271-376).
THEOREM EveryTwoRangesAgree ==
  ASSUME NEW a \in RangesOf(Int), NEW b \in RangesOf(Int)
  PROVE  RangesAgree(Int, a, b)
<1>1. PICK c, d, a2, b2, c2, d2 :
        /\ c = Intersection(a, b) /\ d = Intersection(b, a)
        /\ a2 = Halved(a) /\ b2 = Halved(b) /\ c2 = Halved(c) /\ d2 = Halved(d)
  OBVIOUS
<1>2. /\ c \in RangesOf(Int) /\ d \in RangesOf(Int)
      /\ a2 \in RangesOf(Even) /\ b2 \in RangesOf(Even)
      /\ c2 = Intersection(a2, b2) /\ d2 = Intersection(b2, a2)
      /\ IsEmpty(a2) <=> IsEmpty(a)
      /\ SameRange(a2, b2) <=> SameRange(a, b)
  BY <1>1, HalvedIs
<1>3. (SameRange(c2, b2) <=> SameRange(c, b)) /\ (SameRange(c2, d2) <=> SameRange(c, d))
  BY <1>1, <1>2, HalvedIs
<1>4. PICK A, B, C : A = Members(Int, a2) /\ B = Members(Int, b2) /\ C = Members(Int, c2)
  OBVIOUS
<1>5. /\ IsEmpty(a2) <=> A = {}
      /\ C = A \cap B
      /\ ContainsRange(a2, b2) <=> B \subseteq A
      /\ SameRange(a2, b2) <=> A = B
      /\ SameRange(c2, d2)
  <2>1. A = Held(a2) /\ B = Held(b2) /\ C = Held(c2)
    BY <1>4 DEF Members, Held
  <2> QED BY <1>2, <2>1, EvenRangesAreSets
<1>6. ContainsRange(a, b) <=> B \subseteq A
  BY <1>1, <1>2, <1>3, <1>5 DEF ContainsRange
<1>7. \A v \in Int : /\ v \in Members(Int, a) <=> 2 * v \in A
                     /\ v \in Members(Int, b) <=> 2 * v \in B
                     /\ v \in Members(Int, c) <=> 2 * v \in C
  BY <1>1, <1>2, <1>4, HeldAtHalf
<1>8. PICK X, Y, Z : X = Members(Int, a) /\ Y = Members(Int, b) /\ Z = Members(Int, c)
  OBVIOUS
<1>9. X \subseteq Int /\ Y \subseteq Int /\ Z \subseteq Int
  BY <1>8 DEF Members
<1>10. Z = X \cap Y
  BY <1>5, <1>7, <1>8, <1>9
<1>11. /\ IsEmpty(a) => X = {}
       /\ ContainsRange(a, b) => Y \subseteq X
       /\ SameRange(a, b) => X = Y
  BY <1>2, <1>5, <1>6, <1>7, <1>8, <1>9
<1>12. X = {} => IsEmpty(a) \/ LooksFilled(a)
  BY <1>8, OnlyThenFilled
<1> QED BY <1>1, <1>2, <1>3, <1>4, <1>5, <1>6, <1>8, <1>10, <1>11, <1>12, Zenon DEF RangesAgree

-----------------------------------------------------------------------------
(* Quoting                                                                   *)

\* What quoting makes of each character.
Twice(S, c) == [x \in S |-> IF x = c THEN <<c, c>> ELSE <<x>>]

\* The quoted character becomes two, any other stays.
LEMMA TwiceMaps ==
  ASSUME NEW S, NEW c \in S
  PROVE  /\ Twice(S, c) \in SeqMaps(S, S)
         /\ \A x \in S : Len(Twice(S, c)[x]) = (IF x = c THEN 2 ELSE 1) /\ Twice(S, c)[x][1] = x
         /\ Twice(S, c)[c][2] = c
         /\ \A name \in Seq(S) : Doubled(name, c) = Spread(Twice(S, c), name)
<1>1. \A x \in S : <<c, c>> \in Seq(S) /\ <<x>> \in Seq(S)
  OBVIOUS
<1>2. \A x \in S : (IF x = c THEN <<c, c>> ELSE <<x>>) \in Seq(S)
  BY <1>1
<1>3. Twice(S, c) \in SeqMaps(S, S)
  BY <1>2 DEF Twice, SeqMaps
<1>4. \A x \in S : Len(Twice(S, c)[x]) = (IF x = c THEN 2 ELSE 1) /\ Twice(S, c)[x][1] = x
  BY DEF Twice
<1>5. Twice(S, c)[c][2] = c
  BY DEF Twice
<1>6. ASSUME NEW name \in Seq(S)
      PROVE  Doubled(name, c) = Spread(Twice(S, c), name)
  <2>1. \A i \in DOMAIN name : name[i] \in S
    OBVIOUS
  <2>2. \A i \in DOMAIN name : (IF name[i] = c THEN <<c, c>> ELSE <<name[i]>>) = Twice(S, c)[name[i]]
    BY <2>1 DEF Twice
  <2>3. [i \in DOMAIN name |-> IF name[i] = c THEN <<c, c>> ELSE <<name[i]>>]
          = [i \in DOMAIN name |-> Twice(S, c)[name[i]]]
    BY <2>2
  <2> QED BY <2>3, Zenon DEF Doubled, Spread
<1> QED BY <1>3, <1>4, <1>5, <1>6

\* The j-th character of a quoted name is in the text at at[j - 1], and what closes it at
\* at[Len(name)].
QuotedAt(text, name, c, at) ==
  LET m == Len(name)
  IN  /\ at \in [0..m -> 1..Len(text)]
      /\ \A j \in 1..m :
           /\ at[j] = at[j - 1] + (IF name[j] = c THEN 2 ELSE 1)
           /\ text[at[j - 1]] = name[j]
           /\ name[j] = c => text[at[j - 1] + 1] = c
      /\ text[at[m]] = c
      /\ at[m] < Len(text) => text[at[m] + 1] # c

\* What the server has read from each position on.
ReadsQuoted(scan, text, c) ==
  \A k \in 1..(Len(text) + 1) :
    scan[k] = IF k > Len(text) THEN [text |-> <<>>, next |-> Len(text) + 2]
              ELSE IF text[k] # c THEN ReadFirst(text[k], scan[k + 1])
              ELSE IF k < Len(text) /\ text[k + 1] = c THEN ReadFirst(c, scan[k + 2])
              ELSE [text |-> <<>>, next |-> k + 1]

\* It reads character by character.
LEMMA QuotedIsScanned ==
  ASSUME NEW S, NEW c \in S, NEW text \in Seq(S)
  PROVE  \E scan : /\ ReadsQuoted(scan, text, c)
                   /\ \A i \in 1..Len(text) : ReadQuoted(text, i, c) = scan[i + 1]
<1> DEFINE scan[k \in 1..(Len(text) + 1)] ==
             IF k > Len(text) THEN [text |-> <<>>, next |-> Len(text) + 2]
             ELSE IF text[k] # c THEN ReadFirst(text[k], scan[k + 1])
             ELSE IF k < Len(text) /\ text[k + 1] = c THEN ReadFirst(c, scan[k + 2])
             ELSE [text |-> <<>>, next |-> k + 1]
<1>1. PICK n, X : n = Len(text) /\ X = [text : Seq(S), next : Nat]
  OBVIOUS
<1>2. n \in Nat /\ \A k \in 1..n : text[k] \in S
  BY <1>1
<1>3. PICK open, ends : open = [text |-> <<>>, next |-> n + 2] /\ ends = [k \in 0..(n + 1) |-> open]
  OBVIOUS
<1>4. PICK jump : jump = [k \in 1..n |-> IF text[k] # c THEN k + 1
                                          ELSE IF k < n /\ text[k + 1] = c THEN k + 2 ELSE 0]
  OBVIOUS
<1>5. PICK step : step = [k \in 1..n |-> [r \in X |->
                            IF text[k] # c THEN ReadFirst(text[k], r)
                            ELSE IF k < n /\ text[k + 1] = c THEN ReadFirst(c, r)
                            ELSE [text |-> <<>>, next |-> k + 1]]]
  OBVIOUS
<1>6. jump \in [1..n -> 0..(n + 1)] /\ \A k \in 1..n : jump[k] = 0 \/ jump[k] > k
  BY <1>2, <1>4
<1>7. ends \in [0..(n + 1) -> X]
  BY <1>1, <1>2, <1>3
<1>8. \A x \in S, r \in X : ReadFirst(x, r) \in X
  <2> TAKE x \in S, r \in X
  <2>1. PICK t, u : t = r.text /\ u = <<x>> \o t
    OBVIOUS
  <2>2. t \in Seq(S) /\ r \in [text : Seq(S), next : Nat] /\ <<x>> \in Seq(S)
    BY <1>1, <2>1
  <2>3. u \in Seq(S)
    BY <2>1, <2>2, ConcatProperties
  <2>4. [r EXCEPT !.text = u] \in X
    BY <1>1, <2>2, <2>3
  <2> QED BY <2>1, <2>4 DEF ReadFirst
<1>9. step \in [1..n -> [X -> X]]
  <2>1. \A k \in 1..n : [text |-> <<>>, next |-> k + 1] \in X
    BY <1>1, <1>2
  <2>2. ASSUME NEW k \in 1..n, NEW r \in X
        PROVE  (IF text[k] # c THEN ReadFirst(text[k], r)
                ELSE IF k < n /\ text[k + 1] = c THEN ReadFirst(c, r)
                ELSE [text |-> <<>>, next |-> k + 1]) \in X
    <3>1. ReadFirst(text[k], r) \in X /\ ReadFirst(c, r) \in X
      BY <1>2, <1>8
    <3> QED BY <2>1, <3>1, Zenon
  <2> QED BY <1>5, <2>2
<1>10. PICK f \in [0..(n + 1) -> X] : Jumps(f, n, ends, jump, step)
  <2> HIDE DEF scan
  <2> QED BY <1>2, <1>6, <1>7, <1>9, Jumping
<1>11. PICK g : g = [k \in 1..(n + 1) |-> f[k]]
  OBVIOUS
<1>12. g = [k \in 1..(Len(text) + 1) |->
             IF k > Len(text) THEN [text |-> <<>>, next |-> Len(text) + 2]
             ELSE IF text[k] # c THEN ReadFirst(text[k], g[k + 1])
             ELSE IF k < Len(text) /\ text[k + 1] = c THEN ReadFirst(c, g[k + 2])
             ELSE [text |-> <<>>, next |-> k + 1]]
  <2> HIDE DEF scan
  <2>1. ASSUME NEW k \in 1..(n + 1)
        PROVE  g[k] = IF k > n THEN [text |-> <<>>, next |-> n + 2]
                      ELSE IF text[k] # c THEN ReadFirst(text[k], g[k + 1])
                      ELSE IF k < n /\ text[k + 1] = c THEN ReadFirst(c, g[k + 2])
                      ELSE [text |-> <<>>, next |-> k + 1]
    <3>1. CASE k > n
      <4>1. k \notin 1..n /\ k \in 0..(n + 1)
        BY <1>2, <3>1
      <4> QED BY <1>3, <1>10, <1>11, <3>1, <4>1 DEF Jumps
    <3>2. CASE ~ (k > n)
      <4>1. k \in 1..n /\ k \in 0..(n + 1)
        BY <1>2, <3>2
      <4>2. g[k] = step[k][f[jump[k]]] /\ f[jump[k]] \in X
        BY <1>6, <1>10, <1>11, <4>1 DEF Jumps
      <4>3. PICK r : r = f[jump[k]]
        OBVIOUS
      <4>4. r \in X /\ g[k] = IF text[k] # c THEN ReadFirst(text[k], r)
                               ELSE IF k < n /\ text[k + 1] = c THEN ReadFirst(c, r)
                               ELSE [text |-> <<>>, next |-> k + 1]
        BY <1>5, <4>1, <4>2, <4>3
      <4>5. text[k] # c => r = g[k + 1]
        <5>1. k + 1 \in 1..(n + 1)
          BY <1>2, <4>1
        <5> QED BY <1>4, <1>11, <4>1, <4>3, <5>1
      <4>6. ~ (text[k] # c) /\ k < n /\ text[k + 1] = c => r = g[k + 2]
        <5>1. k < n => k + 2 \in 1..(n + 1)
          BY <1>2, <4>1
        <5> QED BY <1>4, <1>11, <4>1, <4>3, <5>1
      <4> QED BY <3>2, <4>4, <4>5, <4>6
    <3> QED BY <3>1, <3>2
  <2>2. g = [k \in 1..(n + 1) |-> g[k]]
    BY <1>11
  <2> QED BY <1>1, <2>1, <2>2
<1>13. scan = [k \in 1..(Len(text) + 1) |->
             IF k > Len(text) THEN [text |-> <<>>, next |-> Len(text) + 2]
             ELSE IF text[k] # c THEN ReadFirst(text[k], scan[k + 1])
             ELSE IF k < Len(text) /\ text[k + 1] = c THEN ReadFirst(c, scan[k + 2])
             ELSE [text |-> <<>>, next |-> k + 1]]
  BY <1>12, Zenon
<1>14. \A i : ReadQuoted(text, i, c) = scan[i + 1]
  BY DEF ReadQuoted
<1> HIDE DEF scan
<1>15. ReadsQuoted(scan, text, c)
  BY <1>1, <1>13 DEF ReadsQuoted
<1> QED BY <1>14, <1>15

\* What stands in quotes is read as what it is, and the reading ends behind it.
LEMMA QuotedIsRead ==
  ASSUME NEW S, NEW c \in S, NEW text \in Seq(S), NEW name \in Seq(S), NEW at,
         QuotedAt(text, name, c, at), NEW i \in 1..Len(text), at[0] = i + 1
  PROVE  ReadQuoted(text, i, c) = [text |-> name, next |-> at[Len(name)] + 1]
<1>1. PICK n, m, end : n = Len(text) /\ m = Len(name) /\ end = at[m] + 1
  OBVIOUS
<1>2. n \in Nat /\ m \in Nat /\ i \in 1..n /\ at[0] = i + 1
  BY <1>1
<1>3. /\ at \in [0..m -> 1..n]
      /\ \A j \in 1..m : /\ at[j] = at[j - 1] + (IF name[j] = c THEN 2 ELSE 1)
                         /\ text[at[j - 1]] = name[j]
                         /\ name[j] = c => text[at[j - 1] + 1] = c
      /\ text[at[m]] = c
      /\ at[m] < n => text[at[m] + 1] # c
  BY <1>1 DEF QuotedAt
<1>4. PICK scan : ReadsQuoted(scan, text, c) /\ \A k \in 1..n : ReadQuoted(text, k, c) = scan[k + 1]
  BY <1>1, QuotedIsScanned
<1>5. \A k \in 1..(n + 1) :
        scan[k] = IF k > n THEN [text |-> <<>>, next |-> n + 2]
                  ELSE IF text[k] # c THEN ReadFirst(text[k], scan[k + 1])
                  ELSE IF k < n /\ text[k + 1] = c THEN ReadFirst(c, scan[k + 2])
                  ELSE [text |-> <<>>, next |-> k + 1]
  BY <1>1, <1>4 DEF ReadsQuoted
<1>6. PICK T : T = {p \in 1..(m + 1) : scan[at[p - 1]] = [text |-> Rest(name, p - 1), next |-> end]}
  OBVIOUS
<1>7. m + 1 \in T
  <2>1. PICK k : k = at[m]
    OBVIOUS
  <2>2. k \in 1..n /\ text[k] = c /\ ~ (k < n /\ text[k + 1] = c) /\ end = k + 1
    <3>1. m \in 0..m
      BY <1>2
    <3> QED BY <1>1, <1>3, <2>1, <3>1
  <2>3. scan[k] = [text |-> <<>>, next |-> end]
    <3>1. k \in 1..(n + 1) /\ ~ (k > n)
      BY <1>2, <2>2
    <3> QED BY <1>5, <2>2, <3>1, Zenon
  <2>4. Rest(name, m) = <<>>
    BY <1>1, RestIs
  <2>5. m + 1 \in 1..(m + 1) /\ (m + 1) - 1 = m
    BY <1>2
  <2> QED BY <1>6, <2>1, <2>3, <2>4, <2>5
<1>8. ASSUME NEW j \in 1..m, j + 1 \in T
      PROVE  j \in T
  <2>1. PICK k, l, r : k = at[j - 1] /\ l = at[j] /\ r = [text |-> Rest(name, j), next |-> end]
    OBVIOUS
  <2>2. j - 1 \in 0..m /\ j \in 0..m /\ j \in 1..(m + 1) /\ (j + 1) - 1 = j /\ j \in Nat
    BY <1>2
  <2>3. k \in 1..n /\ l \in 1..n /\ l = k + (IF name[j] = c THEN 2 ELSE 1)
        /\ text[k] = name[j] /\ (name[j] = c => text[k + 1] = c)
    BY <1>3, <2>1, <2>2
  <2>4. scan[l] = r
    BY <1>6, <1>8, <2>1, <2>2
  <2>5. k \in 1..(n + 1) /\ ~ (k > n) /\ (name[j] # c => l = k + 1) /\ (name[j] = c => l = k + 2 /\ k < n)
    BY <1>2, <2>3
  <2>6. scan[k] = ReadFirst(name[j], r)
    <3>1. CASE name[j] # c
      BY <1>5, <2>3, <2>4, <2>5, <3>1
    <3>2. CASE name[j] = c
      BY <1>5, <2>3, <2>4, <2>5, <3>2
    <3> QED BY <3>1, <3>2
  <2>7. <<name[j]>> \o Rest(name, j) = Rest(name, j - 1)
    BY <1>1, RestIs
  <2>8. ReadFirst(name[j], r) = [text |-> Rest(name, j - 1), next |-> end]
    <3>1. PICK u, v, x : u = Rest(name, j) /\ v = Rest(name, j - 1) /\ x = <<name[j]>> \o u
      OBVIOUS
    <3>2. x = v
      BY <2>7, <3>1, Zenon
    <3>3. r = [text |-> u, next |-> end]
      BY <2>1, <3>1
    <3>4. ReadFirst(name[j], r) = [text |-> x, next |-> end]
      <4>1. r.text = u /\ [r EXCEPT !.text = x] = [text |-> x, next |-> end]
        BY <3>3
      <4>2. ReadFirst(name[j], r) = [r EXCEPT !.text = x]
        BY <3>1, <4>1, Zenon DEF ReadFirst
      <4> QED BY <4>1, <4>2
    <3> QED BY <3>1, <3>2, <3>4
  <2> QED BY <1>6, <2>1, <2>2, <2>6, <2>8
<1>9. 1 \in T
  <2>1. \A j \in 1..m : (\A p \in (j + 1)..(m + 1) : p \in T) => j \in T
    <3>1. \A j \in 1..m : j + 1 \in (j + 1)..(m + 1)
      BY <1>2
    <3> QED BY <1>8, <3>1
  <2>2. 1..(m + 1) \subseteq T
    BY <1>2, <1>7, <2>1, FromTheEnd
  <2>3. 1 \in 1..(m + 1)
    BY <1>2
  <2> QED BY <2>2, <2>3
<1>10. scan[i + 1] = [text |-> name, next |-> end]
  <2>1. Rest(name, 0) = name /\ 1 - 1 = 0
    BY RestIs
  <2> QED BY <1>2, <1>6, <1>9, <2>1
<1> QED BY <1>1, <1>2, <1>4, <1>10

\* In a text the quoted name begins at i.
QuotedFrom(text, i, name, c) ==
  LET q == Doubled(name, c)
  IN  /\ i \in 1..Len(text) /\ i + Len(q) + 1 <= Len(text)
      /\ text[i] = c /\ text[i + Len(q) + 1] = c
      /\ \A k \in 1..Len(q) : text[i + k] = q[k]
      /\ i + Len(q) + 1 < Len(text) => text[i + Len(q) + 2] # c

\* Wherever it is, what was quoted is read.
LEMMA QuotedIsReadBack ==
  ASSUME NEW S, NEW c \in S, NEW text \in Seq(S), NEW name \in Seq(S), NEW i,
         QuotedFrom(text, i, name, c)
  PROVE  /\ Doubled(name, c) \in Seq(S)
         /\ ReadQuoted(text, i, c) = [text |-> name, next |-> i + Len(Doubled(name, c)) + 2]
<1>1. PICK n, m, q, l, g : n = Len(text) /\ m = Len(name) /\ q = Doubled(name, c) /\ l = Len(q)
                           /\ g = Twice(S, c)
  OBVIOUS
<1>2. /\ g \in SeqMaps(S, S)
      /\ \A x \in S : Len(g[x]) = (IF x = c THEN 2 ELSE 1) /\ g[x][1] = x
      /\ g[c][2] = c /\ q = Spread(g, name)
  <2>1. /\ Twice(S, c) \in SeqMaps(S, S)
        /\ \A x \in S : Len(Twice(S, c)[x]) = (IF x = c THEN 2 ELSE 1) /\ Twice(S, c)[x][1] = x
        /\ Twice(S, c)[c][2] = c
        /\ \A t \in Seq(S) : Doubled(t, c) = Spread(Twice(S, c), t)
    BY TwiceMaps
  <2>2. q = Spread(g, name)
    BY <1>1, <2>1, Zenon
  <2> QED BY <1>1, <2>1, <2>2
<1>3. q \in Seq(S)
  BY <1>2, SpreadTyped
<1>4. n \in Nat /\ m \in Nat /\ l \in Nat /\ \A j \in 1..m : name[j] \in S
  BY <1>1, <1>3
<1>5. /\ i \in 1..n /\ i + l + 1 <= n /\ text[i] = c /\ text[i + l + 1] = c
      /\ \A k \in 1..l : text[i + k] = q[k]
      /\ i + l + 1 < n => text[i + l + 2] # c
  BY <1>1 DEF QuotedFrom
<1>6. PICK d : SpreadAt(d, g, name)
  BY <1>2, SpreadPlaces
<1>7. /\ d \in [0..m -> 0..l] /\ d[0] = 0 /\ d[m] = l
      /\ \A j \in 1..m : /\ d[j] = d[j - 1] + Len(g[name[j]])
                         /\ \A k \in 1..Len(g[name[j]]) : q[d[j - 1] + k] = g[name[j]][k]
  <2>1. q = Spread(g, name) /\ Len(name) = m /\ Len(Spread(g, name)) = l
    BY <1>1, <1>2
  <2>2. /\ d \in [0..Len(name) -> 0..Len(Spread(g, name))] /\ d[0] = 0
        /\ d[Len(name)] = Len(Spread(g, name))
        /\ \A j \in 1..Len(name) :
             /\ d[j] = d[j - 1] + Len(g[name[j]])
             /\ \A k \in 1..Len(g[name[j]]) : Spread(g, name)[d[j - 1] + k] = g[name[j]][k]
    BY <1>6, Zenon DEF SpreadAt
  <2> QED BY <2>1, <2>2, Zenon
<1>8. PICK at : at = [j \in 0..m |-> i + d[j] + 1]
  OBVIOUS
<1>9. at \in [0..m -> 1..n] /\ at[0] = i + 1 /\ at[m] = i + l + 1
  <2>1. \A j \in 0..m : d[j] \in 0..l
    BY <1>7
  <2>2. \A x \in 0..l : i + x + 1 \in 1..n
    BY <1>4, <1>5
  <2>3. 0 \in 0..m /\ m \in 0..m /\ i + 0 + 1 = i + 1
    BY <1>4, <1>5
  <2> QED BY <1>7, <1>8, <2>1, <2>2, <2>3
<1>10. ASSUME NEW j \in 1..m
       PROVE  /\ at[j] = at[j - 1] + (IF name[j] = c THEN 2 ELSE 1)
              /\ text[at[j - 1]] = name[j]
              /\ name[j] = c => text[at[j - 1] + 1] = c
  <2>1. j \in 0..m /\ j - 1 \in 0..m /\ name[j] \in S
    BY <1>4
  <2>2. PICK x, a, b : x = name[j] /\ a = d[j - 1] /\ b = d[j]
    OBVIOUS
  <2>3. a \in 0..l /\ b \in 0..l /\ x \in S
    BY <1>7, <2>1, <2>2
  <2>4. b = a + (IF x = c THEN 2 ELSE 1) /\ q[a + 1] = x /\ (x = c => q[a + 2] = c)
    <3>1. b = a + Len(g[x]) /\ \A k \in 1..Len(g[x]) : q[a + k] = g[x][k]
      BY <1>7, <2>2
    <3>2. Len(g[x]) = (IF x = c THEN 2 ELSE 1) /\ g[x][1] = x /\ (x = c => g[x][2] = c)
      BY <1>2, <2>3
    <3>3. 1 \in 1..Len(g[x]) /\ (x = c => 2 \in 1..Len(g[x]))
      BY <3>2
    <3> QED BY <3>1, <3>2, <3>3
  <2>5. at[j] = i + b + 1 /\ at[j - 1] = i + a + 1
    BY <1>8, <2>1, <2>2
  <2>6. text[i + (a + 1)] = x /\ (x = c => text[i + (a + 2)] = c)
    <3>1. a + 1 \in 1..l /\ (x = c => a + 2 \in 1..l)
      BY <1>4, <2>3, <2>4
    <3> QED BY <1>5, <2>4, <3>1
  <2>7. i + (a + 1) = i + a + 1 /\ i + (a + 2) = (i + a + 1) + 1
        /\ i + (a + 1) + 1 = (i + a + 1) + 1 /\ i + (a + 2) + 1 = (i + a + 1) + 2
    BY <1>4, <1>5, <2>3
  <2> QED BY <2>2, <2>4, <2>5, <2>6, <2>7
<1>11. QuotedAt(text, name, c, at)
  <2>1. (i + l + 1) + 1 = i + l + 2
    BY <1>4, <1>5
  <2> QED BY <1>1, <1>5, <1>9, <1>10, <2>1 DEF QuotedAt
<1>12. ReadQuoted(text, i, c) = [text |-> name, next |-> at[m] + 1]
  BY <1>1, <1>5, <1>9, <1>11, QuotedIsRead
<1>13. at[m] + 1 = i + l + 2
  BY <1>4, <1>5, <1>9
<1> QED BY <1>1, <1>3, <1>12, <1>13

\* Quoting makes a text twice as long at most.
LEMMA DoubledLength ==
  ASSUME NEW S, NEW c \in S, NEW name \in Seq(S)
  PROVE  Doubled(name, c) \in Seq(S) /\ Len(Doubled(name, c)) <= 2 * Len(name)
<1>1. PICK m, q, g : m = Len(name) /\ q = Doubled(name, c) /\ g = Twice(S, c)
  OBVIOUS
<1>2. /\ g \in SeqMaps(S, S) /\ q = Spread(g, name)
      /\ \A x \in S : Len(g[x]) = (IF x = c THEN 2 ELSE 1)
  <2>1. /\ Twice(S, c) \in SeqMaps(S, S)
        /\ \A x \in S : Len(Twice(S, c)[x]) = (IF x = c THEN 2 ELSE 1)
        /\ \A t \in Seq(S) : Doubled(t, c) = Spread(Twice(S, c), t)
    BY TwiceMaps
  <2>2. q = Spread(g, name)
    BY <1>1, <2>1, Zenon
  <2> QED BY <1>1, <2>1, <2>2
<1>3. q \in Seq(S) /\ m \in Nat /\ \A j \in 1..m : name[j] \in S
  BY <1>1, <1>2, SpreadTyped
<1>4. PICK d : SpreadAt(d, g, name)
  BY <1>2, SpreadPlaces
<1>5. /\ d \in [0..m -> 0..Len(q)] /\ d[0] = 0 /\ d[m] = Len(q)
      /\ \A j \in 1..m : d[j] = d[j - 1] + Len(g[name[j]])
  BY <1>1, <1>2, <1>4 DEF SpreadAt
<1>6. PICK T : T = {j \in 0..m : d[j] <= 2 * j}
  OBVIOUS
<1>7. 0 \in T
  BY <1>3, <1>5, <1>6
<1>8. ASSUME NEW j \in 1..m, j - 1 \in T
      PROVE  j \in T
  <2>1. PICK a, b : a = d[j - 1] /\ b = d[j]
    OBVIOUS
  <2>2. j \in 0..m /\ j - 1 \in 0..m /\ j \in Int /\ Len(q) \in Nat
    BY <1>3
  <2>3. a \in 0..Len(q) /\ b \in 0..Len(q) /\ a <= 2 * (j - 1)
    BY <1>5, <1>6, <1>8, <2>1, <2>2
  <2>4. b = a + Len(g[name[j]]) /\ Len(g[name[j]]) \in {1, 2}
    BY <1>2, <1>3, <1>5, <2>1
  <2>5. b <= 2 * j
    <3>1. PICK e, l : e = Len(g[name[j]]) /\ l = Len(q)
      OBVIOUS
    <3>2. e \in {1, 2} /\ b = a + e
      BY <2>4, <3>1
    <3>3. a \in Int /\ b \in Int /\ a <= 2 * j - 2
      BY <2>2, <2>3
    <3> QED BY <2>2, <3>2, <3>3
  <2> QED BY <1>6, <2>1, <2>2, <2>5
<1>9. m \in T
  <2>1. 0..m \subseteq T
    BY <1>3, <1>7, <1>8, ByPositions
  <2> QED BY <1>3, <2>1
<1>10. Len(q) <= 2 * m
  BY <1>5, <1>6, <1>9
<1> QED BY <1>1, <1>3, <1>10

\* A text in quotes.
InQuotes(c, text) == <<c>> \o text \o <<c>>

\* It is a text again, two characters longer.
LEMMA InQuotesIs ==
  ASSUME NEW S, NEW c \in S, NEW text \in Seq(S)
  PROVE  /\ InQuotes(c, text) \in Seq(S) /\ Len(InQuotes(c, text)) = Len(text) + 2
         /\ InQuotes(c, text)[1] = c /\ InQuotes(c, text)[Len(text) + 2] = c
         /\ \A k \in 1..Len(text) : InQuotes(c, text)[k + 1] = text[k]
<1>1. PICK n, u, v, w : n = Len(text) /\ u = <<c>> /\ v = u \o text /\ w = v \o u
  OBVIOUS
<1>2. n \in Nat /\ u \in Seq(S) /\ Len(u) = 1 /\ u[1] = c
  BY <1>1
<1>3. /\ v \in Seq(S) /\ Len(v) = n + 1
      /\ \A k \in 1..(n + 1) : v[k] = IF k <= 1 THEN u[k] ELSE text[k - 1]
  <2>1. /\ u \o text \in Seq(S) /\ Len(u \o text) = Len(u) + Len(text)
        /\ \A k \in 1..(Len(u) + Len(text)) : (u \o text)[k] = IF k <= Len(u) THEN u[k] ELSE text[k - Len(u)]
    BY <1>2, ConcatProperties
  <2>2. 1 + n = n + 1
    BY <1>2
  <2> QED BY <1>1, <1>2, <2>1, <2>2
<1>4. /\ w \in Seq(S) /\ Len(w) = n + 2
      /\ \A k \in 1..(n + 2) : w[k] = IF k <= n + 1 THEN v[k] ELSE u[k - (n + 1)]
  <2>1. /\ v \o u \in Seq(S) /\ Len(v \o u) = Len(v) + Len(u)
        /\ \A k \in 1..(Len(v) + Len(u)) : (v \o u)[k] = IF k <= Len(v) THEN v[k] ELSE u[k - Len(v)]
    BY <1>2, <1>3, ConcatProperties
  <2>2. n + 1 + 1 = n + 2
    BY <1>2
  <2> QED BY <1>1, <1>2, <1>3, <2>1, <2>2
<1>5. w[1] = c /\ w[n + 2] = c
  <2>1. 1 \in 1..(n + 2) /\ 1 <= n + 1 /\ 1 \in 1..(n + 1) /\ n + 2 \in 1..(n + 2)
        /\ ~ (n + 2 <= n + 1) /\ (n + 2) - (n + 1) = 1
    BY <1>2
  <2> QED BY <1>2, <1>3, <1>4, <2>1
<1>6. \A k \in 1..n : w[k + 1] = text[k]
  <2>1. \A k \in 1..n : k + 1 \in 1..(n + 2) /\ k + 1 <= n + 1 /\ k + 1 \in 1..(n + 1)
                        /\ ~ (k + 1 <= 1) /\ (k + 1) - 1 = k
    BY <1>2
  <2> QED BY <1>3, <1>4, <2>1
<1>7. w = InQuotes(c, text)
  BY <1>1 DEF InQuotes
<1> QED BY <1>1, <1>4, <1>5, <1>6, <1>7

\* A text that was quoted by itself.
LEMMA QuotedAlone ==
  ASSUME NEW S, NEW c \in S, NEW name \in Seq(S)
  PROVE  QuotedFrom(InQuotes(c, Doubled(name, c)), 1, name, c)
<1>1. PICK q, w, l : q = Doubled(name, c) /\ w = InQuotes(c, q) /\ l = Len(q)
  OBVIOUS
<1>2. q \in Seq(S) /\ l \in Nat
  <2>1. q \in Seq(S)
    BY <1>1, DoubledLength
  <2> QED BY <1>1, <2>1
<1>3. /\ Len(w) = l + 2 /\ w[1] = c /\ w[l + 2] = c
      /\ \A k \in 1..l : w[k + 1] = q[k]
  <2>1. /\ Len(InQuotes(c, q)) = Len(q) + 2 /\ InQuotes(c, q)[1] = c /\ InQuotes(c, q)[Len(q) + 2] = c
        /\ \A k \in 1..Len(q) : InQuotes(c, q)[k + 1] = q[k]
    BY <1>2, InQuotesIs
  <2> QED BY <1>1, <2>1
<1>4. QuotedFrom(w, 1, name, c)
  <2>1. 1 \in 1..(l + 2) /\ 1 + l + 1 <= l + 2 /\ 1 + l + 1 = l + 2 /\ ~ (1 + l + 1 < l + 2)
        /\ \A k \in 1..l : 1 + k = k + 1
    BY <1>2
  <2> QED BY <1>1, <1>3, <2>1 DEF QuotedFrom
<1> QED BY <1>1, <1>4

\* quote(): whatever a value holds, the server reads it as what it was, and it fits its
\* buffer, the final zero included (connection.hxx:1253); null is no text.
THEOREM EveryValueIsQuoted ==
  ASSUME NEW S, Apostrophe \in S, NEW text \in Seq(S)
  PROVE  /\ ServerLiteral(QuoteValue(FALSE, text)) = {text}
         /\ Len(QuoteValue(FALSE, text)) < QuoteBuffer(text)
         /\ ServerLiteral(QuoteValue(TRUE, text)) = {}
<1>1. PICK c, q, w, l : c = Apostrophe /\ q = Doubled(text, c) /\ w = InQuotes(c, q) /\ l = Len(q)
  OBVIOUS
<1>2. c \in S /\ q \in Seq(S) /\ l <= 2 * Len(text) /\ Len(text) \in Nat /\ l \in Nat
  <2>1. c \in S
    BY <1>1
  <2>2. q \in Seq(S) /\ l <= 2 * Len(text)
    BY <1>1, <2>1, DoubledLength
  <2> QED BY <1>1, <2>1, <2>2
<1>3. /\ w \in Seq(S) /\ Len(w) = l + 2 /\ w[1] = c /\ w[l + 2] = c
      /\ \A k \in 1..l : w[k + 1] = q[k]
  <2>1. /\ InQuotes(c, q) \in Seq(S) /\ Len(InQuotes(c, q)) = Len(q) + 2
        /\ InQuotes(c, q)[1] = c /\ InQuotes(c, q)[Len(q) + 2] = c
        /\ \A k \in 1..Len(q) : InQuotes(c, q)[k + 1] = q[k]
    BY <1>2, InQuotesIs
  <2> QED BY <1>1, <2>1
<1>4. QuotedFrom(w, 1, text, c)
  BY <1>1, <1>2, QuotedAlone
<1>5. ReadQuoted(w, 1, c) = [text |-> text, next |-> 1 + l + 2]
  BY <1>1, <1>2, <1>3, <1>4, QuotedIsReadBack
<1>6. ServerLiteral(w) = {text}
  <2>1. 1 + l + 2 = (l + 2) + 1
    BY <1>2
  <2> QED BY <1>1, <1>3, <1>5, <2>1 DEF ServerLiteral
<1>7. QuoteValue(FALSE, text) = w
  BY <1>1 DEF QuoteValue, EscapeString, InQuotes
<1>8. ServerLiteral(QuoteValue(TRUE, text)) = {}
  <2>1. QuoteValue(TRUE, text)[1] # Apostrophe
    BY DEF QuoteValue, Apostrophe
  <2> QED BY <2>1 DEF ServerLiteral
<1>9. Len(w) < QuoteBuffer(text)
  BY <1>2, <1>3 DEF QuoteBuffer
<1> QED BY <1>6, <1>7, <1>8, <1>9

\* A list's items, as the texts they come from.
ItemsOf(texts) == [i \in DOMAIN texts |-> Item(texts[i])]

\* What a list is, up to each of its texts.
Between(sep, j) == IF j = 1 THEN <<>> ELSE sep
Joins(x, S, sep, texts) ==
  /\ x \in [0..Len(texts) -> Seq(S)] /\ x[0] = <<>>
  /\ \A j \in 1..Len(texts) : x[j] = x[j - 1] \o Between(sep, j) \o texts[j]

\* There is such a list.
LEMMA ThereIsAList ==
  ASSUME NEW S, NEW sep \in Seq(S), NEW texts \in Seq(Seq(S))
  PROVE  \E x : Joins(x, S, sep, texts)
<1>1. PICK n, none, step : n = Len(texts) /\ none = <<>>
                           /\ step = [j \in 1..n |-> [h \in Seq(S) |-> h \o Between(sep, j) \o texts[j]]]
  OBVIOUS
<1>2. n \in Nat /\ none \in Seq(S)
  BY <1>1
<1>3. step \in [1..n -> [Seq(S) -> Seq(S)]]
  <2>1. ASSUME NEW j \in 1..n, NEW h \in Seq(S)
        PROVE  h \o Between(sep, j) \o texts[j] \in Seq(S)
    <3>1. Between(sep, j) \in Seq(S) /\ texts[j] \in Seq(S)
      BY <1>1 DEF Between
    <3>2. h \o Between(sep, j) \in Seq(S)
      BY <3>1, ConcatProperties
    <3> QED BY <3>1, <3>2, ConcatProperties
  <2> QED BY <1>1, <2>1
<1>4. PICK x \in [0..n -> Seq(S)] : Passes(x, n, none, step)
  BY <1>2, <1>3, Passing
<1>5. Joins(x, S, sep, texts)
  <2>1. \A j \in 1..n : x[j] = step[j][x[j - 1]] /\ x[j - 1] \in Seq(S)
    <3>1. \A j \in 1..n : j - 1 \in 0..n
      BY <1>2
    <3> QED BY <1>4, <3>1 DEF Passes
  <2>2. \A j \in 1..n : x[j] = x[j - 1] \o Between(sep, j) \o texts[j]
    BY <1>1, <2>1
  <2> QED BY <1>1, <1>4, <2>2 DEF Joins, Passes
<1> QED BY <1>1, <1>4, <1>5

\* The room that has been asked for up to each text.
Rooms(b, sep, texts) ==
  /\ b \in [0..Len(texts) -> Nat] /\ b[0] = 0
  /\ \A j \in 1..Len(texts) : b[j] = b[j - 1] + (Len(texts[j]) + 1) + Len(sep)

\* The budget is what has been asked for in the end (separated_list.hxx:56).
LEMMA BudgetIs ==
  ASSUME NEW S, NEW sep \in Seq(S), NEW texts \in Seq(Seq(S))
  PROVE  \E b : Rooms(b, sep, texts) /\ Budget(sep, ItemsOf(texts)) = b[Len(texts)]
<1> DEFINE upTo[i \in 0..Len(ItemsOf(texts))] ==
             IF i = 0 THEN 0 ELSE upTo[i - 1] + ItemsOf(texts)[i].room + Len(sep)
<1>1. PICK n, step : n = Len(texts)
                     /\ step = [j \in 1..n |-> [h \in Nat |-> h + (Len(texts[j]) + 1) + Len(sep)]]
  OBVIOUS
<1>2. n \in Nat /\ DOMAIN texts = 1..n /\ \A j \in 1..n : Len(texts[j]) \in Nat
  BY <1>1
<1>3. Len(ItemsOf(texts)) = n /\ \A j \in 1..n : ItemsOf(texts)[j].room = Len(texts[j]) + 1
  <2>1. ItemsOf(texts) = [j \in 1..n |-> Item(texts[j])]
    BY <1>2 DEF ItemsOf
  <2>2. \A j \in 1..n : ItemsOf(texts)[j] = Item(texts[j]) /\ Item(texts[j]).room = Len(texts[j]) + 1
    BY <2>1 DEF Item
  <2> QED BY <1>2, <2>1, <2>2
<1>4. Len(sep) \in Nat
  OBVIOUS
<1>5. step \in [1..n -> [Nat -> Nat]]
  BY <1>1, <1>2, <1>4
<1>6. PICK b \in [0..n -> Nat] : Passes(b, n, 0, step)
  <2> HIDE DEF upTo
  <2> QED BY <1>2, <1>5, Passing
<1>7. b[0] = 0 /\ \A j \in 1..n : b[j] = b[j - 1] + (Len(texts[j]) + 1) + Len(sep)
  <2> HIDE DEF upTo
  <2>1. \A j \in 1..n : b[j] = step[j][b[j - 1]] /\ b[j - 1] \in Nat
    <3>1. \A j \in 1..n : j - 1 \in 0..n
      BY <1>2
    <3> QED BY <1>6, <3>1 DEF Passes
  <2> QED BY <1>1, <1>6, <2>1 DEF Passes
<1>8. b = [i \in 0..Len(ItemsOf(texts)) |->
            IF i = 0 THEN 0 ELSE b[i - 1] + ItemsOf(texts)[i].room + Len(sep)]
  <2> HIDE DEF upTo
  <2>1. \A i \in 0..n : b[i] = IF i = 0 THEN 0 ELSE b[i - 1] + ItemsOf(texts)[i].room + Len(sep)
    <3>1. \A i \in 0..n : i # 0 => i \in 1..n
      BY <1>2
    <3> QED BY <1>3, <1>7, <3>1
  <2> QED BY <1>3, <1>6, <2>1
<1>9. upTo = [i \in 0..Len(ItemsOf(texts)) |->
               IF i = 0 THEN 0 ELSE upTo[i - 1] + ItemsOf(texts)[i].room + Len(sep)]
  BY <1>8, Zenon
<1>10. Budget(sep, ItemsOf(texts)) = upTo[Len(ItemsOf(texts))]
  BY DEF Budget
<1> HIDE DEF upTo
<1>11. \A i \in 0..n : upTo[i] = IF i = 0 THEN 0 ELSE upTo[i - 1] + ItemsOf(texts)[i].room + Len(sep)
  BY <1>3, <1>9
<1>12. PICK T : T = {i \in 0..n : upTo[i] = b[i]}
  OBVIOUS
<1>13. 0 \in T
  BY <1>2, <1>7, <1>11, <1>12
<1>14. ASSUME NEW i \in 1..n, i - 1 \in T
       PROVE  i \in T
  <2>1. i \in 0..n /\ i # 0
    BY <1>2
  <2>2. upTo[i] = upTo[i - 1] + ItemsOf(texts)[i].room + Len(sep) /\ upTo[i - 1] = b[i - 1]
    BY <1>11, <1>12, <1>14, <2>1
  <2>3. upTo[i] = b[i]
    BY <1>3, <1>7, <2>2
  <2> QED BY <1>12, <2>1, <2>3
<1>15. upTo[n] = b[n]
  <2>1. 0..n \subseteq T
    BY <1>2, <1>13, <1>14, ByPositions
  <2> QED BY <1>2, <1>12, <2>1
<1>16. Rooms(b, sep, texts)
  BY <1>1, <1>6, <1>7 DEF Rooms
<1> QED BY <1>1, <1>3, <1>10, <1>15, <1>16

\* Each text finds room, with a zero behind it (separated_list.hxx:44).
LEMMA RoomForEach ==
  ASSUME NEW S, NEW sep \in Seq(S), NEW texts \in Seq(Seq(S)),
         NEW x, Joins(x, S, sep, texts), NEW b, Rooms(b, sep, texts)
  PROVE  \A i \in 1..Len(texts) :
           Len(x[i - 1]) + Len(Between(sep, i)) + Len(texts[i]) + 1 <= b[Len(texts)]
<1>1. PICK n : n = Len(texts)
  OBVIOUS
<1>2. n \in Nat /\ Len(sep) \in Nat /\ \A j \in 1..n : texts[j] \in Seq(S) /\ Len(texts[j]) \in Nat
  BY <1>1
<1>3. x \in [0..n -> Seq(S)] /\ x[0] = <<>> /\ \A j \in 1..n : x[j] = x[j - 1] \o Between(sep, j) \o texts[j]
  BY <1>1 DEF Joins
<1>4. /\ b \in [0..n -> Nat] /\ b[0] = 0
      /\ \A j \in 1..n : b[j] = b[j - 1] + (Len(texts[j]) + 1) + Len(sep)
  BY <1>1 DEF Rooms
<1>5. \A j : Between(sep, j) \in Seq(S) /\ Len(Between(sep, j)) \in Nat /\ Len(Between(sep, j)) <= Len(sep)
  <2>1. <<>> \in Seq(S) /\ Len(<<>>) = 0
    OBVIOUS
  <2> QED BY <1>2, <2>1 DEF Between
<1>6. \A j \in 1..n : j - 1 \in 0..n /\ j \in 0..n
  BY <1>2
<1>7. \A j \in 1..n : Len(x[j]) = Len(x[j - 1]) + Len(Between(sep, j)) + Len(texts[j])
  <2> TAKE j \in 1..n
  <2>1. PICK u, v, w, t : u = x[j - 1] /\ v = Between(sep, j) /\ w = u \o v /\ t = texts[j]
    OBVIOUS
  <2>2. u \in Seq(S) /\ v \in Seq(S) /\ t \in Seq(S)
    BY <1>2, <1>3, <1>5, <1>6, <2>1
  <2>3. w \in Seq(S) /\ Len(w) = Len(u) + Len(v)
    BY <2>1, <2>2, ConcatProperties
  <2>4. Len(w \o t) = Len(w) + Len(t)
    BY <2>2, <2>3, ConcatProperties
  <2>5. x[j] = w \o t
    BY <1>3, <2>1
  <2> QED BY <2>1, <2>3, <2>4, <2>5
<1>8. PICK T : T = {j \in 0..n : Len(x[j]) <= b[j] /\ \A i \in 0..j : b[i] <= b[j]}
  OBVIOUS
<1>9. 0 \in T
  <2>1. Len(x[0]) = 0 /\ 0 \in 0..n /\ \A i \in 0..0 : i = 0
    BY <1>2, <1>3
  <2> QED BY <1>4, <1>8, <2>1
<1>10. ASSUME NEW j \in 1..n, j - 1 \in T
       PROVE  j \in T /\ Len(x[j - 1]) + Len(Between(sep, j)) + Len(texts[j]) + 1 <= b[j]
  <2>1. PICK l, k, t, s, a, c : l = Len(x[j - 1]) /\ k = Len(Between(sep, j)) /\ t = Len(texts[j])
                                /\ s = Len(sep) /\ a = b[j - 1] /\ c = b[j]
    OBVIOUS
  <2>2. l \in Nat /\ k \in Nat /\ t \in Nat /\ s \in Nat /\ a \in Nat /\ c \in Nat /\ k <= s
    <3>1. x[j - 1] \in Seq(S) /\ j - 1 \in 0..n /\ j \in 0..n
      BY <1>3, <1>6
    <3>2. l \in Nat /\ t \in Nat /\ s \in Nat
      BY <1>2, <2>1, <3>1
    <3>3. k \in Nat /\ k <= s
      BY <1>5, <2>1
    <3>4. a \in Nat /\ c \in Nat
      BY <1>4, <2>1, <3>1
    <3> QED BY <3>2, <3>3, <3>4
  <2>3. l <= a /\ c = a + (t + 1) + s /\ Len(x[j]) = l + k + t
    BY <1>4, <1>7, <1>8, <1>10, <2>1
  <2>4. l + k + t + 1 <= c /\ l + k + t <= c /\ a <= c
    BY <2>2, <2>3
  <2>5. \A i \in 0..j : b[i] <= b[j]
    <3>1. \A i \in 0..j : i = j \/ i \in 0..(j - 1)
      OBVIOUS
    <3>2. \A i \in 0..(j - 1) : b[i] <= a /\ b[i] \in Nat
      <4>1. \A i \in 0..(j - 1) : i \in 0..n
        BY <1>2
      <4> QED BY <1>4, <1>8, <1>10, <2>1, <4>1
    <3>3. \A i \in 0..(j - 1) : b[i] <= c
      BY <2>2, <2>4, <3>2
    <3> QED BY <2>1, <2>2, <3>1, <3>3
  <2>6. j \in T
    BY <1>6, <1>8, <2>1, <2>3, <2>4, <2>5
  <2> QED BY <2>1, <2>4, <2>6
<1>11. \A j \in 0..n : j \in T
  <2>1. 0..n \subseteq T
    BY <1>2, <1>9, <1>10, ByPositions
  <2> QED BY <2>1
<1>12. ASSUME NEW i \in 1..n
       PROVE  Len(x[i - 1]) + Len(Between(sep, i)) + Len(texts[i]) + 1 <= b[n]
  <2>1. PICK r, l, k, t, e, d : /\ l = Len(x[i - 1]) /\ k = Len(Between(sep, i)) /\ t = Len(texts[i])
                                 /\ r = l + k + t + 1 /\ e = b[i] /\ d = b[n]
    OBVIOUS
  <2>2. r \in Nat
    <3>1. x[i - 1] \in Seq(S)
      BY <1>3, <1>6
    <3>2. l \in Nat /\ t \in Nat
      BY <1>2, <2>1, <3>1
    <3>3. k \in Nat
      BY <1>5, <2>1
    <3>4. r = l + k + t + 1
      BY <2>1
    <3> QED BY <3>2, <3>3, <3>4
  <2>3. r <= e /\ e <= d /\ e \in Nat /\ d \in Nat
    <3>1. n \in T /\ i \in 0..n /\ i - 1 \in T /\ n \in 0..n
      BY <1>2, <1>6, <1>11
    <3>2. r <= e
      BY <1>10, <2>1, <3>1
    <3> QED BY <1>4, <1>8, <2>1, <3>1, <3>2
  <2>4. r <= d
    BY <2>2, <2>3
  <2> QED BY <2>1, <2>4
<1> QED BY <1>1, <1>12

\* In the room of b a list is written as x.
IsWritten(x, b, sep, texts) ==
  Written(sep, ItemsOf(texts), b[Len(texts)]) = {x[Len(texts)]}

\* A list is written, and is its texts with the separator between them.
LEMMA ListIsWritten ==
  ASSUME NEW S, NEW sep \in Seq(S), NEW texts \in Seq(Seq(S)),
         NEW x, Joins(x, S, sep, texts), NEW b, Rooms(b, sep, texts)
  PROVE  IsWritten(x, b, sep, texts)
<1> DEFINE upTo[i \in 0..Len(ItemsOf(texts))] ==
             IF i = 0 THEN {<<>>}
             ELSE {here \o (IF i = 1 THEN <<>> ELSE sep) \o ItemsOf(texts)[i].text :
                     here \in {h \in upTo[i - 1] :
                                 Len(h) + (IF i = 1 THEN 0 ELSE Len(sep)) + Len(ItemsOf(texts)[i].text) + 1
                                   <= b[Len(texts)]}}
<1>1. PICK n, f : n = Len(texts) /\ f = [i \in 0..n |-> {x[i]}]
  OBVIOUS
<1>2. n \in Nat /\ DOMAIN texts = 1..n
  BY <1>1
<1>3. Len(ItemsOf(texts)) = n /\ \A j \in 1..n : ItemsOf(texts)[j].text = texts[j]
  <2>1. ItemsOf(texts) = [j \in 1..n |-> Item(texts[j])]
    BY <1>2 DEF ItemsOf
  <2>2. \A j \in 1..n : ItemsOf(texts)[j] = Item(texts[j]) /\ Item(texts[j]).text = texts[j]
    BY <2>1 DEF Item
  <2> QED BY <1>2, <2>1, <2>2
<1>4. x[0] = <<>> /\ \A j \in 1..n : x[j] = x[j - 1] \o (IF j = 1 THEN <<>> ELSE sep) \o texts[j]
  BY <1>1 DEF Joins, Between
<1>5. \A j \in 1..n : Len(x[j - 1]) + (IF j = 1 THEN 0 ELSE Len(sep)) + Len(texts[j]) + 1 <= b[n]
  <2>1. \A j : Len(Between(sep, j)) = IF j = 1 THEN 0 ELSE Len(sep)
    <3>1. Len(<<>>) = 0
      OBVIOUS
    <3> QED BY <3>1 DEF Between
  <2>2. \A j \in 1..n : Len(x[j - 1]) + Len(Between(sep, j)) + Len(texts[j]) + 1 <= b[n]
    BY <1>1, RoomForEach
  <2> QED BY <2>1, <2>2
<1>6. ASSUME NEW i \in 1..n
      PROVE  f[i] = {here \o (IF i = 1 THEN <<>> ELSE sep) \o ItemsOf(texts)[i].text :
                       here \in {h \in f[i - 1] :
                                   Len(h) + (IF i = 1 THEN 0 ELSE Len(sep)) + Len(ItemsOf(texts)[i].text) + 1
                                     <= b[Len(texts)]}}
  <2> HIDE DEF upTo
  <2>1. PICK t, y, z, k, s : t = ItemsOf(texts)[i].text /\ y = x[i - 1] /\ z = x[i]
                             /\ k = (IF i = 1 THEN 0 ELSE Len(sep)) /\ s = (IF i = 1 THEN <<>> ELSE sep)
    OBVIOUS
  <2>2. i \in 0..n /\ i - 1 \in 0..n
    BY <1>2
  <2>3. f[i] = {z} /\ f[i - 1] = {y} /\ z = y \o s \o t /\ Len(y) + k + Len(t) + 1 <= b[Len(texts)]
    BY <1>1, <1>3, <1>4, <1>5, <2>1, <2>2
  <2>4. {h \in {y} : Len(h) + k + Len(t) + 1 <= b[Len(texts)]} = {y}
    BY <2>3
  <2>5. {here \o s \o t : here \in {y}} = {z}
    BY <2>3
  <2> QED BY <2>1, <2>3, <2>4, <2>5
<1>7. f = [i \in 0..Len(ItemsOf(texts)) |->
             IF i = 0 THEN {<<>>}
             ELSE {here \o (IF i = 1 THEN <<>> ELSE sep) \o ItemsOf(texts)[i].text :
                     here \in {h \in f[i - 1] :
                                 Len(h) + (IF i = 1 THEN 0 ELSE Len(sep)) + Len(ItemsOf(texts)[i].text) + 1
                                   <= b[Len(texts)]}}]
  <2> HIDE DEF upTo
  <2>1. \A i \in 0..n : i # 0 => i \in 1..n
    BY <1>2
  <2>2. f[0] = {<<>>} /\ f = [i \in 0..n |-> f[i]]
    BY <1>1, <1>2, <1>4
  <2>3. \A i \in 0..n : f[i] =
             IF i = 0 THEN {<<>>}
             ELSE {here \o (IF i = 1 THEN <<>> ELSE sep) \o ItemsOf(texts)[i].text :
                     here \in {h \in f[i - 1] :
                                 Len(h) + (IF i = 1 THEN 0 ELSE Len(sep)) + Len(ItemsOf(texts)[i].text) + 1
                                   <= b[Len(texts)]}}
    BY <1>6, <2>1, <2>2
  <2> QED BY <1>3, <2>2, <2>3
<1>8. upTo = [i \in 0..Len(ItemsOf(texts)) |->
               IF i = 0 THEN {<<>>}
               ELSE {here \o (IF i = 1 THEN <<>> ELSE sep) \o ItemsOf(texts)[i].text :
                       here \in {h \in upTo[i - 1] :
                                   Len(h) + (IF i = 1 THEN 0 ELSE Len(sep)) + Len(ItemsOf(texts)[i].text) + 1
                                     <= b[Len(texts)]}}]
  BY <1>7, Zenon
<1>9. Written(sep, ItemsOf(texts), b[Len(texts)]) = upTo[Len(ItemsOf(texts))]
  BY DEF Written
<1> HIDE DEF upTo
<1>10. PICK T : T = {i \in 0..n : upTo[i] = f[i]}
  OBVIOUS
<1>11. \A i \in 0..n : upTo[i] =
         IF i = 0 THEN {<<>>}
         ELSE {here \o (IF i = 1 THEN <<>> ELSE sep) \o ItemsOf(texts)[i].text :
                 here \in {h \in upTo[i - 1] :
                             Len(h) + (IF i = 1 THEN 0 ELSE Len(sep)) + Len(ItemsOf(texts)[i].text) + 1
                               <= b[Len(texts)]}}
  BY <1>3, <1>8
<1>12. 0 \in T
  <2>1. 0 \in 0..n /\ upTo[0] = {<<>>} /\ f[0] = {<<>>}
    <3>1. 0 \in 0..n
      BY <1>2
    <3>2. f[0] = {<<>>}
      BY <1>1, <1>4, <3>1
    <3>3. upTo[0] = {<<>>}
      BY <1>11, <3>1, Zenon
    <3> QED BY <3>1, <3>2, <3>3
  <2> QED BY <1>10, <2>1
<1>13. ASSUME NEW i \in 1..n, i - 1 \in T
       PROVE  i \in T
  <2>1. i \in 0..n /\ i # 0
    BY <1>2
  <2>2. upTo[i - 1] = f[i - 1]
    BY <1>10, <1>13
  <2>3. upTo[i] = f[i]
    BY <1>6, <1>11, <2>1, <2>2
  <2> QED BY <1>10, <2>1, <2>3
<1>14. upTo[n] = f[n]
  <2>1. 0..n \subseteq T
    BY <1>2, <1>12, <1>13, ByPositions
  <2> QED BY <1>2, <1>10, <2>1
<1>15. f[n] = {x[n]}
  BY <1>1, <1>2
<1> QED BY <1>1, <1>3, <1>9, <1>14, <1>15 DEF IsWritten

\* separated_list() gives its texts with the separator between them, also when the
\* buffer is the one it asks for (separated_list.hxx:44).
LEMMA SeparatedIs ==
  ASSUME NEW S, NEW sep \in Seq(S), NEW texts \in Seq(Seq(S)),
         NEW x, Joins(x, S, sep, texts)
  PROVE  SeparatedList(sep, ItemsOf(texts)) = {x[Len(texts)]}
<1>1. PICK n, items : n = Len(texts) /\ items = ItemsOf(texts)
  OBVIOUS
<1>2. n \in Nat /\ DOMAIN texts = 1..n /\ x[0] = <<>> /\ \A j \in 1..n : texts[j] \in Seq(S)
  BY <1>1 DEF Joins
<1>3. items = [j \in 1..n |-> Item(texts[j])]
  BY <1>1, <1>2 DEF ItemsOf
<1>4. Len(items) = n /\ \A j \in 1..n : items[j].text = texts[j]
  <2>1. \A j \in 1..n : items[j] = Item(texts[j]) /\ Item(texts[j]).text = texts[j]
    BY <1>3 DEF Item
  <2> QED BY <1>2, <1>3, <2>1
<1>0. items = <<>> <=> n = 0
  <2>1. PICK E : E = [text : Seq(S), room : Nat]
    OBVIOUS
  <2>2. \A j \in 1..n : Item(texts[j]) \in E
    BY <1>2, <2>1 DEF Item
  <2>3. items \in Seq(E)
    <3>1. items \in [1..n -> E]
      BY <1>3, <2>2
    <3> QED BY <1>2, <3>1
  <2> QED BY <1>4, <2>3, EmptySeq
<1>5. CASE n = 0
  <2>1. items = <<>>
    BY <1>0, <1>5
  <2> QED BY <1>1, <1>2, <1>5, <2>1 DEF SeparatedList
<1>6. CASE n = 1
  <2>1. items # <<>>
    BY <1>0, <1>6
  <2>2. x[1] = texts[1]
    <3>1. PICK t, e : t = texts[1] /\ e = <<>>
      OBVIOUS
    <3>2. t \in Seq(S) /\ 1 \in 1..n /\ 1 - 1 = 0
      BY <1>2, <1>6, <3>1
    <3>3. x[1] = x[0] \o Between(sep, 1) \o texts[1] /\ Between(sep, 1) = <<>>
      BY <1>1, <3>2 DEF Joins, Between
    <3>4. e \o e = e /\ e \o t = t
      <4>1. e \in Seq(S)
        BY <3>1
      <4> QED BY <3>1, <3>2, <4>1, ConcatEmptySeq
    <3> QED BY <1>2, <3>1, <3>3, <3>4
  <2>3. SeparatedList(sep, items) = {items[1].text}
    BY <1>4, <1>6, <2>1 DEF SeparatedList
  <2>4. items[1].text = texts[1]
    <3>1. 1 \in 1..n
      BY <1>6
    <3> QED BY <1>4, <3>1
  <2> QED BY <1>1, <1>6, <2>2, <2>3, <2>4
<1>7. CASE n \notin {0, 1}
  <2>1. items # <<>>
    BY <1>0, <1>7
  <2>2. SeparatedList(sep, items) = Written(sep, items, Budget(sep, items))
    BY <1>4, <1>7, <2>1 DEF SeparatedList
  <2>3. PICK b : Rooms(b, sep, texts) /\ Budget(sep, ItemsOf(texts)) = b[Len(texts)]
    BY BudgetIs
  <2>4. Written(sep, ItemsOf(texts), b[Len(texts)]) = {x[Len(texts)]}
    <3>1. Rooms(b, sep, texts)
      BY <2>3
    <3>2. IsWritten(x, b, sep, texts)
      BY <3>1, ListIsWritten
    <3> QED BY <3>2 DEF IsWritten
  <2> QED BY <1>1, <2>2, <2>3, <2>4
<1> QED BY <1>5, <1>6, <1>7

\* What is read in quotes ends behind where it begins.
LEMMA QuotedIsInside ==
  ASSUME NEW S, NEW c \in S, NEW text \in Seq(S), NEW i \in 1..Len(text)
  PROVE  /\ ReadQuoted(text, i, c) \in [text : Seq(S), next : Nat]
         /\ ReadQuoted(text, i, c).next > i
<1>1. PICK n, X : n = Len(text) /\ X = [text : Seq(S), next : Nat]
  OBVIOUS
<1>2. n \in Nat /\ i \in 1..n /\ \A k \in 1..n : text[k] \in S
  BY <1>1
<1>3. PICK scan : ReadsQuoted(scan, text, c) /\ \A k \in 1..n : ReadQuoted(text, k, c) = scan[k + 1]
  BY <1>1, QuotedIsScanned
<1>4. \A k \in 1..(n + 1) :
        scan[k] = IF k > n THEN [text |-> <<>>, next |-> n + 2]
                  ELSE IF text[k] # c THEN ReadFirst(text[k], scan[k + 1])
                  ELSE IF k < n /\ text[k + 1] = c THEN ReadFirst(c, scan[k + 2])
                  ELSE [text |-> <<>>, next |-> k + 1]
  BY <1>1, <1>3 DEF ReadsQuoted
<1>5. PICK T : T = {k \in 1..(n + 1) : scan[k] \in X /\ scan[k].next > k}
  OBVIOUS
<1>6. \A x \in S, r \in X : ReadFirst(x, r) \in X /\ ReadFirst(x, r).next = r.next
  <2> TAKE x \in S, r \in X
  <2>1. PICK t, u : t = r.text /\ u = <<x>> \o t
    OBVIOUS
  <2>2. t \in Seq(S) /\ r \in [text : Seq(S), next : Nat] /\ <<x>> \in Seq(S)
    BY <1>1, <2>1
  <2>3. u \in Seq(S)
    BY <2>1, <2>2, ConcatProperties
  <2>4. [r EXCEPT !.text = u] \in X /\ [r EXCEPT !.text = u].next = r.next
    BY <1>1, <2>2, <2>3
  <2> QED BY <2>1, <2>4 DEF ReadFirst
<1>7. n + 1 \in T
  <2>1. n + 1 \in 1..(n + 1) /\ n + 1 > n /\ n + 2 \in Nat /\ n + 2 > n + 1
    BY <1>2
  <2>2. scan[n + 1] = [text |-> <<>>, next |-> n + 2]
    BY <1>4, <2>1, Zenon
  <2>3. scan[n + 1] \in X /\ scan[n + 1].next = n + 2
    BY <1>1, <2>1, <2>2
  <2> QED BY <1>5, <2>1, <2>3
<1>8. ASSUME NEW k \in 1..n, \A j \in (k + 1)..(n + 1) : j \in T
      PROVE  k \in T
  <2>1. k \in 1..(n + 1) /\ ~ (k > n) /\ k + 1 \in (k + 1)..(n + 1) /\ k \in Nat
        /\ (k < n => k + 2 \in (k + 1)..(n + 1))
    BY <1>2
  <2>2. CASE text[k] # c
    <3>1. PICK r : r = scan[k + 1]
      OBVIOUS
    <3>2. scan[k] = ReadFirst(text[k], r)
      BY <1>4, <2>1, <2>2, <3>1, Zenon
    <3>3. r \in X /\ r.next > k + 1 /\ text[k] \in S /\ r.next \in Nat
      BY <1>1, <1>2, <1>5, <1>8, <2>1, <3>1
    <3>4. scan[k] \in X /\ scan[k].next = r.next
      BY <1>6, <3>2, <3>3
    <3> QED BY <1>5, <2>1, <3>3, <3>4
  <2>3. CASE text[k] = c /\ k < n /\ text[k + 1] = c
    <3>1. PICK r : r = scan[k + 2]
      OBVIOUS
    <3>2. scan[k] = ReadFirst(c, r)
      BY <1>4, <2>1, <2>3, <3>1, Zenon
    <3>3. r \in X /\ r.next > k + 2 /\ r.next \in Nat
      BY <1>1, <1>5, <1>8, <2>1, <2>3, <3>1
    <3>4. scan[k] \in X /\ scan[k].next = r.next
      BY <1>6, <3>2, <3>3
    <3> QED BY <1>5, <2>1, <3>3, <3>4
  <2>4. CASE text[k] = c /\ ~ (k < n /\ text[k + 1] = c)
    <3>1. scan[k] = [text |-> <<>>, next |-> k + 1]
      BY <1>4, <2>1, <2>4, Zenon
    <3>2. scan[k] \in X /\ scan[k].next = k + 1 /\ k + 1 > k
      BY <1>1, <2>1, <3>1
    <3> QED BY <1>5, <2>1, <3>2
  <2> QED BY <2>2, <2>3, <2>4
<1>9. i + 1 \in T
  <2>1. 1..(n + 1) \subseteq T
    BY <1>2, <1>7, <1>8, FromTheEnd
  <2>2. i + 1 \in 1..(n + 1)
    BY <1>2
  <2> QED BY <2>1, <2>2
<1>10. ReadQuoted(text, i, c) = scan[i + 1]
  BY <1>2, <1>3
<1>11. scan[i + 1].next > i /\ scan[i + 1] \in X
  <2>1. scan[i + 1] \in X /\ scan[i + 1].next > i + 1 /\ i \in Nat
    BY <1>2, <1>5, <1>9
  <2>2. scan[i + 1].next \in Nat
    BY <1>1, <2>1
  <2> QED BY <2>1, <2>2
<1> QED BY <1>1, <1>10, <1>11

\* What the server has read of a list of names from each position on, rr being what is
\* in quotes there.
NamesAre(from, rr, text, sep) ==
  \A i \in 1..(Len(text) + 1) :
    from[i] = IF i > Len(text) \/ text[i] # DoubleQuote THEN {}
              ELSE IF rr[i].next = Len(text) + 1 THEN {<<rr[i].text>>}
              ELSE IF rr[i].next > Len(text) \/ text[rr[i].next] # sep THEN {}
              ELSE {<<rr[i].text>> \o rest : rest \in from[rr[i].next + 1]}

Quotations(text) == [i \in 1..(Len(text) + 1) |-> ReadQuoted(text, i, DoubleQuote)]

\* It reads name by name.
LEMMA NamesAreScanned ==
  ASSUME NEW S, DoubleQuote \in S, NEW text \in Seq(S), NEW sep
  PROVE  \E from : /\ NamesAre(from, Quotations(text), text, sep)
                   /\ ServerNames(text, sep) = from[1]
<1> DEFINE from[i \in 1..(Len(text) + 1)] ==
             LET r == ReadQuoted(text, i, DoubleQuote)
             IN  IF i > Len(text) \/ text[i] # DoubleQuote THEN {}
                 ELSE IF r.next = Len(text) + 1 THEN {<<r.text>>}
                 ELSE IF r.next > Len(text) \/ text[r.next] # sep THEN {}
                 ELSE {<<r.text>> \o rest : rest \in from[r.next + 1]}
<1>1. PICK n, rr, X : n = Len(text) /\ rr = Quotations(text) /\ X = SUBSET Seq(Seq(S))
  OBVIOUS
<1>2. n \in Nat /\ \A i \in 1..(n + 1) : rr[i] = ReadQuoted(text, i, DoubleQuote)
  BY <1>1 DEF Quotations
<1>3. \A i \in 1..n : rr[i] \in [text : Seq(S), next : Nat] /\ rr[i].next > i
  <2> HIDE DEF from
  <2>1. \A i \in 1..n : i \in 1..Len(text) /\ i \in 1..(n + 1)
    BY <1>1, <1>2
  <2> QED BY <1>2, <2>1, QuotedIsInside
<1> DEFINE On(i) == text[i] = DoubleQuote /\ rr[i].next # n + 1
                      /\ ~ (rr[i].next > n \/ text[rr[i].next] # sep)
<1>4. PICK jump : jump = [i \in 1..n |-> IF On(i) THEN rr[i].next + 1 ELSE 0]
  OBVIOUS
<1>5. PICK step : step = [i \in 1..n |-> [h \in X |->
                            IF text[i] # DoubleQuote THEN {}
                            ELSE IF rr[i].next = n + 1 THEN {<<rr[i].text>>}
                            ELSE IF rr[i].next > n \/ text[rr[i].next] # sep THEN {}
                            ELSE {<<rr[i].text>> \o rest : rest \in h}]]
  OBVIOUS
<1>6. PICK ends : ends = [i \in 0..(n + 1) |-> {}]
  OBVIOUS
<1>7. jump \in [1..n -> 0..(n + 1)] /\ \A i \in 1..n : jump[i] = 0 \/ jump[i] > i
  <2> HIDE DEF from
  <2>1. \A i \in 1..n : On(i) => rr[i].next + 1 \in 0..(n + 1) /\ rr[i].next + 1 > i
    <3> TAKE i \in 1..n
    <3>1. PICK e : e = rr[i].next
      OBVIOUS
    <3>2. e \in Nat /\ e > i
      BY <1>3, <3>1
    <3>3. On(i) => ~ (e > n)
      BY <3>1
    <3> QED BY <1>2, <3>1, <3>2, <3>3
  <2> HIDE DEF On
  <2>2. 0 \in 0..(n + 1)
    BY <1>2
  <2> QED BY <1>4, <2>1, <2>2
<1>8. ends \in [0..(n + 1) -> X]
  BY <1>1, <1>6
<1>9. step \in [1..n -> [X -> X]]
  <2> HIDE DEF from
  <2>1. ASSUME NEW i \in 1..n, NEW h \in X
        PROVE  {<<rr[i].text>>} \in X /\ {<<rr[i].text>> \o rest : rest \in h} \in X
    <3>1. PICK t, U, one : t = rr[i].text /\ U = Seq(S) /\ one = <<t>>
      OBVIOUS
    <3>2. t \in U
      BY <1>3, <3>1
    <3>3. one \in Seq(U)
      BY <3>1, <3>2
    <3>4. \A rest \in h : rest \in Seq(U)
      BY <1>1, <3>1
    <3>5. \A rest \in h : one \o rest \in Seq(U)
      BY <3>3, <3>4, ConcatProperties
    <3> QED BY <1>1, <3>1, <3>3, <3>5
  <2>2. {} \in X
    BY <1>1
  <2>3. ASSUME NEW i \in 1..n, NEW h \in X
        PROVE  (IF text[i] # DoubleQuote THEN {}
                ELSE IF rr[i].next = n + 1 THEN {<<rr[i].text>>}
                ELSE IF rr[i].next > n \/ text[rr[i].next] # sep THEN {}
                ELSE {<<rr[i].text>> \o rest : rest \in h}) \in X
    BY <2>1, <2>2, Zenon
  <2> QED BY <1>5, <2>3
<1>10. PICK f \in [0..(n + 1) -> X] : Jumps(f, n, ends, jump, step)
  <2> HIDE DEF from, On
  <2> QED BY <1>2, <1>7, <1>8, <1>9, Jumping
<1>11. PICK g : g = [i \in 1..(n + 1) |-> f[i]]
  OBVIOUS
<1>12. ASSUME NEW i \in 1..(n + 1)
       PROVE  g[i] = IF i > n \/ text[i] # DoubleQuote THEN {}
                     ELSE IF rr[i].next = n + 1 THEN {<<rr[i].text>>}
                     ELSE IF rr[i].next > n \/ text[rr[i].next] # sep THEN {}
                     ELSE {<<rr[i].text>> \o rest : rest \in g[rr[i].next + 1]}
  <2> HIDE DEF from
  <2>1. CASE i > n
    <3>1. i \notin 1..n /\ i \in 0..(n + 1)
      BY <1>2, <2>1
    <3> QED BY <1>6, <1>10, <1>11, <2>1, <3>1 DEF Jumps
  <2>2. CASE ~ (i > n)
    <3>1. i \in 1..n /\ i \in 0..(n + 1)
      BY <1>2, <2>2
    <3>2. PICK h : h = f[jump[i]]
      OBVIOUS
    <3>3. g[i] = step[i][h] /\ h \in X
      BY <1>7, <1>10, <1>11, <3>1, <3>2 DEF Jumps
    <3>4. g[i] = IF text[i] # DoubleQuote THEN {}
                 ELSE IF rr[i].next = n + 1 THEN {<<rr[i].text>>}
                 ELSE IF rr[i].next > n \/ text[rr[i].next] # sep THEN {}
                 ELSE {<<rr[i].text>> \o rest : rest \in h}
      <4> HIDE DEF On
      <4> QED BY <1>5, <3>1, <3>3, Zenon
    <3>5. On(i) => h = g[rr[i].next + 1]
      <4>1. ASSUME On(i)
            PROVE  jump[i] = rr[i].next + 1 /\ jump[i] \in 1..(n + 1)
        <5> HIDE DEF On
        <5>1. jump[i] = rr[i].next + 1 /\ jump[i] \in 0..(n + 1) /\ rr[i].next \in Nat
          BY <1>3, <1>4, <1>7, <3>1, <4>1
        <5> QED BY <1>2, <5>1
      <4> HIDE DEF On
      <4> QED BY <1>11, <3>2, <4>1
    <3> QED BY <2>2, <3>4, <3>5
  <2> QED BY <2>1, <2>2
<1>13. g = [i \in 1..(Len(text) + 1) |->
             IF i > Len(text) \/ text[i] # DoubleQuote THEN {}
             ELSE IF ReadQuoted(text, i, DoubleQuote).next = Len(text) + 1
             THEN {<<ReadQuoted(text, i, DoubleQuote).text>>}
             ELSE IF ReadQuoted(text, i, DoubleQuote).next > Len(text)
                     \/ text[ReadQuoted(text, i, DoubleQuote).next] # sep THEN {}
             ELSE {<<ReadQuoted(text, i, DoubleQuote).text>> \o rest :
                     rest \in g[ReadQuoted(text, i, DoubleQuote).next + 1]}]
  <2> HIDE DEF from, On
  <2>1. ASSUME NEW i \in 1..(n + 1)
        PROVE  g[i] =
             IF i > Len(text) \/ text[i] # DoubleQuote THEN {}
             ELSE IF ReadQuoted(text, i, DoubleQuote).next = Len(text) + 1
             THEN {<<ReadQuoted(text, i, DoubleQuote).text>>}
             ELSE IF ReadQuoted(text, i, DoubleQuote).next > Len(text)
                     \/ text[ReadQuoted(text, i, DoubleQuote).next] # sep THEN {}
             ELSE {<<ReadQuoted(text, i, DoubleQuote).text>> \o rest :
                     rest \in g[ReadQuoted(text, i, DoubleQuote).next + 1]}
    BY <1>1, <1>2, <1>12, <2>1, Zenon
  <2>2. g = [i \in 1..(Len(text) + 1) |-> g[i]]
    BY <1>1, <1>11
  <2> QED BY <1>1, <2>1, <2>2
<1> HIDE DEF On
<1>14. from = [i \in 1..(Len(text) + 1) |->
             IF i > Len(text) \/ text[i] # DoubleQuote THEN {}
             ELSE IF ReadQuoted(text, i, DoubleQuote).next = Len(text) + 1
             THEN {<<ReadQuoted(text, i, DoubleQuote).text>>}
             ELSE IF ReadQuoted(text, i, DoubleQuote).next > Len(text)
                     \/ text[ReadQuoted(text, i, DoubleQuote).next] # sep THEN {}
             ELSE {<<ReadQuoted(text, i, DoubleQuote).text>> \o rest :
                     rest \in from[ReadQuoted(text, i, DoubleQuote).next + 1]}]
  BY <1>13, Zenon
<1>15. ServerNames(text, sep) = from[1]
  BY DEF ServerNames
<1> HIDE DEF from
<1>16. NamesAre(from, rr, text, sep)
  <2>1. ASSUME NEW i \in 1..(Len(text) + 1)
        PROVE  from[i] =
             IF i > Len(text) \/ text[i] # DoubleQuote THEN {}
             ELSE IF ReadQuoted(text, i, DoubleQuote).next = Len(text) + 1
             THEN {<<ReadQuoted(text, i, DoubleQuote).text>>}
             ELSE IF ReadQuoted(text, i, DoubleQuote).next > Len(text)
                     \/ text[ReadQuoted(text, i, DoubleQuote).next] # sep THEN {}
             ELSE {<<ReadQuoted(text, i, DoubleQuote).text>> \o rest :
                     rest \in from[ReadQuoted(text, i, DoubleQuote).next + 1]}
    BY <1>14, <2>1, Zenon
  <2>2. \A i \in 1..(Len(text) + 1) : rr[i] = ReadQuoted(text, i, DoubleQuote)
    BY <1>1, <1>2
  <2> QED BY <2>1, <2>2, Zenon DEF NamesAre
<1> QED BY <1>1, <1>15, <1>16

\* v begins as u, and does not go on with c.
BeginsAs(v, u, c) ==
  /\ Len(u) <= Len(v) /\ \A k \in 1..Len(u) : v[k] = u[k]
  /\ Len(u) < Len(v) => v[Len(u) + 1] # c

\* v ends as w, behind its first l.
EndsAs(v, l, w) ==
  Len(v) = l + Len(w) /\ \A k \in 1..Len(w) : v[l + k] = w[k]

\* A quoted name stays where it is when something else follows.
LEMMA QuotedStays ==
  ASSUME NEW S, NEW c \in S, NEW name \in Seq(S), NEW u \in Seq(S), NEW v \in Seq(S), NEW i,
         QuotedFrom(u, i, name, c), BeginsAs(v, u, c)
  PROVE  QuotedFrom(v, i, name, c)
<1>1. PICK q, l, n, m : q = Doubled(name, c) /\ l = Len(q) /\ n = Len(u) /\ m = Len(v)
  OBVIOUS
<1>2. l \in Nat /\ n \in Nat /\ m \in Nat
  <2>1. q \in Seq(S)
    BY <1>1, DoubledLength
  <2> QED BY <1>1, <2>1
<1>3. /\ i \in 1..n /\ i + l + 1 <= n /\ u[i] = c /\ u[i + l + 1] = c
      /\ \A k \in 1..l : u[i + k] = q[k]
      /\ i + l + 1 < n => u[i + l + 2] # c
  BY <1>1 DEF QuotedFrom
<1>4. n <= m /\ (\A k \in 1..n : v[k] = u[k]) /\ (n < m => v[n + 1] # c)
  BY <1>1 DEF BeginsAs
<1>5. i \in 1..m /\ i + l + 1 <= m /\ i + l + 1 \in 1..n /\ \A k \in 1..l : i + k \in 1..n
  BY <1>2, <1>3, <1>4
<1>6. v[i] = c /\ v[i + l + 1] = c /\ \A k \in 1..l : v[i + k] = q[k]
  BY <1>3, <1>4, <1>5
<1>7. ASSUME i + l + 1 < m
      PROVE  v[i + l + 2] # c
  <2>1. CASE i + l + 1 < n
    <3>1. i + l + 2 \in 1..n
      BY <1>2, <1>3, <2>1
    <3> QED BY <1>3, <1>4, <2>1, <3>1
  <2>2. CASE ~ (i + l + 1 < n)
    <3>1. i + l + 2 = n + 1 /\ n < m
      BY <1>2, <1>3, <1>7, <2>2
    <3> QED BY <1>4, <3>1
  <2> QED BY <2>1, <2>2
<1> QED BY <1>1, <1>5, <1>6, <1>7 DEF QuotedFrom

\* And where it is moved to when something else precedes it.
LEMMA QuotedMoved ==
  ASSUME NEW S, NEW c \in S, NEW name \in Seq(S), NEW w \in Seq(S), NEW v \in Seq(S), NEW l \in Nat,
         QuotedFrom(w, 1, name, c), EndsAs(v, l, w)
  PROVE  QuotedFrom(v, l + 1, name, c)
<1>1. PICK q, k, n, m : q = Doubled(name, c) /\ k = Len(q) /\ n = Len(w) /\ m = Len(v)
  OBVIOUS
<1>2. k \in Nat /\ n \in Nat /\ m \in Nat
  <2>1. q \in Seq(S)
    BY <1>1, DoubledLength
  <2> QED BY <1>1, <2>1
<1>3. /\ 1 \in 1..n /\ 1 + k + 1 <= n /\ w[1] = c /\ w[1 + k + 1] = c
      /\ \A j \in 1..k : w[1 + j] = q[j]
      /\ 1 + k + 1 < n => w[1 + k + 2] # c
  BY <1>1 DEF QuotedFrom
<1>4. m = l + n /\ \A j \in 1..n : v[l + j] = w[j]
  BY <1>1 DEF EndsAs
<1>5. l + 1 \in 1..m /\ l + 1 + k + 1 <= m
  BY <1>2, <1>3, <1>4
<1>6. v[l + 1] = c
  BY <1>3, <1>4
<1>7. v[l + 1 + k + 1] = c
  <2>1. 1 + k + 1 \in 1..n /\ l + (1 + k + 1) = l + 1 + k + 1
    BY <1>2, <1>3
  <2>2. v[l + (1 + k + 1)] = w[1 + k + 1]
    BY <1>4, <2>1
  <2> QED BY <1>3, <2>1, <2>2
<1>8. \A j \in 1..k : v[l + 1 + j] = q[j]
  <2> TAKE j \in 1..k
  <2>1. 1 + j \in 1..n /\ l + (1 + j) = l + 1 + j
    <3>1. j \in Nat /\ j <= k /\ 1 + k + 1 <= n /\ l \in Nat
      BY <1>2, <1>3
    <3> QED BY <1>2, <3>1
  <2>2. v[l + (1 + j)] = w[1 + j]
    BY <1>4, <2>1
  <2> QED BY <1>3, <2>1, <2>2
<1>9. ASSUME l + 1 + k + 1 < m
      PROVE  v[l + 1 + k + 2] # c
  <2>1. 1 + k + 1 < n /\ 1 + k + 2 \in 1..n /\ l + (1 + k + 2) = l + 1 + k + 2
    BY <1>2, <1>4, <1>9
  <2>2. v[l + (1 + k + 2)] = w[1 + k + 2]
    BY <1>4, <2>1
  <2> QED BY <1>3, <2>1, <2>2
<1> QED BY <1>1, <1>5, <1>6, <1>7, <1>8, <1>9 DEF QuotedFrom

\* The first k names of a path stand in a text, the j-th at st[j], with s between them.
AfterName(st, path, j) == st[j] + Len(Doubled(path[j], DoubleQuote)) + 2
Listed(text, st, k, path, s) ==
  /\ st \in [1..k -> 1..Len(text)] /\ st[1] = 1
  /\ \A j \in 1..k : QuotedFrom(text, st[j], path[j], DoubleQuote)
  /\ \A j \in 1..(k - 1) : /\ AfterName(st, path, j) \in 1..Len(text)
                           /\ text[AfterName(st, path, j)] = s
                           /\ st[j + 1] = AfterName(st, path, j) + 1
  /\ AfterName(st, path, k) = Len(text) + 1

\* A path of one name.
LEMMA OneIsListed ==
  ASSUME NEW S, DoubleQuote \in S, NEW path \in Seq(Seq(S)), path # <<>>, NEW s
  PROVE  \E st : Listed(QuoteName(path[1]), st, 1, path, s)
<1>1. PICK c, q, w, l : c = DoubleQuote /\ q = Doubled(path[1], c) /\ w = InQuotes(c, q) /\ l = Len(q)
  OBVIOUS
<1>2. path[1] \in Seq(S) /\ c \in S
  <2>1. Len(path) \in Nat \ {0}
    BY EmptySeq
  <2>2. 1 \in 1..Len(path)
    BY <2>1
  <2> QED BY <1>1, <2>2
<1>3. QuotedFrom(w, 1, path[1], c)
  BY <1>1, <1>2, QuotedAlone
<1>4. q \in Seq(S) /\ l \in Nat
  <2>1. q \in Seq(S)
    BY <1>1, <1>2, DoubledLength
  <2> QED BY <1>1, <2>1
<1>5. Len(w) = l + 2
  <2>1. Len(InQuotes(c, q)) = Len(q) + 2
    BY <1>2, <1>4, InQuotesIs
  <2> QED BY <1>1, <2>1
<1>6. PICK st : st = [j \in 1..1 |-> 1]
  OBVIOUS
<1>7. st \in [1..1 -> 1..Len(w)] /\ st[1] = 1 /\ \A j \in 1..1 : j = 1
  BY <1>4, <1>5, <1>6
<1>8. AfterName(st, path, 1) = Len(w) + 1
  <2>1. AfterName(st, path, 1) = 1 + l + 2
    BY <1>1, <1>7 DEF AfterName
  <2> QED BY <1>4, <1>5, <2>1
<1>9. w = QuoteName(path[1])
  BY <1>1 DEF QuoteName, EscapeIdentifier, InQuotes
<1>10. Listed(w, st, 1, path, s)
  <2>1. \A j \in 1..1 : QuotedFrom(w, st[j], path[j], DoubleQuote)
    BY <1>1, <1>3, <1>7
  <2>2. 1..(1 - 1) = {}
    OBVIOUS
  <2> QED BY <1>7, <1>8, <2>1, <2>2 DEF Listed
<1> QED BY <1>9, <1>10

\* One name more.
LEMMA OneMoreIsListed ==
  ASSUME NEW S, DoubleQuote \in S, NEW path \in Seq(Seq(S)), NEW s \in S \ {DoubleQuote},
         NEW k \in 1..(Len(path) - 1), NEW u \in Seq(S), NEW st, Listed(u, st, k, path, s)
  PROVE  /\ u \o <<s>> \o QuoteName(path[k + 1]) \in Seq(S)
         /\ \E to : Listed(u \o <<s>> \o QuoteName(path[k + 1]), to, k + 1, path, s)
<1>1. PICK c, q, w, v, l, n, e : /\ c = DoubleQuote /\ q = Doubled(path[k + 1], c) /\ w = InQuotes(c, q)
                                 /\ v = (u \o <<s>>) \o w /\ l = Len(q) /\ n = Len(u) /\ e = n + 1
  OBVIOUS
<1>2. c \in S /\ n \in Nat /\ e \in Nat /\ k \in Nat /\ k + 1 \in 1..Len(path)
      /\ \A j \in 1..(k + 1) : path[j] \in Seq(S)
  <2>1. Len(path) \in Nat
    OBVIOUS
  <2>2. k \in Nat /\ k + 1 \in 1..Len(path) /\ \A j \in 1..(k + 1) : j \in 1..Len(path)
    BY <2>1
  <2> QED BY <1>1, <2>2
<1>3. q \in Seq(S) /\ l \in Nat
  <2>1. path[k + 1] \in Seq(S)
    BY <1>2
  <2>2. q \in Seq(S)
    BY <1>1, <1>2, <2>1, DoubledLength
  <2> QED BY <1>1, <2>2
<1>4. w \in Seq(S) /\ Len(w) = l + 2
  <2>1. InQuotes(c, q) \in Seq(S) /\ Len(InQuotes(c, q)) = Len(q) + 2
    BY <1>2, <1>3, InQuotesIs
  <2> QED BY <1>1, <2>1
<1>5. QuotedFrom(w, 1, path[k + 1], c)
  <2>1. path[k + 1] \in Seq(S)
    BY <1>2
  <2> QED BY <1>1, <1>2, <2>1, QuotedAlone
<1>6. PICK a, one : one = <<s>> /\ a = u \o one
  OBVIOUS
<1>7. one \in Seq(S) /\ Len(one) = 1 /\ one[1] = s
  BY <1>6
<1>8. a \in Seq(S) /\ Len(a) = e /\ (\A j \in 1..n : a[j] = u[j]) /\ a[e] = s
  <2>1. /\ a \in Seq(S) /\ Len(a) = Len(u) + Len(one)
        /\ \A j \in 1..(Len(u) + Len(one)) : a[j] = IF j <= Len(u) THEN u[j] ELSE one[j - Len(u)]
    BY <1>6, <1>7, ConcatProperties
  <2>2. /\ e \in 1..(n + 1) /\ ~ (e <= n) /\ e - n = 1
        /\ \A j \in 1..n : j \in 1..(n + 1) /\ j <= n
    BY <1>1, <1>2
  <2> QED BY <1>1, <1>7, <2>1, <2>2
<1>9. /\ v \in Seq(S) /\ Len(v) = e + Len(w)
      /\ \A j \in 1..e : v[j] = a[j]
      /\ \A j \in 1..Len(w) : v[e + j] = w[j]
  <2>1. /\ a \o w \in Seq(S) /\ Len(a \o w) = Len(a) + Len(w)
        /\ \A j \in 1..(Len(a) + Len(w)) : (a \o w)[j] = IF j <= Len(a) THEN a[j] ELSE w[j - Len(a)]
    BY <1>4, <1>8, ConcatProperties
  <2>2. v = a \o w
    BY <1>1, <1>6
  <2>3. /\ \A j \in 1..e : j \in 1..(e + Len(w)) /\ j <= e
        /\ \A j \in 1..Len(w) : e + j \in 1..(e + Len(w)) /\ ~ (e + j <= e) /\ (e + j) - e = j
    BY <1>2, <1>3, <1>4
  <2> QED BY <1>8, <2>1, <2>2, <2>3
<1>10. BeginsAs(v, u, c)
  <2>1. n <= Len(v) /\ n + 1 = e /\ e \in 1..e /\ \A j \in 1..n : j \in 1..e
    BY <1>1, <1>2, <1>3, <1>4, <1>9, SMTT(30)
  <2>2. v[n + 1] = s /\ s # c
    BY <1>1, <1>8, <1>9, <2>1
  <2> QED BY <1>1, <1>8, <1>9, <2>1, <2>2 DEF BeginsAs
<1>11. EndsAs(v, e, w)
  BY <1>9 DEF EndsAs
<1>12. /\ st \in [1..k -> 1..n] /\ st[1] = 1
       /\ \A j \in 1..k : QuotedFrom(u, st[j], path[j], c)
       /\ \A j \in 1..(k - 1) : /\ AfterName(st, path, j) \in 1..n
                                /\ u[AfterName(st, path, j)] = s
                                /\ st[j + 1] = AfterName(st, path, j) + 1
       /\ AfterName(st, path, k) = n + 1
  BY <1>1 DEF Listed
<1>13. PICK to : to = [j \in 1..(k + 1) |-> IF j = k + 1 THEN e + 1 ELSE st[j]]
  OBVIOUS
<1>14. /\ to \in [1..(k + 1) -> 1..Len(v)] /\ to[k + 1] = e + 1
       /\ \A j \in 1..k : to[j] = st[j] /\ AfterName(to, path, j) = AfterName(st, path, j)
  <2>1. Len(v) = e + l + 2 /\ e + 1 \in 1..Len(v) /\ k + 1 \in 1..(k + 1)
        /\ \A x \in 1..n : x \in 1..Len(v)
    BY <1>1, <1>2, <1>3, <1>4, <1>9
  <2>2. \A j \in 1..(k + 1) : j = k + 1 \/ j \in 1..k
    BY <1>2
  <2>3. \A j \in 1..k : j # k + 1 /\ j \in 1..(k + 1)
    BY <1>2
  <2>4. to \in [1..(k + 1) -> 1..Len(v)]
    BY <1>12, <1>13, <2>1, <2>2
  <2>5. to[k + 1] = e + 1 /\ \A j \in 1..k : to[j] = st[j]
    BY <1>13, <2>1, <2>3
  <2> QED BY <2>4, <2>5 DEF AfterName
<1>15. ASSUME NEW j \in 1..(k + 1)
       PROVE  QuotedFrom(v, to[j], path[j], c)
  <2>1. path[j] \in Seq(S)
    BY <1>2
  <2>2. CASE j = k + 1
    <3>1. QuotedFrom(v, e + 1, path[k + 1], c)
      <4>1. path[k + 1] \in Seq(S)
        BY <1>2
      <4> QED BY <1>2, <1>4, <1>5, <1>9, <1>11, <4>1, QuotedMoved
    <3> QED BY <1>14, <2>2, <3>1
  <2>3. CASE j # k + 1
    <3>1. j \in 1..k
      BY <1>2, <2>3
    <3>2. QuotedFrom(u, st[j], path[j], c)
      BY <1>12, <3>1
    <3>3. QuotedFrom(v, st[j], path[j], c)
      BY <1>2, <1>9, <1>10, <2>1, <3>2, QuotedStays
    <3> QED BY <1>14, <3>1, <3>3
  <2> QED BY <2>2, <2>3
<1>16. ASSUME NEW j \in 1..k
       PROVE  /\ AfterName(to, path, j) \in 1..Len(v)
              /\ v[AfterName(to, path, j)] = s
              /\ to[j + 1] = AfterName(to, path, j) + 1
  <2>1. PICK z : z = AfterName(st, path, j)
    OBVIOUS
  <2>2. AfterName(to, path, j) = z
    BY <1>14, <2>1
  <2>3. CASE j = k
    <3>1. z = e /\ e \in 1..Len(v) /\ v[e] = s /\ e \in 1..e
      <4>1. z = e
        BY <1>1, <1>12, <2>1, <2>3
      <4>2. e \in 1..Len(v) /\ e \in 1..e
        BY <1>1, <1>2, <1>3, <1>4, <1>9, SMTT(30)
      <4> QED BY <1>8, <1>9, <4>1, <4>2
    <3> QED BY <1>14, <2>2, <2>3, <3>1
  <2>4. CASE j # k
    <3>1. j \in 1..(k - 1) /\ j + 1 \in 1..k
      BY <1>2, <2>4
    <3>2. z \in 1..n /\ u[z] = s /\ st[j + 1] = z + 1
      BY <1>12, <2>1, <3>1
    <3>3. v[z] = s /\ z \in 1..Len(v)
      BY <1>1, <1>10, <3>2 DEF BeginsAs
    <3> QED BY <1>14, <2>2, <3>1, <3>2, <3>3
  <2> QED BY <2>3, <2>4
<1>17. AfterName(to, path, k + 1) = Len(v) + 1
  <2>1. AfterName(to, path, k + 1) = (e + 1) + l + 2
    BY <1>1, <1>14 DEF AfterName
  <2> QED BY <1>2, <1>3, <1>4, <1>9, <2>1
<1>18. Listed(v, to, k + 1, path, s)
  <2>1. to[1] = 1
    <3>1. 1 \in 1..k
      BY <1>2
    <3> QED BY <1>12, <1>14, <3>1
  <2>2. (k + 1) - 1 = k
    BY <1>2
  <2> QED BY <1>1, <1>14, <1>15, <1>16, <1>17, <2>1, <2>2 DEF Listed
<1>19. v = u \o <<s>> \o QuoteName(path[k + 1])
  BY <1>1 DEF QuoteName, EscapeIdentifier, InQuotes
<1> QED BY <1>9, <1>18, <1>19

\* What stands in quotes from position i is this name.
QuotationIs(text, i, name, c) ==
  ReadQuoted(text, i, c) = [text |-> name, next |-> i + Len(Doubled(name, c)) + 2]

\* Quoted, a name is read as itself.
LEMMA QuotedSayItself ==
  ASSUME NEW S, NEW c \in S, NEW text \in Seq(S), NEW name \in Seq(S), NEW i,
         QuotedFrom(text, i, name, c)
  PROVE  QuotationIs(text, i, name, c)
<1>1. ReadQuoted(text, i, c) = [text |-> name, next |-> i + Len(Doubled(name, c)) + 2]
  BY QuotedIsReadBack
<1> QED BY <1>1 DEF QuotationIs

\* The server reads a text as a path, or a list, of names.
ReadAs(text, s, path) == ServerNames(text, s) = {path}

\* And it does read the names that stand there.
LEMMA ListedIsRead ==
  ASSUME NEW S, DoubleQuote \in S, NEW path \in Seq(Seq(S)), path # <<>>, NEW s,
         NEW text \in Seq(S), NEW st, Listed(text, st, Len(path), path, s)
  PROVE  ReadAs(text, s, path)
<1>1. PICK c, m, n, k : c = DoubleQuote /\ m = Len(path) /\ n = Len(text) /\ k = m - 1
  OBVIOUS
<1>2. m \in Nat /\ k \in Nat /\ n \in Nat /\ m = k + 1 /\ c \in S /\ \A j \in 1..m : path[j] \in Seq(S)
  <2>1. m \in Nat \ {0}
    BY <1>1, EmptySeq
  <2> QED BY <1>1, <2>1
<1>3. /\ st \in [1..m -> 1..n] /\ st[1] = 1
      /\ \A j \in 1..m : QuotedFrom(text, st[j], path[j], c)
      /\ \A j \in 1..k : /\ AfterName(st, path, j) \in 1..n
                         /\ text[AfterName(st, path, j)] = s
                         /\ st[j + 1] = AfterName(st, path, j) + 1
      /\ AfterName(st, path, m) = n + 1
  BY <1>1 DEF Listed
<1>4. PICK rr : rr = Quotations(text)
  OBVIOUS
<1>5. PICK from : NamesAre(from, rr, text, s) /\ ServerNames(text, s) = from[1]
  BY <1>4, NamesAreScanned
<1>6. \A i \in 1..(n + 1) :
        from[i] = IF i > n \/ text[i] # c THEN {}
                  ELSE IF rr[i].next = n + 1 THEN {<<rr[i].text>>}
                  ELSE IF rr[i].next > n \/ text[rr[i].next] # s THEN {}
                  ELSE {<<rr[i].text>> \o rest : rest \in from[rr[i].next + 1]}
  BY <1>1, <1>5 DEF NamesAre
<1>7. ASSUME NEW j \in 1..m
      PROVE  /\ st[j] \in 1..(n + 1) /\ ~ (st[j] > n) /\ text[st[j]] = c
             /\ rr[st[j]].text = path[j] /\ rr[st[j]].next = AfterName(st, path, j)
  <2>1. PICK i, name : i = st[j] /\ name = path[j]
    OBVIOUS
  <2>2. i \in 1..n /\ name \in Seq(S) /\ QuotedFrom(text, i, name, c)
    BY <1>2, <1>3, <2>1
  <2>3. ReadQuoted(text, i, c) = [text |-> name, next |-> i + Len(Doubled(name, c)) + 2]
    <3>1. c \in S
      BY <1>2
    <3>2. name \in Seq(S)
      BY <2>2
    <3>3. QuotedFrom(text, i, name, c)
      BY <2>2
    <3>4. QuotationIs(text, i, name, c)
      BY <3>1, <3>2, <3>3, QuotedSayItself
    <3> QED BY <3>4 DEF QuotationIs
  <2>4. i \in 1..(n + 1) /\ ~ (i > n)
    BY <1>2, <2>2
  <2>5. rr[i] = ReadQuoted(text, i, c)
    BY <1>1, <1>4, <2>4 DEF Quotations
  <2>6. AfterName(st, path, j) = i + Len(Doubled(name, c)) + 2
    BY <1>1, <2>1 DEF AfterName
  <2>7. text[i] = c
    BY <2>2 DEF QuotedFrom
  <2> QED BY <2>1, <2>3, <2>4, <2>5, <2>6, <2>7
<1>8. PICK T : T = {j \in 1..m : from[st[j]] = {Rest(path, j - 1)}}
  OBVIOUS
<1>9. /\ Rest(path, 0) = path /\ Rest(path, m) = <<>>
      /\ \A j \in 0..m : Rest(path, j) \in Seq(Seq(S))
      /\ \A j \in 1..m : <<path[j]>> \o Rest(path, j) = Rest(path, j - 1)
  BY <1>1, RestIs
<1>10. m \in T
  <2>1. m \in 1..m
    BY <1>2
  <2>2. PICK i, p, one : i = st[m] /\ p = path[m] /\ one = <<p>>
    OBVIOUS
  <2>3. i \in 1..(n + 1) /\ ~ (i > n) /\ text[i] = c /\ rr[i].text = p /\ rr[i].next = n + 1
    BY <1>3, <1>7, <2>1, <2>2
  <2>4. from[i] = {<<rr[i].text>>}
    BY <1>6, <2>3, Zenon
  <2>5. from[i] = {one}
    BY <2>2, <2>3, <2>4
  <2>6. one = Rest(path, m - 1)
    <3>1. <<path[m]>> \o Rest(path, m) = Rest(path, m - 1)
      BY <1>9, <2>1
    <3>2. one \o <<>> = one
      <4>1. one \in Seq(Seq(S))
        BY <1>2, <2>1, <2>2
      <4> QED BY <4>1, ConcatEmptySeq
    <3> QED BY <1>9, <2>2, <3>1, <3>2
  <2> QED BY <1>8, <2>1, <2>2, <2>5, <2>6
<1>11. ASSUME NEW j \in 1..k, j + 1 \in T
       PROVE  j \in T
  <2>1. j \in 1..m /\ (j + 1) - 1 = j
    BY <1>2
  <2>2. PICK i, p, e, r : i = st[j] /\ p = path[j] /\ e = AfterName(st, path, j) /\ r = Rest(path, j)
    OBVIOUS
  <2>3. i \in 1..(n + 1) /\ ~ (i > n) /\ text[i] = c /\ rr[i].text = p /\ rr[i].next = e
    BY <1>7, <2>1, <2>2
  <2>4. e \in 1..n /\ text[e] = s /\ st[j + 1] = e + 1
    BY <1>3, <2>2
  <2>5. from[e + 1] = {r}
    BY <1>8, <1>11, <2>1, <2>2, <2>4
  <2>6. ~ (e = n + 1) /\ ~ (e > n)
    BY <1>2, <2>4
  <2>7. from[i] = {<<rr[i].text>> \o rest : rest \in from[rr[i].next + 1]}
    BY <1>6, <2>3, <2>4, <2>6, Zenon
  <2>8. from[i] = {<<p>> \o r}
    <3>1. from[i] = {<<p>> \o rest : rest \in {r}}
      BY <2>3, <2>5, <2>7, Zenon
    <3> QED BY <3>1
  <2>9. <<p>> \o r = Rest(path, j - 1)
    BY <1>9, <2>1, <2>2
  <2>10. from[i] = {Rest(path, j - 1)}
    BY <2>8, <2>9, Zenon
  <2> QED BY <1>8, <2>1, <2>2, <2>10
<1>12. 1 \in T
  <2>1. \A j \in 1..k : (\A p \in (j + 1)..(k + 1) : p \in T) => j \in T
    <3>1. \A j \in 1..k : j + 1 \in (j + 1)..(k + 1)
      BY <1>2
    <3> QED BY <1>11, <3>1
  <2>2. k + 1 \in T
    BY <1>2, <1>10
  <2>3. 1..(k + 1) \subseteq T
    BY <1>2, <2>1, <2>2, FromTheEnd
  <2>4. 1 \in 1..(k + 1)
    BY <1>2
  <2> QED BY <2>3, <2>4
<1>13. from[1] = {path}
  <2>1. from[st[1]] = {Rest(path, 1 - 1)}
    BY <1>8, <1>12
  <2>2. 1 - 1 = 0
    OBVIOUS
  <2> QED BY <1>3, <1>9, <2>1, <2>2
<1> QED BY <1>5, <1>13 DEF ReadAs

\* The names of a path, quoted.
Names(path) == [i \in DOMAIN path |-> QuoteName(path[i])]
OneListOf(path, s) == SeparatedList(<<s>>, ItemsOf(Names(path)))

\* Names in a list are written, and read as the names they were.
LEMMA NamesAreReadBack ==
  ASSUME NEW S, DoubleQuote \in S, NEW path \in Seq(Seq(S)), path # <<>>,
         NEW s \in S \ {DoubleQuote}
  PROVE  \E text : OneListOf(path, s) = {text} /\ ReadAs(text, s, path)
<1>1. PICK m, names, sep : m = Len(path) /\ names = Names(path) /\ sep = <<s>>
  OBVIOUS
<1>2. m \in Nat /\ m # 0 /\ DOMAIN path = 1..m /\ sep \in Seq(S) /\ \A j \in 1..m : path[j] \in Seq(S)
  <2>1. m \in Nat \ {0}
    BY <1>1, EmptySeq
  <2> QED BY <1>1, <2>1
<1>3. names = [j \in 1..m |-> QuoteName(path[j])]
  BY <1>1, <1>2 DEF Names
<1>4. \A j \in 1..m : QuoteName(path[j]) \in Seq(S)
  <2> TAKE j \in 1..m
  <2>1. PICK q, name : name = path[j] /\ q = Doubled(name, DoubleQuote)
    OBVIOUS
  <2>2. name \in Seq(S)
    BY <1>2, <2>1
  <2>3. q \in Seq(S)
    BY <2>1, <2>2, DoubledLength
  <2>4. InQuotes(DoubleQuote, q) \in Seq(S)
    BY <2>3, InQuotesIs
  <2> QED BY <2>1, <2>4 DEF QuoteName, EscapeIdentifier, InQuotes
<1>5. names \in Seq(Seq(S)) /\ Len(names) = m
  <2>1. names \in [1..m -> Seq(S)]
    BY <1>3, <1>4
  <2> QED BY <1>2, <2>1
<1>6. PICK x : Joins(x, S, sep, names)
  BY <1>2, <1>5, ThereIsAList
<1>7. SeparatedList(sep, ItemsOf(names)) = {x[m]}
  <2>1. SeparatedList(sep, ItemsOf(names)) = {x[Len(names)]}
    BY <1>2, <1>5, <1>6, SeparatedIs
  <2> QED BY <1>5, <2>1
<1>8. /\ x \in [0..m -> Seq(S)] /\ x[0] = <<>>
      /\ \A j \in 1..m : x[j] = x[j - 1] \o (IF j = 1 THEN <<>> ELSE sep) \o QuoteName(path[j])
  BY <1>3, <1>5, <1>6 DEF Joins, Between
<1>9. PICK T : T = {k \in 0..m : k = 0 \/ \E st : Listed(x[k], st, k, path, s)}
  OBVIOUS
<1>10. 0 \in T
  BY <1>2, <1>9
<1>11. ASSUME NEW k \in 1..m, k - 1 \in T
       PROVE  k \in T
  <2>1. k \in 0..m
    BY <1>2
  <2>2. CASE k = 1
    <3>1. PICK w, e : w = QuoteName(path[1]) /\ e = <<>>
      OBVIOUS
    <3>2. w \in Seq(S) /\ e \in Seq(S)
      BY <1>2, <1>4, <2>2, <3>1
    <3>3. e \o e = e /\ e \o w = w
      BY <3>1, <3>2, ConcatEmptySeq
    <3>4. x[1] = e \o e \o w
      <4>1. x[1] = x[1 - 1] \o (IF 1 = 1 THEN <<>> ELSE sep) \o QuoteName(path[1])
        BY <1>8, <2>2
      <4>2. 1 - 1 = 0
        OBVIOUS
      <4> QED BY <1>8, <3>1, <4>1, <4>2
    <3>5. x[1] = w
      BY <3>3, <3>4
    <3>6. \E st : Listed(QuoteName(path[1]), st, 1, path, s)
      BY OneIsListed
    <3> QED BY <1>9, <2>1, <2>2, <3>1, <3>5, <3>6
  <2>3. CASE k # 1
    <3>1. PICK l, u : l = k - 1 /\ u = x[l]
      OBVIOUS
    <3>2. l \in 1..(Len(path) - 1) /\ l \in 0..m /\ l # 0 /\ k = l + 1
      BY <1>1, <1>2, <2>3, <3>1
    <3>3. u \in Seq(S)
      BY <1>8, <3>1, <3>2
    <3>4. PICK st : Listed(u, st, l, path, s)
      BY <1>9, <1>11, <3>1, <3>2
    <3>5. \E to : Listed(u \o <<s>> \o QuoteName(path[l + 1]), to, l + 1, path, s)
      BY <3>2, <3>3, <3>4, OneMoreIsListed
    <3>6. x[k] = u \o <<s>> \o QuoteName(path[l + 1])
      BY <1>1, <1>8, <2>3, <3>1, <3>2
    <3> QED BY <1>9, <2>1, <3>2, <3>5, <3>6
  <2> QED BY <2>2, <2>3
<1>12. m \in T
  <2>1. 0..m \subseteq T
    BY <1>2, <1>10, <1>11, ByPositions
  <2> QED BY <1>2, <2>1
<1>13. PICK text, st : text = x[m] /\ Listed(x[m], st, m, path, s)
  BY <1>2, <1>9, <1>12
<1>14. text \in Seq(S) /\ Listed(text, st, Len(path), path, s)
  <2>1. m \in 0..m
    BY <1>2
  <2>2. x[m] \in Seq(S)
    BY <1>8, <2>1
  <2> QED BY <1>1, <1>13, <2>2, Zenon
<1>15. ReadAs(text, s, path)
  BY <1>14, ListedIsRead
<1> QED BY <1>1, <1>7, <1>13, <1>15 DEF OneListOf

\* quote_table(), quote_columns(): whatever the names of a path or a list hold, quotes,
\* points and commas too, they are written in the room they ask for, and the server reads
\* the same names (connection.cxx:1007, connection.hxx:1280, separated_list.hxx:44).
THEOREM EveryPathIsQuoted ==
  ASSUME NEW S, {DoubleQuote, ".", ","} \subseteq S, NEW path \in Seq(Seq(S)), path # <<>>
  PROVE  /\ UNION {ServerNames(t, ".") : t \in QuoteTable(path)} = {path}
         /\ UNION {ServerNames(t, ",") : t \in QuoteColumns(path)} = {path}
<1>1. ItemsOf(Names(path)) = [i \in DOMAIN path |-> Item(QuoteName(path[i]))]
  <2>1. DOMAIN Names(path) = DOMAIN path /\ \A i \in DOMAIN path : Names(path)[i] = QuoteName(path[i])
    BY DEF Names
  <2> QED BY <2>1 DEF ItemsOf
<1>2. QuoteTable(path) = OneListOf(path, ".") /\ QuoteColumns(path) = OneListOf(path, ",")
  BY <1>1, Zenon DEF QuoteTable, QuoteColumns, OneListOf
<1>3. DoubleQuote \in S /\ "." \in S \ {DoubleQuote} /\ "," \in S \ {DoubleQuote}
  BY DEF DoubleQuote
<1>4. PICK t : OneListOf(path, ".") = {t} /\ ReadAs(t, ".", path)
  BY <1>3, NamesAreReadBack
<1>5. PICK u : OneListOf(path, ",") = {u} /\ ReadAs(u, ",", path)
  BY <1>3, NamesAreReadBack
<1>6. UNION {ServerNames(x, ".") : x \in QuoteTable(path)} = {path}
  <2>1. QuoteTable(path) = {t}
    BY <1>2, <1>4, Zenon
  <2>2. ServerNames(t, ".") = {path}
    BY <1>4, Zenon DEF ReadAs
  <2> QED BY <2>1, <2>2, Zenon
<1>7. UNION {ServerNames(x, ",") : x \in QuoteColumns(path)} = {path}
  <2>1. QuoteColumns(path) = {u}
    BY <1>2, <1>5, Zenon
  <2>2. ServerNames(u, ",") = {path}
    BY <1>5, Zenon DEF ReadAs
  <2> QED BY <2>1, <2>2, Zenon
<1> QED BY <1>6, <1>7, Zenon

-----------------------------------------------------------------------------
(* Parameters                                                                *)

\* Nulls, and texts and binary data over S.
ParamsOver(S) == {NullParam} \cup {Param(kind, data) : kind \in {"text", "binary"}, data \in Seq(S)}

\* What a parameter is taken apart into is that parameter.
LEMMA OneIsSent ==
  ASSUME NEW S, NEW p \in Seq(ParamsOver(S)), NEW i \in DOMAIN p
  PROVE  Sent(MakeCParams(p), i) = p[i]
<1>1. PICK c, e : c = MakeCParams(p) /\ e = p[i]
  OBVIOUS
<1>2. e \in ParamsOver(S)
  BY <1>1
<1>3. /\ c.values[i] = (IF e.kind = "null" THEN {} ELSE {e.data})
      /\ c.lengths[i] = (IF e.kind = "null" THEN 0 ELSE Len(e.data))
      /\ c.formats[i] = (IF e.kind = "binary" THEN "binary" ELSE "text")
  BY <1>1 DEF MakeCParams, Lengths
<1>4. CASE e = NullParam
  <2>1. e.kind = "null"
    BY <1>4 DEF NullParam
  <2> QED BY <1>1, <1>3, <1>4, <2>1 DEF Sent
<1>5. ASSUME NEW kind \in {"text", "binary"}, NEW data \in Seq(S), e = Param(kind, data)
      PROVE  Sent(c, i) = e
  <2>1. e = [kind |-> kind, data |-> data] /\ e.kind = kind /\ e.data = data /\ e.kind # "null"
    BY <1>5 DEF Param
  <2>2. c.values[i] = {data} /\ c.lengths[i] = Len(data) /\ c.formats[i] = kind
    BY <1>3, <2>1
  <2>3. (CHOOSE d \in {data} : TRUE) = data
    OBVIOUS
  <2>4. SubSeq(data, 1, Len(data)) = data
    OBVIOUS
  <2>5. Sent(c, i) = [kind |-> kind, data |-> data]
    BY <2>2, <2>3, <2>4 DEF Sent
  <2> QED BY <2>1, <2>5
<1> QED BY <1>1, <1>2, <1>4, <1>5 DEF ParamsOver

\* params::append() and make_c_params(): however many parameters there are, and
\* whatever they hold, each reaches the server in its place as what it is, those of
\* the list that was appended behind the others (params.cxx:56, :94).
THEOREM EveryParameterIsSent ==
  ASSUME NEW S, NEW p \in Seq(ParamsOver(S)), NEW q \in Seq(ParamsOver(S))
  PROVE  LET both == Appended(p, q)
             c == MakeCParams(both)
         IN  /\ Len(c.values) = Len(both) /\ Len(c.lengths) = Len(both) /\ Len(c.formats) = Len(both)
             /\ \A i \in DOMAIN both :
                  Sent(c, i) = IF i <= Len(p) THEN p[i] ELSE q[i - Len(p)]
             /\ AppendedMoved(p, q, FALSE) = <<both, <<>>>>
<1>1. PICK both, c, n : both = Appended(p, q) /\ c = MakeCParams(both) /\ n = Len(both)
  OBVIOUS
<1>2. both = p \o q /\ both \in Seq(ParamsOver(S)) /\ n \in Nat /\ DOMAIN both = 1..n
  BY <1>1 DEF Appended
<1>3. Len(c.values) = n /\ Len(c.lengths) = n /\ Len(c.formats) = n
  <2>1. DOMAIN c.values = 1..n /\ DOMAIN c.lengths = 1..n /\ DOMAIN c.formats = 1..n
    BY <1>1, <1>2 DEF MakeCParams, Lengths
  <2>2. c.values \in [1..n -> {c.values[i] : i \in 1..n}]
    BY <1>1, <1>2 DEF MakeCParams
  <2>3. c.lengths \in [1..n -> {c.lengths[i] : i \in 1..n}]
    BY <1>1, <1>2 DEF MakeCParams, Lengths
  <2>4. c.formats \in [1..n -> {c.formats[i] : i \in 1..n}]
    BY <1>1, <1>2 DEF MakeCParams
  <2> QED BY <1>2, <2>2, <2>3, <2>4
<1>4. ASSUME NEW i \in 1..n
      PROVE  Sent(c, i) = IF i <= Len(p) THEN p[i] ELSE q[i - Len(p)]
  <2>1. Sent(c, i) = both[i]
    BY <1>1, <1>2, OneIsSent
  <2>2. both[i] = IF i <= Len(p) THEN p[i] ELSE q[i - Len(p)]
    BY <1>1, <1>2
  <2> QED BY <2>1, <2>2
<1>5. AppendedMoved(p, q, FALSE) = <<both, <<>>>>
  BY <1>2 DEF AppendedMoved
<1> QED BY <1>1, <1>2, <1>3, <1>4, <1>5

-----------------------------------------------------------------------------
(* Patterns                                                                  *)

\* Where a text matches a pattern from j on, given where it does from behind it.
LikeStep(text, pattern, escape, j, h) ==
  IF pattern[j] = escape
  THEN {i \in 1..Len(text) : j < Len(pattern) /\ text[i] = pattern[j + 1] /\ i + 1 \in h}
  ELSE IF pattern[j] = AnyMany
  THEN {i \in 1..(Len(text) + 1) : \E k \in i..(Len(text) + 1) : k \in h}
  ELSE {i \in 1..Len(text) : pattern[j] \in {AnyOne, text[i]} /\ i + 1 \in h}

\* From every place of the pattern.
LikeIs(from, text, pattern, escape) ==
  /\ from[Len(pattern) + 1] = {Len(text) + 1}
  /\ \A j \in 1..Len(pattern) :
       from[j] = LikeStep(text, pattern, escape, j,
                          from[IF pattern[j] = escape THEN j + 2 ELSE j + 1])

\* LIKE goes through the pattern place by place.
LEMMA PatternIsScanned ==
  ASSUME NEW S, NEW text \in Seq(S), NEW pattern \in Seq(S), NEW escape
  PROVE  \E from : /\ LikeIs(from, text, pattern, escape)
                   /\ Matches(text, pattern, escape) <=> 1 \in from[1]
<1> DEFINE from[j \in 1..(Len(pattern) + 1)] ==
        IF j > Len(pattern) THEN {Len(text) + 1}
        ELSE IF pattern[j] = escape
        THEN {i \in 1..Len(text) :
                j < Len(pattern) /\ text[i] = pattern[j + 1] /\ i + 1 \in from[j + 2]}
        ELSE IF pattern[j] = AnyMany
        THEN {i \in 1..(Len(text) + 1) : \E k \in i..(Len(text) + 1) : k \in from[j + 1]}
        ELSE {i \in 1..Len(text) : pattern[j] \in {AnyOne, text[i]} /\ i + 1 \in from[j + 1]}
<1>1. PICK n, m, X : n = Len(text) /\ m = Len(pattern) /\ X = SUBSET (1..(n + 1))
  OBVIOUS
<1>2. n \in Nat /\ m \in Nat
  BY <1>1
<1>3. PICK jump : jump = [j \in 1..m |-> IF pattern[j] # escape THEN j + 1
                                        ELSE IF j < m THEN j + 2 ELSE 0]
  OBVIOUS
<1>4. PICK step : step = [j \in 1..m |-> [h \in X |-> LikeStep(text, pattern, escape, j, h)]]
  OBVIOUS
<1>5. PICK ends : ends = [j \in 0..(m + 1) |-> IF j = m + 1 THEN {n + 1} ELSE {}]
  OBVIOUS
<1>6. jump \in [1..m -> 0..(m + 1)] /\ \A j \in 1..m : jump[j] = 0 \/ jump[j] > j
  <2> HIDE DEF from
  <2> QED BY <1>2, <1>3
<1>7. ends \in [0..(m + 1) -> X]
  <2> HIDE DEF from
  <2>1. {n + 1} \in X /\ {} \in X
    BY <1>1, <1>2
  <2> QED BY <1>5, <2>1
<1>8. step \in [1..m -> [X -> X]]
  <2> HIDE DEF from
  <2>1. ASSUME NEW j, NEW h
        PROVE  LikeStep(text, pattern, escape, j, h) \subseteq 1..(n + 1)
    <3>1. 1..n \subseteq 1..(n + 1)
      BY <1>2
    <3> QED BY <1>1, <3>1 DEF LikeStep
  <2> QED BY <1>1, <1>4, <2>1
<1>9. PICK f \in [0..(m + 1) -> X] : Jumps(f, m, ends, jump, step)
  <2> HIDE DEF from
  <2> QED BY <1>2, <1>6, <1>7, <1>8, Jumping
<1>10. PICK g : g = [j \in 1..(m + 1) |-> f[j]]
  OBVIOUS
<1>11. g[m + 1] = {n + 1}
  <2> HIDE DEF from
  <2>1. m + 1 \in 1..(m + 1) /\ m + 1 \in 0..(m + 1) /\ m + 1 \notin 1..m
    BY <1>2
  <2> QED BY <1>5, <1>9, <1>10, <2>1 DEF Jumps
<1>12. ASSUME NEW j \in 1..m
       PROVE  g[j] = LikeStep(text, pattern, escape, j,
                              g[IF pattern[j] = escape THEN j + 2 ELSE j + 1])
  <2> HIDE DEF from
  <2>1. j \in 0..(m + 1) /\ j \in 1..(m + 1)
    BY <1>2
  <2>2. PICK h : h = f[jump[j]]
    OBVIOUS
  <2>3. h \in X
    BY <1>6, <1>9, <2>2
  <2>4. g[j] = LikeStep(text, pattern, escape, j, h)
    <3>1. g[j] = step[j][h]
      BY <1>9, <1>10, <2>1, <2>2 DEF Jumps
    <3> QED BY <1>4, <2>3, <3>1
  <2>5. CASE pattern[j] # escape
    <3>1. jump[j] = j + 1 /\ j + 1 \in 1..(m + 1)
      BY <1>2, <1>3, <2>5
    <3>2. h = g[j + 1]
      BY <1>10, <2>2, <3>1
    <3> QED BY <2>4, <2>5, <3>2
  <2>6. CASE pattern[j] = escape /\ j < m
    <3>1. jump[j] = j + 2 /\ j + 2 \in 1..(m + 1)
      BY <1>2, <1>3, <2>6
    <3>2. h = g[j + 2]
      BY <1>10, <2>2, <3>1
    <3> QED BY <2>4, <2>6, <3>2
  <2>7. CASE pattern[j] = escape /\ ~ (j < m)
    <3>1. \A x : LikeStep(text, pattern, escape, j, x) = {}
      BY <1>1, <2>7 DEF LikeStep
    <3>2. PICK x : x = g[IF pattern[j] = escape THEN j + 2 ELSE j + 1]
      OBVIOUS
    <3>3. LikeStep(text, pattern, escape, j, h) = {} /\ LikeStep(text, pattern, escape, j, x) = {}
      BY <3>1
    <3> QED BY <2>4, <3>2, <3>3, Zenon
  <2> QED BY <2>5, <2>6, <2>7
<1>13. g = [j \in 1..(Len(pattern) + 1) |->
        IF j > Len(pattern) THEN {Len(text) + 1}
        ELSE IF pattern[j] = escape
        THEN {i \in 1..Len(text) :
                j < Len(pattern) /\ text[i] = pattern[j + 1] /\ i + 1 \in g[j + 2]}
        ELSE IF pattern[j] = AnyMany
        THEN {i \in 1..(Len(text) + 1) : \E k \in i..(Len(text) + 1) : k \in g[j + 1]}
        ELSE {i \in 1..Len(text) : pattern[j] \in {AnyOne, text[i]} /\ i + 1 \in g[j + 1]}]
  <2> HIDE DEF from
  <2>1. ASSUME NEW j \in 1..(Len(pattern) + 1)
        PROVE  g[j] =
        IF j > Len(pattern) THEN {Len(text) + 1}
        ELSE IF pattern[j] = escape
        THEN {i \in 1..Len(text) :
                j < Len(pattern) /\ text[i] = pattern[j + 1] /\ i + 1 \in g[j + 2]}
        ELSE IF pattern[j] = AnyMany
        THEN {i \in 1..(Len(text) + 1) : \E k \in i..(Len(text) + 1) : k \in g[j + 1]}
        ELSE {i \in 1..Len(text) : pattern[j] \in {AnyOne, text[i]} /\ i + 1 \in g[j + 1]}
    <3>1. CASE j > Len(pattern)
      <4>1. j = m + 1
        BY <1>1, <1>2, <3>1
      <4> QED BY <1>1, <1>11, <3>1, <4>1
    <3>2. CASE ~ (j > Len(pattern))
      <4>1. j \in 1..m
        BY <1>1, <1>2, <3>2
      <4>2. CASE pattern[j] = escape
        <5>1. g[j] = LikeStep(text, pattern, escape, j, g[j + 2])
          BY <1>12, <4>1, <4>2
        <5> QED BY <3>2, <4>2, <5>1, Zenon DEF LikeStep
      <4>3. CASE pattern[j] # escape
        <5>1. g[j] = LikeStep(text, pattern, escape, j, g[j + 1])
          BY <1>12, <4>1, <4>3
        <5> QED BY <3>2, <4>3, <5>1, Zenon DEF LikeStep
      <4> QED BY <4>2, <4>3
    <3> QED BY <3>1, <3>2
  <2>2. g = [j \in 1..(Len(pattern) + 1) |-> g[j]]
    BY <1>1, <1>10
  <2> QED BY <2>1, <2>2, Zenon
<1>14. from = [j \in 1..(Len(pattern) + 1) |->
        IF j > Len(pattern) THEN {Len(text) + 1}
        ELSE IF pattern[j] = escape
        THEN {i \in 1..Len(text) :
                j < Len(pattern) /\ text[i] = pattern[j + 1] /\ i + 1 \in from[j + 2]}
        ELSE IF pattern[j] = AnyMany
        THEN {i \in 1..(Len(text) + 1) : \E k \in i..(Len(text) + 1) : k \in from[j + 1]}
        ELSE {i \in 1..Len(text) : pattern[j] \in {AnyOne, text[i]} /\ i + 1 \in from[j + 1]}]
  BY <1>13, Zenon
<1>15. Matches(text, pattern, escape) <=> 1 \in from[1]
  BY DEF Matches
<1> HIDE DEF from
<1>16. LikeIs(from, text, pattern, escape)
  <2>1. from[Len(pattern) + 1] = {Len(text) + 1}
    <3>1. Len(pattern) + 1 \in 1..(Len(pattern) + 1) /\ Len(pattern) + 1 > Len(pattern)
      BY <1>1, <1>2
    <3> QED BY <1>14, <3>1, Zenon
  <2>2. ASSUME NEW j \in 1..Len(pattern)
        PROVE  from[j] = LikeStep(text, pattern, escape, j,
                                  from[IF pattern[j] = escape THEN j + 2 ELSE j + 1])
    <3>1. j \in 1..(Len(pattern) + 1) /\ ~ (j > Len(pattern))
      BY <1>1, <1>2
    <3>2. CASE pattern[j] = escape
      <4>1. from[j] = LikeStep(text, pattern, escape, j, from[j + 2])
        BY <1>14, <3>1, <3>2, Zenon DEF LikeStep
      <4> QED BY <3>2, <4>1
    <3>3. CASE pattern[j] # escape
      <4>1. from[j] = LikeStep(text, pattern, escape, j, from[j + 1])
        BY <1>14, <3>1, <3>3, Zenon DEF LikeStep
      <4> QED BY <3>3, <4>1
    <3> QED BY <3>2, <3>3
  <2> QED BY <2>1, <2>2 DEF LikeIs
<1> QED BY <1>15, <1>16

\* What esc_like() makes of each character.
LikeMap(S, escape) == [c \in S |-> IF c \in {AnyOne, AnyMany} THEN <<escape, c>> ELSE <<c>>]

\* esc_like() maps each character.
LEMMA LikeMaps ==
  ASSUME NEW S, NEW escape \in S
  PROVE  /\ LikeMap(S, escape) \in SeqMaps(S, S)
         /\ \A text \in Seq(S) : EscLike(text, escape) = Spread(LikeMap(S, escape), text)
<1>1. \A c \in S : (IF c \in {AnyOne, AnyMany} THEN <<escape, c>> ELSE <<c>>) \in Seq(S)
  <2>1. \A c \in S : <<escape, c>> \in Seq(S) /\ <<c>> \in Seq(S)
    OBVIOUS
  <2> QED BY <2>1
<1>2. LikeMap(S, escape) \in SeqMaps(S, S)
  BY <1>1 DEF LikeMap, SeqMaps
<1>3. ASSUME NEW text \in Seq(S)
      PROVE  EscLike(text, escape) = Spread(LikeMap(S, escape), text)
  <2>1. \A i \in DOMAIN text : text[i] \in S
    OBVIOUS
  <2>2. [i \in DOMAIN text |-> IF text[i] \in {AnyOne, AnyMany} THEN <<escape, text[i]>> ELSE <<text[i]>>]
        = [i \in DOMAIN text |-> LikeMap(S, escape)[text[i]]]
    BY <2>1 DEF LikeMap
  <2> QED BY <2>2, Zenon DEF EscLike, Spread
<1> QED BY <1>2, <1>3

\* An escape character that the text does not hold.
EscapeFor(escape, x) == escape \notin {AnyOne, AnyMany} /\ \A i \in DOMAIN x : x[i] # escape

\* Escaped, a text matches itself and nothing else.
LEMMA TextIsItsPattern ==
  ASSUME NEW S, NEW escape \in S, NEW x \in Seq(S), NEW y \in Seq(S), EscapeFor(escape, x)
  PROVE  Matches(y, EscLike(x, escape), escape) <=> y = x
<1>1. PICK p, g, n, m, l : p = EscLike(x, escape) /\ g = LikeMap(S, escape)
                        /\ n = Len(y) /\ m = Len(x) /\ l = Len(p)
  OBVIOUS
<1>2. n \in Nat /\ m \in Nat /\ escape \notin {AnyOne, AnyMany} /\ \A j \in 1..m : x[j] \in S /\ x[j] # escape
  BY <1>1 DEF EscapeFor
<1>3. g \in SeqMaps(S, S) /\ p = Spread(g, x)
  BY <1>1, <1>2, LikeMaps
<1>4. p \in Seq(S) /\ l \in Nat
  BY <1>1, <1>2, <1>3, SpreadTyped
<1>5. PICK d : SpreadAt(d, g, x)
  BY <1>2, <1>3, SpreadPlaces
<1>6. /\ d \in [0..m -> 0..l] /\ d[0] = 0 /\ d[m] = l
      /\ \A j \in 1..m : /\ d[j] = d[j - 1] + Len(g[x[j]])
                         /\ \A k \in 1..Len(g[x[j]]) : p[d[j - 1] + k] = g[x[j]][k]
  <2>1. Len(x) = m /\ Spread(g, x) = p /\ Len(p) = l
    BY <1>1, <1>3
  <2>2. /\ d \in [0..Len(x) -> 0..Len(Spread(g, x))] /\ d[0] = 0
        /\ d[Len(x)] = Len(Spread(g, x))
        /\ \A j \in 1..Len(x) :
             /\ d[j] = d[j - 1] + Len(g[x[j]])
             /\ \A k \in 1..Len(g[x[j]]) : Spread(g, x)[d[j - 1] + k] = g[x[j]][k]
    BY <1>5, Zenon DEF SpreadAt
  <2> QED BY <2>1, <2>2, Zenon
<1>7. PICK from : LikeIs(from, y, p, escape) /\ (Matches(y, p, escape) <=> 1 \in from[1])
  BY <1>4, PatternIsScanned
<1>8. /\ from[l + 1] = {n + 1}
      /\ \A j \in 1..l : from[j] = LikeStep(y, p, escape, j,
                                            from[IF p[j] = escape THEN j + 2 ELSE j + 1])
  BY <1>1, <1>7 DEF LikeIs
\* One character, escaped or not, matches itself.
<1>9. ASSUME NEW j \in 1..m, NEW i
      PROVE  i \in from[d[j - 1] + 1] <=> i \in 1..n /\ y[i] = x[j] /\ i + 1 \in from[d[j] + 1]
  <2>1. PICK c, at, to : c = x[j] /\ at = d[j - 1] + 1 /\ to = d[j] + 1
    OBVIOUS
  <2>2. j - 1 \in 0..m /\ j \in 0..m /\ c \in S /\ c # escape
    BY <1>2, <2>1
  <2>3. PICK a, b : a = d[j - 1] /\ b = d[j]
    OBVIOUS
  <2>4. a \in 0..l /\ b \in 0..l /\ at = a + 1 /\ to = b + 1
    BY <1>6, <2>1, <2>2, <2>3
  <2>5. g[c] = (IF c \in {AnyOne, AnyMany} THEN <<escape, c>> ELSE <<c>>)
    BY <1>1, <2>2 DEF LikeMap
  <2>6. b = a + Len(g[c]) /\ \A k \in 1..Len(g[c]) : p[a + k] = g[c][k]
    BY <1>6, <2>1, <2>3
  <2>7. CASE c \in {AnyOne, AnyMany}
    <3>1. g[c] = <<escape, c>>
      BY <2>5, <2>7
    <3>2. Len(g[c]) = 2 /\ g[c][1] = escape /\ g[c][2] = c
      BY <3>1
    <3>3. b = a + 2 /\ p[a + 1] = escape /\ p[a + 2] = c
      <4>1. 1 \in 1..2 /\ 2 \in 1..2
        OBVIOUS
      <4> QED BY <2>6, <3>2, <4>1
    <3>4. at \in 1..l /\ at < l /\ to = at + 2 /\ p[at] = escape /\ p[at + 1] = c
      BY <1>4, <2>4, <3>3
    <3>5. from[at] = LikeStep(y, p, escape, at, from[to])
      BY <1>8, <3>4
    <3>6. from[at] = {k \in 1..n : y[k] = c /\ k + 1 \in from[to]}
      BY <1>1, <3>4, <3>5 DEF LikeStep
    <3> QED BY <2>1, <3>6
  <2>8. CASE c \notin {AnyOne, AnyMany}
    <3>1. g[c] = <<c>>
      BY <2>5, <2>8
    <3>2. Len(g[c]) = 1 /\ g[c][1] = c
      BY <3>1
    <3>3. b = a + 1 /\ p[a + 1] = c
      <4>1. 1 \in 1..1
        OBVIOUS
      <4> QED BY <2>6, <3>2, <4>1
    <3>4. at \in 1..l /\ to = at + 1 /\ p[at] = c
      BY <1>4, <2>4, <3>3
    <3>5. from[at] = LikeStep(y, p, escape, at, from[to])
      BY <1>8, <2>2, <3>4
    <3>6. from[at] = {k \in 1..n : c \in {AnyOne, y[k]} /\ k + 1 \in from[to]}
      BY <1>1, <2>2, <2>8, <3>4, <3>5 DEF LikeStep
    <3> QED BY <2>1, <2>8, <3>6
  <2> QED BY <2>7, <2>8
\* The text from i on is what is left of x.
<1> DEFINE Left(j, i) == i = n + 1 - (m - j) /\ \A k \in (j + 1)..m : y[i + k - (j + 1)] = x[k]
<1>10. PICK T : T = {j \in 0..m : \A i \in 1..(n + 1) : i \in from[d[j] + 1] <=> Left(j, i)}
  OBVIOUS
<1>11. m \in T
  <2>1. from[d[m] + 1] = {n + 1}
    BY <1>6, <1>8
  <2>2. \A i : Left(m, i) <=> i = n + 1
    BY <1>2
  <2> QED BY <1>2, <1>10, <2>1, <2>2
<1>12. ASSUME NEW j \in 1..m, j \in T
       PROVE  j - 1 \in T
  <2>1. ASSUME NEW i \in 1..(n + 1)
        PROVE  i \in from[d[j - 1] + 1] <=> Left(j - 1, i)
    <3>1. i \in from[d[j - 1] + 1] <=> i \in 1..n /\ y[i] = x[j] /\ i + 1 \in from[d[j] + 1]
      BY <1>9
    <3>2. ASSUME i \in 1..n
          PROVE  i + 1 \in from[d[j] + 1] <=> Left(j, i + 1)
      <4>1. i + 1 \in 1..(n + 1)
        BY <1>2, <3>2
      <4>2. \A k \in 1..(n + 1) : k \in from[d[j] + 1] <=> Left(j, k)
        BY <1>10, <1>12
      <4> HIDE DEF Left
      <4> QED BY <4>1, <4>2
    <3>3. Left(j - 1, i) <=> i \in 1..n /\ y[i] = x[j] /\ Left(j, i + 1)
      <4>1. Left(j, i + 1) <=> /\ i + 1 = n + 1 - (m - j)
                               /\ \A k \in (j + 1)..m : y[(i + 1) + k - (j + 1)] = x[k]
        OBVIOUS
      <4>2. Left(j - 1, i) <=> /\ i = n + 1 - (m - (j - 1))
                               /\ \A k \in ((j - 1) + 1)..m : y[i + k - ((j - 1) + 1)] = x[k]
        OBVIOUS
      <4>3. i = n + 1 - (m - (j - 1)) <=> i \in 1..n /\ i + 1 = n + 1 - (m - j)
        BY <1>2
      <4>4. (\A k \in ((j - 1) + 1)..m : y[i + k - ((j - 1) + 1)] = x[k])
            <=> y[i] = x[j] /\ \A k \in (j + 1)..m : y[(i + 1) + k - (j + 1)] = x[k]
        <5>1. (j - 1) + 1 = j /\ j..m = {j} \cup (j + 1)..m /\ i + j - j = i
          BY <1>2
        <5>2. \A k \in (j + 1)..m : (i + 1) + k - (j + 1) = i + k - j
          BY <1>2
        <5> QED BY <5>1, <5>2
      <4> HIDE DEF Left
      <4> QED BY <4>1, <4>2, <4>3, <4>4
    <3> HIDE DEF Left
    <3> QED BY <3>1, <3>2, <3>3
  <2>2. j - 1 \in 0..m
    BY <1>2
  <2> HIDE DEF Left
  <2> QED BY <1>10, <2>1, <2>2
<1>13. 0 \in T
  <2> HIDE DEF Left
  <2>1. PICK U : U = {k \in 1..(m + 1) : k - 1 \in T}
    OBVIOUS
  <2>2. m + 1 \in U
    <3>1. m + 1 \in 1..(m + 1) /\ (m + 1) - 1 = m
      BY <1>2
    <3> QED BY <1>11, <2>1, <3>1
  <2>3. ASSUME NEW k \in 1..m, \A j \in (k + 1)..(m + 1) : j \in U
        PROVE  k \in U
    <3>1. k + 1 \in (k + 1)..(m + 1) /\ (k + 1) - 1 = k /\ k \in 1..(m + 1)
      BY <1>2
    <3>2. k \in T
      BY <2>1, <2>3, <3>1
    <3> QED BY <1>12, <2>1, <3>1, <3>2
  <2>4. 1..(m + 1) \subseteq U
    BY <1>2, <2>2, <2>3, FromTheEnd
  <2>5. 1 \in 1..(m + 1) /\ 1 - 1 = 0
    BY <1>2
  <2> QED BY <2>1, <2>4, <2>5
<1>14. 1 \in from[1] <=> Left(0, 1)
  <2>1. \A i \in 1..(n + 1) : i \in from[d[0] + 1] <=> Left(0, i)
    BY <1>10, <1>13
  <2>2. 1 \in 1..(n + 1) /\ d[0] + 1 = 1
    BY <1>2, <1>6
  <2> HIDE DEF Left
  <2> QED BY <2>1, <2>2
<1>15. Left(0, 1) <=> y = x
  <2>1. Left(0, 1) <=> n = m /\ \A k \in 1..m : y[k] = x[k]
    <3>1. Left(0, 1) <=> /\ 1 = n + 1 - (m - 0)
                         /\ \A k \in (0 + 1)..m : y[1 + k - (0 + 1)] = x[k]
      OBVIOUS
    <3>2. 1 = n + 1 - (m - 0) <=> n = m
      BY <1>2
    <3>3. 0 + 1 = 1 /\ \A k \in 1..m : 1 + k - (0 + 1) = k
      BY <1>2
    <3> HIDE DEF Left
    <3> QED BY <3>1, <3>2, <3>3
  <2>2. ASSUME n = m, \A k \in 1..m : y[k] = x[k]
        PROVE  y = x
    <3>1. Len(x) = Len(y) /\ \A k \in 1..Len(y) : y[k] = x[k]
      BY <1>1, <2>2
    <3> QED BY <3>1, SeqEqual
  <2>3. y = x => n = m /\ \A k \in 1..m : y[k] = x[k]
    BY <1>1
  <2> HIDE DEF Left
  <2> QED BY <2>1, <2>2, <2>3
<1> HIDE DEF Left
<1> QED BY <1>1, <1>7, <1>14, <1>15

\* esc_like(): whatever a text holds but the escape character, it matches itself as a
\* pattern, and matches nothing else (connection.cxx:1022).
THEOREM EveryTextIsItsPattern ==
  ASSUME NEW S, NEW escape \in S \ {AnyOne, AnyMany}, NEW x \in Seq(S \ {escape}), NEW y \in Seq(S)
  PROVE  Matches(y, EscLike(x, escape), escape) <=> y = x
<1>1. escape \in S /\ y \in Seq(S)
  OBVIOUS
<1>2. x \in Seq(S)
  OBVIOUS
<1>3. EscapeFor(escape, x)
  BY DEF EscapeFor
<1> QED BY <1>1, <1>2, <1>3, TextIsItsPattern

-----------------------------------------------------------------------------
(* The connection string                                                     *)

\* What is {} or one value.
AtMostOne(V) == {{}} \cup {{v} : v \in V}

\* Options whose keywords are in K, and whose values have their characters in V.
OptionsOver(K, V) ==
  [keyword : K, val : AtMostOne(Seq(V)), env : AtMostOne(Seq(V)), compiled : AtMostOne(Seq(V))]

\* The characters of a connection string.
Signs(K, V) == K \cup V \cup {Gap, "="}

\* What the string is, up to each option.
StringIs(x, options) ==
  /\ x[0] = <<>>
  /\ \A j \in 1..Len(options) : x[j] = WithSetting(x[j - 1], Setting(options[j]))

\* A setting is nothing, or a keyword and its value.
LEMMA SettingIs ==
  ASSUME NEW K, NEW V, NEW o \in OptionsOver(K, V)
  PROVE  /\ Setting(o) \in Seq(Signs(K, V))
         /\ Setting(o) = <<>> =>
              /\ o.val # {} => o.val = (IF o.env # {} THEN o.env ELSE o.compiled)
         /\ Setting(o) # <<>> =>
              \E v \in Seq(V) : o.val = {v} /\ Setting(o) = <<o.keyword, "=">> \o v
<1>1. o.keyword \in K /\ o.val \in AtMostOne(Seq(V))
  BY DEF OptionsOver
<1>2. CASE o.val = {} \/ o.val = GetDefault(o)
  <2>1. Setting(o) = <<>>
    BY <1>2 DEF Setting
  <2> QED BY <1>2, <2>1 DEF GetDefault
<1>3. CASE ~ (o.val = {} \/ o.val = GetDefault(o))
  <2>1. PICK v \in Seq(V) : o.val = {v}
    BY <1>1, <1>3 DEF AtMostOne
  <2>2. (CHOOSE x \in {v} : TRUE) = v
    OBVIOUS
  <2>3. Setting(o) = <<o.keyword, "=">> \o v
    BY <1>3, <2>1, <2>2 DEF Setting
  <2>4. PICK U, k : U = Signs(K, V) /\ k = <<o.keyword, "=">>
    OBVIOUS
  <2>5. k \in Seq(U) /\ Len(k) = 2
    <3>1. o.keyword \in U /\ "=" \in U
      BY <1>1, <2>4 DEF Signs
    <3> QED BY <2>4, <3>1
  <2>6. v \in Seq(U)
    <3>1. \A i \in 1..Len(v) : v[i] \in U
      BY <2>4 DEF Signs
    <3> QED BY <3>1
  <2>7. k \o v \in Seq(U) /\ k \o v # <<>>
    <3>1. k \in Seq(U) /\ v \in Seq(U)
      BY <2>5, <2>6
    <3>2. k \o v \in Seq(U) /\ Len(k \o v) = Len(k) + Len(v)
      BY <3>1, ConcatProperties
    <3>3. Len(v) \in Nat
      OBVIOUS
    <3>4. Len(k \o v) # 0
      BY <2>5, <3>2, <3>3
    <3> QED BY <3>2, <3>4, EmptySeq
  <2> QED BY <2>1, <2>3, <2>4, <2>7
<1> QED BY <1>2, <1>3

\* The setting of an option says what its value is.
SettingSays(o, V) == \E v \in Seq(V) : o.val = {v} /\ Setting(o) = <<o.keyword, "=">> \o v

\* Some setting.
IsSet(o) == Setting(o) # <<>>

\* A setting that is not empty says so.
LEMMA SettingSaysIt ==
  ASSUME NEW K, NEW V, NEW o \in OptionsOver(K, V), IsSet(o)
  PROVE  SettingSays(o, V)
<1> QED BY SettingIs DEF SettingSays, IsSet

\* The string is written option by option.
LEMMA StringIsWritten ==
  ASSUME NEW K, NEW V, NEW options \in Seq(OptionsOver(K, V))
  PROVE  \E x \in [0..Len(options) -> Seq(Signs(K, V))] :
           StringIs(x, options) /\ ConnectionString(options) = x[Len(options)]
<1> DEFINE upTo[i \in 0..Len(options)] ==
             IF i = 0 THEN <<>> ELSE WithSetting(upTo[i - 1], Setting(options[i]))
<1>1. PICK n, X, none, step :
        /\ n = Len(options) /\ X = Seq(Signs(K, V)) /\ none = <<>>
        /\ step = [j \in 1..n |-> [h \in X |-> WithSetting(h, Setting(options[j]))]]
  OBVIOUS
<1>2. n \in Nat /\ none \in X /\ \A j \in 1..n : options[j] \in OptionsOver(K, V)
  BY <1>1
<1>3. step \in [1..n -> [X -> X]]
  <2> HIDE DEF upTo
  <2>1. ASSUME NEW j \in 1..n, NEW h \in X
        PROVE  WithSetting(h, Setting(options[j])) \in X
    <3>1. PICK s, g : s = Setting(options[j]) /\ g = (IF h = <<>> \/ s = <<>> THEN <<>> ELSE <<Gap>>)
      OBVIOUS
    <3>2. s \in X
      BY <1>1, <1>2, <3>1, SettingIs
    <3>3. g \in X
      <4>1. Gap \in Signs(K, V)
        BY DEF Signs
      <4>2. <<Gap>> \in X
        BY <1>1, <4>1
      <4> QED BY <1>1, <1>2, <3>1, <4>2
    <3>4. h \o g \o s \in X
      BY <1>1, <3>2, <3>3, ConcatProperties
    <3> QED BY <3>1, <3>4, Zenon DEF WithSetting
  <2> QED BY <1>1, <2>1
<1>4. PICK x \in [0..n -> X] : Passes(x, n, none, step)
  <2> HIDE DEF upTo
  <2> QED BY <1>2, <1>3, Passing
<1>5. x[0] = <<>> /\ \A j \in 1..n : x[j] = WithSetting(x[j - 1], Setting(options[j]))
  <2> HIDE DEF upTo
  <2>1. \A j \in 1..n : x[j] = step[j][x[j - 1]] /\ x[j - 1] \in X
    <3>1. \A j \in 1..n : j - 1 \in 0..n
      BY <1>2
    <3> QED BY <1>4, <3>1 DEF Passes
  <2> QED BY <1>1, <1>4, <2>1 DEF Passes
<1>6. x = [i \in 0..Len(options) |->
             IF i = 0 THEN <<>> ELSE WithSetting(x[i - 1], Setting(options[i]))]
  <2> HIDE DEF upTo
  <2>1. ASSUME NEW i \in 0..n
        PROVE  x[i] = IF i = 0 THEN <<>> ELSE WithSetting(x[i - 1], Setting(options[i]))
    <3>1. i = 0 \/ i \in 1..n
      BY <1>2
    <3> QED BY <1>5, <3>1
  <2>2. x = [i \in 0..n |-> x[i]]
    BY <1>4
  <2> QED BY <1>1, <2>1, <2>2, Zenon
<1>7. upTo = [i \in 0..Len(options) |->
                IF i = 0 THEN <<>> ELSE WithSetting(upTo[i - 1], Setting(options[i]))]
  BY <1>6, Zenon
<1>8. ConnectionString(options) = upTo[Len(options)]
  BY DEF ConnectionString
<1> HIDE DEF upTo
<1>9. PICK T : T = {i \in 0..n : upTo[i] = x[i]}
  OBVIOUS
<1>10. \A i \in 0..n : upTo[i] = IF i = 0 THEN <<>> ELSE WithSetting(upTo[i - 1], Setting(options[i]))
  BY <1>1, <1>7
<1>11. 0 \in T
  BY <1>2, <1>5, <1>9, <1>10
<1>12. ASSUME NEW i \in 1..n, i - 1 \in T
       PROVE  i \in T
  <2>1. i \in 0..n /\ i # 0
    BY <1>2
  <2>2. upTo[i - 1] = x[i - 1] /\ upTo[i] = WithSetting(upTo[i - 1], Setting(options[i]))
    BY <1>9, <1>10, <1>12, <2>1
  <2> QED BY <1>5, <1>9, <2>1, <2>2
<1>13. upTo[n] = x[n]
  <2>1. 0..n \subseteq T
    BY <1>2, <1>11, <1>12, ByPositions
  <2> QED BY <1>2, <1>9, <2>1
<1>14. StringIs(x, options)
  BY <1>1, <1>5 DEF StringIs
<1> QED BY <1>1, <1>4, <1>8, <1>13, <1>14

\* The setting of a keyword to a value stands at position i.
StandsAt(text, i, keyword, v) ==
  /\ i \in 1..Len(text) /\ (i = 1 \/ text[i - 1] = Gap)
  /\ i + 1 + Len(v) <= Len(text) /\ text[i] = keyword /\ text[i + 1] = "="
  /\ \A m \in 1..Len(v) : text[i + 1 + m] = v[m]
  /\ i + 1 + Len(v) = Len(text) \/ text[i + 2 + Len(v)] = Gap

\* A keyword stands only where its setting does.
OnlyAt(text, at, keyword) == \A i \in 1..Len(text) : text[i] = keyword => i \in at

\* A value without a blank; and what libpq reads.
Unbroken(v) == \A m \in 1..Len(v) : v[m] # Gap
ReadsTheOne(text, o, v) == Reconnected(text, o) = {v}

\* What stands there is read.
LEMMA SettingIsRead ==
  ASSUME NEW S, NEW text \in Seq(S), NEW o, NEW i, NEW v \in Seq(S),
         StandsAt(text, i, o.keyword, v), OnlyAt(text, {i}, o.keyword), Unbroken(v)
  PROVE  ReadsTheOne(text, o, v)
<1>1. PICK n, l, e, kw : n = Len(text) /\ l = Len(v) /\ e = i + 2 + l /\ kw = o.keyword
  OBVIOUS
<1>2. n \in Nat /\ l \in Nat
  BY <1>1
<1>3. /\ i \in 1..n /\ (i = 1 \/ text[i - 1] = Gap) /\ i + 1 + l <= n /\ text[i] = kw /\ text[i + 1] = "="
      /\ \A m \in 1..l : text[i + 1 + m] = v[m]
      /\ i + 1 + l = n \/ text[e] = Gap
  BY <1>1 DEF StandsAt
<1>4. \A k \in 1..n : text[k] = kw => k = i
  BY <1>1 DEF OnlyAt
<1>5. {k \in 1..Len(text) : text[k] = o.keyword /\ (k = 1 \/ text[k - 1] = Gap)
                              /\ k < Len(text) /\ text[k + 1] = "="} = {i}
  <2>1. i < n
    BY <1>2, <1>3
  <2>2. {k \in 1..n : text[k] = kw /\ (k = 1 \/ text[k - 1] = Gap) /\ k < n /\ text[k + 1] = "="} = {i}
    BY <1>3, <1>4, <2>1
  <2> QED BY <1>1, <2>2
<1>6. (CHOOSE k \in {i} : TRUE) = i
  OBVIOUS
<1>7. PICK ends : ends = {j \in (i + 2)..(Len(text) + 1) : j = Len(text) + 1 \/ text[j] = Gap}
  OBVIOUS
<1>8. e \in ends /\ \A j \in ends : e <= j
  <2>1. ends = {j \in (i + 2)..(n + 1) : j = n + 1 \/ text[j] = Gap}
    BY <1>1, <1>7
  <2>2. e \in (i + 2)..(n + 1) /\ (i + 1 + l = n => e = n + 1)
    <3>1. i \in Nat /\ e = i + 2 + l /\ i + 1 + l <= n
      BY <1>1, <1>3
    <3> QED BY <1>2, <3>1
  <2>3. e \in ends
    BY <1>3, <2>1, <2>2
  <2>4. ASSUME NEW j \in ends
        PROVE  e <= j
    <3>1. j \in (i + 2)..(n + 1) /\ (j = n + 1 \/ text[j] = Gap)
      BY <2>1
    <3>2. CASE j = n + 1
      BY <1>2, <2>2, <3>2
    <3>3. CASE j < e /\ j # n + 1
      <4>1. PICK m : m = j - (i + 1)
        OBVIOUS
      <4>2. m \in 1..l /\ j = i + 1 + m
        BY <1>1, <1>2, <1>3, <3>1, <3>3, <4>1
      <4>3. text[j] = v[m] /\ v[m] # Gap
        BY <1>1, <1>3, <4>2 DEF Unbroken
      <4> QED BY <3>1, <3>3, <4>3
    <3> QED BY <1>1, <1>2, <1>3, <3>1, <3>2, <3>3
  <2> QED BY <2>3, <2>4
<1>9. (CHOOSE j \in ends : \A k \in ends : j <= k) = e
  <2>1. PICK c : c = CHOOSE j \in ends : \A k \in ends : j <= k
    OBVIOUS
  <2>2. c \in ends /\ \A k \in ends : c <= k
    BY <1>8, <2>1
  <2>3. c <= e /\ e <= c /\ c \in Nat /\ e \in Nat
    BY <1>1, <1>2, <1>3, <1>7, <1>8, <2>2
  <2> QED BY <2>1, <2>3
<1>10. SubSeq(text, i + 2, e - 1) = v
  <2>1. PICK u : u = SubSeq(text, i + 2, e - 1)
    OBVIOUS
  <2>2. u = [k \in 1..l |-> text[i + 1 + k]]
    <3>1. (e - 1) - (i + 2) + 1 = l /\ \A k \in 1..l : (i + 2) + k - 1 = i + 1 + k
      BY <1>1, <1>2, <1>3
    <3>2. u = [k \in 1..((e - 1) - (i + 2) + 1) |-> text[(i + 2) + k - 1]]
      <4>1. i + 2 \in 1..(n + 1) /\ e - 1 \in (i + 1)..n
        BY <1>1, <1>2, <1>3
      <4> QED BY <1>1, <1>2, <2>1, <4>1, SMTT(30)
    <3> QED BY <3>1, <3>2
  <2>3. u \in Seq(S) /\ Len(u) = l /\ \A k \in 1..l : u[k] = v[k]
    <3>1. \A k \in 1..l : v[k] \in S /\ text[i + 1 + k] = v[k]
      BY <1>1, <1>3
    <3>2. \A k \in 1..l : u[k] = v[k]
      BY <2>2, <3>1
    <3>3. u \in [1..l -> S]
      BY <2>2, <3>1
    <3> QED BY <1>2, <3>2, <3>3
  <2>4. u = v
    BY <1>1, <2>3, SeqEqual
  <2> QED BY <2>1, <2>4
<1>11. Reconnected(text, o) = {SubSeq(text, i + 2, e - 1)}
  <2>1. PICK cuts : cuts = {k \in 1..Len(text) : text[k] = o.keyword /\ (k = 1 \/ text[k - 1] = Gap)
                              /\ k < Len(text) /\ text[k + 1] = "="}
    OBVIOUS
  <2>2. cuts = {i} /\ cuts # {}
    BY <1>5, <2>1
  <2> QED BY <1>6, <1>7, <1>9, <2>1, <2>2, Zenon DEF Reconnected
<1> QED BY <1>10, <1>11 DEF ReadsTheOne

\* What does not stand there is taken from elsewhere.
LEMMA NoSettingIsRead ==
  ASSUME NEW S, NEW text \in Seq(S), NEW o, OnlyAt(text, {}, o.keyword)
  PROVE  Reconnected(text, o) = IF o.env # {} THEN o.env ELSE o.compiled
<1>1. PICK cuts : cuts = {k \in 1..Len(text) : text[k] = o.keyword /\ (k = 1 \/ text[k - 1] = Gap)
                            /\ k < Len(text) /\ text[k + 1] = "="}
  OBVIOUS
<1>2. cuts = {}
  BY <1>1 DEF OnlyAt
<1> QED BY <1>1, <1>2, Zenon DEF Reconnected

\* u is a text with a setting behind it.
Continues(u, text, keyword, v) ==
  LET n == Len(text)
      b == IF n = 0 THEN 1 ELSE n + 2
  IN  /\ Len(u) = b + 1 + Len(v)
      /\ \A i \in 1..n : u[i] = text[i]
      /\ n # 0 => u[n + 1] = Gap
      /\ u[b] = keyword /\ u[b + 1] = "=" /\ \A m \in 1..Len(v) : u[b + 1 + m] = v[m]

\* That is what a setting is written like.
LEMMA SettingIsWritten ==
  ASSUME NEW S, NEW text \in Seq(S), NEW v \in Seq(S), NEW keyword \in S, Gap \in S, "=" \in S
  PROVE  Continues(WithSetting(text, <<keyword, "=">> \o v), text, keyword, v)
<1>1. PICK n, l, k, w, u : n = Len(text) /\ l = Len(v) /\ k = <<keyword, "=">> /\ w = k \o v
                           /\ u = WithSetting(text, w)
  OBVIOUS
<1>2. /\ n \in Nat /\ l \in Nat /\ k \in Seq(S) /\ Len(k) = 2 /\ k[1] = keyword /\ k[2] = "="
  BY <1>1
<1>3. /\ w \in Seq(S) /\ Len(w) = 2 + l /\ w[1] = keyword /\ w[2] = "="
      /\ \A m \in 1..l : w[2 + m] = v[m]
  <2>1. /\ w \in Seq(S) /\ Len(w) = 2 + l
        /\ \A i \in 1..(2 + l) : w[i] = IF i <= 2 THEN k[i] ELSE v[i - 2]
    BY <1>1, <1>2, ConcatProperties
  <2>2. 1 \in 1..(2 + l) /\ 2 \in 1..(2 + l) /\ 1 <= 2 /\ 2 <= 2
    BY <1>2
  <2>3. \A m \in 1..l : 2 + m \in 1..(2 + l) /\ ~ (2 + m <= 2) /\ (2 + m) - 2 = m
    BY <1>2
  <2> QED BY <1>2, <2>1, <2>2, <2>3
<1>4. w # <<>>
  <2>1. Len(w) # 0
    BY <1>2, <1>3
  <2> QED BY <2>1, EmptySeq
<1>5. CASE text = <<>>
  <2>1. u = text \o <<>> \o w
    BY <1>1, <1>5 DEF WithSetting
  <2>2. <<>> \o <<>> = <<>> /\ <<>> \o w = w
    BY <1>3, ConcatEmptySeq, EmptySeq
  <2>3. u = w
    BY <1>5, <2>1, <2>2
  <2>4. n = 0
    BY <1>1, <1>5
  <2>5. \A m \in 1..l : 1 + 1 + m = 2 + m
    BY <1>2
  <2>6. Len(u) = 1 + 1 + l /\ u[1] = keyword /\ u[1 + 1] = "=" /\ \A m \in 1..l : u[1 + 1 + m] = v[m]
    <3>1. 1 + 1 + l = 2 + l /\ 1 + 1 = 2
      BY <1>2
    <3> QED BY <1>3, <2>3, <2>5, <3>1
  <2>7. \A i \in 1..n : u[i] = text[i]
    BY <2>4
  <2>8. Continues(u, text, keyword, v)
    BY <1>1, <2>4, <2>6, <2>7 DEF Continues
  <2> QED BY <1>1, <2>8
<1>6. CASE text # <<>>
  <2>1. PICK g, h : g = <<Gap>> /\ h = text \o g
    OBVIOUS
  <2>2. g \in Seq(S) /\ Len(g) = 1 /\ g[1] = Gap
    BY <2>1
  <2>3. h \in Seq(S) /\ Len(h) = n + 1
        /\ \A i \in 1..(n + 1) : h[i] = IF i <= n THEN text[i] ELSE g[i - n]
    BY <1>1, <2>1, <2>2, ConcatProperties
  <2>4. u = h \o w
    BY <1>1, <1>4, <1>6, <2>1 DEF WithSetting
  <2>5. Len(u) = (n + 1) + (2 + l)
        /\ \A i \in 1..((n + 1) + (2 + l)) : u[i] = IF i <= n + 1 THEN h[i] ELSE w[i - (n + 1)]
    <3>1. h \in Seq(S) /\ w \in Seq(S)
      BY <1>3, <2>3
    <3>2. Len(u) = Len(h) + Len(w)
          /\ \A i \in 1..(Len(h) + Len(w)) : u[i] = IF i <= Len(h) THEN h[i] ELSE w[i - Len(h)]
      BY <2>4, <3>1, ConcatProperties
    <3>3. Len(h) = n + 1 /\ Len(w) = 2 + l
      BY <1>3, <2>3
    <3> QED BY <3>2, <3>3
  <2>6. n # 0
    BY <1>1, <1>6, EmptySeq
  <2>7. \A i \in 1..n : u[i] = text[i]
    <3> TAKE i \in 1..n
    <3>1. i \in 1..((n + 1) + (2 + l)) /\ i <= n + 1 /\ i \in 1..(n + 1) /\ i <= n
      BY <1>2
    <3> QED BY <2>3, <2>5, <3>1
  <2>8. u[n + 1] = Gap
    <3>1. n + 1 \in 1..((n + 1) + (2 + l)) /\ n + 1 <= n + 1 /\ n + 1 \in 1..(n + 1) /\ ~ (n + 1 <= n)
          /\ (n + 1) - n = 1
      BY <1>2
    <3> QED BY <2>2, <2>3, <2>5, <3>1
  <2>9. \A j \in 1..(2 + l) : u[(n + 1) + j] = w[j]
    <3> TAKE j \in 1..(2 + l)
    <3>1. (n + 1) + j \in 1..((n + 1) + (2 + l)) /\ ~ ((n + 1) + j <= n + 1) /\ ((n + 1) + j) - (n + 1) = j
      BY <1>2
    <3> QED BY <2>5, <3>1
  <2>10. u[n + 2] = keyword /\ u[(n + 2) + 1] = "=" /\ \A m \in 1..l : u[(n + 2) + 1 + m] = v[m]
    <3>1. 1 \in 1..(2 + l) /\ 2 \in 1..(2 + l) /\ (n + 1) + 1 = n + 2 /\ (n + 1) + 2 = (n + 2) + 1
      BY <1>2
    <3>2. \A m \in 1..l : 2 + m \in 1..(2 + l) /\ (n + 1) + (2 + m) = (n + 2) + 1 + m
      BY <1>2
    <3>3. u[n + 2] = w[1] /\ u[(n + 2) + 1] = w[2]
      BY <2>9, <3>1
    <3>4. \A m \in 1..l : u[(n + 2) + 1 + m] = w[2 + m]
      BY <2>9, <3>2
    <3> QED BY <1>3, <3>3, <3>4
  <2>11. Len(u) = (n + 2) + 1 + l
    BY <1>2, <2>5
  <2>12. Continues(u, text, keyword, v)
    BY <1>1, <2>6, <2>7, <2>8, <2>10, <2>11 DEF Continues
  <2> QED BY <1>1, <2>12
<1> QED BY <1>5, <1>6

\* An option's value.
ValueOf(o) == CHOOSE v \in o.val : TRUE

\* Where the settings of the first k options stand; at 0 the ones there are not.
\* And keywords stand nowhere else.
SettingsStand(text, at, options, k, K) ==
  /\ at \in [1..k -> 0..Len(text)]
  /\ \A j \in 1..k : IF Setting(options[j]) = <<>> THEN at[j] = 0
                     ELSE StandsAt(text, at[j], options[j].keyword, ValueOf(options[j]))
  /\ \A i \in 1..Len(text) : text[i] \in K => \E j \in 1..k : at[j] = i

\* Keywords and values that are not mistaken for each other or for what is between,
\* and values without what libpq takes for a quotation.
KeptApart(K, V) ==
  /\ Gap \notin K \cup V /\ "=" \notin K /\ K \cap V = {}
  /\ Apostrophe \notin V /\ Backslash \notin V

\* A setting stays where it is.
LEMMA SettingStays ==
  ASSUME NEW S, NEW text \in Seq(S), NEW u \in Seq(S), NEW keyword, NEW v \in Seq(S),
         Continues(u, text, keyword, v),
         NEW i, NEW other, NEW x \in Seq(S), StandsAt(text, i, other, x)
  PROVE  StandsAt(u, i, other, x)
<1>1. PICK n, l, m, e : n = Len(text) /\ l = Len(v) /\ m = Len(x) /\ e = Len(u)
  OBVIOUS
<1>2. n \in Nat /\ l \in Nat /\ m \in Nat /\ e \in Nat
  BY <1>1
<1>3. /\ i \in 1..n /\ (i = 1 \/ text[i - 1] = Gap)
      /\ i + 1 + m <= n /\ text[i] = other /\ text[i + 1] = "="
      /\ \A k \in 1..m : text[i + 1 + k] = x[k]
      /\ i + 1 + m = n \/ text[i + 2 + m] = Gap
  BY <1>1 DEF StandsAt
<1>4. n # 0
  BY <1>2, <1>3
<1>5. e = (n + 2) + 1 + l /\ (\A k \in 1..n : u[k] = text[k]) /\ u[n + 1] = Gap
  BY <1>1, <1>4 DEF Continues
<1>6. i \in 1..e /\ i + 1 + m <= e
  BY <1>2, <1>3, <1>5
<1>7. i = 1 \/ u[i - 1] = Gap
  <2>1. i # 1 => i - 1 \in 1..n
    BY <1>2, <1>3
  <2> QED BY <1>3, <1>5, <2>1
<1>8. u[i] = other /\ u[i + 1] = "=" /\ \A k \in 1..m : u[i + 1 + k] = x[k]
  <2>1. i + 1 \in 1..n /\ \A k \in 1..m : i + 1 + k \in 1..n
    BY <1>2, <1>3
  <2> QED BY <1>3, <1>5, <2>1
<1>9. u[i + 2 + m] = Gap
  <2>1. CASE i + 1 + m = n
    <3>1. i + 2 + m = n + 1
      BY <1>2, <1>3, <2>1
    <3> QED BY <1>5, <3>1
  <2>2. CASE i + 1 + m # n
    <3>1. i + 2 + m \in 1..n
      BY <1>2, <1>3, <2>2
    <3> QED BY <1>3, <1>5, <2>2, <3>1
  <2> QED BY <2>1, <2>2
<1> QED BY <1>1, <1>6, <1>7, <1>8, <1>9 DEF StandsAt

\* The new one stands behind it.
LEMMA SettingStands ==
  ASSUME NEW S, NEW text \in Seq(S), NEW u \in Seq(S), NEW keyword, NEW v \in Seq(S),
         Continues(u, text, keyword, v)
  PROVE  StandsAt(u, IF text = <<>> THEN 1 ELSE Len(text) + 2, keyword, v)
<1>1. PICK n, l, b, e : n = Len(text) /\ l = Len(v) /\ e = Len(u) /\ b = (IF n = 0 THEN 1 ELSE n + 2)
  OBVIOUS
<1>2. n \in Nat /\ l \in Nat /\ e \in Nat /\ (n = 0 <=> text = <<>>)
  BY <1>1, EmptySeq
<1>3. /\ e = b + 1 + l /\ (n # 0 => u[n + 1] = Gap)
      /\ u[b] = keyword /\ u[b + 1] = "=" /\ \A m \in 1..l : u[b + 1 + m] = v[m]
  BY <1>1 DEF Continues
<1>4. b \in 1..e /\ b + 1 + l <= e /\ b + 1 + l = e /\ (b = 1 \/ (n # 0 /\ b - 1 = n + 1))
  BY <1>1, <1>2, <1>3
<1>5. StandsAt(u, b, keyword, v)
  BY <1>1, <1>3, <1>4 DEF StandsAt
<1> QED BY <1>1, <1>2, <1>5

\* One option more.
LEMMA OneMoreOption ==
  ASSUME NEW K, NEW V, KeptApart(K, V), NEW options \in Seq(OptionsOver(K, V)),
         NEW text \in Seq(Signs(K, V)), NEW k \in 1..Len(options), NEW at,
         SettingsStand(text, at, options, k - 1, K)
  PROVE  \E to : SettingsStand(WithSetting(text, Setting(options[k])), to, options, k, K)
<1>1. PICK S, n, o, w, u : S = Signs(K, V) /\ n = Len(text) /\ o = options[k] /\ w = Setting(o)
                           /\ u = WithSetting(text, w)
  OBVIOUS
<1>2. n \in Nat /\ k \in Nat \ {0} /\ o \in OptionsOver(K, V) /\ o.keyword \in K
      /\ \A j \in 1..k : j \in 1..Len(options)
  <2>1. o \in OptionsOver(K, V)
    BY <1>1
  <2>2. Len(options) \in Nat
    OBVIOUS
  <2>3. n \in Nat /\ k \in Nat \ {0} /\ \A j \in 1..k : j \in 1..Len(options)
    BY <1>1, <2>2
  <2> QED BY <2>1, <2>3 DEF OptionsOver
<1>3. /\ at \in [1..(k - 1) -> 0..n]
      /\ \A j \in 1..(k - 1) : IF Setting(options[j]) = <<>> THEN at[j] = 0
                               ELSE StandsAt(text, at[j], options[j].keyword, ValueOf(options[j]))
      /\ \A i \in 1..n : text[i] \in K => \E j \in 1..(k - 1) : at[j] = i
  BY <1>1 DEF SettingsStand
<1>4. \A j \in 1..k : j = k \/ j \in 1..(k - 1)
  BY <1>2
<1>5. CASE w = <<>>
  <2>1. u = text
    <3>1. u = text \o <<>> \o <<>>
      BY <1>1, <1>5 DEF WithSetting
    <3>2. text \o <<>> = text
      BY <1>1, ConcatEmptySeq
    <3> QED BY <3>1, <3>2
  <2>2. PICK to : to = [j \in 1..k |-> IF j = k THEN 0 ELSE at[j]]
    OBVIOUS
  <2>3. to \in [1..k -> 0..n]
    BY <1>2, <1>3, <1>4, <2>2
  <2>4. \A j \in 1..(k - 1) : j \in 1..k /\ to[j] = at[j]
    BY <1>2, <2>2
  <2>5. to[k] = 0
    BY <1>2, <2>2
  <2>6. \A j \in 1..k : IF Setting(options[j]) = <<>> THEN to[j] = 0
                        ELSE StandsAt(text, to[j], options[j].keyword, ValueOf(options[j]))
    BY <1>1, <1>3, <1>4, <1>5, <2>4, <2>5
  <2>7. \A i \in 1..n : text[i] \in K => \E j \in 1..k : to[j] = i
    BY <1>3, <2>4
  <2>8. SettingsStand(text, to, options, k, K)
    BY <1>1, <2>3, <2>6, <2>7 DEF SettingsStand
  <2> QED BY <1>1, <2>1, <2>8
<1>6. CASE w # <<>>
  <2>1. PICK v \in Seq(V) : o.val = {v} /\ w = <<o.keyword, "=">> \o v
    <3>1. IsSet(o)
      BY <1>1, <1>6 DEF IsSet
    <3>2. o \in OptionsOver(K, V)
      BY <1>2
    <3>3. SettingSays(o, V)
      BY <3>1, <3>2, SettingSaysIt
    <3> QED BY <1>1, <3>3 DEF SettingSays
  <2>2. ValueOf(o) = v
    BY <2>1 DEF ValueOf
  <2>3. v \in Seq(S) /\ o.keyword \in S /\ Gap \in S /\ "=" \in S
    <3>1. V \subseteq S /\ K \subseteq S /\ Gap \in S /\ "=" \in S
      BY <1>1 DEF Signs
    <3>2. \A m \in 1..Len(v) : v[m] \in S
      BY <3>1
    <3>3. v \in Seq(S)
      BY <3>2
    <3> QED BY <1>2, <3>1, <3>3
  <2>4. text \in Seq(S)
    BY <1>1
  <2>5. Continues(u, text, o.keyword, v)
    BY <1>1, <2>1, <2>3, <2>4, SettingIsWritten
  <2>6. u \in Seq(S)
    <3>1. w \in Seq(S)
      BY <1>1, <1>2, SettingIs
    <3>2. PICK g : g = (IF text = <<>> \/ w = <<>> THEN <<>> ELSE <<Gap>>)
      OBVIOUS
    <3>3. g \in Seq(S)
      <4>1. <<>> \in Seq(S) /\ <<Gap>> \in Seq(S)
        BY <2>3
      <4> QED BY <3>2, <4>1
    <3>4. text \o g \o w \in Seq(S)
      BY <2>4, <3>1, <3>3, ConcatProperties
    <3> QED BY <1>1, <3>2, <3>4, Zenon DEF WithSetting
  <2>7. PICK b : b = (IF text = <<>> THEN 1 ELSE Len(text) + 2)
    OBVIOUS
  <2>8. StandsAt(u, b, o.keyword, v)
    BY <2>3, <2>4, <2>5, <2>6, <2>7, SettingStands
  <2>9. PICK to, e, l : to = [j \in 1..k |-> IF j = k THEN b ELSE at[j]] /\ e = Len(u) /\ l = Len(v)
    OBVIOUS
  <2>10. e \in Nat /\ l \in Nat /\ b \in 1..e /\ (n = 0 <=> text = <<>>)
    BY <1>1, <2>4, <2>6, <2>8, <2>9, EmptySeq DEF StandsAt
  <2>11. /\ b = (IF n = 0 THEN 1 ELSE n + 2) /\ e = b + 1 + l
         /\ \A i \in 1..n : u[i] = text[i]
         /\ n # 0 => u[n + 1] = Gap
         /\ u[b] = o.keyword /\ u[b + 1] = "=" /\ \A m \in 1..l : u[b + 1 + m] = v[m]
    BY <1>1, <2>5, <2>7, <2>9, <2>10 DEF Continues
  <2>12. n <= e
    BY <1>2, <2>10, <2>11
  <2>13. to \in [1..k -> 0..e]
    <3>1. \A j \in 1..(k - 1) : at[j] \in 0..e
      BY <1>2, <1>3, <2>10, <2>12
    <3> QED BY <1>2, <1>4, <2>9, <2>10, <3>1
  <2>14. \A j \in 1..(k - 1) : j \in 1..k /\ to[j] = at[j]
    BY <1>2, <2>9
  <2>15. to[k] = b /\ k \in 1..k
    BY <1>2, <2>9
  <2>16. ASSUME NEW j \in 1..k
         PROVE  IF Setting(options[j]) = <<>> THEN to[j] = 0
                ELSE StandsAt(u, to[j], options[j].keyword, ValueOf(options[j]))
    <3>1. CASE j = k
      BY <1>1, <1>6, <2>2, <2>8, <2>15, <3>1
    <3>2. CASE j # k /\ Setting(options[j]) = <<>>
      BY <1>3, <1>4, <2>14, <3>2
    <3>3. CASE j # k /\ Setting(options[j]) # <<>>
      <4>1. PICK p, i, x, other : p = options[j] /\ i = at[j] /\ x = ValueOf(p) /\ other = p.keyword
        OBVIOUS
      <4>2. StandsAt(text, i, other, x)
        BY <1>3, <1>4, <3>3, <4>1
      <4>3. p \in OptionsOver(K, V)
        BY <1>2, <4>1
      <4>4. PICK y \in Seq(V) : p.val = {y}
        <5>1. IsSet(p)
          BY <3>3, <4>1 DEF IsSet
        <5>2. SettingSays(p, V)
          BY <4>3, <5>1, SettingSaysIt
        <5> QED BY <5>2 DEF SettingSays
      <4>5. x = y
        BY <4>1, <4>4 DEF ValueOf
      <4>6. x \in Seq(S)
        <5>1. V \subseteq S
          BY <1>1 DEF Signs
        <5>2. \A m \in 1..Len(y) : y[m] \in S
          BY <5>1
        <5>3. y \in Seq(S)
          BY <5>2
        <5> QED BY <4>5, <5>3
      <4>7. StandsAt(u, i, other, x)
        BY <2>3, <2>4, <2>5, <2>6, <4>2, <4>6, SettingStays
      <4> QED BY <1>4, <2>14, <3>3, <4>1, <4>7
    <3> QED BY <3>1, <3>2, <3>3
  <2>17. ASSUME NEW i \in 1..e, u[i] \in K
         PROVE  \E j \in 1..k : to[j] = i
    <3>1. CASE i \in 1..n
      <4>1. PICK j \in 1..(k - 1) : at[j] = i
        BY <1>3, <2>11, <2>17, <3>1
      <4> QED BY <2>14, <4>1
    <3>2. CASE i = b
      BY <2>15, <3>2
    <3>3. CASE i \notin 1..n /\ i # b
      <4>1. (n # 0 /\ i = n + 1) \/ i = b + 1 \/ \E m \in 1..l : i = b + 1 + m
        <5>1. i <= n + 1 \/ i = b + 1 \/ i - (b + 1) \in 1..l
          BY <1>2, <2>10, <2>11, <3>3
        <5>2. i - (b + 1) \in 1..l => i = b + 1 + (i - (b + 1))
          BY <2>10
        <5>3. i <= n + 1 => n # 0 /\ i = n + 1
          BY <1>2, <2>10, <2>11, <3>3
        <5> QED BY <5>1, <5>2, <5>3
      <4>2. Gap \notin K /\ "=" \notin K
        BY DEF KeptApart
      <4>3. \A m \in 1..l : v[m] \notin K
        <5>1. \A m \in 1..l : v[m] \in V
          BY <2>9
        <5> QED BY <5>1 DEF KeptApart
      <4> QED BY <2>11, <2>17, <4>1, <4>2, <4>3
    <3> QED BY <3>1, <3>2, <3>3
  <2>18. SettingsStand(u, to, options, k, K)
    BY <2>9, <2>13, <2>16, <2>17 DEF SettingsStand
  <2> QED BY <1>1, <2>18
<1> QED BY <1>5, <1>6

\* The i-th keyword is no other's.
OwnKeyword(options, i) ==
  \A j \in 1..Len(options) : options[j].keyword = options[i].keyword => j = i

\* A value the string can say: not an empty one.
Sayable(o) == o.val # {} /\ <<>> \notin o.val

\* What a connection's string says brings every option back, whatever the options are
\* and however many: the value it has, whether written or left to the environment or
\* the library (connection.cxx:1149, :1186).  The values have no blanks, quotes or
\* backslashes, which are written as they are, and are not empty.
THEOREM EveryOptionIsRestored ==
  ASSUME NEW K, NEW V, KeptApart(K, V), NEW options \in Seq(OptionsOver(K, V)),
         NEW i \in 1..Len(options), OwnKeyword(options, i), Sayable(options[i])
  PROVE  Reconnected(ConnectionString(options), options[i]) = options[i].val
<1>1. PICK n, S, o, kw : n = Len(options) /\ S = Signs(K, V) /\ o = options[i] /\ kw = o.keyword
  OBVIOUS
<1>2. n \in Nat /\ o \in OptionsOver(K, V) /\ kw \in K
  <2>1. n \in Nat /\ o \in OptionsOver(K, V)
    BY <1>1
  <2> QED BY <1>1, <2>1 DEF OptionsOver
<1>3. PICK x \in [0..n -> Seq(S)] : StringIs(x, options) /\ ConnectionString(options) = x[n]
  BY <1>1, StringIsWritten
<1>4. x[0] = <<>> /\ \A j \in 1..n : x[j] = WithSetting(x[j - 1], Setting(options[j]))
  BY <1>1, <1>3 DEF StringIs
<1>5. PICK T : T = {k \in 0..n : \E at : SettingsStand(x[k], at, options, k, K)}
  OBVIOUS
<1>6. 0 \in T
  <2>1. PICK at : at = [j \in 1..0 |-> 0]
    OBVIOUS
  <2>2. PICK e : e = Len(x[0])
    OBVIOUS
  <2>3. e = 0
    BY <1>4, <2>2
  <2>4. 1..0 = {} /\ 1..e = {}
    BY <2>3
  <2>5. at \in [1..0 -> 0..e]
    BY <2>1, <2>4
  <2>6. SettingsStand(x[0], at, options, 0, K)
    BY <2>2, <2>4, <2>5 DEF SettingsStand
  <2> QED BY <1>2, <1>5, <2>6
<1>7. ASSUME NEW k \in 1..n, k - 1 \in T
      PROVE  k \in T
  <2>1. PICK at : SettingsStand(x[k - 1], at, options, k - 1, K)
    BY <1>5, <1>7
  <2>2. k - 1 \in 0..n /\ k \in 0..n
    BY <1>2
  <2>3. PICK text : text = x[k - 1]
    OBVIOUS
  <2>4. text \in Seq(Signs(K, V)) /\ k \in 1..Len(options) /\ SettingsStand(text, at, options, k - 1, K)
    BY <1>1, <1>3, <2>1, <2>2, <2>3
  <2>5. \E to : SettingsStand(WithSetting(text, Setting(options[k])), to, options, k, K)
    BY <2>4, OneMoreOption
  <2>6. \E to : SettingsStand(x[k], to, options, k, K)
    BY <1>4, <2>3, <2>5
  <2> QED BY <1>5, <2>2, <2>6
<1>8. n \in T
  <2>1. T \subseteq 0..n /\ 0..n \subseteq T
    BY <1>2, <1>5, <1>6, <1>7, ByPositions
  <2> QED BY <1>2, <2>1
<1>9. PICK text, at : text = x[n] /\ SettingsStand(text, at, options, n, K)
  BY <1>5, <1>8
<1>10. text \in Seq(S)
  BY <1>2, <1>3, <1>9
<1>11. PICK e : e = Len(text)
  OBVIOUS
<1>12. /\ at \in [1..n -> 0..e] /\ e \in Nat
       /\ \A j \in 1..n : IF Setting(options[j]) = <<>> THEN at[j] = 0
                          ELSE StandsAt(text, at[j], options[j].keyword, ValueOf(options[j]))
       /\ \A m \in 1..e : text[m] \in K => \E j \in 1..n : at[j] = m
  BY <1>9, <1>10, <1>11 DEF SettingsStand
<1>13. ASSUME NEW m \in 1..e, text[m] = kw
       PROVE  at[i] = m /\ Setting(o) # <<>>
  <2>1. PICK j \in 1..n : at[j] = m
    BY <1>2, <1>12, <1>13
  <2>2. m # 0
    BY <1>12
  <2>3. StandsAt(text, at[j], options[j].keyword, ValueOf(options[j])) /\ Setting(options[j]) # <<>>
    BY <1>12, <2>1, <2>2
  <2>4. text[m] = options[j].keyword
    BY <2>1, <2>3 DEF StandsAt
  <2>5. j = i
    BY <1>1, <1>13, <2>4 DEF OwnKeyword
  <2> QED BY <1>1, <2>1, <2>3, <2>5
<1>14. CASE Setting(o) = <<>>
  <2>1. OnlyAt(text, {}, o.keyword)
    BY <1>1, <1>11, <1>13, <1>14 DEF OnlyAt
  <2>2. Reconnected(text, o) = IF o.env # {} THEN o.env ELSE o.compiled
    BY <1>10, <2>1, NoSettingIsRead
  <2>3. o.val = (IF o.env # {} THEN o.env ELSE o.compiled)
    <3>1. o.val # {}
      BY <1>1 DEF Sayable
    <3> QED BY <1>2, <1>14, <3>1, SettingIs
  <2> QED BY <1>1, <1>3, <1>9, <2>2, <2>3
<1>15. CASE Setting(o) # <<>>
  <2>1. IsSet(o)
    BY <1>15 DEF IsSet
  <2>2. SettingSays(o, V)
    BY <1>2, <2>1, SettingSaysIt
  <2>3. PICK v \in Seq(V) : o.val = {v}
    BY <2>2 DEF SettingSays
  <2>4. ValueOf(o) = v
    BY <2>3 DEF ValueOf
  <2>5. PICK b : b = at[i]
    OBVIOUS
  <2>6. StandsAt(text, b, o.keyword, v)
    BY <1>1, <1>12, <1>15, <2>4, <2>5
  <2>7. OnlyAt(text, {b}, o.keyword)
    BY <1>1, <1>11, <1>13, <2>5 DEF OnlyAt
  <2>8. \A m \in 1..Len(v) : v[m] \in V
    OBVIOUS
  <2>9. Unbroken(v)
    BY <2>8 DEF KeptApart, Unbroken
  <2>10. v \in Seq(S)
    <3>1. \A m \in 1..Len(v) : v[m] \in S
      BY <1>1, <2>8 DEF Signs
    <3> QED BY <3>1
  <2>11. ReadsTheOne(text, o, v)
    BY <1>10, <2>6, <2>7, <2>9, <2>10, SettingIsRead
  <2> QED BY <1>1, <1>3, <1>9, <2>3, <2>11 DEF ReadsTheOne
<1> QED BY <1>14, <1>15

-----------------------------------------------------------------------------
(* The lines of COPY                                                         *)

\* The characters that COPY writes of its own.
CopySigns == DOMAIN EscapeChar \cup {EscapeChar[c] : c \in DOMAIN EscapeChar} \cup {"N"}

LEMMA SignsAre ==
  /\ DOMAIN EscapeChar = {"BS", "FF", "LF", "CR", "TAB", "VT", "\\"}
  /\ EscapeChar["BS"] = "b" /\ EscapeChar["FF"] = "f" /\ EscapeChar["LF"] = "n"
  /\ EscapeChar["CR"] = "r" /\ EscapeChar["TAB"] = "t" /\ EscapeChar["VT"] = "v"
  /\ EscapeChar["\\"] = "\\"
  /\ Escape = "\\" /\ Tab = "TAB" /\ NewLine = "LF"
  BY DEF EscapeChar, Escape, Tab, NewLine

\* An escaped character is neither a separator nor the marker of a null, and comes back.
LEMMA SignsRead ==
  /\ {Escape, Tab, NewLine} \subseteq DOMAIN EscapeChar
  /\ Escape # Tab /\ Escape # NewLine /\ Tab # NewLine
  /\ "N" \notin DOMAIN EscapeChar
  /\ \A c \in DOMAIN EscapeChar :
       EscapeChar[c] \notin {Tab, NewLine, "N"} /\ UnescapeChar(EscapeChar[c]) = c
<1>1. {Escape, Tab, NewLine} \subseteq DOMAIN EscapeChar
  BY SignsAre
<1>2. Escape # Tab /\ Escape # NewLine /\ Tab # NewLine /\ "N" \notin DOMAIN EscapeChar
  BY SignsAre
<1>3. ASSUME NEW c \in DOMAIN EscapeChar
      PROVE  EscapeChar[c] \notin {Tab, NewLine, "N"} /\ UnescapeChar(EscapeChar[c]) = c
  <2>1. EscapeChar[c] \notin {Tab, NewLine, "N"}
    BY SignsAre
  <2>2. \A s \in DOMAIN EscapeChar : EscapeChar[s] = EscapeChar[c] => s = c
    BY SignsAre
  <2>3. PICK those : those = {s \in DOMAIN EscapeChar : EscapeChar[s] = EscapeChar[c]}
    OBVIOUS
  <2>4. those = {c}
    BY <2>2, <2>3
  <2>5. UnescapeChar(EscapeChar[c]) = CHOOSE s \in those : TRUE
    <3>1. UnescapeChar(EscapeChar[c]) = IF those = {} THEN EscapeChar[c] ELSE CHOOSE s \in those : TRUE
      BY <2>3 DEF UnescapeChar
    <3>2. those # {}
      BY <2>4
    <3> QED BY <3>1, <3>2, Zenon
  <2>6. (CHOOSE s \in those : TRUE) = c
    BY <2>4
  <2> QED BY <2>1, <2>5, <2>6
<1> QED BY <1>1, <1>2, <1>3

LEMMA PairIs ==
  ASSUME NEW S, NEW c \in S, NEW d \in S
  PROVE  <<c>> \in Seq(S) /\ <<d>> \in Seq(S) /\ <<c>> \o <<d>> = <<c, d>>
<1>1. <<c>> \in Seq(S) /\ <<d>> \in Seq(S)
  OBVIOUS
<1>2. PICK x, y : x = <<c>> \o <<d>> /\ y = <<c, d>>
  OBVIOUS
<1>3. x \in Seq(S) /\ Len(x) = 2 /\ x[1] = c /\ x[2] = d
  BY <1>1, <1>2
<1>4. y \in Seq(S) /\ Len(y) = 2 /\ y[1] = c /\ y[2] = d
  BY <1>2
<1>5. \A i \in 1..2 : i = 1 \/ i = 2
  OBVIOUS
<1>6. x = y
  BY <1>3, <1>4, <1>5, SeqEqual
<1> QED BY <1>1, <1>2, <1>6

\* How a character is written.
Spellings(S) == [c \in S |-> IF c \in DOMAIN EscapeChar THEN <<Escape, EscapeChar[c]>> ELSE <<c>>]

LEMMA SpellingsMap ==
  ASSUME NEW S, CopySigns \subseteq S
  PROVE  /\ Spellings(S) \in SeqMaps(S, S)
         /\ \A c \in S : Spellings(S)[c] = IF c \in DOMAIN EscapeChar THEN <<Escape, EscapeChar[c]>> ELSE <<c>>
<1>1. ASSUME NEW c \in S
      PROVE  (IF c \in DOMAIN EscapeChar THEN <<Escape, EscapeChar[c]>> ELSE <<c>>) \in Seq(S)
  <2>1. CASE c \in DOMAIN EscapeChar
    <3>1. Escape \in S /\ EscapeChar[c] \in S
      BY <2>1, SignsRead DEF CopySigns
    <3> QED BY <2>1, <3>1
  <2>2. CASE c \notin DOMAIN EscapeChar
    BY <2>2
  <2> QED BY <2>1, <2>2
<1> QED BY <1>1 DEF Spellings, SeqMaps

\* escape_field_to_buffer() writes a text as its characters are written.
LEMMA EscapedSpells ==
  ASSUME NEW S, CopySigns \subseteq S, NEW text \in Seq(S)
  PROVE  Escaped(text) = Spread(Spellings(S), text) /\ Escaped(text) \in Seq(S)
<1>1. \A i \in DOMAIN text : text[i] \in S
  OBVIOUS
<1>2. \A i \in DOMAIN text :
        (IF text[i] \in DOMAIN EscapeChar THEN <<Escape, EscapeChar[text[i]]>> ELSE <<text[i]>>)
          = Spellings(S)[text[i]]
  BY <1>1, SpellingsMap
<1>3. [i \in DOMAIN text |-> IF text[i] \in DOMAIN EscapeChar THEN <<Escape, EscapeChar[text[i]]>>
                             ELSE <<text[i]>>]
        = [i \in DOMAIN text |-> Spellings(S)[text[i]]]
  BY <1>2
<1>4. Escaped(text) = Spread(Spellings(S), text)
  BY <1>3, Zenon DEF Escaped, Spread
<1>5. Spread(Spellings(S), text) \in Seq(S)
  BY SpellingsMap, SpreadTyped
<1> QED BY <1>4, <1>5

\* One character more.
LEMMA EscapedGrows ==
  ASSUME NEW S, CopySigns \subseteq S, NEW text \in Seq(S), NEW c \in S
  PROVE  Escaped(Append(text, c)) = Escaped(text) \o Spellings(S)[c]
<1>1. Append(text, c) \in Seq(S)
  OBVIOUS
<1>2. Escaped(Append(text, c)) = Spread(Spellings(S), Append(text, c)) /\ Escaped(text) = Spread(Spellings(S), text)
  BY <1>1, EscapedSpells
<1>3. PICK g : g = Spellings(S) /\ g \in SeqMaps(S, S)
  BY SpellingsMap
<1>4. Spread(g, Append(text, c)) = Spread(g, text) \o g[c]
  BY <1>3, SpreadAppend
<1> QED BY <1>2, <1>3, <1>4, Zenon

\* The fields of a row, and how one is written.
FieldsOver(S) == {Null} \cup {Field(t) : t \in Seq(S)}
FieldText(f) == IF f.null THEN <<Escape, "N">> ELSE Escaped(f.text)
FieldLine(S) == [f \in FieldsOver(S) |-> FieldText(f) \o <<Tab>>]

LEMMA FieldIs ==
  ASSUME NEW S, NEW f \in FieldsOver(S)
  PROVE  \/ f = Null /\ f.null /\ f.text = <<>>
         \/ f = Field(f.text) /\ ~ f.null /\ f.text \in Seq(S)
<1>1. CASE f = Null
  BY <1>1 DEF Null
<1>2. CASE f # Null
  <2>1. PICK t \in Seq(S) : f = Field(t)
    BY <1>2 DEF FieldsOver
  <2>2. f.null = FALSE /\ f.text = t
    BY <2>1 DEF Field
  <2> QED BY <2>1, <2>2
<1> QED BY <1>1, <1>2

LEMMA FieldWritten ==
  ASSUME NEW S, CopySigns \subseteq S, NEW f \in FieldsOver(S)
  PROVE  FieldText(f) \in Seq(S) /\ FieldText(f) \o <<Tab>> \in Seq(S)
<1>1. Escape \in S /\ Tab \in S /\ "N" \in S
  BY SignsRead DEF CopySigns
<1>2. FieldText(f) \in Seq(S)
  <2>1. CASE f.null
    BY <1>1, <2>1 DEF FieldText
  <2>2. CASE ~ f.null
    <3>1. f.text \in Seq(S)
      BY <2>2, FieldIs
    <3> QED BY <2>2, <3>1, EscapedSpells, Zenon DEF FieldText
  <2> QED BY <2>1, <2>2
<1>3. <<Tab>> \in Seq(S)
  BY <1>1
<1> QED BY <1>2, <1>3, ConcatProperties

LEMMA FieldLineMaps ==
  ASSUME NEW S, CopySigns \subseteq S
  PROVE  /\ FieldLine(S) \in SeqMaps(FieldsOver(S), S)
         /\ \A f \in FieldsOver(S) : FieldLine(S)[f] = FieldText(f) \o <<Tab>>
  BY FieldWritten DEF FieldLine, SeqMaps

\* A field in the buffer of a stream.
LEMMA FieldAppended ==
  ASSUME NEW S, CopySigns \subseteq S, NEW b \in Seq(S), NEW f \in FieldsOver(S)
  PROVE  AppendToBuffer(b, f) = b \o (FieldText(f) \o <<Tab>>)
<1>1. Escape \in S /\ Tab \in S /\ "N" \in S
  BY SignsRead DEF CopySigns
<1>2. PICK t, e, x : t = <<Tab>> /\ e = <<Escape, "N">> /\ x = Escaped(f.text)
  OBVIOUS
<1>3. t \in Seq(S) /\ e \in Seq(S)
  BY <1>1, <1>2
<1>4. CASE f.null
  <2>1. <<Escape, "N", Tab>> = e \o t
    BY <1>2
  <2>2. FieldText(f) = e /\ AppendToBuffer(b, f) = b \o <<Escape, "N", Tab>>
    BY <1>2, <1>4, Zenon DEF FieldText, AppendToBuffer
  <2> QED BY <1>2, <2>1, <2>2, Zenon
<1>5. CASE ~ f.null
  <2>1. x \in Seq(S)
    <3>1. f.text \in Seq(S)
      BY <1>5, FieldIs
    <3> QED BY <1>2, <3>1, EscapedSpells
  <2>2. FieldText(f) = x /\ AppendToBuffer(b, f) = b \o x \o t
    BY <1>2, <1>5, Zenon DEF FieldText, AppendToBuffer
  <2>3. b \o x \o t = b \o (x \o t)
    BY <1>3, <2>1, ConcatAssociative
  <2> QED BY <1>2, <2>2, <2>3, Zenon
<1> QED BY <1>4, <1>5

\* fill_buffer() appends one field after the other.
LEMMA BufferFilled ==
  ASSUME NEW S, CopySigns \subseteq S, NEW row \in Seq(FieldsOver(S))
  PROVE  FillBuffer(row) = Spread(FieldLine(S), row) /\ FillBuffer(row) \in Seq(S)
<1> DEFINE upTo[i \in 0..Len(row)] == IF i = 0 THEN <<>> ELSE AppendToBuffer(upTo[i - 1], row[i])
<1>1. PICK n, h, ss : n = Len(row) /\ h = FieldLine(S) /\ ss = [i \in DOMAIN row |-> h[row[i]]]
  OBVIOUS
<1>2. n \in Nat /\ DOMAIN row = 1..n /\ \A i \in 1..n : row[i] \in FieldsOver(S)
  BY <1>1
<1>3. h \in SeqMaps(FieldsOver(S), S) /\ \A f \in FieldsOver(S) : h[f] = FieldText(f) \o <<Tab>>
  BY <1>1, FieldLineMaps
<1>4. ss \in Seq(Seq(S)) /\ Len(ss) = n /\ \A i \in 1..n : ss[i] = FieldText(row[i]) \o <<Tab>>
  <2>1. \A i \in 1..n : h[row[i]] \in Seq(S)
    BY <1>2, <1>3 DEF SeqMaps
  <2>2. ss = [i \in 1..n |-> h[row[i]]]
    BY <1>1, <1>2
  <2> QED BY <1>2, <1>3, <2>1, <2>2, SMTT(30)
<1>5. PICK x \in [0..n -> Seq(S)] : x[0] = <<>> /\ FlattenSeq(ss) = x[n]
                                    /\ \A i \in 1..n : x[i] = x[i - 1] \o ss[i]
  <2>1. PICK x \in [0..Len(ss) -> Seq(S)] : Concats(x, ss) /\ FlattenSeq(ss) = x[Len(ss)]
    BY <1>4, FlattenIs
  <2> QED BY <1>4, <2>1 DEF Concats
<1>6. \A i \in 1..n, b \in Seq(S) : AppendToBuffer(b, row[i]) = b \o ss[i]
  BY <1>2, <1>4, FieldAppended
<1>7. x = [i \in 0..Len(row) |-> IF i = 0 THEN <<>> ELSE AppendToBuffer(x[i - 1], row[i])]
  <2> HIDE DEF upTo
  <2>1. ASSUME NEW i \in 0..n
        PROVE  x[i] = IF i = 0 THEN <<>> ELSE AppendToBuffer(x[i - 1], row[i])
    <3>1. i # 0 => i \in 1..n /\ x[i - 1] \in Seq(S)
      BY <1>2, <1>5
    <3> QED BY <1>5, <1>6, <3>1
  <2> QED BY <1>1, <1>5, <2>1
<1>8. upTo = [i \in 0..Len(row) |-> IF i = 0 THEN <<>> ELSE AppendToBuffer(upTo[i - 1], row[i])]
  BY <1>7, Zenon
<1>9. FillBuffer(row) = upTo[Len(row)]
  BY DEF FillBuffer
<1> HIDE DEF upTo
<1>10. \A i \in 0..n : upTo[i] = IF i = 0 THEN <<>> ELSE AppendToBuffer(upTo[i - 1], row[i])
  BY <1>1, <1>8
<1>11. PICK T : T = {i \in 0..n : upTo[i] = x[i]}
  OBVIOUS
<1>12. 0 \in T
  BY <1>2, <1>5, <1>10, <1>11
<1>13. ASSUME NEW i \in 1..n, i - 1 \in T
       PROVE  i \in T
  <2>1. i \in 0..n /\ i # 0 /\ i - 1 \in 0..n
    BY <1>2
  <2>2. upTo[i] = AppendToBuffer(x[i - 1], row[i]) /\ x[i - 1] \in Seq(S)
    BY <1>5, <1>10, <1>11, <1>13, <2>1
  <2> QED BY <1>5, <1>6, <1>11, <2>1, <2>2
<1>14. upTo[n] = x[n]
  <2>1. 0..n \subseteq T
    BY <1>2, <1>12, <1>13, ByPositions
  <2> QED BY <1>2, <1>11, <2>1
<1>15. Spread(h, row) = FlattenSeq(ss)
  BY <1>1, Zenon DEF Spread
<1> QED BY <1>1, <1>2, <1>5, <1>9, <1>14, <1>15

\* The row's last field ends the line, the others a tab.
RowText(S, r, f) == Spread(FieldLine(S), r) \o FieldText(f)

LEMMA RowTyped ==
  ASSUME NEW S, CopySigns \subseteq S, NEW r \in Seq(FieldsOver(S)), NEW f \in FieldsOver(S)
  PROVE  /\ RowText(S, r, f) \in Seq(S) /\ RowText(S, r, f) \o <<NewLine>> \in Seq(S)
         /\ Spread(FieldLine(S), r) \in Seq(S)
         /\ Spread(FieldLine(S), Append(r, f)) = RowText(S, r, f) \o <<Tab>>
<1>1. NewLine \in S /\ Tab \in S
  BY SignsRead DEF CopySigns
<1>2. PICK h, x, t : h = FieldLine(S) /\ x = Spread(h, r) /\ t = FieldText(f)
  OBVIOUS
<1>3. h \in SeqMaps(FieldsOver(S), S) /\ h[f] = t \o <<Tab>> /\ t \in Seq(S)
  BY <1>2, FieldLineMaps, FieldWritten
<1>4. x \in Seq(S)
  BY <1>2, <1>3, SpreadTyped
<1>5. x \o t \in Seq(S) /\ <<NewLine>> \in Seq(S) /\ <<Tab>> \in Seq(S)
  BY <1>1, <1>3, <1>4, ConcatProperties
<1>6. (x \o t) \o <<NewLine>> \in Seq(S)
  BY <1>5, ConcatProperties
<1>7. Spread(h, Append(r, f)) = x \o (t \o <<Tab>>)
  BY <1>2, <1>3, SpreadAppend
<1>8. (x \o t) \o <<Tab>> = x \o (t \o <<Tab>>)
  BY <1>3, <1>4, <1>5, ConcatAssociative
<1> QED BY <1>2, <1>4, <1>5, <1>6, <1>7, <1>8, Zenon DEF RowText

\* A sequence that is not empty ends in something.
LEMMA LastAndRest ==
  ASSUME NEW S, NEW s \in Seq(S), s # <<>>
  PROVE  \E r \in Seq(S), e \in S : s = Append(r, e)
<1>1. PICK T : T = {u \in Seq(S) : u = <<>> \/ \E r \in Seq(S), e \in S : u = Append(r, e)}
  OBVIOUS
<1>2. <<>> \in T
  <2>1. <<>> \in Seq(S)
    OBVIOUS
  <2> QED BY <1>1, <2>1
<1>3. ASSUME NEW u \in Seq(S), NEW e \in S, u \in T
      PROVE  Append(u, e) \in T
  <2>1. Append(u, e) \in Seq(S)
    OBVIOUS
  <2> QED BY <1>1, <2>1
<1>4. s \in T
  <2>1. Seq(S) \subseteq T
    BY <1>2, <1>3, BySequences
  <2> QED BY <2>1
<1> QED BY <1>1, <1>4

\* What a stream sends for a row, and what the server does.
LEMMA RowWritten ==
  ASSUME NEW S, CopySigns \subseteq S, NEW r \in Seq(FieldsOver(S)), NEW f \in FieldsOver(S)
  PROVE  WriteValues(Append(r, f)) = RowText(S, r, f) \o <<NewLine>>
<1>1. PICK row, x : row = Append(r, f) /\ x = RowText(S, r, f)
  OBVIOUS
<1>2. row \in Seq(FieldsOver(S)) /\ x \in Seq(S) /\ Tab \in S
  <2>1. Tab \in S
    BY SignsRead DEF CopySigns
  <2>2. row \in Seq(FieldsOver(S))
    BY <1>1
  <2> QED BY <1>1, <2>1, <2>2, RowTyped
<1>3. FillBuffer(row) = Append(x, Tab)
  <2>1. FillBuffer(row) = x \o <<Tab>>
    BY <1>1, <1>2, BufferFilled, RowTyped
  <2>2. x \o <<Tab>> = Append(x, Tab)
    BY <1>2, AppendIsConcat
  <2> QED BY <2>1, <2>2
<1>4. Front(Append(x, Tab)) = x /\ Append(x, Tab) # <<>>
  <2>1. Front(Append(x, Tab)) = x
    BY <1>2, FrontLast
  <2>2. Append(x, Tab) # <<>>
    BY <1>2, AppendProperties
  <2> QED BY <2>1, <2>2
<1>5. WriteValues(row) = Append(x, NewLine)
  BY <1>3, <1>4, Zenon DEF WriteValues, WriteBuffer, WriteCopyLine
<1>6. Append(x, NewLine) = x \o <<NewLine>>
  <2>1. NewLine \in S
    BY SignsRead DEF CopySigns
  <2> QED BY <1>2, <2>1, AppendIsConcat
<1> QED BY <1>1, <1>5, <1>6

LEMMA ServerWrites ==
  ASSUME NEW S, CopySigns \subseteq S, NEW r \in Seq(FieldsOver(S)), NEW f \in FieldsOver(S)
  PROVE  ServerLine(Append(r, f)) = RowText(S, r, f) \o <<NewLine>>
<1>1. PICK n, row, h, ss, l :
        /\ n = Len(r) /\ row = Append(r, f) /\ h = FieldLine(S)
        /\ ss = [i \in DOMAIN r |-> h[r[i]]] /\ l = FieldText(f) \o <<NewLine>>
  OBVIOUS
<1>2. NewLine \in S /\ Tab \in S
  BY SignsRead DEF CopySigns
<1>3. /\ n \in Nat /\ DOMAIN r = 1..n /\ DOMAIN row = 1..(n + 1) /\ Len(row) = n + 1
      /\ row[n + 1] = f /\ \A i \in 1..n : row[i] = r[i] /\ r[i] \in FieldsOver(S)
  BY <1>1
<1>4. h \in SeqMaps(FieldsOver(S), S) /\ \A e \in FieldsOver(S) : h[e] = FieldText(e) \o <<Tab>>
  BY <1>1, FieldLineMaps
<1>5. l \in Seq(S)
  <2>1. FieldText(f) \in Seq(S) /\ <<NewLine>> \in Seq(S)
    BY <1>2, FieldWritten
  <2> QED BY <1>1, <2>1, ConcatProperties
<1>6. ss \in Seq(Seq(S)) /\ Len(ss) = n /\ \A i \in 1..n : ss[i] = h[r[i]]
  <2>1. \A i \in 1..n : h[r[i]] \in Seq(S)
    BY <1>3, <1>4 DEF SeqMaps
  <2>2. ss = [i \in 1..n |-> h[r[i]]]
    BY <1>1, <1>3
  <2> QED BY <1>3, <2>1, <2>2
<1>7. [i \in DOMAIN row |-> FieldText(row[i]) \o (IF i < Len(row) THEN <<Tab>> ELSE <<NewLine>>)]
        = Append(ss, l)
  <2>1. PICK w : w = [i \in DOMAIN row |->
                        FieldText(row[i]) \o (IF i < Len(row) THEN <<Tab>> ELSE <<NewLine>>)]
    OBVIOUS
  <2>2. PICK v : v = Append(ss, l)
    OBVIOUS
  <2>3. v = [i \in 1..(n + 1) |-> v[i]] /\ v[n + 1] = l /\ \A i \in 1..n : v[i] = ss[i]
    <3>1. PICK Q : Q = Seq(S)
      OBVIOUS
    <3>2. ss \in Seq(Q) /\ l \in Q
      BY <1>5, <1>6, <3>1
    <3>3. v \in Seq(Q) /\ Len(v) = n + 1 /\ v[n + 1] = l /\ \A i \in 1..n : v[i] = ss[i]
      BY <1>6, <2>2, <3>2, AppendProperties
    <3>4. v = [i \in 1..Len(v) |-> v[i]]
      BY <3>3
    <3> QED BY <3>3, <3>4
  <2>4. \A i \in 1..n : w[i] = v[i]
    <3>1. \A i \in 1..n : i \in 1..(n + 1) /\ i < n + 1
      BY <1>3
    <3>2. \A i \in 1..n : w[i] = FieldText(r[i]) \o <<Tab>>
      BY <1>3, <2>1, <3>1
    <3>3. TAKE i \in 1..n
    <3>4. w[i] = FieldText(r[i]) \o <<Tab>>
      BY <3>2
    <3>5. v[i] = ss[i] /\ ss[i] = h[r[i]]
      BY <1>6, <2>3
    <3>6. r[i] \in FieldsOver(S)
      BY <1>3
    <3>7. h[r[i]] = FieldText(r[i]) \o <<Tab>>
      BY <1>4, <3>6, Zenon
    <3> QED BY <3>4, <3>5, <3>7, Zenon
  <2>5. w[n + 1] = v[n + 1]
    <3>1. n + 1 \in 1..(n + 1) /\ ~ (n + 1 < n + 1)
      BY <1>3
    <3> QED BY <1>1, <1>3, <2>1, <2>3, <3>1
  <2>6. \A i \in 1..(n + 1) : i \in 1..n \/ i = n + 1
    BY <1>3
  <2>7. w = [i \in 1..(n + 1) |-> w[i]]
    BY <1>3, <2>1
  <2>8. \A i \in 1..(n + 1) : w[i] = v[i]
    BY <2>4, <2>5, <2>6
  <2> QED BY <2>1, <2>2, <2>3, <2>7, <2>8
<1>8. ServerLine(row) = FlattenSeq(Append(ss, l))
  <2>1. ServerLine(row) = FlattenSeq([i \in DOMAIN row |->
          FieldText(row[i]) \o (IF i < Len(row) THEN <<Tab>> ELSE <<NewLine>>)])
    BY DEF ServerLine, FieldText
  <2> QED BY <1>7, <2>1, Zenon
<1>9. FlattenSeq(Append(ss, l)) = FlattenSeq(ss) \o l
  BY <1>5, <1>6, FlattenAppend
<1>10. PICK x, t : x = FlattenSeq(ss) /\ t = FieldText(f)
  OBVIOUS
<1>11. x = Spread(h, r)
  BY <1>1, <1>10, Zenon DEF Spread
<1>12. x \in Seq(S) /\ t \in Seq(S) /\ <<NewLine>> \in Seq(S)
  <2>1. Spread(FieldLine(S), r) \in Seq(S) /\ FieldText(f) \in Seq(S)
    BY RowTyped, FieldWritten
  <2>2. <<NewLine>> \in Seq(S)
    BY <1>2
  <2> QED BY <1>1, <1>10, <1>11, <2>1, <2>2, Zenon
<1>13. x \o l = (x \o t) \o <<NewLine>>
  BY <1>1, <1>10, <1>12, ConcatAssociative
<1> QED BY <1>1, <1>8, <1>9, <1>10, <1>11, <1>13, Zenon DEF RowText

-----------------------------------------------------------------------------
\* parse_line() of stream_from, where it may be in a line it does not refuse.
ParseStates(S) ==
  [fields : Seq(FieldsOver(S)), field : FieldsOver(S), escape : BOOLEAN, failed : BOOLEAN]
Parser(S) == [s \in ParseStates(S) |-> [c \in S |-> Absorb(s, c)]]
InField(fields, f) == [fields |-> fields, field |-> f, escape |-> FALSE, failed |-> FALSE]
InEscape(fields, f) == [fields |-> fields, field |-> f, escape |-> TRUE, failed |-> FALSE]
Parses(S, s, t, e) == Leads(Parser(S), ParseStates(S), s, t, e)

LEMMA ParsePlaces ==
  ASSUME NEW S, NEW fs \in Seq(FieldsOver(S)), NEW f \in FieldsOver(S)
  PROVE  InField(fs, f) \in ParseStates(S) /\ InEscape(fs, f) \in ParseStates(S)
  BY DEF ParseStates, InField, InEscape

LEMMA ParsesOne ==
  ASSUME NEW S, NEW s \in ParseStates(S), NEW c \in S, NEW e \in ParseStates(S), e = Absorb(s, c)
  PROVE  Parses(S, s, <<c>>, e)
<1>1. Parser(S)[s][c] = e
  BY DEF Parser
<1> QED BY <1>1, LeadsOne DEF Parses

LEMMA ParsesOn ==
  ASSUME NEW S, NEW s, NEW t \in Seq(S), NEW e, Parses(S, s, t, e),
         NEW u \in Seq(S), NEW r, Parses(S, e, u, r)
  PROVE  Parses(S, s, t \o u, r)
  BY LeadsOn DEF Parses

\* What one character makes of a place.
LEMMA AbsorbIs ==
  /\ \A fs, p, c : c # Tab /\ c # Escape =>
       Absorb(InField(fs, Field(p)), c) = InField(fs, Field(Append(p, c)))
  /\ \A fs, f : Absorb(InField(fs, f), Escape) = InEscape(fs, f)
  /\ \A fs, f : Absorb(InField(fs, f), Tab) = InField(Append(fs, f), Field(<<>>))
  /\ \A fs, p, c : c # "N" =>
       Absorb(InEscape(fs, Field(p)), c) = InField(fs, Field(Append(p, UnescapeChar(c))))
  /\ \A fs : Absorb(InEscape(fs, Field(<<>>)), "N") = InField(fs, Null)
<1>1. Tab # Escape
  BY SignsRead
<1>2. ASSUME NEW fs, NEW p, NEW c, c # Tab, c # Escape
      PROVE  Absorb(InField(fs, Field(p)), c) = InField(fs, Field(Append(p, c)))
  BY <1>2 DEF Absorb, InField, Field
<1>3. ASSUME NEW fs, NEW f
      PROVE  Absorb(InField(fs, f), Escape) = InEscape(fs, f)
  BY <1>1 DEF Absorb, InField, InEscape
<1>4. ASSUME NEW fs, NEW f
      PROVE  Absorb(InField(fs, f), Tab) = InField(Append(fs, f), Field(<<>>))
  BY <1>1 DEF Absorb, InField
<1>5. ASSUME NEW fs, NEW p, NEW c, c # "N"
      PROVE  Absorb(InEscape(fs, Field(p)), c) = InField(fs, Field(Append(p, UnescapeChar(c))))
  BY <1>5 DEF Absorb, InField, InEscape, Field
<1>6. ASSUME NEW fs
      PROVE  Absorb(InEscape(fs, Field(<<>>)), "N") = InField(fs, Null)
  BY DEF Absorb, InField, InEscape
<1> QED BY <1>2, <1>3, <1>4, <1>5, <1>6

\* A character, as it is written, is read as itself.
LEMMA CharacterParsed ==
  ASSUME NEW S, CopySigns \subseteq S, NEW fs \in Seq(FieldsOver(S)), NEW p \in Seq(S), NEW c \in S
  PROVE  Parses(S, InField(fs, Field(p)), Spellings(S)[c], InField(fs, Field(Append(p, c))))
<1>1. Field(p) \in FieldsOver(S) /\ Field(Append(p, c)) \in FieldsOver(S)
  <2>1. Append(p, c) \in Seq(S)
    OBVIOUS
  <2> QED BY <2>1 DEF FieldsOver
<1>2. PICK a, b, e : a = InField(fs, Field(p)) /\ b = InEscape(fs, Field(p))
                     /\ e = InField(fs, Field(Append(p, c)))
  OBVIOUS
<1>3. a \in ParseStates(S) /\ b \in ParseStates(S) /\ e \in ParseStates(S)
  BY <1>1, <1>2, ParsePlaces
<1>4. CASE c \in DOMAIN EscapeChar
  <2>1. PICK d : d = EscapeChar[c]
    OBVIOUS
  <2>2. d # "N" /\ UnescapeChar(d) = c /\ d \in S /\ Escape \in S
    BY <1>4, <2>1, SignsRead DEF CopySigns
  <2>3. Absorb(a, Escape) = b /\ Absorb(b, d) = e
    <3>1. Absorb(InEscape(fs, Field(p)), d) = InField(fs, Field(Append(p, UnescapeChar(d))))
      BY <2>2, AbsorbIs
    <3>2. Absorb(InField(fs, Field(p)), Escape) = InEscape(fs, Field(p))
      BY AbsorbIs
    <3> QED BY <1>2, <2>2, <3>1, <3>2, Zenon
  <2>4. Parses(S, a, <<Escape>>, b) /\ Parses(S, b, <<d>>, e)
    BY <1>3, <2>2, <2>3, ParsesOne
  <2>5. <<Escape>> \in Seq(S) /\ <<d>> \in Seq(S) /\ <<Escape>> \o <<d>> = <<Escape, d>>
    BY <2>2, PairIs
  <2>6. Parses(S, a, <<Escape>> \o <<d>>, e)
    BY <2>4, <2>5, ParsesOn
  <2>7. Spellings(S)[c] = <<Escape, d>>
    BY <1>4, <2>1, SpellingsMap
  <2> QED BY <1>2, <2>5, <2>6, <2>7
<1>5. CASE c \notin DOMAIN EscapeChar
  <2>1. c # Tab /\ c # Escape
    BY <1>5, SignsRead
  <2>2. Absorb(a, c) = e
    BY <1>2, <2>1, AbsorbIs
  <2>3. Parses(S, a, <<c>>, e)
    BY <1>3, <2>2, ParsesOne
  <2>4. Spellings(S)[c] = <<c>>
    BY <1>5, SpellingsMap
  <2> QED BY <1>2, <2>3, <2>4
<1> QED BY <1>4, <1>5

\* A field is.
LEMMA FieldParsed ==
  ASSUME NEW S, CopySigns \subseteq S, NEW fs \in Seq(FieldsOver(S)), NEW f \in FieldsOver(S)
  PROVE  Parses(S, InField(fs, Field(<<>>)), FieldText(f), InField(fs, f))
<1>1. Field(<<>>) \in FieldsOver(S) /\ Null \in FieldsOver(S)
  <2>1. <<>> \in Seq(S)
    OBVIOUS
  <2> QED BY <2>1 DEF FieldsOver
<1>2. PICK a : a = InField(fs, Field(<<>>))
  OBVIOUS
<1>3. CASE f = Null
  <2>1. PICK b, e : b = InEscape(fs, Field(<<>>)) /\ e = InField(fs, Null)
    OBVIOUS
  <2>2. a \in ParseStates(S) /\ b \in ParseStates(S) /\ e \in ParseStates(S)
    BY <1>1, <1>2, <2>1, ParsePlaces
  <2>3. Escape \in S /\ "N" \in S
    BY SignsRead DEF CopySigns
  <2>4. Absorb(a, Escape) = b /\ Absorb(b, "N") = e
    BY <1>2, <2>1, AbsorbIs
  <2>5. Parses(S, a, <<Escape>>, b) /\ Parses(S, b, <<"N">>, e)
    BY <2>2, <2>3, <2>4, ParsesOne
  <2>6. <<Escape>> \in Seq(S) /\ <<"N">> \in Seq(S) /\ <<Escape>> \o <<"N">> = <<Escape, "N">>
    BY <2>3, PairIs
  <2>7. Parses(S, a, <<Escape>> \o <<"N">>, e)
    BY <2>5, <2>6, ParsesOn
  <2>8. FieldText(f) = <<Escape, "N">>
    BY <1>3 DEF FieldText, Null
  <2> QED BY <1>2, <1>3, <2>1, <2>6, <2>7, <2>8
<1>4. CASE f # Null
  <2>1. ~ f.null /\ f.text \in Seq(S) /\ f = Field(f.text)
    BY <1>4, FieldIs
  <2>2. PICK at : at = [p \in Seq(S) |-> InField(fs, Field(p))]
    OBVIOUS
  <2>3. at \in [Seq(S) -> ParseStates(S)]
    <3>1. \A p \in Seq(S) : InField(fs, Field(p)) \in ParseStates(S)
      <4>1. \A p \in Seq(S) : Field(p) \in FieldsOver(S)
        BY DEF FieldsOver
      <4> QED BY <4>1, ParsePlaces
    <3> QED BY <2>2, <3>1
  <2>4. Spellings(S) \in SeqMaps(S, S)
    BY SpellingsMap
  <2>5. \A p \in Seq(S), c \in S :
          Leads(Parser(S), ParseStates(S), at[p], Spellings(S)[c], at[Append(p, c)])
    <3> TAKE p \in Seq(S), c \in S
    <3>1. Append(p, c) \in Seq(S)
      OBVIOUS
    <3>2. at[p] = InField(fs, Field(p)) /\ at[Append(p, c)] = InField(fs, Field(Append(p, c)))
      BY <2>2, <3>1
    <3>3. Parses(S, InField(fs, Field(p)), Spellings(S)[c], InField(fs, Field(Append(p, c))))
      BY CharacterParsed
    <3> QED BY <3>2, <3>3, Zenon DEF Parses
  <2>6. Leads(Parser(S), ParseStates(S), at[<<>>], Spread(Spellings(S), f.text), at[f.text])
    BY <2>1, <2>3, <2>4, <2>5, LeadsSpread
  <2>7. at[<<>>] = a /\ at[f.text] = InField(fs, f)
    <3>1. <<>> \in Seq(S)
      OBVIOUS
    <3> QED BY <1>2, <2>1, <2>2, <3>1, Zenon
  <2>8. FieldText(f) = Spread(Spellings(S), f.text)
    BY <2>1, EscapedSpells, Zenon DEF FieldText
  <2> QED BY <1>2, <2>6, <2>7, <2>8, Zenon DEF Parses
<1> QED BY <1>3, <1>4

\* The fields that end in tabs are.
LEMMA FieldsParsed ==
  ASSUME NEW S, CopySigns \subseteq S, NEW row \in Seq(FieldsOver(S))
  PROVE  Parses(S, InField(<<>>, Field(<<>>)), Spread(FieldLine(S), row), InField(row, Field(<<>>)))
<1>1. PICK F, none, at : F = FieldsOver(S) /\ none = Field(<<>>) /\ at = [r \in Seq(F) |-> InField(r, none)]
  OBVIOUS
<1>2. none \in F
  <2>1. <<>> \in Seq(S)
    OBVIOUS
  <2> QED BY <1>1, <2>1 DEF FieldsOver
<1>3. at \in [Seq(F) -> ParseStates(S)]
  <2>1. \A r \in Seq(F) : InField(r, none) \in ParseStates(S)
    BY <1>1, <1>2, ParsePlaces
  <2> QED BY <1>1, <2>1
<1>4. FieldLine(S) \in SeqMaps(F, S)
  BY <1>1, FieldLineMaps
<1>5. \A r \in Seq(F), f \in F :
        Leads(Parser(S), ParseStates(S), at[r], FieldLine(S)[f], at[Append(r, f)])
  <2> TAKE r \in Seq(F), f \in F
  <2>1. PICK a, b, e, t : a = InField(r, none) /\ b = InField(r, f) /\ e = InField(Append(r, f), none)
                          /\ t = FieldText(f)
    OBVIOUS
  <2>2. Append(r, f) \in Seq(F)
    OBVIOUS
  <2>3. b \in ParseStates(S) /\ e \in ParseStates(S)
    BY <1>1, <1>2, <2>1, <2>2, ParsePlaces
  <2>4. Tab \in S
    BY SignsRead DEF CopySigns
  <2>5. Absorb(b, Tab) = e
    BY <1>1, <2>1, AbsorbIs
  <2>6. Parses(S, b, <<Tab>>, e)
    BY <2>3, <2>4, <2>5, ParsesOne
  <2>7. Parses(S, a, t, b)
    BY <1>1, <2>1, FieldParsed
  <2>8. t \in Seq(S) /\ <<Tab>> \in Seq(S)
    <3>1. t \in Seq(S)
      BY <1>1, <2>1, FieldWritten
    <3> QED BY <2>4, <3>1
  <2>9. Parses(S, a, t \o <<Tab>>, e)
    BY <2>6, <2>7, <2>8, ParsesOn
  <2>10. FieldLine(S)[f] = t \o <<Tab>>
    BY <1>1, <2>1, FieldLineMaps
  <2>11. at[r] = a /\ at[Append(r, f)] = e
    BY <1>1, <2>1, <2>2, Zenon
  <2> QED BY <2>9, <2>10, <2>11, Zenon DEF Parses
<1>6. row \in Seq(F)
  BY <1>1
<1>7. Leads(Parser(S), ParseStates(S), at[<<>>], Spread(FieldLine(S), row), at[row])
  BY <1>3, <1>4, <1>5, <1>6, LeadsSpread
<1>8. at[<<>>] = InField(<<>>, none) /\ at[row] = InField(row, none)
  <2>1. <<>> \in Seq(F)
    OBVIOUS
  <2> QED BY <1>1, <1>6, <2>1, Zenon
<1> QED BY <1>1, <1>7, <1>8, Zenon DEF Parses

\* A loop over a line ends where the line leads to.
LEMMA ParseEnds ==
  ASSUME NEW S, NEW line \in Seq(S), NEW e \in ParseStates(S), Parses(S, AtStart, line, e)
  PROVE  ParseLine(line) = IF e.failed \/ e.escape THEN {} ELSE {Append(e.fields, e.field)}
<1> DEFINE upTo[i \in 0..Len(line)] == IF i = 0 THEN AtStart ELSE Absorb(upTo[i - 1], line[i])
<1>1. PICK n, X, m : n = Len(line) /\ X = ParseStates(S) /\ m = Parser(S)
  OBVIOUS
<1>2. n \in Nat /\ \A i \in 1..n : line[i] \in S
  BY <1>1
<1>3. \A s \in X, c \in S : m[s][c] = Absorb(s, c)
  BY <1>1 DEF Parser
<1>4. Leads(m, X, AtStart, line, e)
  BY <1>1 DEF Parses
<1>5. PICK x \in [0..n -> X] : x[0] = AtStart /\ \A i \in 1..n : x[i] = m[x[i - 1]][line[i]]
  <2> HIDE DEF upTo
  <2>1. PICK x : Runs(x, m, X, AtStart, line)
    BY <1>4 DEF Leads
  <2> QED BY <1>1, <2>1 DEF Runs
<1>6. x = [i \in 0..Len(line) |-> IF i = 0 THEN AtStart ELSE Absorb(x[i - 1], line[i])]
  <2> HIDE DEF upTo
  <2>1. ASSUME NEW i \in 0..n
        PROVE  x[i] = IF i = 0 THEN AtStart ELSE Absorb(x[i - 1], line[i])
    <3>1. i # 0 => i \in 1..n /\ x[i - 1] \in X
      BY <1>2, <1>5
    <3> QED BY <1>2, <1>3, <1>5, <3>1
  <2> QED BY <1>1, <1>5, <2>1
<1>7. upTo = [i \in 0..Len(line) |-> IF i = 0 THEN AtStart ELSE Absorb(upTo[i - 1], line[i])]
  BY <1>6, Zenon
<1>8. ParseLine(line) = IF upTo[Len(line)].failed \/ upTo[Len(line)].escape THEN {}
                        ELSE {Append(upTo[Len(line)].fields, upTo[Len(line)].field)}
  BY Zenon DEF ParseLine
<1> HIDE DEF upTo
<1>9. upTo[0] = AtStart /\ \A i \in 1..n : upTo[i] = Absorb(upTo[i - 1], line[i])
  <2>1. 0 \in 0..n /\ \A i \in 1..n : i \in 0..n /\ i # 0
    BY <1>2
  <2> QED BY <1>1, <1>7, <2>1
<1>10. \A i \in 1..n : upTo[i - 1] \in X => upTo[i] = m[upTo[i - 1]][line[i]]
  BY <1>2, <1>3, <1>9
<1>11. upTo[n] = e
  <2>1. Walks(upTo, m, X, AtStart, line)
    BY <1>1, <1>9, <1>10 DEF Walks
  <2>2. upTo[Len(line)] = e
    BY <1>4, <2>1, LeadsThere
  <2> QED BY <1>1, <2>2
<1> QED BY <1>1, <1>8, <1>11

\* stream_from reads a row as what it is.
LEMMA RowParsed ==
  ASSUME NEW S, CopySigns \subseteq S, NEW r \in Seq(FieldsOver(S)), NEW f \in FieldsOver(S)
  PROVE  ParseLine(RowText(S, r, f)) = {Append(r, f)}
<1>1. PICK a, b, e, x, t : /\ a = InField(<<>>, Field(<<>>)) /\ b = InField(r, Field(<<>>))
                           /\ e = InField(r, f) /\ x = Spread(FieldLine(S), r) /\ t = FieldText(f)
  OBVIOUS
<1>2. x \in Seq(S) /\ t \in Seq(S) /\ x \o t \in Seq(S) /\ RowText(S, r, f) = x \o t
  BY <1>1, RowTyped, FieldWritten DEF RowText
<1>3. Parses(S, a, x, b) /\ Parses(S, b, t, e)
  BY <1>1, FieldsParsed, FieldParsed
<1>4. Parses(S, a, x \o t, e)
  BY <1>2, <1>3, ParsesOn
<1>5. a = AtStart
  BY <1>1 DEF AtStart, InField
<1>6. e \in ParseStates(S)
  BY <1>1, ParsePlaces
<1>7. e.failed = FALSE /\ e.escape = FALSE /\ e.fields = r /\ e.field = f
  BY <1>1 DEF InField
<1>8. ParseLine(x \o t) = IF e.failed \/ e.escape THEN {} ELSE {Append(e.fields, e.field)}
  BY <1>2, <1>4, <1>5, <1>6, ParseEnds
<1> QED BY <1>2, <1>7, <1>8

\* No two fields are written alike.
LEMMA FieldsDiffer ==
  ASSUME NEW S, CopySigns \subseteq S, NEW f \in FieldsOver(S), NEW g \in FieldsOver(S),
         FieldText(f) = FieldText(g)
  PROVE  f = g
<1>1. PICK none, a, b : none = <<>> /\ a = Append(none, f) /\ b = Append(none, g)
  OBVIOUS
<1>2. none \in Seq(FieldsOver(S))
  BY <1>1
<1>3. ParseLine(RowText(S, none, f)) = {a} /\ ParseLine(RowText(S, none, g)) = {b}
  BY <1>1, <1>2, RowParsed
<1>4. RowText(S, none, f) = RowText(S, none, g)
  BY Zenon DEF RowText
<1>5. a = b
  BY <1>3, <1>4
<1>6. a[1] = f /\ b[1] = g
  BY <1>1
<1> QED BY <1>5, <1>6

-----------------------------------------------------------------------------
\* A field as the server reads it.
RawStates(S) == [text : Seq(S), escape : BOOLEAN]
Unescaper(S) == [s \in RawStates(S) |-> [c \in S |-> Unescape(s, c)]]
Raw(t) == [text |-> t, escape |-> FALSE]
RawEscape(t) == [text |-> t, escape |-> TRUE]
Unescapes(S, s, t, e) == Leads(Unescaper(S), RawStates(S), s, t, e)

LEMMA UnescapesOne ==
  ASSUME NEW S, NEW s \in RawStates(S), NEW c \in S, NEW e \in RawStates(S), e = Unescape(s, c)
  PROVE  Unescapes(S, s, <<c>>, e)
<1>1. Unescaper(S)[s][c] = e
  BY DEF Unescaper
<1> QED BY <1>1, LeadsOne DEF Unescapes

LEMMA UnescapeIs ==
  /\ \A p, c : c # Escape => Unescape(Raw(p), c) = Raw(Append(p, c))
  /\ \A p : Unescape(Raw(p), Escape) = RawEscape(p)
  /\ \A p, c : Unescape(RawEscape(p), c) = Raw(Append(p, UnescapeChar(c)))
<1>1. ASSUME NEW p, NEW c, c # Escape
      PROVE  Unescape(Raw(p), c) = Raw(Append(p, c))
  BY <1>1 DEF Unescape, Raw
<1>2. ASSUME NEW p
      PROVE  Unescape(Raw(p), Escape) = RawEscape(p)
  BY DEF Unescape, Raw, RawEscape
<1>3. ASSUME NEW p, NEW c
      PROVE  Unescape(RawEscape(p), c) = Raw(Append(p, UnescapeChar(c)))
  BY DEF Unescape, Raw, RawEscape
<1> QED BY <1>1, <1>2, <1>3

LEMMA CharacterUnescaped ==
  ASSUME NEW S, CopySigns \subseteq S, NEW p \in Seq(S), NEW c \in S
  PROVE  Unescapes(S, Raw(p), Spellings(S)[c], Raw(Append(p, c)))
<1>1. PICK a, b, e : a = Raw(p) /\ b = RawEscape(p) /\ e = Raw(Append(p, c))
  OBVIOUS
<1>2. a \in RawStates(S) /\ b \in RawStates(S) /\ e \in RawStates(S)
  <2>1. Append(p, c) \in Seq(S)
    OBVIOUS
  <2> QED BY <1>1, <2>1 DEF Raw, RawEscape, RawStates
<1>3. CASE c \in DOMAIN EscapeChar
  <2>1. PICK d : d = EscapeChar[c]
    OBVIOUS
  <2>2. UnescapeChar(d) = c /\ d \in S /\ Escape \in S
    BY <1>3, <2>1, SignsRead DEF CopySigns
  <2>3. Unescape(a, Escape) = b /\ Unescape(b, d) = e
    <3>1. Unescape(RawEscape(p), d) = Raw(Append(p, UnescapeChar(d)))
      BY UnescapeIs
    <3>2. Unescape(Raw(p), Escape) = RawEscape(p)
      BY UnescapeIs
    <3> QED BY <1>1, <2>2, <3>1, <3>2, Zenon
  <2>4. Unescapes(S, a, <<Escape>>, b) /\ Unescapes(S, b, <<d>>, e)
    BY <1>2, <2>2, <2>3, UnescapesOne
  <2>5. <<Escape>> \in Seq(S) /\ <<d>> \in Seq(S) /\ <<Escape>> \o <<d>> = <<Escape, d>>
    BY <2>2, PairIs
  <2>6. Unescapes(S, a, <<Escape>> \o <<d>>, e)
    BY <2>4, <2>5, LeadsOn DEF Unescapes
  <2>7. Spellings(S)[c] = <<Escape, d>>
    BY <1>3, <2>1, SpellingsMap
  <2> QED BY <1>1, <2>5, <2>6, <2>7
<1>4. CASE c \notin DOMAIN EscapeChar
  <2>1. c # Escape
    BY <1>4, SignsRead
  <2>2. Unescape(a, c) = e
    BY <1>1, <2>1, UnescapeIs
  <2>3. Unescapes(S, a, <<c>>, e)
    BY <1>2, <2>2, UnescapesOne
  <2>4. Spellings(S)[c] = <<c>>
    BY <1>4, SpellingsMap
  <2> QED BY <1>1, <2>3, <2>4
<1> QED BY <1>3, <1>4

LEMMA TextUnescaped ==
  ASSUME NEW S, CopySigns \subseteq S, NEW t \in Seq(S)
  PROVE  Unescapes(S, Raw(<<>>), Escaped(t), Raw(t))
<1>1. PICK at : at = [p \in Seq(S) |-> Raw(p)]
  OBVIOUS
<1>2. at \in [Seq(S) -> RawStates(S)]
  BY <1>1 DEF Raw, RawStates
<1>3. Spellings(S) \in SeqMaps(S, S)
  BY SpellingsMap
<1>4. \A p \in Seq(S), c \in S :
        Leads(Unescaper(S), RawStates(S), at[p], Spellings(S)[c], at[Append(p, c)])
  <2> TAKE p \in Seq(S), c \in S
  <2>1. Append(p, c) \in Seq(S)
    OBVIOUS
  <2>2. at[p] = Raw(p) /\ at[Append(p, c)] = Raw(Append(p, c))
    BY <1>1, <2>1
  <2>3. Unescapes(S, Raw(p), Spellings(S)[c], Raw(Append(p, c)))
    BY CharacterUnescaped
  <2> QED BY <2>2, <2>3, Zenon DEF Unescapes
<1>5. Leads(Unescaper(S), RawStates(S), at[<<>>], Spread(Spellings(S), t), at[t])
  BY <1>2, <1>3, <1>4, LeadsSpread
<1>6. at[<<>>] = Raw(<<>>) /\ at[t] = Raw(t)
  <2>1. <<>> \in Seq(S)
    OBVIOUS
  <2> QED BY <1>1, <2>1, Zenon
<1>7. Escaped(t) = Spread(Spellings(S), t)
  BY EscapedSpells
<1> QED BY <1>5, <1>6, <1>7, Zenon DEF Unescapes

\* The server reads a field as what was written.
LEMMA FieldRead ==
  ASSUME NEW S, CopySigns \subseteq S, NEW f \in FieldsOver(S)
  PROVE  ServerField(FieldText(f)) = f
<1>1. Null \in FieldsOver(S) /\ FieldText(Null) = <<Escape, "N">>
  BY DEF FieldsOver, FieldText, Null
<1>2. CASE f = Null
  <2>1. FieldText(f) = <<Escape, "N">>
    BY <1>1, <1>2
  <2> QED BY <1>2, <2>1, Zenon DEF ServerField
<1>3. CASE f # Null
  <2>1. PICK raw : raw = FieldText(f)
    OBVIOUS
  <2>2. raw # <<Escape, "N">>
    BY <1>1, <1>3, <2>1, FieldsDiffer
  <2>3. ~ f.null /\ f.text \in Seq(S) /\ f = Field(f.text) /\ raw = Escaped(f.text) /\ raw \in Seq(S)
    <3>1. ~ f.null /\ f.text \in Seq(S) /\ f = Field(f.text)
      BY <1>3, FieldIs
    <3>2. raw \in Seq(S)
      BY <2>1, FieldWritten
    <3> QED BY <2>1, <3>1, <3>2, Zenon DEF FieldText
  <2> DEFINE upTo[i \in 0..Len(raw)] ==
               IF i = 0 THEN [text |-> <<>>, escape |-> FALSE] ELSE Unescape(upTo[i - 1], raw[i])
  <2>4. PICK n, X, m, s, e : /\ n = Len(raw) /\ X = RawStates(S) /\ m = Unescaper(S)
                             /\ s = Raw(<<>>) /\ e = Raw(f.text)
    OBVIOUS
  <2>5. n \in Nat /\ \A i \in 1..n : raw[i] \in S
    BY <2>3, <2>4
  <2>6. \A r \in X, c \in S : m[r][c] = Unescape(r, c)
    BY <2>4 DEF Unescaper
  <2>7. Leads(m, X, s, raw, e)
    BY <2>3, <2>4, TextUnescaped DEF Unescapes
  <2>8. s = [text |-> <<>>, escape |-> FALSE] /\ e.text = f.text
    BY <2>4 DEF Raw
  <2>9. PICK x \in [0..n -> X] : x[0] = s /\ \A i \in 1..n : x[i] = m[x[i - 1]][raw[i]]
    <3> HIDE DEF upTo
    <3>1. PICK x : Runs(x, m, X, s, raw)
      BY <2>7 DEF Leads
    <3> QED BY <2>4, <3>1 DEF Runs
  <2>10. x = [i \in 0..Len(raw) |->
               IF i = 0 THEN [text |-> <<>>, escape |-> FALSE] ELSE Unescape(x[i - 1], raw[i])]
    <3> HIDE DEF upTo
    <3>1. ASSUME NEW i \in 0..n
          PROVE  x[i] = IF i = 0 THEN s ELSE Unescape(x[i - 1], raw[i])
      <4>1. i # 0 => i \in 1..n /\ x[i - 1] \in X
        BY <2>5, <2>9
      <4> QED BY <2>5, <2>6, <2>9, <4>1
    <3>2. x = [i \in 0..n |-> IF i = 0 THEN s ELSE Unescape(x[i - 1], raw[i])]
      BY <2>9, <3>1
    <3> QED BY <2>4, <2>8, <3>2, Zenon
  <2>11. upTo = [i \in 0..Len(raw) |->
                  IF i = 0 THEN [text |-> <<>>, escape |-> FALSE] ELSE Unescape(upTo[i - 1], raw[i])]
    BY <2>10, Zenon
  <2>12. ServerField(raw) = Field(upTo[Len(raw)].text)
    BY <2>2, Zenon DEF ServerField
  <2> HIDE DEF upTo
  <2>13. upTo[0] = s /\ \A i \in 1..n : upTo[i] = Unescape(upTo[i - 1], raw[i])
    <3>1. 0 \in 0..n /\ \A i \in 1..n : i \in 0..n /\ i # 0
      BY <2>5
    <3> QED BY <2>4, <2>8, <2>11, <3>1
  <2>14. \A i \in 1..n : upTo[i - 1] \in X => upTo[i] = m[upTo[i - 1]][raw[i]]
    BY <2>5, <2>6, <2>13
  <2>15. Walks(upTo, m, X, s, raw)
    BY <2>4, <2>13, <2>14 DEF Walks
  <2>16. upTo[Len(raw)] = e
    BY <2>3, <2>7, <2>15, LeadsThere
  <2> QED BY <2>1, <2>3, <2>8, <2>12, <2>16
<1> QED BY <1>2, <1>3

-----------------------------------------------------------------------------
\* The rows the server reads.
RowsOver(S) == Seq(FieldsOver(S)) \ {<<>>}
CutStates(S) == [rows : Seq(RowsOver(S)), row : Seq(FieldsOver(S)), raw : Seq(S)]
Cutter(S) == [s \in CutStates(S) |-> [c \in S |-> Cut(s, c)]]
AtRaw(rows, row, raw) == [rows |-> rows, row |-> row, raw |-> raw]
Cuts(S, s, t, e) == Leads(Cutter(S), CutStates(S), s, t, e)

LEMMA CutPlaces ==
  ASSUME NEW S, NEW rows \in Seq(RowsOver(S)), NEW row \in Seq(FieldsOver(S)), NEW raw \in Seq(S)
  PROVE  AtRaw(rows, row, raw) \in CutStates(S)
  BY DEF AtRaw, CutStates

LEMMA CutsOne ==
  ASSUME NEW S, NEW s \in CutStates(S), NEW c \in S, NEW e \in CutStates(S), e = Cut(s, c)
  PROVE  Cuts(S, s, <<c>>, e)
<1>1. Cutter(S)[s][c] = e
  BY DEF Cutter
<1> QED BY <1>1, LeadsOne DEF Cuts

LEMMA CutIs ==
  /\ \A rows, row, p, c : c # Tab /\ c # NewLine =>
       Cut(AtRaw(rows, row, p), c) = AtRaw(rows, row, Append(p, c))
  /\ \A rows, row, p : Cut(AtRaw(rows, row, p), Tab) = AtRaw(rows, Append(row, ServerField(p)), <<>>)
  /\ \A rows, row, p : Cut(AtRaw(rows, row, p), NewLine)
                         = AtRaw(Append(rows, Append(row, ServerField(p))), <<>>, <<>>)
<1>1. ASSUME NEW rows, NEW row, NEW p, NEW c, c # Tab, c # NewLine
      PROVE  Cut(AtRaw(rows, row, p), c) = AtRaw(rows, row, Append(p, c))
  BY <1>1 DEF Cut, AtRaw
<1>2. ASSUME NEW rows, NEW row, NEW p
      PROVE  Cut(AtRaw(rows, row, p), Tab) = AtRaw(rows, Append(row, ServerField(p)), <<>>)
  <2>1. Tab # NewLine
    BY SignsRead
  <2> QED BY <2>1 DEF Cut, AtRaw
<1>3. ASSUME NEW rows, NEW row, NEW p
      PROVE  Cut(AtRaw(rows, row, p), NewLine)
               = AtRaw(Append(rows, Append(row, ServerField(p))), <<>>, <<>>)
  BY DEF Cut, AtRaw
<1> QED BY <1>1, <1>2, <1>3

\* What is written of a character separates nothing.
LEMMA CharacterCut ==
  ASSUME NEW S, CopySigns \subseteq S, NEW rows \in Seq(RowsOver(S)), NEW row \in Seq(FieldsOver(S)),
         NEW p \in Seq(S), NEW c \in S
  PROVE  Cuts(S, AtRaw(rows, row, p), Spellings(S)[c], AtRaw(rows, row, p \o Spellings(S)[c]))
<1>1. CASE c \in DOMAIN EscapeChar
  <2>1. PICK d, q, r : d = EscapeChar[c] /\ q = Append(p, Escape) /\ r = Append(q, d)
    OBVIOUS
  <2>2. d # Tab /\ d # NewLine /\ Escape # Tab /\ Escape # NewLine /\ d \in S /\ Escape \in S
    BY <1>1, <2>1, SignsRead DEF CopySigns
  <2>3. q \in Seq(S) /\ r \in Seq(S)
    <3>1. q \in Seq(S)
      BY <2>1, <2>2
    <3> QED BY <2>1, <2>2, <3>1
  <2>4. PICK a, b, e : a = AtRaw(rows, row, p) /\ b = AtRaw(rows, row, q) /\ e = AtRaw(rows, row, r)
    OBVIOUS
  <2>5. a \in CutStates(S) /\ b \in CutStates(S) /\ e \in CutStates(S)
    BY <2>3, <2>4, CutPlaces
  <2>6. Cut(a, Escape) = b /\ Cut(b, d) = e
    <3>1. Cut(AtRaw(rows, row, p), Escape) = AtRaw(rows, row, Append(p, Escape))
      BY <2>2, CutIs
    <3>2. Cut(AtRaw(rows, row, q), d) = AtRaw(rows, row, Append(q, d))
      BY <2>2, CutIs
    <3> QED BY <2>1, <2>4, <3>1, <3>2, Zenon
  <2>7. Cuts(S, a, <<Escape>>, b) /\ Cuts(S, b, <<d>>, e)
    BY <2>2, <2>5, <2>6, CutsOne
  <2>8. <<Escape>> \in Seq(S) /\ <<d>> \in Seq(S) /\ <<Escape>> \o <<d>> = <<Escape, d>>
    BY <2>2, PairIs
  <2>9. Cuts(S, a, <<Escape>> \o <<d>>, e)
    BY <2>7, <2>8, LeadsOn DEF Cuts
  <2>10. Spellings(S)[c] = <<Escape, d>>
    BY <1>1, <2>1, SpellingsMap
  <2>11. r = p \o (<<Escape>> \o <<d>>)
    <3>1. q = p \o <<Escape>> /\ r = q \o <<d>>
      BY <2>1, <2>2, <2>3, AppendIsConcat
    <3>2. (p \o <<Escape>>) \o <<d>> = p \o (<<Escape>> \o <<d>>)
      BY <2>8, ConcatAssociative
    <3> QED BY <3>1, <3>2
  <2> QED BY <2>4, <2>8, <2>9, <2>10, <2>11, Zenon
<1>2. CASE c \notin DOMAIN EscapeChar
  <2>1. c # Tab /\ c # NewLine
    BY <1>2, SignsRead
  <2>2. PICK q, a, e : q = Append(p, c) /\ a = AtRaw(rows, row, p) /\ e = AtRaw(rows, row, q)
    OBVIOUS
  <2>3. a \in CutStates(S) /\ e \in CutStates(S)
    <3>1. q \in Seq(S)
      BY <2>2
    <3> QED BY <2>2, <3>1, CutPlaces
  <2>4. Cut(a, c) = e
    BY <2>1, <2>2, CutIs
  <2>5. Cuts(S, a, <<c>>, e)
    BY <2>3, <2>4, CutsOne
  <2>6. Spellings(S)[c] = <<c>>
    BY <1>2, SpellingsMap
  <2>7. q = p \o <<c>>
    BY <2>2, AppendIsConcat
  <2> QED BY <2>2, <2>5, <2>6, <2>7, Zenon
<1> QED BY <1>1, <1>2

\* Nor of a field.
LEMMA FieldCut ==
  ASSUME NEW S, CopySigns \subseteq S, NEW rows \in Seq(RowsOver(S)), NEW row \in Seq(FieldsOver(S)),
         NEW f \in FieldsOver(S)
  PROVE  Cuts(S, AtRaw(rows, row, <<>>), FieldText(f), AtRaw(rows, row, FieldText(f)))
<1>1. PICK none : none = <<>>
  OBVIOUS
<1>2. none \in Seq(S)
  BY <1>1
<1>3. CASE f = Null
  <2>1. Escape \in S /\ "N" \in S /\ "N" # Tab /\ "N" # NewLine /\ Escape # Tab /\ Escape # NewLine
    BY SignsRead DEF CopySigns
  <2>2. PICK q, r : q = <<Escape>> /\ r = <<Escape, "N">>
    OBVIOUS
  <2>3. q \in Seq(S) /\ r \in Seq(S) /\ Append(none, Escape) = q /\ Append(q, "N") = r
    <3>1. q \in Seq(S) /\ r \in Seq(S)
      BY <2>1, <2>2
    <3>2. Append(none, Escape) = q
      BY <1>1, <2>2
    <3>3. <<"N">> \in Seq(S) /\ q \o <<"N">> = r
      BY <2>1, <2>2, PairIs
    <3>4. Append(q, "N") = q \o <<"N">>
      BY <2>1, <3>1, AppendIsConcat
    <3> QED BY <3>1, <3>2, <3>3, <3>4
  <2>4. PICK a, b, e : a = AtRaw(rows, row, none) /\ b = AtRaw(rows, row, q) /\ e = AtRaw(rows, row, r)
    OBVIOUS
  <2>5. a \in CutStates(S) /\ b \in CutStates(S) /\ e \in CutStates(S)
    BY <1>2, <2>3, <2>4, CutPlaces
  <2>6. Cut(a, Escape) = b /\ Cut(b, "N") = e
    <3>1. Cut(AtRaw(rows, row, none), Escape) = AtRaw(rows, row, Append(none, Escape))
      BY <2>1, CutIs
    <3>2. Cut(AtRaw(rows, row, q), "N") = AtRaw(rows, row, Append(q, "N"))
      BY <2>1, CutIs
    <3> QED BY <2>3, <2>4, <3>1, <3>2
  <2>7. Cuts(S, a, <<Escape>>, b) /\ Cuts(S, b, <<"N">>, e)
    BY <2>1, <2>5, <2>6, CutsOne
  <2>8. <<Escape>> \in Seq(S) /\ <<"N">> \in Seq(S) /\ <<Escape>> \o <<"N">> = <<Escape, "N">>
    BY <2>1, PairIs
  <2>9. Cuts(S, a, <<Escape>> \o <<"N">>, e)
    BY <2>7, <2>8, LeadsOn DEF Cuts
  <2>10. FieldText(f) = <<Escape, "N">>
    BY <1>3 DEF FieldText, Null
  <2> QED BY <1>1, <2>2, <2>4, <2>8, <2>9, <2>10
<1>4. CASE f # Null
  <2>1. ~ f.null /\ f.text \in Seq(S) /\ FieldText(f) = Escaped(f.text)
    <3>1. ~ f.null /\ f.text \in Seq(S)
      BY <1>4, FieldIs
    <3> QED BY <3>1, Zenon DEF FieldText
  <2>2. PICK at : at = [p \in Seq(S) |-> AtRaw(rows, row, Escaped(p))]
    OBVIOUS
  <2>3. at \in [Seq(S) -> CutStates(S)]
    <3>1. \A p \in Seq(S) : AtRaw(rows, row, Escaped(p)) \in CutStates(S)
      BY EscapedSpells, CutPlaces
    <3> QED BY <2>2, <3>1
  <2>4. Spellings(S) \in SeqMaps(S, S)
    BY SpellingsMap
  <2>5. \A p \in Seq(S), c \in S :
          Leads(Cutter(S), CutStates(S), at[p], Spellings(S)[c], at[Append(p, c)])
    <3> TAKE p \in Seq(S), c \in S
    <3>1. Append(p, c) \in Seq(S)
      OBVIOUS
    <3>2. PICK q : q = Escaped(p)
      OBVIOUS
    <3>3. q \in Seq(S)
      BY <3>2, EscapedSpells
    <3>4. Escaped(Append(p, c)) = q \o Spellings(S)[c]
      BY <3>2, EscapedGrows
    <3>5. at[p] = AtRaw(rows, row, q) /\ at[Append(p, c)] = AtRaw(rows, row, q \o Spellings(S)[c])
      BY <2>2, <3>1, <3>2, <3>4
    <3>6. Cuts(S, AtRaw(rows, row, q), Spellings(S)[c], AtRaw(rows, row, q \o Spellings(S)[c]))
      BY <3>3, CharacterCut
    <3> QED BY <3>5, <3>6, Zenon DEF Cuts
  <2>6. Leads(Cutter(S), CutStates(S), at[none], Spread(Spellings(S), f.text), at[f.text])
    BY <1>1, <2>1, <2>3, <2>4, <2>5, LeadsSpread
  <2>7. Escaped(none) = none
    <3>1. Escaped(none) = Spread(Spellings(S), none)
      BY <1>2, EscapedSpells
    <3> QED BY <1>1, <3>1, SpreadNone
  <2>8. at[none] = AtRaw(rows, row, none) /\ at[f.text] = AtRaw(rows, row, FieldText(f))
    BY <1>2, <2>1, <2>2, <2>7, Zenon
  <2>9. FieldText(f) = Spread(Spellings(S), f.text)
    BY <2>1, EscapedSpells
  <2> QED BY <1>1, <2>6, <2>8, <2>9, Zenon DEF Cuts
<1> QED BY <1>3, <1>4

\* The server reads the fields that end in tabs.
LEMMA FieldsCut ==
  ASSUME NEW S, CopySigns \subseteq S, NEW rows \in Seq(RowsOver(S)), NEW row \in Seq(FieldsOver(S))
  PROVE  Cuts(S, AtRaw(rows, <<>>, <<>>), Spread(FieldLine(S), row), AtRaw(rows, row, <<>>))
<1>1. PICK F, none, at : F = FieldsOver(S) /\ none = <<>> /\ at = [r \in Seq(F) |-> AtRaw(rows, r, none)]
  OBVIOUS
<1>2. none \in Seq(S) /\ none \in Seq(F)
  BY <1>1
<1>3. at \in [Seq(F) -> CutStates(S)]
  <2>1. \A r \in Seq(F) : AtRaw(rows, r, none) \in CutStates(S)
    BY <1>1, <1>2, CutPlaces
  <2> QED BY <1>1, <2>1
<1>4. FieldLine(S) \in SeqMaps(F, S)
  BY <1>1, FieldLineMaps
<1>5. \A r \in Seq(F), f \in F :
        Leads(Cutter(S), CutStates(S), at[r], FieldLine(S)[f], at[Append(r, f)])
  <2> TAKE r \in Seq(F), f \in F
  <2>1. PICK t : t = FieldText(f)
    OBVIOUS
  <2>2. PICK a, b, e : a = AtRaw(rows, r, none) /\ b = AtRaw(rows, r, t) /\ e = AtRaw(rows, Append(r, f), none)
    OBVIOUS
  <2>3. Append(r, f) \in Seq(F) /\ t \in Seq(S)
    BY <1>1, <2>1, FieldWritten
  <2>4. b \in CutStates(S) /\ e \in CutStates(S)
    BY <1>1, <1>2, <2>2, <2>3, CutPlaces
  <2>5. Tab \in S
    BY SignsRead DEF CopySigns
  <2>6. Cut(b, Tab) = e
    <3>1. ServerField(t) = f
      BY <1>1, <2>1, FieldRead
    <3>2. Cut(AtRaw(rows, r, t), Tab) = AtRaw(rows, Append(r, ServerField(t)), <<>>)
      BY CutIs
    <3> QED BY <1>1, <2>2, <3>1, <3>2
  <2>7. Cuts(S, b, <<Tab>>, e)
    BY <2>4, <2>5, <2>6, CutsOne
  <2>8. Cuts(S, a, t, b)
    BY <1>1, <2>1, <2>2, FieldCut
  <2>9. <<Tab>> \in Seq(S)
    BY <2>5
  <2>10. Cuts(S, a, t \o <<Tab>>, e)
    BY <2>3, <2>7, <2>8, <2>9, LeadsOn DEF Cuts
  <2>11. FieldLine(S)[f] = t \o <<Tab>>
    BY <1>1, <2>1, FieldLineMaps
  <2>12. at[r] = a /\ at[Append(r, f)] = e
    BY <1>1, <2>2, <2>3, Zenon
  <2> QED BY <2>10, <2>11, <2>12, Zenon DEF Cuts
<1>6. row \in Seq(F)
  BY <1>1
<1>7. Leads(Cutter(S), CutStates(S), at[<<>>], Spread(FieldLine(S), row), at[row])
  BY <1>3, <1>4, <1>5, <1>6, LeadsSpread
<1>8. at[<<>>] = AtRaw(rows, <<>>, <<>>) /\ at[row] = AtRaw(rows, row, <<>>)
  BY <1>1, <1>2, <1>6, Zenon
<1> QED BY <1>7, <1>8, Zenon DEF Cuts

\* The server reads one row more.
LEMMA RowCut ==
  ASSUME NEW S, CopySigns \subseteq S, NEW rows \in Seq(RowsOver(S)), NEW row \in RowsOver(S)
  PROVE  /\ WriteValues(row) \in Seq(S)
         /\ Cuts(S, AtRaw(rows, <<>>, <<>>), WriteValues(row), AtRaw(Append(rows, row), <<>>, <<>>))
<1>1. PICK none : none = <<>>
  OBVIOUS
<1>2. PICK r \in Seq(FieldsOver(S)), f \in FieldsOver(S) : row = Append(r, f)
  <2>1. row \in Seq(FieldsOver(S)) /\ row # <<>>
    BY DEF RowsOver
  <2> QED BY <2>1, LastAndRest
<1>3. PICK x, t : x = Spread(FieldLine(S), r) /\ t = FieldText(f)
  OBVIOUS
<1>4. x \in Seq(S) /\ t \in Seq(S) /\ none \in Seq(S) /\ none \in Seq(FieldsOver(S))
  <2>1. x \in Seq(S) /\ t \in Seq(S)
    BY <1>3, RowTyped, FieldWritten
  <2> QED BY <1>1, <2>1
<1>5. PICK a, b, c, e : /\ a = AtRaw(rows, none, none) /\ b = AtRaw(rows, r, none)
                        /\ c = AtRaw(rows, r, t) /\ e = AtRaw(Append(rows, row), none, none)
  OBVIOUS
<1>6. c \in CutStates(S) /\ e \in CutStates(S)
  <2>1. Append(rows, row) \in Seq(RowsOver(S))
    OBVIOUS
  <2> QED BY <1>4, <1>5, <2>1, CutPlaces
<1>7. Cuts(S, a, x, b) /\ Cuts(S, b, t, c)
  BY <1>1, <1>3, <1>5, FieldsCut, FieldCut
<1>8. Cut(c, NewLine) = e
  <2>1. ServerField(t) = f
    BY <1>3, FieldRead
  <2>2. Cut(AtRaw(rows, r, t), NewLine) = AtRaw(Append(rows, Append(r, ServerField(t))), <<>>, <<>>)
    BY CutIs
  <2> QED BY <1>1, <1>2, <1>5, <2>1, <2>2
<1>9. NewLine \in S
  BY SignsRead DEF CopySigns
<1>10. <<NewLine>> \in Seq(S) /\ x \o t \in Seq(S)
  BY <1>4, <1>9, ConcatProperties
<1>11. Cuts(S, c, <<NewLine>>, e)
  BY <1>6, <1>8, <1>9, CutsOne
<1>12. Cuts(S, a, x \o t, c)
  BY <1>4, <1>7, LeadsOn DEF Cuts
<1>13. Cuts(S, a, (x \o t) \o <<NewLine>>, e)
  BY <1>10, <1>11, <1>12, LeadsOn DEF Cuts
<1>14. WriteValues(row) = (x \o t) \o <<NewLine>>
  BY <1>2, <1>3, RowWritten DEF RowText
<1>15. (x \o t) \o <<NewLine>> \in Seq(S)
  BY <1>10, ConcatProperties
<1> QED BY <1>1, <1>5, <1>13, <1>14, <1>15

\* A loop over all that was sent ends where it leads to.
LEMMA CutEnds ==
  ASSUME NEW S, NEW stream \in Seq(S), NEW e \in CutStates(S),
         Cuts(S, AtRaw(<<>>, <<>>, <<>>), stream, e)
  PROVE  ServerRows(stream) = e.rows
<1> DEFINE upTo[i \in 0..Len(stream)] ==
             IF i = 0 THEN [rows |-> <<>>, row |-> <<>>, raw |-> <<>>] ELSE Cut(upTo[i - 1], stream[i])
<1>1. PICK n, X, m, s : n = Len(stream) /\ X = CutStates(S) /\ m = Cutter(S) /\ s = AtRaw(<<>>, <<>>, <<>>)
  OBVIOUS
<1>2. n \in Nat /\ \A i \in 1..n : stream[i] \in S
  BY <1>1
<1>3. \A r \in X, c \in S : m[r][c] = Cut(r, c)
  BY <1>1 DEF Cutter
<1>4. Leads(m, X, s, stream, e)
  BY <1>1 DEF Cuts
<1>5. s = [rows |-> <<>>, row |-> <<>>, raw |-> <<>>]
  BY <1>1 DEF AtRaw
<1>6. PICK x \in [0..n -> X] : x[0] = s /\ \A i \in 1..n : x[i] = m[x[i - 1]][stream[i]]
  <2> HIDE DEF upTo
  <2>1. PICK x : Runs(x, m, X, s, stream)
    BY <1>4 DEF Leads
  <2> QED BY <1>1, <2>1 DEF Runs
<1>7. x = [i \in 0..Len(stream) |->
            IF i = 0 THEN [rows |-> <<>>, row |-> <<>>, raw |-> <<>>] ELSE Cut(x[i - 1], stream[i])]
  <2> HIDE DEF upTo
  <2>1. ASSUME NEW i \in 0..n
        PROVE  x[i] = IF i = 0 THEN s ELSE Cut(x[i - 1], stream[i])
    <3>1. i # 0 => i \in 1..n /\ i - 1 \in 0..n
      BY <1>2
    <3>2. i # 0 => x[i - 1] \in X
      BY <3>1
    <3> QED BY <1>2, <1>3, <1>6, <3>1, <3>2
  <2>2. x = [i \in 0..n |-> IF i = 0 THEN s ELSE Cut(x[i - 1], stream[i])]
    BY <1>6, <2>1
  <2> QED BY <1>1, <1>5, <2>2, Zenon
<1>8. upTo = [i \in 0..Len(stream) |->
               IF i = 0 THEN [rows |-> <<>>, row |-> <<>>, raw |-> <<>>] ELSE Cut(upTo[i - 1], stream[i])]
  BY <1>7, Zenon
<1>9. ServerRows(stream) = upTo[Len(stream)].rows
  BY Zenon DEF ServerRows
<1> HIDE DEF upTo
<1>10. upTo[0] = s /\ \A i \in 1..n : upTo[i] = Cut(upTo[i - 1], stream[i])
  <2>1. 0 \in 0..n /\ \A i \in 1..n : i \in 0..n /\ i # 0
    BY <1>2
  <2> QED BY <1>1, <1>5, <1>8, <2>1
<1>11. \A i \in 1..n : upTo[i - 1] \in X => upTo[i] = m[upTo[i - 1]][stream[i]]
  BY <1>2, <1>3, <1>10
<1>12. Walks(upTo, m, X, s, stream)
  BY <1>1, <1>10, <1>11 DEF Walks
<1>13. upTo[Len(stream)] = e
  BY <1>4, <1>12, LeadsThere
<1> QED BY <1>9, <1>13

\* The lines of the rows that can be sent.
RowLine(S) == [row \in RowsOver(S) |-> WriteValues(row)]

LEMMA RowLineMaps ==
  ASSUME NEW S, CopySigns \subseteq S
  PROVE  /\ RowLine(S) \in SeqMaps(RowsOver(S), S)
         /\ \A row \in RowsOver(S) : RowLine(S)[row] = WriteValues(row)
<1>1. <<>> \in Seq(RowsOver(S))
  <2>1. PICK none : none = <<>>
    OBVIOUS
  <2>2. none \in Seq(RowsOver(S))
    BY <2>1
  <2> QED BY <2>1, <2>2
<1>2. \A row \in RowsOver(S) : WriteValues(row) \in Seq(S)
  BY <1>1, RowCut
<1> QED BY <1>2 DEF RowLine, SeqMaps

\* The rows a stream of COPY holds are those its lines were written for.
LEMMA SpreadIsStored ==
  ASSUME NEW S, CopySigns \subseteq S, NEW rows \in Seq(RowsOver(S))
  PROVE  ServerRows(Spread(RowLine(S), rows)) = rows
<1>1. PICK R, g, none, at, stream :
        /\ R = RowsOver(S) /\ g = RowLine(S) /\ none = <<>>
        /\ at = [r \in Seq(R) |-> AtRaw(r, none, none)]
        /\ stream = Spread(g, rows)
  OBVIOUS
<1>2. none \in Seq(S) /\ none \in Seq(FieldsOver(S)) /\ none \in Seq(R)
  BY <1>1
<1>3. g \in SeqMaps(R, S) /\ \A row \in R : g[row] = WriteValues(row)
  BY <1>1, RowLineMaps
<1>4. at \in [Seq(R) -> CutStates(S)]
  <2>1. \A r \in Seq(R) : AtRaw(r, none, none) \in CutStates(S)
    BY <1>1, <1>2, CutPlaces
  <2> QED BY <1>1, <2>1
<1>5. \A p \in Seq(R), row \in R : Leads(Cutter(S), CutStates(S), at[p], g[row], at[Append(p, row)])
  <2> TAKE p \in Seq(R), row \in R
  <2>1. Append(p, row) \in Seq(R)
    OBVIOUS
  <2>2. at[p] = AtRaw(p, none, none) /\ at[Append(p, row)] = AtRaw(Append(p, row), none, none)
        /\ g[row] = WriteValues(row)
    BY <1>1, <1>3, <2>1
  <2>3. Cuts(S, AtRaw(p, <<>>, <<>>), WriteValues(row), AtRaw(Append(p, row), <<>>, <<>>))
    BY <1>1, RowCut
  <2> QED BY <1>1, <2>2, <2>3, Zenon DEF Cuts
<1>6. rows \in Seq(R)
  BY <1>1
<1>7. Leads(Cutter(S), CutStates(S), at[<<>>], Spread(g, rows), at[rows])
  BY <1>3, <1>4, <1>5, <1>6, LeadsSpread
<1>8. PICK e : e = AtRaw(rows, none, none)
  OBVIOUS
<1>9. at[<<>>] = AtRaw(<<>>, <<>>, <<>>) /\ at[rows] = e
  BY <1>1, <1>2, <1>6, <1>8, Zenon
<1>10. stream = Spread(g, rows)
  BY <1>1
<1>11. stream \in Seq(S)
  BY <1>3, <1>6, <1>10, SpreadTyped
<1>12. Cuts(S, AtRaw(<<>>, <<>>, <<>>), stream, e)
  BY <1>7, <1>9, <1>10, Zenon DEF Cuts
<1>13. e \in CutStates(S) /\ e.rows = rows
  <2>1. e \in CutStates(S)
    BY <1>1, <1>2, <1>6, <1>8, CutPlaces
  <2>2. e.rows = rows
    BY <1>8 DEF AtRaw
  <2> QED BY <2>1, <2>2
<1> QED BY <1>1, <1>11, <1>12, <1>13, CutEnds

\* stream_to and the server: whatever texts the fields of the rows hold, tabs, ends of
\* lines, backslashes and what reads like a null too, and however many rows are written,
\* the server reads these rows (stream_to.cxx:72, :128, stream_to.hxx:318).
THEOREM EveryRowIsStored ==
  ASSUME NEW S, CopySigns \subseteq S, NEW rows \in Seq(RowsOver(S))
  PROVE  ServerRows(FlattenSeq([i \in DOMAIN rows |-> WriteValues(rows[i])])) = rows
<1>1. PICK g : g = RowLine(S)
  OBVIOUS
<1>2. \A i \in DOMAIN rows : WriteValues(rows[i]) = g[rows[i]]
  BY <1>1, RowLineMaps
<1>3. [i \in DOMAIN rows |-> WriteValues(rows[i])] = [i \in DOMAIN rows |-> g[rows[i]]]
  BY <1>2
<1>4. FlattenSeq([i \in DOMAIN rows |-> WriteValues(rows[i])]) = Spread(g, rows)
  BY <1>3, Zenon DEF Spread
<1> QED BY <1>1, <1>4, SpreadIsStored

-----------------------------------------------------------------------------
\* read_field() of stream_query: f is what it reads from each place of a line on.
Before(c, r) == [r EXCEPT !.text = <<c>> \o @]

ScanOf(f, S, line) ==
  /\ f \in [1..(Len(line) + 1) -> [next : Nat, text : Seq(S)]]
  /\ \A o \in 1..Len(line) :
       f[o] = IF line[o] = Tab THEN [next |-> o + 1, text |-> <<>>]
              ELSE IF line[o] = Escape THEN Before(UnescapeChar(line[o + 1]), f[o + 2])
              ELSE Before(line[o], f[o + 1])

\* The line ends in a tab, so nothing is looked for behind it.
LEMMA FieldsScanned ==
  ASSUME NEW S, CopySigns \subseteq S, NEW line \in Seq(S), line # <<>>, line[Len(line)] = Tab,
         NEW offset \in 1..Len(line)
  PROVE  \E f : /\ ScanOf(f, S, line)
                /\ ReadField(line, offset) =
                     IF NullAt(line, offset) THEN [next |-> offset + 3, field |-> Null]
                     ELSE [next |-> f[offset].next, field |-> Field(f[offset].text)]
<1> DEFINE scan[o \in 1..(Len(line) + 1)] ==
             IF o > Len(line) \/ line[o] = Tab THEN [next |-> o + 1, text |-> <<>>]
             ELSE LET escaped == line[o] = Escape
                      rest == scan[IF escaped THEN o + 2 ELSE o + 1]
                      char == IF escaped THEN UnescapeChar(line[o + 1]) ELSE line[o]
                  IN  [rest EXCEPT !.text = <<char>> \o @]
<1>1. PICK n, X : n = Len(line) /\ X = [next : Nat, text : Seq(S)]
  OBVIOUS
<1>2. n \in Nat /\ n >= 1 /\ line[n] = Tab /\ \A o \in 1..n : line[o] \in S
  BY <1>1
<1>3. PICK jump : jump = [o \in 1..n |-> IF line[o] = Escape THEN o + 2 ELSE o + 1]
  OBVIOUS
<1>4. PICK step : step = [o \in 1..n |-> [r \in X |->
                     IF line[o] = Tab THEN [next |-> o + 1, text |-> <<>>]
                     ELSE IF line[o] = Escape THEN Before(UnescapeChar(line[o + 1]), r)
                     ELSE Before(line[o], r)]]
  OBVIOUS
<1>5. PICK ends : ends = [o \in 0..(n + 1) |-> [next |-> o + 1, text |-> <<>>]]
  OBVIOUS
<1>6. Tab # Escape
  BY SignsRead
<1>7. \A o \in 1..n : line[o] = Escape => o + 1 \in 1..n
  BY <1>2, <1>6
<1>8. ends \in [0..(n + 1) -> X]
  BY <1>1, <1>2, <1>5
<1>9. jump \in [1..n -> 0..(n + 1)] /\ \A o \in 1..n : jump[o] = 0 \/ jump[o] > o
  <2> HIDE DEF scan
  <2>1. \A o \in 1..n : line[o] = Escape => o + 2 \in 0..(n + 1)
    BY <1>2, <1>7
  <2> QED BY <1>2, <1>3, <2>1
<1>10. \A c \in S, r \in X : Before(c, r) \in X
  <2> HIDE DEF scan
  <2> TAKE c \in S, r \in X
  <2>1. r.next \in Nat /\ r.text \in Seq(S) /\ <<c>> \in Seq(S)
    BY <1>1
  <2>2. <<c>> \o r.text \in Seq(S)
    BY <2>1, ConcatProperties
  <2> QED BY <1>1, <2>1, <2>2 DEF Before
<1>11. \A c \in S : UnescapeChar(c) \in S
  <2> HIDE DEF scan
  <2> TAKE c \in S
  <2>1. CASE \E s \in DOMAIN EscapeChar : EscapeChar[s] = c
    <3>1. PICK s \in DOMAIN EscapeChar : EscapeChar[s] = c
      BY <2>1
    <3>2. UnescapeChar(EscapeChar[s]) = s
      BY SignsRead
    <3> QED BY <3>1, <3>2 DEF CopySigns
  <2>2. CASE ~ \E s \in DOMAIN EscapeChar : EscapeChar[s] = c
    <3>1. {s \in DOMAIN EscapeChar : EscapeChar[s] = c} = {}
      BY <2>2
    <3> QED BY <3>1 DEF UnescapeChar
  <2> QED BY <2>1, <2>2
<1>12. step \in [1..n -> [X -> X]]
  <2> HIDE DEF scan
  <2>1. \A o \in 1..n : [next |-> o + 1, text |-> <<>>] \in X
    BY <1>1, <1>2
  <2>2. ASSUME NEW o \in 1..n, NEW r \in X
        PROVE  (IF line[o] = Tab THEN [next |-> o + 1, text |-> <<>>]
                ELSE IF line[o] = Escape THEN Before(UnescapeChar(line[o + 1]), r)
                ELSE Before(line[o], r)) \in X
    <3>1. line[o] = Escape => Before(UnescapeChar(line[o + 1]), r) \in X
      BY <1>2, <1>7, <1>10, <1>11
    <3>2. Before(line[o], r) \in X
      BY <1>2, <1>10
    <3> QED BY <2>1, <3>1, <3>2
  <2> QED BY <1>4, <2>2
<1>13. PICK f \in [0..(n + 1) -> X] : Jumps(f, n, ends, jump, step)
  <2> HIDE DEF scan
  <2> QED BY <1>2, <1>8, <1>9, <1>12, Jumping
<1>14. PICK g : g = [o \in 1..(n + 1) |-> f[o]]
  OBVIOUS
<1>15. /\ g \in [1..(n + 1) -> X] /\ g[n + 1] = [next |-> n + 2, text |-> <<>>]
       /\ \A o \in 1..n : g[o] = IF line[o] = Tab THEN [next |-> o + 1, text |-> <<>>]
                                 ELSE IF line[o] = Escape THEN Before(UnescapeChar(line[o + 1]), g[o + 2])
                                 ELSE Before(line[o], g[o + 1])
  <2> HIDE DEF scan
  <2>1. g \in [1..(n + 1) -> X]
    BY <1>2, <1>13, <1>14
  <2>2. g[n + 1] = [next |-> n + 2, text |-> <<>>]
    <3>1. n + 1 \notin 1..n /\ n + 1 \in 0..(n + 1) /\ n + 1 \in 1..(n + 1) /\ (n + 1) + 1 = n + 2
      BY <1>2
    <3> QED BY <1>5, <1>13, <1>14, <3>1 DEF Jumps
  <2>3. ASSUME NEW o \in 1..n
        PROVE  g[o] = IF line[o] = Tab THEN [next |-> o + 1, text |-> <<>>]
                      ELSE IF line[o] = Escape THEN Before(UnescapeChar(line[o + 1]), g[o + 2])
                      ELSE Before(line[o], g[o + 1])
    <3>1. o \in 0..(n + 1) /\ o \in 1..(n + 1) /\ o + 1 \in 1..(n + 1)
      BY <1>2
    <3>2. PICK r : r = f[jump[o]]
      OBVIOUS
    <3>3. r \in X
      BY <1>9, <1>13, <3>2
    <3>4. g[o] = step[o][r]
      BY <1>13, <1>14, <3>1, <3>2 DEF Jumps
    <3>5. g[o] = IF line[o] = Tab THEN [next |-> o + 1, text |-> <<>>]
                 ELSE IF line[o] = Escape THEN Before(UnescapeChar(line[o + 1]), r)
                 ELSE Before(line[o], r)
      BY <1>4, <3>3, <3>4
    <3>6. line[o] = Escape => r = g[o + 2]
      <4>1. line[o] = Escape => o + 2 \in 1..(n + 1)
        BY <1>2, <1>7
      <4> QED BY <1>3, <1>14, <3>2, <4>1
    <3>7. line[o] # Escape => r = g[o + 1]
      BY <1>3, <1>14, <3>1, <3>2
    <3> QED BY <3>5, <3>6, <3>7
  <2> QED BY <2>1, <2>2, <2>3
<1>16. g = [o \in 1..(Len(line) + 1) |->
             IF o > Len(line) \/ line[o] = Tab THEN [next |-> o + 1, text |-> <<>>]
             ELSE LET escaped == line[o] = Escape
                      rest == g[IF escaped THEN o + 2 ELSE o + 1]
                      char == IF escaped THEN UnescapeChar(line[o + 1]) ELSE line[o]
                  IN  [rest EXCEPT !.text = <<char>> \o @]]
  <2> HIDE DEF scan
  <2>1. ASSUME NEW o \in 1..(n + 1)
        PROVE  g[o] = IF o > n \/ line[o] = Tab THEN [next |-> o + 1, text |-> <<>>]
                      ELSE LET escaped == line[o] = Escape
                               rest == g[IF escaped THEN o + 2 ELSE o + 1]
                               char == IF escaped THEN UnescapeChar(line[o + 1]) ELSE line[o]
                           IN  [rest EXCEPT !.text = <<char>> \o @]
    <3>1. CASE o > n
      <4>1. o = n + 1 /\ o + 1 = n + 2
        BY <1>2, <3>1
      <4> QED BY <1>15, <3>1, <4>1
    <3>2. CASE ~ (o > n)
      <4>1. o \in 1..n /\ o + 1 \in 1..(n + 1)
        BY <1>2, <3>2
      <4>2. CASE line[o] = Tab
        BY <1>15, <4>1, <4>2
      <4>3. CASE line[o] # Tab /\ line[o] = Escape
        <5>1. PICK r, c : r = g[o + 2] /\ c = UnescapeChar(line[o + 1])
          OBVIOUS
        <5>2. r \in X
          <6>1. o + 2 \in 1..(n + 1)
            BY <1>2, <1>7, <4>1, <4>3
          <6> QED BY <1>15, <5>1, <6>1
        <5>3. [r EXCEPT !.text = <<c>> \o @] = Before(c, r)
          BY DEF Before
        <5>4. g[o] = Before(c, r)
          BY <1>15, <4>1, <4>3, <5>1
        <5> QED BY <3>2, <4>3, <5>1, <5>3, <5>4
      <4>4. CASE line[o] # Tab /\ line[o] # Escape
        <5>1. PICK r, c : r = g[o + 1] /\ c = line[o]
          OBVIOUS
        <5>2. r \in X
          BY <1>15, <4>1, <5>1
        <5>3. [r EXCEPT !.text = <<c>> \o @] = Before(c, r)
          BY DEF Before
        <5>4. g[o] = Before(c, r)
          BY <1>15, <4>1, <4>4, <5>1
        <5> QED BY <3>2, <4>4, <5>1, <5>3, <5>4
      <4> QED BY <4>2, <4>3, <4>4
    <3> QED BY <3>1, <3>2
  <2> QED BY <1>1, <1>15, <2>1
<1>17. scan = [o \in 1..(Len(line) + 1) |->
                IF o > Len(line) \/ line[o] = Tab THEN [next |-> o + 1, text |-> <<>>]
                ELSE LET escaped == line[o] = Escape
                         rest == scan[IF escaped THEN o + 2 ELSE o + 1]
                         char == IF escaped THEN UnescapeChar(line[o + 1]) ELSE line[o]
                     IN  [rest EXCEPT !.text = <<char>> \o @]]
  BY <1>16, Zenon
<1>18. ReadField(line, offset) = IF NullAt(line, offset) THEN [next |-> offset + 3, field |-> Null]
                                 ELSE [next |-> scan[offset].next, field |-> Field(scan[offset].text)]
  BY Zenon DEF ReadField
<1> HIDE DEF scan
<1>19. \A o \in 1..(n + 1) : scan[o] =
         IF o > n \/ line[o] = Tab THEN [next |-> o + 1, text |-> <<>>]
         ELSE IF line[o] = Escape THEN Before(UnescapeChar(line[o + 1]), scan[o + 2])
         ELSE Before(line[o], scan[o + 1])
  <2> TAKE o \in 1..(n + 1)
  <2>1. scan[o] = IF o > n \/ line[o] = Tab THEN [next |-> o + 1, text |-> <<>>]
                  ELSE LET escaped == line[o] = Escape
                           rest == scan[IF escaped THEN o + 2 ELSE o + 1]
                           char == IF escaped THEN UnescapeChar(line[o + 1]) ELSE line[o]
                       IN  [rest EXCEPT !.text = <<char>> \o @]
    BY <1>1, <1>17
  <2>2. CASE o > n \/ line[o] = Tab
    BY <2>1, <2>2
  <2>3. CASE ~ (o > n \/ line[o] = Tab) /\ line[o] = Escape
    BY <2>1, <2>3 DEF Before
  <2>4. CASE ~ (o > n \/ line[o] = Tab) /\ line[o] # Escape
    BY <2>1, <2>4 DEF Before
  <2> QED BY <2>2, <2>3, <2>4
<1>20. PICK T : T = {o \in 1..(n + 1) : scan[o] = g[o]}
  OBVIOUS
<1>21. n + 1 \in T
  <2>1. n + 1 \in 1..(n + 1) /\ n + 1 > n /\ (n + 1) + 1 = n + 2
    BY <1>2
  <2>2. scan[n + 1] = [next |-> n + 2, text |-> <<>>]
    BY <1>19, <2>1
  <2> QED BY <1>15, <1>20, <2>1, <2>2
<1>22. ASSUME NEW o \in 1..n, \A p \in (o + 1)..(n + 1) : p \in T
       PROVE  o \in T
  <2>1. o \in 1..(n + 1) /\ ~ (o > n) /\ o + 1 \in (o + 1)..(n + 1)
    BY <1>2
  <2>2. scan[o + 1] = g[o + 1]
    BY <1>20, <1>22, <2>1
  <2>3. line[o] = Escape => scan[o + 2] = g[o + 2]
    <3>1. line[o] = Escape => o + 2 \in (o + 1)..(n + 1)
      BY <1>2, <1>7
    <3> QED BY <1>20, <1>22, <3>1
  <2>4. scan[o] = IF line[o] = Tab THEN [next |-> o + 1, text |-> <<>>]
                  ELSE IF line[o] = Escape THEN Before(UnescapeChar(line[o + 1]), scan[o + 2])
                  ELSE Before(line[o], scan[o + 1])
    BY <1>19, <2>1
  <2>5. g[o] = IF line[o] = Tab THEN [next |-> o + 1, text |-> <<>>]
               ELSE IF line[o] = Escape THEN Before(UnescapeChar(line[o + 1]), g[o + 2])
               ELSE Before(line[o], g[o + 1])
    BY <1>15
  <2>6. scan[o] = g[o]
    BY <2>2, <2>3, <2>4, <2>5
  <2> QED BY <1>20, <2>1, <2>6
<1>23. scan[offset] = g[offset]
  <2>1. 1..(n + 1) \subseteq T
    BY <1>2, <1>21, <1>22, FromTheEnd
  <2>2. offset \in 1..(n + 1)
    BY <1>1, <1>2
  <2> QED BY <1>20, <2>1, <2>2
<1>24. ScanOf(g, S, line)
  BY <1>1, <1>15 DEF ScanOf
<1> QED BY <1>18, <1>23, <1>24, Zenon

\* x stands in a line behind its first a characters, and a tab behind x.
FieldAt(line, a, x) ==
  /\ a + Len(x) + 1 <= Len(line) /\ line[a + Len(x) + 1] = Tab
  /\ \A k \in 1..Len(x) : line[a + k] = x[k]

\* How a character is spelled.
LEMMA SpellingIs ==
  ASSUME NEW S, CopySigns \subseteq S, NEW c \in S, NEW x, x = Spellings(S)[c]
  PROVE  \/ c \in DOMAIN EscapeChar /\ Len(x) = 2 /\ x[1] = Escape /\ x[2] = EscapeChar[c]
         \/ c \notin DOMAIN EscapeChar /\ Len(x) = 1 /\ x[1] = c
<1>1. CASE c \in DOMAIN EscapeChar
  <2>1. PICK e, d : e = Escape /\ d = EscapeChar[c]
    OBVIOUS
  <2>2. x = <<e, d>>
    BY <1>1, <2>1, SpellingsMap
  <2>3. Len(x) = 2 /\ x[1] = e /\ x[2] = d
    BY <2>2
  <2> QED BY <1>1, <2>1, <2>3
<1>2. CASE c \notin DOMAIN EscapeChar
  <2>1. x = <<c>>
    BY <1>2, SpellingsMap
  <2>2. Len(x) = 1 /\ x[1] = c
    BY <2>1
  <2> QED BY <1>2, <2>2
<1> QED BY <1>1, <1>2

\* A text is scanned as what was written.
LEMMA TextScanned ==
  ASSUME NEW S, CopySigns \subseteq S, NEW line \in Seq(S), NEW f, ScanOf(f, S, line),
         NEW t \in Seq(S), NEW a \in Nat, FieldAt(line, a, Escaped(t))
  PROVE  /\ f[a + 1] = [next |-> a + Len(Escaped(t)) + 2, text |-> t]
         /\ ~ NullAt(line, a + 1)
<1>1. PICK g, q, l, m, n, X : /\ g = Spellings(S) /\ q = Escaped(t) /\ l = Len(q) /\ m = Len(t)
                              /\ n = Len(line) /\ X = [next : Nat, text : Seq(S)]
  OBVIOUS
<1>2. g \in SeqMaps(S, S) /\ q = Spread(g, t) /\ q \in Seq(S)
  BY <1>1, SpellingsMap, EscapedSpells
<1>3. l \in Nat /\ m \in Nat /\ n \in Nat /\ \A j \in 1..m : t[j] \in S
  BY <1>1, <1>2
<1>4. a + l + 1 <= n /\ line[a + l + 1] = Tab /\ \A k \in 1..l : line[a + k] = q[k]
  BY <1>1 DEF FieldAt
<1>5. PICK d : SpreadAt(d, g, t)
  BY <1>2, SpreadPlaces
<1>6. /\ d \in [0..m -> 0..l] /\ d[0] = 0 /\ d[m] = l
      /\ \A j \in 1..m : /\ d[j] = d[j - 1] + Len(g[t[j]])
                         /\ \A k \in 1..Len(g[t[j]]) : q[d[j - 1] + k] = g[t[j]][k]
  <2>1. q = Spread(g, t) /\ Len(t) = m /\ Len(Spread(g, t)) = l
    BY <1>1, <1>2
  <2>2. /\ d \in [0..Len(t) -> 0..Len(Spread(g, t))] /\ d[0] = 0
        /\ d[Len(t)] = Len(Spread(g, t))
        /\ \A j \in 1..Len(t) :
             /\ d[j] = d[j - 1] + Len(g[t[j]])
             /\ \A k \in 1..Len(g[t[j]]) : Spread(g, t)[d[j - 1] + k] = g[t[j]][k]
    BY <1>5, Zenon DEF SpreadAt
  <2> QED BY <2>1, <2>2, Zenon
<1>7. /\ f \in [1..(n + 1) -> X]
      /\ \A o \in 1..n :
           f[o] = IF line[o] = Tab THEN [next |-> o + 1, text |-> <<>>]
                  ELSE IF line[o] = Escape THEN Before(UnescapeChar(line[o + 1]), f[o + 2])
                  ELSE Before(line[o], f[o + 1])
  BY <1>1 DEF ScanOf
<1>8. PICK at : at = [j \in 0..m |-> a + d[j] + 1]
  OBVIOUS
<1>9. at \in [0..m -> 1..n] /\ at[0] = a + 1 /\ at[m] = a + l + 1
  <2>1. \A j \in 0..m : d[j] \in 0..l
    BY <1>6
  <2>2. \A x \in 0..l : a + x + 1 \in 1..n
    BY <1>3, <1>4
  <2>3. 0 \in 0..m /\ m \in 0..m /\ a + 0 + 1 = a + 1
    BY <1>3
  <2> QED BY <1>6, <1>8, <2>1, <2>2, <2>3
<1>10. ASSUME NEW j \in 1..m
       PROVE  \/ /\ at[j] = at[j - 1] + 2 /\ line[at[j - 1]] = Escape
                 /\ UnescapeChar(line[at[j - 1] + 1]) = t[j] /\ line[at[j - 1] + 1] # "N"
              \/ /\ at[j] = at[j - 1] + 1 /\ line[at[j - 1]] = t[j]
                 /\ t[j] # Escape /\ t[j] # Tab
  <2>1. j \in 0..m /\ j - 1 \in 0..m /\ t[j] \in S
    BY <1>3
  <2>2. PICK c, x, u, w, p : /\ c = t[j] /\ x = g[c] /\ u = d[j - 1] /\ w = d[j] /\ p = at[j - 1]
    OBVIOUS
  <2>3. u \in 0..l /\ w \in 0..l /\ p = a + u + 1 /\ at[j] = a + w + 1 /\ c \in S
    BY <1>6, <1>8, <2>1, <2>2
  <2>4. w = u + Len(x) /\ \A k \in 1..Len(x) : q[u + k] = x[k]
    BY <1>6, <2>2
  <2>5. CASE c \in DOMAIN EscapeChar /\ Len(x) = 2 /\ x[1] = Escape /\ x[2] = EscapeChar[c]
    <3>1. w = u + 2 /\ q[u + 1] = Escape /\ q[u + 2] = EscapeChar[c]
      BY <2>4, <2>5
    <3>2. u + 1 \in 1..l /\ u + 2 \in 1..l
      BY <1>3, <2>3, <3>1
    <3>3. line[a + (u + 1)] = Escape /\ line[a + (u + 2)] = EscapeChar[c]
      BY <1>4, <3>1, <3>2
    <3>4. a + (u + 1) = p /\ a + (u + 2) = p + 1 /\ at[j] = p + 2
      BY <1>3, <2>3, <3>1
    <3>5. UnescapeChar(EscapeChar[c]) = c /\ EscapeChar[c] # "N"
      BY <2>5, SignsRead
    <3> QED BY <2>2, <3>3, <3>4, <3>5
  <2>6. CASE c \notin DOMAIN EscapeChar /\ Len(x) = 1 /\ x[1] = c
    <3>1. w = u + 1 /\ q[u + 1] = c
      BY <2>4, <2>6
    <3>2. u + 1 \in 1..l
      BY <1>3, <2>3, <3>1
    <3>3. line[a + (u + 1)] = c
      BY <1>4, <3>1, <3>2
    <3>4. a + (u + 1) = p /\ at[j] = p + 1
      BY <1>3, <2>3, <3>1
    <3>5. c # Escape /\ c # Tab
      BY <2>6, SignsRead
    <3> QED BY <2>2, <3>3, <3>4, <3>5
  <2>7. \/ c \in DOMAIN EscapeChar /\ Len(x) = 2 /\ x[1] = Escape /\ x[2] = EscapeChar[c]
        \/ c \notin DOMAIN EscapeChar /\ Len(x) = 1 /\ x[1] = c
    <3>1. x = Spellings(S)[c]
      BY <1>1, <2>2
    <3> QED BY <2>3, <3>1, SpellingIs
  <2> QED BY <2>5, <2>6, <2>7
<1>11. PICK end : end = a + l + 2
  OBVIOUS
<1>12. PICK T : T = {j \in 1..(m + 1) : f[at[j - 1]] = [next |-> end, text |-> Rest(t, j - 1)]}
  OBVIOUS
<1>13. Rest(t, 0) = t /\ Rest(t, m) = <<>> /\ \A j \in 1..m : <<t[j]>> \o Rest(t, j) = Rest(t, j - 1)
  BY <1>1, RestIs
<1>14. m + 1 \in T
  <2>1. m + 1 \in 1..(m + 1) /\ (m + 1) - 1 = m
    BY <1>3
  <2>2. at[m] \in 1..n /\ line[at[m]] = Tab /\ at[m] + 1 = end
    <3>1. at[m] \in 1..n
      BY <1>3, <1>4, <1>9
    <3> QED BY <1>3, <1>4, <1>9, <1>11, <3>1
  <2>3. f[at[m]] = [next |-> end, text |-> <<>>]
    BY <1>7, <2>2
  <2> QED BY <1>12, <1>13, <2>1, <2>3
<1>15. ASSUME NEW j \in 1..m, \A i \in (j + 1)..(m + 1) : i \in T
       PROVE  j \in T
  <2>1. j \in 1..(m + 1) /\ j + 1 \in (j + 1)..(m + 1) /\ (j + 1) - 1 = j /\ j \in 0..m /\ j - 1 \in 0..m
    BY <1>3
  <2>2. PICK p, r, c : p = at[j - 1] /\ r = Rest(t, j) /\ c = t[j]
    OBVIOUS
  <2>3. p \in 1..n
    BY <1>9, <2>1, <2>2
  <2>4. f[at[j]] = [next |-> end, text |-> r]
    <3>1. j + 1 \in T
      BY <1>15, <2>1
    <3> QED BY <1>12, <2>1, <2>2, <3>1
  <2>5. f[p] = Before(c, f[at[j]])
    <3>1. CASE /\ at[j] = p + 2 /\ line[p] = Escape
               /\ UnescapeChar(line[p + 1]) = c /\ line[p + 1] # "N"
      <4>1. line[p] # Tab
        BY <3>1, SignsRead
      <4> QED BY <1>7, <2>3, <3>1, <4>1
    <3>2. CASE at[j] = p + 1 /\ line[p] = c /\ c # Escape /\ c # Tab
      BY <1>7, <2>3, <3>2
    <3> QED BY <1>10, <2>2, <3>1, <3>2
  <2>6. Before(c, [next |-> end, text |-> r]) = [next |-> end, text |-> <<c>> \o r]
    <3>1. PICK b, y : b = [next |-> end, text |-> r] /\ y = <<c>> \o r
      OBVIOUS
    <3>2. [[next |-> end, text |-> r] EXCEPT !.text = y] = [next |-> end, text |-> y] /\ b.text = r
      <4>1. [[next |-> end, text |-> r] EXCEPT !.text = y] = [next |-> end, text |-> y]
        OBVIOUS
      <4>2. b.text = r
        BY <3>1
      <4> QED BY <4>1, <4>2
    <3>3. Before(c, b) = [b EXCEPT !.text = <<c>> \o b.text]
      BY DEF Before
    <3> QED BY <3>1, <3>2, <3>3, Zenon
  <2>7. f[p] = [next |-> end, text |-> Rest(t, j - 1)]
    BY <1>13, <2>2, <2>4, <2>5, <2>6
  <2> QED BY <1>12, <2>1, <2>2, <2>7
<1>16. f[a + 1] = [next |-> end, text |-> t]
  <2>1. 1..(m + 1) \subseteq T
    BY <1>3, <1>14, <1>15, FromTheEnd
  <2>2. 1 \in 1..(m + 1) /\ 1 - 1 = 0
    BY <1>3
  <2>3. f[at[0]] = [next |-> end, text |-> Rest(t, 0)]
    BY <1>12, <2>1, <2>2
  <2> QED BY <1>9, <1>13, <2>3
<1>17. ~ NullAt(line, a + 1)
  <2>1. CASE m = 0
    <3>1. at[0] = at[m]
      BY <2>1
    <3>2. line[a + 1] = Tab
      BY <1>4, <1>9, <3>1
    <3>3. line[a + 1] # Escape
      BY <3>2, SignsRead
    <3> QED BY <3>3 DEF NullAt
  <2>2. CASE m # 0
    <3>1. 1 \in 1..m /\ 1 - 1 = 0
      BY <1>3, <2>2
    <3>2. \/ line[at[0]] = Escape /\ line[at[0] + 1] # "N"
          \/ line[at[0]] # Escape
      BY <1>10, <3>1
    <3> QED BY <1>9, <3>2 DEF NullAt
  <2> QED BY <2>1, <2>2
<1> QED BY <1>1, <1>11, <1>16, <1>17

\* Where d says that the fields of a row are in its line, stream_query reads them.
ReadAt(line, row, d) ==
  \A i \in 1..Len(row) : ReadField(line, d[i - 1] + 1) = [next |-> d[i] + 1, field |-> row[i]]

LEMMA FieldsOfRow ==
  ASSUME NEW S, CopySigns \subseteq S, NEW row \in Seq(FieldsOver(S)), NEW d,
         SpreadAt(d, FieldLine(S), row)
  PROVE  ReadAt(Spread(FieldLine(S), row), row, d)
<1> SUFFICES ASSUME NEW i \in 1..Len(row)
             PROVE  ReadField(Spread(FieldLine(S), row), d[i - 1] + 1) = [next |-> d[i] + 1, field |-> row[i]]
  BY Zenon DEF ReadAt
<1>1. PICK h, line, m, n, a, x, e, y :
        /\ h = FieldLine(S) /\ line = Spread(h, row) /\ m = Len(row) /\ n = Len(line)
        /\ a = d[i - 1] /\ x = FieldText(row[i]) /\ e = row[i] /\ y = Len(x)
  OBVIOUS
<1>2. h \in SeqMaps(FieldsOver(S), S) /\ \A f \in FieldsOver(S) : h[f] = FieldText(f) \o <<Tab>>
  BY <1>1, FieldLineMaps
<1>3. line \in Seq(S) /\ n \in Nat /\ m \in Nat /\ i \in 1..m /\ \A j \in 1..m : row[j] \in FieldsOver(S)
  <2>1. line \in Seq(S)
    BY <1>1, <1>2, SpreadTyped
  <2> QED BY <1>1, <2>1
<1>4. /\ d \in [0..m -> 0..n] /\ d[0] = 0 /\ d[m] = n
      /\ \A j \in 1..m : /\ d[j] = d[j - 1] + Len(h[row[j]])
                         /\ \A k \in 1..Len(h[row[j]]) : line[d[j - 1] + k] = h[row[j]][k]
  <2>1. h = FieldLine(S) /\ line = Spread(h, row) /\ Len(row) = m /\ Len(Spread(h, row)) = n
    BY <1>1
  <2>2. /\ d \in [0..Len(row) -> 0..Len(Spread(h, row))] /\ d[0] = 0
        /\ d[Len(row)] = Len(Spread(h, row))
        /\ \A j \in 1..Len(row) :
             /\ d[j] = d[j - 1] + Len(h[row[j]])
             /\ \A k \in 1..Len(h[row[j]]) : Spread(h, row)[d[j - 1] + k] = h[row[j]][k]
    BY <2>1, Zenon DEF SpreadAt
  <2> QED BY <2>1, <2>2, Zenon
<1>5. ASSUME NEW j \in 1..m, NEW z, z = FieldText(row[j])
      PROVE  /\ Len(z) \in Nat /\ d[j] = d[j - 1] + Len(z) + 1 /\ line[d[j]] = Tab
             /\ d[j - 1] \in Nat /\ d[j] <= n
             /\ \A k \in 1..Len(z) : line[d[j - 1] + k] = z[k]
  <2>1. z \in Seq(S) /\ h[row[j]] = z \o <<Tab>> /\ Tab \in S
    <3>1. Tab \in S
      BY SignsRead DEF CopySigns
    <3>2. z \in Seq(S)
      BY <1>3, <1>5, FieldWritten
    <3> QED BY <1>2, <1>3, <1>5, <3>1, <3>2
  <2>2. PICK v, l, b : v = h[row[j]] /\ l = Len(z) /\ b = d[j - 1]
    OBVIOUS
  <2>3. l \in Nat /\ Len(v) = l + 1 /\ v[l + 1] = Tab /\ \A k \in 1..l : v[k] = z[k]
    <3>1. v = Append(z, Tab)
      BY <2>1, <2>2, AppendIsConcat
    <3> QED BY <2>1, <2>2, <3>1, AppendProperties
  <2>4. b \in Nat /\ d[j] \in 0..n
    <3>1. j - 1 \in 0..m /\ j \in 0..m
      BY <1>3
    <3> QED BY <1>4, <2>2, <3>1, SMTT(30)
  <2>5. d[j] = b + Len(v) /\ \A k \in 1..Len(v) : line[b + k] = v[k]
    BY <1>4, <2>2
  <2>6. d[j] = b + (l + 1) /\ line[b + (l + 1)] = Tab /\ \A k \in 1..l : line[b + k] = z[k]
    <3>1. l + 1 \in 1..(l + 1) /\ \A k \in 1..l : k \in 1..(l + 1)
      BY <2>3
    <3> QED BY <2>3, <2>5, <3>1
  <2>7. d[j] = b + l + 1 /\ line[d[j]] = Tab
    <3>1. b + (l + 1) = b + l + 1
      BY <2>3, <2>4
    <3> QED BY <2>6, <3>1
  <2>8. d[j] <= n
    BY <1>3, <2>4
  <2> QED BY <2>2, <2>3, <2>4, <2>6, <2>7, <2>8
<1>6. /\ y \in Nat /\ d[i] = a + y + 1 /\ line[a + y + 1] = Tab /\ a \in Nat /\ a + y + 1 <= n
      /\ \A k \in 1..y : line[a + k] = x[k]
  <2>1. x = FieldText(row[i]) /\ i \in 1..m
    BY <1>1, <1>3
  <2>2. /\ Len(x) \in Nat /\ d[i] = d[i - 1] + Len(x) + 1 /\ line[d[i]] = Tab
        /\ d[i - 1] \in Nat /\ d[i] <= n
        /\ \A k \in 1..Len(x) : line[d[i - 1] + k] = x[k]
    BY <1>5, <2>1
  <2> QED BY <1>1, <2>2
<1>7. line # <<>> /\ line[Len(line)] = Tab /\ a + 1 \in 1..Len(line)
  <2>1. m \in 1..m
    BY <1>3
  <2>2. line[d[m]] = Tab
    <3>1. PICK z : z = FieldText(row[m])
      OBVIOUS
    <3> QED BY <1>5, <2>1, <3>1
  <2>3. n >= 1
    BY <1>3, <1>6
  <2> QED BY <1>1, <1>3, <1>4, <1>6, <2>2, <2>3
<1>8. PICK f : /\ ScanOf(f, S, line)
               /\ ReadField(line, a + 1) = IF NullAt(line, a + 1) THEN [next |-> a + 1 + 3, field |-> Null]
                                           ELSE [next |-> f[a + 1].next, field |-> Field(f[a + 1].text)]
  BY <1>3, <1>7, FieldsScanned
<1>9. e \in FieldsOver(S)
  BY <1>1, <1>3
<1>10. CASE e = Null
  <2>1. x = <<Escape, "N">>
    BY <1>1, <1>10 DEF FieldText, Null
  <2>2. y = 2 /\ x[1] = Escape /\ x[2] = "N"
    BY <1>1, <2>1
  <2>3. line[a + 1] = Escape /\ line[a + 2] = "N"
    BY <1>6, <2>2
  <2>4. NullAt(line, a + 1)
    <3>1. a + 1 < Len(line) /\ (a + 1) + 1 = a + 2
      BY <1>1, <1>6, <2>2
    <3> QED BY <2>3, <3>1 DEF NullAt
  <2>5. a + 1 + 3 = d[i] + 1
    BY <1>6, <2>2
  <2> QED BY <1>1, <1>8, <1>10, <2>4, <2>5
<1>11. CASE e # Null
  <2>1. e.text \in Seq(S) /\ e = Field(e.text) /\ x = Escaped(e.text)
    <3>1. ~ e.null /\ e.text \in Seq(S) /\ e = Field(e.text)
      BY <1>9, <1>11, FieldIs
    <3> QED BY <1>1, <3>1, Zenon DEF FieldText
  <2>2. FieldAt(line, a, Escaped(e.text))
    BY <1>1, <1>6, <2>1 DEF FieldAt
  <2>3. f[a + 1] = [next |-> a + y + 2, text |-> e.text] /\ ~ NullAt(line, a + 1)
    <3>1. PICK t : t = e.text
      OBVIOUS
    <3>2. t \in Seq(S) /\ FieldAt(line, a, Escaped(t)) /\ Len(Escaped(t)) = y
      BY <1>1, <2>1, <2>2, <3>1
    <3>3. /\ f[a + 1] = [next |-> a + Len(Escaped(t)) + 2, text |-> t]
          /\ ~ NullAt(line, a + 1)
      BY <1>3, <1>6, <1>8, <3>2, TextScanned
    <3> QED BY <3>1, <3>2, <3>3
  <2>4. f[a + 1].next = a + y + 2 /\ f[a + 1].text = e.text
    BY <2>3
  <2>5. a + y + 2 = d[i] + 1
    BY <1>6
  <2> QED BY <1>1, <1>8, <2>1, <2>3, <2>4, <2>5
<1> QED BY <1>10, <1>11

\* stream_query reads a row, however its fields are to be taken.
LEMMA TypedParsed ==
  ASSUME NEW S, CopySigns \subseteq S, NEW r \in Seq(FieldsOver(S)), NEW f \in FieldsOver(S),
         NEW row, row = Append(r, f), NEW types, Len(types) = Len(row), DOMAIN types = DOMAIN row
  PROVE  ParseTyped(RowText(S, r, f), types) = AllOf([i \in DOMAIN types |-> Converted(row[i], types[i])])
<1>1. PICK text : text = RowText(S, r, f)
  OBVIOUS
<1> DEFINE line == Append(text, Tab)
           read[i \in 0..Len(types)] ==
             IF i = 0 THEN [next |-> 1, fields |-> <<>>]
             ELSE LET r0 == ReadField(line, read[i - 1].next)
                  IN  [next |-> r0.next, fields |-> Append(read[i - 1].fields, r0.field)]
<1>2. row \in Seq(FieldsOver(S)) /\ text \in Seq(S) /\ Tab \in S
  <2> HIDE DEF line, read
  <2>1. Tab \in S
    BY SignsRead DEF CopySigns
  <2>2. row \in Seq(FieldsOver(S))
    OBVIOUS
  <2> QED BY <1>1, <2>1, <2>2, RowTyped
<1>3. PICK h, w, m : h = FieldLine(S) /\ w = Spread(h, row) /\ m = Len(row)
  OBVIOUS
<1>4. line = w
  <2>1. w = text \o <<Tab>>
    BY <1>1, <1>3, RowTyped
  <2>2. Append(text, Tab) = text \o <<Tab>>
    BY <1>2, AppendIsConcat
  <2> QED BY <2>1, <2>2
<1>5. PICK d : SpreadAt(d, h, row)
  BY <1>2, <1>3, FieldLineMaps, SpreadPlaces
<1>6. m \in Nat /\ DOMAIN row = 1..m /\ Len(types) = m
  BY <1>2, <1>3
<1>7. d[0] = 0 /\ d[m] = Len(w) /\ \A i \in 1..m : d[i] \in Nat
  <2> HIDE DEF line, read
  <2>1. d \in [0..Len(row) -> 0..Len(Spread(h, row))] /\ d[0] = 0 /\ d[Len(row)] = Len(Spread(h, row))
    BY <1>5, Zenon DEF SpreadAt
  <2>2. d \in [0..m -> 0..Len(w)] /\ d[m] = Len(w)
    BY <1>3, <2>1
  <2>3. \A i \in 1..m : d[i] \in Nat
    BY <1>6, <2>2
  <2> QED BY <2>1, <2>2, <2>3
<1>8. \A i \in 1..m : ReadField(line, d[i - 1] + 1) = [next |-> d[i] + 1, field |-> row[i]]
  <2> HIDE DEF line, read
  <2>1. SpreadAt(d, FieldLine(S), row)
    BY <1>3, <1>5
  <2>2. ReadAt(Spread(FieldLine(S), row), row, d)
    BY <1>2, <2>1, FieldsOfRow
  <2> QED BY <1>3, <1>4, <2>2 DEF ReadAt
<1>9. PICK g : g = [i \in 0..m |-> [next |-> d[i] + 1, fields |-> [j \in 1..i |-> row[j]]]]
  OBVIOUS
<1>10. \A i \in 1..m : Append([j \in 1..(i - 1) |-> row[j]], row[i]) = [j \in 1..i |-> row[j]]
  <2> HIDE DEF line, read
  <2> TAKE i \in 1..m
  <2>1. PICK p, q, F : p = [j \in 1..(i - 1) |-> row[j]] /\ q = [j \in 1..i |-> row[j]] /\ F = FieldsOver(S)
    OBVIOUS
  <2>2. \A j \in 1..i : row[j] \in F
    BY <1>2, <1>6, <2>1
  <2>3. p \in Seq(F) /\ Len(p) = i - 1 /\ q \in Seq(F) /\ Len(q) = i /\ row[i] \in F
    <3>1. \A j \in 1..(i - 1) : j \in 1..i
      OBVIOUS
    <3>2. i - 1 \in Nat /\ i \in Nat /\ i \in 1..i
      OBVIOUS
    <3>3. p \in Seq(F) /\ Len(p) = i - 1
      <4>1. PICK l : l = i - 1
        OBVIOUS
      <4>2. p \in [1..l -> F] /\ l \in Nat
        BY <2>1, <2>2, <3>1, <3>2, <4>1
      <4> QED BY <4>1, <4>2, SMTT(30)
    <3>4. q \in Seq(F) /\ Len(q) = i
      <4>1. q \in [1..i -> F]
        BY <2>1, <2>2
      <4> QED BY <3>2, <4>1
    <3>5. row[i] \in F
      BY <2>2, <3>2
    <3> QED BY <3>3, <3>4, <3>5
  <2>4. PICK v : v = Append(p, row[i])
    OBVIOUS
  <2>5. v \in Seq(F) /\ Len(v) = i /\ v[i] = row[i] /\ \A j \in 1..(i - 1) : v[j] = p[j]
    <3>1. PICK b, l : b = row[i] /\ l = Len(p)
      OBVIOUS
    <3>2. b \in F /\ l \in Nat /\ l = i - 1 /\ v = Append(p, b)
      <4>1. l \in Nat
        BY <2>3, <3>1
      <4> QED BY <2>3, <2>4, <3>1, <4>1
    <3>3. v \in Seq(F) /\ Len(v) = l + 1 /\ v[l + 1] = b /\ \A j \in 1..l : v[j] = p[j]
      <4>1. p \in Seq(F) /\ b \in F
        BY <2>3, <3>2
      <4>2. /\ Append(p, b) \in Seq(F) /\ Len(Append(p, b)) = Len(p) + 1
            /\ \A j \in 1..Len(p) : Append(p, b)[j] = p[j]
            /\ Append(p, b)[Len(p) + 1] = b
        BY <4>1, AppendProperties
      <4> QED BY <3>1, <3>2, <4>2
    <3>4. l + 1 = i
      BY <1>6, <3>2
    <3> QED BY <3>1, <3>2, <3>3, <3>4
  <2>6. \A j \in 1..i : v[j] = q[j]
    <3>1. \A j \in 1..i : j = i \/ j \in 1..(i - 1)
      OBVIOUS
    <3> QED BY <2>1, <2>5, <3>1
  <2> QED BY <2>1, <2>3, <2>4, <2>5, <2>6, SeqEqual
<1>11. \A i \in 0..m : g[i] =
         IF i = 0 THEN [next |-> 1, fields |-> <<>>]
         ELSE LET r0 == ReadField(line, g[i - 1].next)
              IN  [next |-> r0.next, fields |-> Append(g[i - 1].fields, r0.field)]
  <2> HIDE DEF line, read
  <2> TAKE i \in 0..m
  <2>1. CASE i = 0
    <3>1. g[0] = [next |-> d[0] + 1, fields |-> [j \in 1..0 |-> row[j]]]
      BY <1>6, <1>9
    <3>2. [j \in 1..0 |-> row[j]] = <<>>
      OBVIOUS
    <3>3. d[0] + 1 = 1
      BY <1>7
    <3> QED BY <2>1, <3>1, <3>2, <3>3
  <2>2. CASE i # 0
    <3>1. i \in 1..m /\ i - 1 \in 0..m
      BY <1>6, <2>2
    <3>2. PICK p, q : p = [j \in 1..(i - 1) |-> row[j]] /\ q = [j \in 1..i |-> row[j]]
      OBVIOUS
    <3>3. g[i - 1].next = d[i - 1] + 1 /\ g[i - 1].fields = p
      <4>1. g[i - 1] = [next |-> d[i - 1] + 1, fields |-> p]
        BY <1>9, <3>1, <3>2
      <4> QED BY <4>1
    <3>4. g[i] = [next |-> d[i] + 1, fields |-> q]
      BY <1>9, <3>2
    <3>5. PICK c : c = ReadField(line, g[i - 1].next)
      OBVIOUS
    <3>6. c.next = d[i] + 1 /\ c.field = row[i]
      <4>1. c = [next |-> d[i] + 1, field |-> row[i]]
        BY <1>8, <3>1, <3>3, <3>5
      <4> QED BY <4>1
    <3>7. Append(p, row[i]) = q
      BY <1>10, <3>1, <3>2
    <3> QED BY <2>2, <3>3, <3>4, <3>5, <3>6, <3>7
  <2> QED BY <2>1, <2>2
<1>12. g = [i \in 0..Len(types) |->
             IF i = 0 THEN [next |-> 1, fields |-> <<>>]
             ELSE LET r0 == ReadField(line, g[i - 1].next)
                  IN  [next |-> r0.next, fields |-> Append(g[i - 1].fields, r0.field)]]
  <2> HIDE DEF line, read
  <2> QED BY <1>6, <1>9, <1>11
<1>13. read = [i \in 0..Len(types) |->
                IF i = 0 THEN [next |-> 1, fields |-> <<>>]
                ELSE LET r0 == ReadField(line, read[i - 1].next)
                     IN  [next |-> r0.next, fields |-> Append(read[i - 1].fields, r0.field)]]
  BY <1>12, Zenon
<1>14. ParseTyped(text, types) =
         IF read[Len(types)].next # Len(line) + 1 THEN {}
         ELSE AllOf([i \in DOMAIN types |-> Converted(read[Len(types)].fields[i], types[i])])
  BY Zenon DEF ParseTyped
<1> HIDE DEF line, read
<1>15. PICK T : T = {i \in 0..m : read[i] = g[i]}
  OBVIOUS
<1>16. 0 \in T
  <2>1. 0 \in 0..m
    BY <1>6
  <2>2. read[0] = [next |-> 1, fields |-> <<>>]
    BY <1>6, <1>13, <2>1
  <2>3. g[0] = [next |-> 1, fields |-> <<>>]
    BY <1>11, <2>1
  <2> QED BY <1>15, <2>1, <2>2, <2>3
<1>17. ASSUME NEW i \in 1..m, i - 1 \in T
       PROVE  i \in T
  <2>1. i \in 0..m /\ i # 0
    BY <1>6
  <2>2. PICK c : c = ReadField(line, g[i - 1].next)
    OBVIOUS
  <2>3. read[i - 1] = g[i - 1]
    BY <1>15, <1>17
  <2>4. read[i] = [next |-> c.next, fields |-> Append(g[i - 1].fields, c.field)]
    BY <1>6, <1>13, <2>1, <2>2, <2>3
  <2>5. g[i] = [next |-> c.next, fields |-> Append(g[i - 1].fields, c.field)]
    BY <1>11, <2>1, <2>2
  <2> QED BY <1>15, <2>1, <2>4, <2>5
<1>18. read[m] = g[m]
  <2>1. 0..m \subseteq T
    BY <1>6, <1>16, <1>17, ByPositions
  <2> QED BY <1>6, <1>15, <2>1
<1>19. read[m].next = Len(line) + 1 /\ \A i \in 1..m : read[m].fields[i] = row[i]
  <2>1. m \in 0..m
    BY <1>6
  <2>2. g[m] = [next |-> d[m] + 1, fields |-> [j \in 1..m |-> row[j]]]
    BY <1>9, <2>1
  <2>3. g[m].next = d[m] + 1 /\ g[m].fields = [j \in 1..m |-> row[j]]
    <3>1. PICK q : q = [j \in 1..m |-> row[j]]
      OBVIOUS
    <3>2. g[m] = [next |-> d[m] + 1, fields |-> q]
      BY <2>2, <3>1
    <3>3. g[m].next = d[m] + 1 /\ g[m].fields = q
      BY <3>2
    <3> QED BY <3>1, <3>3
  <2>4. \A i \in 1..m : [j \in 1..m |-> row[j]][i] = row[i]
    OBVIOUS
  <2> QED BY <1>4, <1>7, <1>18, <2>3, <2>4
<1>20. [i \in DOMAIN types |-> Converted(read[m].fields[i], types[i])]
         = [i \in DOMAIN types |-> Converted(row[i], types[i])]
  <2>1. DOMAIN types = 1..m
    BY <1>6
  <2>2. \A i \in DOMAIN types : Converted(read[m].fields[i], types[i]) = Converted(row[i], types[i])
    BY <1>19, <2>1
  <2> QED BY <2>2
<1> QED BY <1>1, <1>6, <1>14, <1>19, <1>20

\* A field taken as a value that may be null is itself.
LEMMA OptionalIs ==
  ASSUME NEW S, NEW row \in Seq(FieldsOver(S)), NEW types, DOMAIN types = DOMAIN row,
         \A i \in DOMAIN row : types[i] = "optional"
  PROVE  AllOf([i \in DOMAIN types |-> Converted(row[i], types[i])]) = {row}
<1>1. PICK values, n : values = [i \in DOMAIN types |-> Converted(row[i], types[i])] /\ n = Len(row)
  OBVIOUS
<1>2. n \in Nat /\ DOMAIN row = 1..n /\ \A i \in 1..n : row[i] \in FieldsOver(S)
  BY <1>1
<1>3. \A i \in 1..n : values[i] = {row[i]}
  <2> TAKE i \in 1..n
  <2>1. PICK f : f = row[i]
    OBVIOUS
  <2>2. values[i] = Converted(f, "optional")
    BY <1>1, <1>2, <2>1
  <2>3. f = Null \/ ~ f.null
    BY <1>2, <2>1, FieldIs
  <2>4. CASE f.null
    BY <2>1, <2>2, <2>3, <2>4 DEF Converted
  <2>5. CASE ~ f.null
    BY <2>1, <2>2, <2>5 DEF Converted
  <2> QED BY <2>4, <2>5
<1>4. DOMAIN values = 1..n
  BY <1>1, <1>2
<1>5. ~ \E i \in DOMAIN values : values[i] = {}
  BY <1>3, <1>4
<1>6. PICK r : r = [i \in DOMAIN values |-> CHOOSE v \in values[i] : TRUE]
  OBVIOUS
<1>7. \A i \in 1..n : r[i] = row[i]
  <2> TAKE i \in 1..n
  <2>1. PICK e : e = row[i]
    OBVIOUS
  <2>2. r[i] = CHOOSE v \in {e} : TRUE
    BY <1>3, <1>4, <1>6, <2>1
  <2>3. (CHOOSE v \in {e} : TRUE) = e
    OBVIOUS
  <2> QED BY <2>1, <2>2, <2>3
<1>8. r = row
  <2>1. DOMAIN r = 1..n
    BY <1>4, <1>6
  <2>2. r = [i \in 1..n |-> r[i]] /\ row = [i \in 1..n |-> row[i]]
    BY <1>2, <1>6, <2>1
  <2> QED BY <1>7, <2>2
<1>9. AllOf(values) = {r}
  BY <1>5, <1>6, Zenon DEF AllOf
<1> QED BY <1>1, <1>8, <1>9

\* The line of a row without its end, as the streams read it.
LEMMA LineIsRead ==
  ASSUME NEW S, CopySigns \subseteq S, NEW r \in Seq(FieldsOver(S)), NEW f \in FieldsOver(S)
  PROVE  /\ ReadCopyLine(ServerLine(Append(r, f))) = RowText(S, r, f)
         /\ Forwarded(ServerLine(Append(r, f))) = WriteValues(Append(r, f))
<1>1. PICK text, line : text = RowText(S, r, f) /\ line = ServerLine(Append(r, f))
  OBVIOUS
<1>2. text \in Seq(S) /\ NewLine \in S
  BY <1>1, RowTyped, SignsRead DEF CopySigns
<1>3. line = text \o <<NewLine>>
  BY <1>1, ServerWrites
<1>4. line = Append(text, NewLine)
  BY <1>2, <1>3, AppendIsConcat
<1>5. ReadCopyLine(line) = text
  BY <1>2, <1>4, FrontLast DEF ReadCopyLine
<1>6. Forwarded(line) = line
  BY <1>4, <1>5, Zenon DEF Forwarded, WriteCopyLine
<1>7. WriteValues(Append(r, f)) = line
  BY <1>1, <1>3, RowWritten
<1> QED BY <1>1, <1>5, <1>6, <1>7

\* A row goes through COPY in both directions.  stream_to writes it as the server does;
\* stream_from reads its fields from the server's line; stream_query, whatever values it
\* is asked for, finds the values stream_from finds, which are the row when every field
\* may be null; a tuple of another size gets none; and a line passed on from one stream
\* to another stays as it is (stream_to.cxx:128, stream_from.cxx:177,
\* stream_query.hxx:114).
THEOREM EveryRowIsRead ==
  ASSUME NEW S, CopySigns \subseteq S, NEW row \in RowsOver(S)
  PROVE  LET text == ReadCopyLine(ServerLine(row))
         IN  /\ Forwarded(ServerLine(row)) = WriteValues(row)
             /\ ParseLine(text) = {row}
             /\ \A types \in Seq({"null", "string", "optional"}) :
                  IF Len(types) = Len(row)
                  THEN /\ Extracted(text, types) = ParseTyped(text, types)
                       /\ (\A i \in DOMAIN types : types[i] = "optional") => ParseTyped(text, types) = {row}
                  ELSE Extracted(text, types) = {}
<1>1. PICK r \in Seq(FieldsOver(S)), f \in FieldsOver(S) : row = Append(r, f)
  <2>1. row \in Seq(FieldsOver(S)) /\ row # <<>>
    BY DEF RowsOver
  <2> QED BY <2>1, LastAndRest
<1>2. PICK text : text = ReadCopyLine(ServerLine(row))
  OBVIOUS
<1>3. text = RowText(S, r, f) /\ Forwarded(ServerLine(row)) = WriteValues(row)
  BY <1>1, <1>2, LineIsRead
<1>4. ParseLine(text) = {row}
  BY <1>1, <1>3, RowParsed
<1>5. row \in Seq(FieldsOver(S))
  BY DEF RowsOver
<1>6. ASSUME NEW types \in Seq({"null", "string", "optional"}), NEW read,
             read = [i \in DOMAIN types |-> Converted(row[i], types[i])]
      PROVE  Extracted(text, types) = IF Len(row) # Len(types) THEN {} ELSE AllOf(read)
  <2>1. Extracted(text, types) =
          UNION {IF Len(fields) # Len(types) THEN {}
                 ELSE AllOf([i \in DOMAIN types |-> Converted(fields[i], types[i])]) :
                   fields \in {row}}
    BY <1>4, Zenon DEF Extracted
  <2>2. PICK x : x = IF Len(row) # Len(types) THEN {}
                     ELSE AllOf([i \in DOMAIN types |-> Converted(row[i], types[i])])
    OBVIOUS
  <2>3. {IF Len(fields) # Len(types) THEN {}
         ELSE AllOf([i \in DOMAIN types |-> Converted(fields[i], types[i])]) :
           fields \in {row}} = {x}
    BY <2>2, Zenon
  <2>4. UNION {x} = x
    OBVIOUS
  <2> QED BY <1>6, <2>1, <2>2, <2>3, <2>4, Zenon
<1>7. ASSUME NEW types \in Seq({"null", "string", "optional"}), Len(types) = Len(row)
      PROVE  /\ Extracted(text, types) = ParseTyped(text, types)
             /\ (\A i \in DOMAIN types : types[i] = "optional") => ParseTyped(text, types) = {row}
  <2>1. PICK read : read = [i \in DOMAIN types |-> Converted(row[i], types[i])]
    OBVIOUS
  <2>2. DOMAIN types = DOMAIN row
    BY <1>5, <1>7
  <2>3. ParseTyped(text, types) = AllOf(read)
    <3>1. Len(types) = Len(row) /\ row = Append(r, f)
      BY <1>1, <1>7
    <3>2. ParseTyped(RowText(S, r, f), types) = AllOf([i \in DOMAIN types |-> Converted(row[i], types[i])])
      BY <2>2, <3>1, TypedParsed, SMTT(30)
    <3> QED BY <1>3, <2>1, <3>2, Zenon
  <2>4. Extracted(text, types) = AllOf(read)
    BY <1>6, <1>7, <2>1
  <2>5. ASSUME \A i \in DOMAIN types : types[i] = "optional"
        PROVE  AllOf(read) = {row}
    BY <1>5, <2>1, <2>2, <2>5, OptionalIs
  <2> QED BY <2>3, <2>4, <2>5
<1>8. ASSUME NEW types \in Seq({"null", "string", "optional"}), Len(types) # Len(row)
      PROVE  Extracted(text, types) = {}
  <2>1. PICK read : read = [i \in DOMAIN types |-> Converted(row[i], types[i])]
    OBVIOUS
  <2> QED BY <1>6, <1>8, <2>1
<1> QED BY <1>2, <1>3, <1>4, <1>7, <1>8, Zenon

\* One row, and two.
LEMMA FewRowsAreStored ==
  ASSUME NEW S, CopySigns \subseteq S, NEW a \in RowsOver(S), NEW b \in RowsOver(S)
  PROVE  /\ ServerRows(WriteValues(a)) = <<a>>
         /\ ServerRows(WriteValues(a) \o WriteValues(b)) = <<a, b>>
<1>1. PICK g : g = RowLine(S)
  OBVIOUS
<1>2. /\ g \in SeqMaps(RowsOver(S), S) /\ g[a] = WriteValues(a) /\ g[b] = WriteValues(b)
  BY <1>1, RowLineMaps
<1>3. <<a>> \in Seq(RowsOver(S)) /\ <<a, b>> \in Seq(RowsOver(S)) /\ Append(<<a>>, b) = <<a, b>>
  <2>1. PICK R : R = RowsOver(S)
    OBVIOUS
  <2>2. a \in R /\ b \in R
    BY <2>1
  <2>3. <<a>> \in Seq(R)
    BY <2>2
  <2>4. <<a, b>> \in Seq(R)
    BY <2>2
  <2>5. Append(<<a>>, b) = <<a, b>>
    <3>1. PICK p, q, e : p = Append(<<a>>, b) /\ q = <<a, b>> /\ e = <<a>>
      OBVIOUS
    <3>2. e \in Seq(R) /\ Len(e) = 1 /\ e[1] = a /\ p = Append(e, b)
      BY <2>3, <3>1
    <3>3. p \in Seq(R) /\ Len(p) = 2 /\ p[1] = a /\ p[2] = b
      <4>1. PICK l : l = Len(e)
        OBVIOUS
      <4>2. /\ p \in Seq(R) /\ Len(p) = l + 1 /\ p[l + 1] = b
            /\ \A i \in 1..l : p[i] = e[i]
        <5>1. e \in Seq(R) /\ b \in R
          BY <2>2, <3>2
        <5>2. /\ Append(e, b) \in Seq(R) /\ Len(Append(e, b)) = Len(e) + 1
              /\ Append(e, b)[Len(e) + 1] = b
              /\ \A i \in 1..Len(e) : Append(e, b)[i] = e[i]
          BY <5>1, AppendProperties
        <5> QED BY <3>2, <4>1, <5>2
      <4>3. l = 1 /\ l + 1 = 2 /\ 1 \in 1..l
        BY <3>2, <4>1
      <4> QED BY <3>2, <4>2, <4>3
    <3>4. q \in Seq(R) /\ Len(q) = 2 /\ q[1] = a /\ q[2] = b
      BY <2>4, <3>1
    <3>5. \A i \in 1..2 : i = 1 \/ i = 2
      OBVIOUS
    <3> QED BY <3>1, <3>3, <3>4, <3>5, SeqEqual
  <2> QED BY <2>1, <2>3, <2>4, <2>5
<1>4. Spread(g, <<a>>) = WriteValues(a)
  BY <1>2, SpreadOne
<1>5. Spread(g, Append(<<a>>, b)) = Spread(g, <<a>>) \o g[b]
  BY <1>2, <1>3, SpreadAppend
<1>6. \A rows \in Seq(RowsOver(S)) : ServerRows(Spread(g, rows)) = rows
  BY <1>1, SpreadIsStored
<1>7. ServerRows(Spread(g, <<a>>)) = <<a>> /\ ServerRows(Spread(g, <<a, b>>)) = <<a, b>>
  BY <1>3, <1>6, Zenon
<1> QED BY <1>2, <1>3, <1>4, <1>5, <1>7, Zenon
=============================================================================
