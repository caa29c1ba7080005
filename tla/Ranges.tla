-------------------------------- MODULE Ranges --------------------------------
(***************************************************************************)
(* pqxx::range (range.hxx): two bounds, and the questions asked of them.   *)
(* A function that may throw returns {} for the exception, else {result}.  *)
(***************************************************************************)
EXTENDS Integers

NoBound == [kind |-> "none", value |-> 0]
Inclusive(v) == [kind |-> "inclusive", value |-> v]
Exclusive(v) == [kind |-> "exclusive", value |-> v]
Bounds(V) == {NoBound} \cup {Inclusive(v) : v \in V} \cup {Exclusive(v) : v \in V}

IsLimited(b) == b.kind # "none"
IsInclusive(b) == b.kind = "inclusive"
IsExclusive(b) == b.kind = "exclusive"

ExtendsDownTo(b, v) ==
  \/ ~IsLimited(b)
  \/ IsInclusive(b) /\ ~(v < b.value)
  \/ IsExclusive(b) /\ b.value < v

ExtendsUpTo(b, v) ==
  \/ ~IsLimited(b)
  \/ IsInclusive(b) /\ ~(b.value < v)
  \/ IsExclusive(b) /\ v < b.value

SameBound(a, b) ==
  IF IsLimited(a)
  THEN IsLimited(b) /\ IsInclusive(a) = IsInclusive(b) /\ a.value = b.value
  ELSE ~IsLimited(b)
-----------------------------------------------------------------------------
EmptyRange == [lower |-> Exclusive(0), upper |-> Exclusive(0)]

\* The constructor's check.
InOrder(lower, upper) == IsLimited(lower) /\ IsLimited(upper) => ~(upper.value < lower.value)

MakeRange(lower, upper) ==
  IF InOrder(lower, upper) THEN {[lower |-> lower, upper |-> upper]} ELSE {}

RangesOf(V) ==
  {r \in [lower : Bounds(V), upper : Bounds(V)] : InOrder(r.lower, r.upper)}

\* empty(): clearly so, whatever the type of the values.
IsEmpty(r) ==
  /\ IsExclusive(r.lower) \/ IsExclusive(r.upper)
  /\ IsLimited(r.lower) /\ IsLimited(r.upper)
  /\ ~(r.lower.value < r.upper.value)

ContainsValue(r, v) == ExtendsDownTo(r.lower, v) /\ ExtendsUpTo(r.upper, v)

SameRange(a, b) ==
  \/ SameBound(a.lower, b.lower) /\ SameBound(a.upper, b.upper)
  \/ IsEmpty(a) /\ IsEmpty(b)

HigherLower(a, b) ==
  IF ~IsLimited(a) THEN b
  ELSE IF ~IsLimited(b) THEN a
  ELSE IF a.value < b.value THEN b
  ELSE IF b.value < a.value THEN a
  ELSE IF IsExclusive(a) THEN a ELSE b

\* (mutant) of two bounds at one value the first is taken
LowerUpperFirst(a, b) ==
  IF ~IsLimited(a) THEN b
  ELSE IF ~IsLimited(b) THEN a
  ELSE IF b.value < a.value THEN b ELSE a

LowerUpper(a, b) ==
  IF ~IsLimited(a) THEN b
  ELSE IF ~IsLimited(b) THEN a
  ELSE IF b.value < a.value THEN b
  ELSE IF a.value < b.value THEN a
  ELSE IF IsExclusive(a) THEN a ELSE b

\* operator&
Intersection(a, b) ==
  LET lower == HigherLower(a.lower, b.lower)
      upper == LowerUpper(a.upper, b.upper)
  IN  IF InOrder(lower, upper) THEN [lower |-> lower, upper |-> upper] ELSE EmptyRange

\* contains(range)
ContainsRange(a, b) == SameRange(Intersection(a, b), b)
-----------------------------------------------------------------------------
(* What they promise *)

Members(D, r) == {v \in D : ContainsValue(r, v)}

\* The range at half the step: there is something between any two of its bounds
\* that differ, as there is when values come as close as one likes.
AtTwice(b) == [b EXCEPT !.value = 2 * @]
Halved(r) == [lower |-> AtTwice(r.lower), upper |-> AtTwice(r.upper)]

\* Nothing is between the bounds, but the range does not know (range.hxx:294).
LooksFilled(r) ==
  IsExclusive(r.lower) /\ IsExclusive(r.upper) /\ r.upper.value = r.lower.value + 1

\* What ranges of integers say of each other.  The intersection holds just what both
\* hold.  Otherwise a range knows nothing of integers: empty(), contains() and ==
\* answer exactly as for values that come as close as one likes.  So what they affirm
\* is true of the integers too, but they may deny what is true (range.hxx:295, :318),
\* and only a range open around no integer is taken for filled.
RangesAgree(D, a, b) ==
  LET both == Intersection(a, b)
      Set(r) == Members(D, r)
      Dense(r) == Members(D, Halved(r))
  IN  /\ Set(both) = Set(a) \cap Set(b)
      /\ Dense(both) = Dense(a) \cap Dense(b)
      /\ IsEmpty(a) <=> Dense(a) = {}
      /\ ContainsRange(a, b) <=> Dense(b) \subseteq Dense(a)
      /\ SameRange(a, b) <=> Dense(a) = Dense(b)
      /\ SameRange(both, Intersection(b, a))
      /\ IsEmpty(a) => Set(a) = {}
      /\ ContainsRange(a, b) => Set(b) \subseteq Set(a)
      /\ SameRange(a, b) => Set(a) = Set(b)
      /\ Set(a) = {} => IsEmpty(a) \/ LooksFilled(a)
=============================================================================
