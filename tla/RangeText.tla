------------------------------ MODULE RangeText ------------------------------
(***************************************************************************)
(* string_traits<pqxx::range> (range.hxx): ranges of integers as text, on  *)
(* the field parser of composite values.                                   *)
(***************************************************************************)
EXTENDS Ranges, SqlArray

N == INSTANCE Numbers

EmptyText == <<"e", "m", "p", "t", "y">>
BoundText(b) == IF IsLimited(b) THEN N!ToText(N!IntType, b.value) ELSE <<>>
BoundRoom(b) == IF IsLimited(b) THEN N!SizeBuffer(N!IntType) - 1 ELSE 0

RangeIntoBuf(r) ==
  IF IsEmpty(r) THEN EmptyText
  ELSE <<IF IsInclusive(r.lower) THEN "[" ELSE "(">> \o BoundText(r.lower) \o <<",">>
       \o BoundText(r.upper) \o <<IF IsInclusive(r.upper) THEN "]" ELSE ")">>

RangeSizeBuffer(r) ==
  IF IsEmpty(r) THEN Len(EmptyText) + 1
  ELSE 1 + BoundRoom(r.lower) + 1 + BoundRoom(r.upper) + 2

\* An optional of the type from a field; null is no bound.
BoundFrom(f, inclusive) ==
  IF IsNull(f) THEN {NoBound}
  ELSE {IF inclusive THEN Inclusive(v) ELSE Exclusive(v) : v \in N!FromText(N!IntType, f.text)}

\* from_string; the server spells "empty" in lower case.
RangeFromString(t) ==
  IF Len(t) < 3 THEN {}
  ELSE IF t = EmptyText THEN {EmptyRange}
  ELSE IF t[1] \notin {"[", "("} THEN {}
  ELSE UNION {UNION {UNION {MakeRange(lower, upper) :
                              upper \in BoundFrom(fields[2][1], t[Len(t)] = "]")} :
                       lower \in BoundFrom(fields[1][1], t[1] = "[")} :
              fields \in
                UNION {{<<f, s>> : s \in FieldAt(t, f[2], TRUE, TRUE)} :
                         f \in FieldAt(t, 2, FALSE, TRUE)}}
=============================================================================
