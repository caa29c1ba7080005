----------------------------- MODULE Conversions -----------------------------
(***************************************************************************)
(* C++ values as SQL text (conversions.hxx, strconv.hxx): what is null,    *)
(* what room a value asks for, what is written into it.  Also the numbers  *)
(* that have no digits, floats' longest text, and placeholders.            *)
(* A value is a chain of wrappers around a base value; one of them may     *)
(* hold nothing.  Its text is a sequence of characters.                    *)
(***************************************************************************)
EXTENDS Numbers

Wrappers == {"optional", "unique_ptr", "shared_ptr", "variant"}
Bases == {"int", "enum", "bool", "string", "zview", "char[]", "char*", "bytes", "nullptr"}

\* wraps: outermost first; empty: the wrapper that holds nothing, or 0.
Value(wraps, empty, base, null, text) ==
  [wraps |-> wraps, empty |-> empty, base |-> base, null |-> null, text |-> text]

\* What a call comes to: a text, an exception, the end of the program (a noexcept
\* function throws), or a pointer to nothing followed.
Text(t) == [result |-> "text", text |-> t]
Throws == [result |-> "throws", text |-> <<>>]
Terminates == [result |-> "terminates", text |-> <<>>]
Undefined == [result |-> "undefined", text |-> <<>>]

\* nullness<T>::is_null, through the wrappers
IsNullValue(v) ==
  LET Inside[k \in 1..(Len(v.wraps) + 1)] ==
        IF k > Len(v.wraps) THEN v.null ELSE v.empty = k \/ Inside[k + 1]
  IN  Inside[1]

AlwaysNull(v) == v.base = "nullptr"

\* size_buffer of the base value.
BaseRoom(v) ==
  CASE v.base \in {"int", "enum"} -> SizeBuffer(IntType)
    [] v.base = "bool" -> 6
    [] v.base = "nullptr" -> 0
    [] OTHER -> Len(v.text) + 1

EmptyWrapper(v) == v.wraps[v.empty]

\* size_buffer, which is noexcept: optional::value() throws, a pointer is followed.
Room(v) ==
  IF v.empty = 0 THEN BaseRoom(v) ELSE IF EmptyWrapper(v) = "optional" THEN -1 ELSE -2

\* into_buf into a buffer of this size, the terminating zero included.
IntoBuf(v, space) ==
  IF v.empty # 0 \/ v.null THEN Undefined
  ELSE IF Len(v.text) + 1 > space THEN Throws ELSE Text(v.text)

\* to_buf, which a caller need not have asked about null.
ToBuf(v, space) ==
  IF v.empty # 0
  THEN IF EmptyWrapper(v) = "shared_ptr" THEN Undefined ELSE Text(<<>>)
  ELSE IF v.null THEN Text(<<>>) ELSE IntoBuf(v, space)

\* to_string, into_string
ValueToString(v) ==
  IF IsNullValue(v) THEN Throws
  ELSE CASE Room(v) = -1 -> Terminates
         [] Room(v) = -2 -> Undefined
         [] OTHER -> IntoBuf(v, Room(v))

\* params::append of any type
AppendedParam(v) == IF AlwaysNull(v) \/ IsNullValue(v) THEN {} ELSE {ValueToString(v)}

\* from_string<T>, where T has one: the wrappers around what the text gives.
HasFromString(v) ==
  /\ \A k \in DOMAIN v.wraps : v.wraps[k] # "variant"
  /\ v.base \in {"int", "enum", "bool", "string", "char*", "bytes"}

\* string_traits<bool>::from_string
BoolFrom(t) ==
  IF t \in {<<>>, <<"f">>, <<"F">>, <<"0">>, <<"f", "a", "l", "s", "e">>, <<"F", "A", "L", "S", "E">>}
  THEN {FALSE}
  ELSE IF t \in {<<"t">>, <<"T">>, <<"1">>, <<"t", "r", "u", "e">>, <<"T", "R", "U", "E">>} THEN {TRUE}
  ELSE {}

\* Which value a text gives the base: the text that value is written as.
BaseFrom(v, t) ==
  CASE v.base \in {"int", "enum"} -> {ToText(IntType, n) : n \in FromText(IntType, t)}
    [] v.base = "bool" ->
         {IF b THEN <<"t", "r", "u", "e">> ELSE <<"f", "a", "l", "s", "e">> : b \in BoolFrom(t)}
    [] v.base = "bytes" -> {EscBin(d) : d \in UnescBin(t)}
    [] OTHER -> {t}
-----------------------------------------------------------------------------
(* Floats: max_digits10 of the mantissa, the normal exponents.                *)

DigitsOf(n) == Len(NonNeg[n])

\* float_traits::size_buffer
FloatRoom(f) ==
  1 + 1 + f.digits + 1 + 1 + Max({DigitsOf(f.max), DigitsOf(f.digits - f.min)}) + 1

\* std::to_chars (external): the shorter of both notations, so at most the
\* scientific one, whose exponent has two digits or more.
LongestFloat(f, mantissa, exponent) ==
  1 + mantissa + (IF mantissa > 1 THEN 1 ELSE 0) + 2
    + Max({2, DigitsOf(IF exponent < 0 THEN -exponent ELSE exponent)})

Lower(c) == CASE c = "N" -> "n" [] c = "A" -> "a" [] c = "I" -> "i" [] OTHER -> c
Infinities == {<<"i", "n", "f", "i", "n", "i", "t", "y">>, <<"I", "n", "f", "i", "n", "i", "t", "y">>,
               <<"I", "N", "F", "I", "N", "I", "T", "Y">>, <<"i", "n", "f">>}

\* from_string_awful_float on what has no digits.
SpecialFloat(t) ==
  IF t = <<>> THEN {}
  ELSE IF [i \in DOMAIN t |-> Lower(t[i])] = <<"n", "a", "n">> THEN {"nan"}
  ELSE IF t \in Infinities THEN {"infinity"}
  ELSE IF t[1] = "-" /\ Tail(t) \in Infinities THEN {"-infinity"}
  ELSE {}
-----------------------------------------------------------------------------
(* placeholders<COUNTER>: the number and the text that shows it.              *)

FirstPlaceholder == [current |-> 1, text |-> <<"$", "1">>]

\* next(): a new last digit, or at a multiple of ten the whole number.
NextPlaceholder(T, p) ==
  IF p.current >= Top(T) THEN p  \* range_error
  ELSE [current |-> p.current + 1,
        text |-> IF (p.current + 1) % 10 = 0 THEN <<"$">> \o ToText(T, p.current + 1)
                 ELSE [p.text EXCEPT ![Len(p.text)] = ToDigit(ToNumber(@) + 1)]]

\* m_buf
PlaceholderRoom(T) == Digits10(T) + 3

Placeholders(T) ==
  FoldLeft(LAMBDA ps, i : Append(ps, NextPlaceholder(T, Last(ps))),
           <<FirstPlaceholder>>, [i \in 1..Top(T) |-> i])
=============================================================================
