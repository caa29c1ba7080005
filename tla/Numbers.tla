------------------------------- MODULE Numbers -------------------------------
(***************************************************************************)
(* Integers of a fixed width and binary data as text (strconv.cxx,         *)
(* util.cxx, conversions.hxx), in the arithmetic of their own type.  A     *)
(* text is a sequence of characters, a buffer a number of bytes.           *)
(***************************************************************************)
EXTENDS Integers, SequencesExt

\* A call that throws pqxx::conversion_error gives Failure, any other what Is it.
Failure == {}
Is(x) == {x}

\* A space or a tab.
Blank == " "
DigitChars == <<"0", "1", "2", "3", "4", "5", "6", "7", "8", "9", "a", "b", "c", "d", "e", "f">>
Digits(base) == {DigitChars[d] : d \in 1..base}
ToDigit(n) == DigitChars[n + 1]
ToNumber(c) == (CHOOSE d \in DOMAIN DigitChars : DigitChars[d] = c) - 1
Log10[n \in Nat] == IF n < 10 THEN 0 ELSE 1 + Log10[n \div 10]
-----------------------------------------------------------------------------
(* A type is the number of its values, a power of two, and whether it has a sign. *)

\* An int, narrowed to what TLC can count: 28 bits.
IntType == [size |-> 268435456, signed |-> TRUE]

Bottom(T) == IF T.signed THEN -(T.size \div 2) ELSE 0
Top(T) == Bottom(T) + T.size - 1
Values(T) == Bottom(T)..Top(T)

\* numeric_limits<T>::digits10: the digits that T holds whatever they are.
Digits10(T) == Log10[Top(T) + 1]

\* integral_traits<T>::size_buffer
SizeBuffer(T) == (IF T.signed THEN 1 ELSE 0) + Digits10(T) + 1 + 1

\* nonneg_to_buf: digits from the end of the buffer.
NonNeg[n \in Nat] ==
  IF n < 10 THEN <<ToDigit(n)>> ELSE Append(NonNeg[n \div 10], ToDigit(n % 10))

\* integral_traits<T>::to_buf; bottom_to_buf casts the lowest value to an unsigned
\* one, which adds the size and gives its negative.
ToText(T, v) ==
  IF v >= 0 THEN NonNeg[v]
  ELSE IF v > Bottom(T) THEN <<"-">> \o NonNeg[-v]
  ELSE <<"-">> \o NonNeg[T.size + v]

\* safe_multiply_by_ten and safe_add_digit, safe_sub_digit: division in C++ is
\* towards zero.
AbsorbPositive(T, n, d) ==
  IF n > Top(T) \div 10 THEN Failure
  ELSE IF n * 10 > Top(T) - d THEN Failure ELSE Is(n * 10 + d)

\* (mutant) the lowest value itself taken for an overflow
AbsorbNegativeTight(T, n, d) ==
  IF n < -((-Bottom(T)) \div 10) THEN Failure
  ELSE IF n * 10 <= Bottom(T) + d THEN Failure ELSE Is(n * 10 - d)

AbsorbNegative(T, n, d) ==
  IF n < -((-Bottom(T)) \div 10) THEN Failure
  ELSE IF n * 10 < Bottom(T) + d THEN Failure ELSE Is(n * 10 - d)

SkipBlanks(text) ==
  LET solid == {i \in DOMAIN text : text[i] # Blank}
  IN  IF solid = {} THEN <<>>
      ELSE SubSeq(text, CHOOSE i \in solid : \A j \in solid : i <= j, Len(text))

\* The loops of from_string_integer over the digits, one for each sign.
AbsorbDigits(T, minus, digits) ==
  LET upTo[i \in 0..Len(digits)] ==
        IF i = 0 THEN Is(0)
        ELSE UNION {IF minus THEN AbsorbNegative(T, n, ToNumber(digits[i]))
                    ELSE AbsorbPositive(T, n, ToNumber(digits[i])) : n \in upTo[i - 1]}
  IN  IF \E i \in DOMAIN digits : digits[i] \notin Digits(10) THEN Failure
      ELSE upTo[Len(digits)]

\* from_string_integer.  The text must end in its buffer with something that is
\* not a digit: the loop for numbers without a sign does not look where it ends.
FromText(T, text) ==
  LET t == SkipBlanks(text)
  IN  IF t = <<>> \/ t = <<"-">> THEN Failure
      ELSE IF t[1] # "-" THEN AbsorbDigits(T, FALSE, t)
      ELSE IF ~T.signed THEN Failure ELSE AbsorbDigits(T, TRUE, Tail(t))
-----------------------------------------------------------------------------
(* Binary data *)

\* nibble(c) of a hexadecimal digit; it knows capitals too.
Nibble(c) == ToNumber(c)

\* esc_bin
EscBin(data) ==
  <<"\\", "x">> \o FlattenSeq([i \in DOMAIN data |-> <<ToDigit(data[i] \div 16), ToDigit(data[i] % 16)>>])

SizeUnescBin(n) == (n - 2) \div 2

\* unesc_bin
UnescBin(text) ==
  IF Len(text) < 2 \/ Len(text) % 2 # 0 \/ SubSeq(text, 1, 2) # <<"\\", "x">>
     \/ \E i \in 3..Len(text) : text[i] \notin Digits(16) THEN Failure
  ELSE Is([i \in 1..SizeUnescBin(Len(text)) |-> Nibble(text[2 * i + 1]) * 16 + Nibble(text[2 * i + 2])])
-----------------------------------------------------------------------------
(* What they promise *)

\* Every value of a type, its lowest too, is written as its decimal form, fits
\* the buffer size_buffer asks for with its terminating zero, and is read back.
GoesThrough(T, v) ==
  /\ Len(ToText(T, v)) + 1 <= SizeBuffer(T)
  /\ FromText(T, ToText(T, v)) = Is(v)

\* The number that digits spell, and that a text spells if it does: blanks, a sign,
\* digits.
Number(digits) ==
  LET upTo[i \in 0..Len(digits)] ==
        IF i = 0 THEN 0 ELSE upTo[i - 1] * 10 + ToNumber(digits[i])
  IN  upTo[Len(digits)]

Spelled(text) ==
  LET t == SkipBlanks(text)
      digits == IF t # <<>> /\ t[1] = "-" THEN Tail(t) ELSE t
  IN  IF digits = <<>> \/ \E i \in DOMAIN digits : digits[i] \notin Digits(10) THEN Failure
      ELSE Is(IF digits # t THEN -Number(digits) ELSE Number(digits))

\* A text is read as the number it spells if the type has it, and refused if
\* not: an overflow is noticed before it happens, digit by digit.  An unsigned
\* type refuses every minus sign.  Blanks before the number count for nothing
\* (strconv.cxx:424, test_string_conversion.cxx:143), though strconv.hxx:435 says
\* that whitespace is not stripped away; blanks after it make a text no number.
ReadsExactly(T, text) ==
  /\ FromText(T, text) =
       IF ~T.signed /\ Contains(text, "-") THEN Failure ELSE Spelled(text) \cap Values(T)
  /\ FromText(T, <<Blank>> \o text) = FromText(T, text)
  /\ FromText(T, Append(text, Blank)) = Failure
=============================================================================
