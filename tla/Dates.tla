-------------------------------- MODULE Dates --------------------------------
(***************************************************************************)
(* std::chrono::year_month_day as PostgreSQL's ISO text (time.cxx).  C++   *)
(* has a year zero and a short for the year; PostgreSQL has neither.       *)
(***************************************************************************)
EXTENDS Numbers

OldestYear == -32767
NewestYear == 32767
Short == [size |-> 65536, signed |-> TRUE]
BC == <<Blank, "B", "C">>

\* std::chrono::year(n): a short, whatever n was.
AsYear(n) == ((n - Bottom(Short)) % Short.size) + Bottom(Short)

Leap(y) == (y % 4 = 0 /\ y % 100 # 0) \/ y % 400 = 0
DaysIn(y, mo) == CASE mo = 2 -> IF Leap(y) THEN 29 ELSE 28
                   [] mo \in {4, 6, 9, 11} -> 30
                   [] OTHER -> 31
\* year_month_day::ok()
Ok(date) ==
  /\ date.y \in OldestYear..NewestYear
  /\ date.m \in 1..12 /\ date.d \in 1..DaysIn(date.y, date.m)

Two(n) == <<ToDigit(n \div 10), ToDigit(n % 10)>>

\* year_into_buf: the oldest year does not fit a short once it is counted from 1 BC.
YearText(y) ==
  LET absy == IF y <= 0 THEN -y + 1 ELSE y
      text == ToText(Short, absy)
  IN  IF y = OldestYear THEN <<"3", "2", "7", "6", "8">>
      ELSE [i \in 1..(IF Len(text) < 4 THEN 4 - Len(text) ELSE 0) |-> "0"] \o text

\* string_traits<year_month_day>::into_buf
DateText(date) ==
  YearText(date.y) \o <<"-">> \o Two(date.m) \o <<"-">> \o Two(date.d)
    \o (IF date.y <= 0 THEN BC ELSE <<>>)

DateBuffer == 5 + 1 + 2 + 1 + 2 + Len(BC) + 1

\* month_from_string, day_from_string
TwoDigits(text, i) ==
  IF {text[i], text[i + 1]} \subseteq Digits(10)
  THEN Is(10 * ToNumber(text[i]) + ToNumber(text[i + 1])) ELSE Failure

DateOf(base, bc, m, d) == [y |-> AsYear(IF bc THEN -base + 1 ELSE base), m |-> m, d |-> d]

\* string_traits<year_month_day>::from_string
FromDateText(whole) ==
  LET bc == Len(whole) >= 3 /\ SubSeq(whole, Len(whole) - 2, Len(whole)) = BC
      text == IF bc THEN SubSeq(whole, 1, Len(whole) - 3) ELSE whole
      dashes == {i \in DOMAIN text : text[i] = "-"}
      sep == IF dashes = {} THEN Len(text) + 1 ELSE CHOOSE i \in dashes : \A j \in dashes : i <= j
  IN  IF Len(whole) < 9 \/ Len(text) - sep # 5 \/ sep < 5 \/ text[sep + 3] # "-" THEN Failure
      ELSE {date \in {DateOf(base, bc, m, d) :
                       base \in {b \in FromText(IntType, SubSeq(text, 1, sep - 1)) : b > 0},
                       m \in TwoDigits(text, sep + 1), d \in TwoDigits(text, sep + 4)} : Ok(date)}
-----------------------------------------------------------------------------
\* Every date of C++, of either era and in the year zero, fits its buffer, is
\* written as the date PostgreSQL knows it by, and is read back.
DateGoesThrough(date) ==
  /\ Len(DateText(date)) + 1 <= DateBuffer
  /\ FromDateText(DateText(date)) = Is(date)

\* A date PostgreSQL writes (a year of at least four digits from 1, an era) is
\* read as that date, or refused when C++ has no such date.
ReadsServerDate(year, era, m, d) ==
  LET text == YearText(year) \o <<"-">> \o Two(m) \o <<"-">> \o Two(d)
                \o (IF era = "BC" THEN BC ELSE <<>>)
      date == [y |-> IF era = "BC" THEN 1 - year ELSE year, m |-> m, d |-> d]
  IN  FromDateText(text) = IF Ok(date) THEN Is(date) ELSE Failure
=============================================================================
