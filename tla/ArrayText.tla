------------------------------ MODULE ArrayText ------------------------------
(***************************************************************************)
(* SQL arrays and composite values as text: what libpqxx writes            *)
(* (conversions.hxx, composite.hxx) and its readers: array_parser          *)
(* (array.cxx), array (array.hxx) and parse_composite (composite.hxx).     *)
(* A text is a sequence of characters, Wide one that takes several bytes.  *)
(* An element is null, or a text with the room its type asks for.          *)
(* A function that may throw returns {} for the exception, else {result}.  *)
(***************************************************************************)
EXTENDS Naturals, SequencesExt

Quote == "\""
Backslash == "\\"
Wide == "~"

Null == [null |-> TRUE, text |-> <<>>, room |-> 0]
NullText == <<"N", "U", "L", "L">>
Element(t) == [null |-> FALSE, text |-> t, room |-> Len(t) + 1]  \* std::string
IsNull(e) == e.null

Joined(texts, separator) ==
  FoldLeftDomain(LAMBDA t, i : (IF i = 1 THEN <<>> ELSE t \o separator) \o texts[i], <<>>, texts)
Each(s, Op(_)) == [i \in DOMAIN s |-> Op(s[i])]
SumOf(s) == FoldLeft(+, 0, s)

\* A quote or a backslash gets a backslash.
Escaped(t) ==
  FlattenSeq(Each(t, LAMBDA c : IF c \in {Quote, Backslash} THEN <<Backslash, c>> ELSE <<c>>))
Quoted(t) == <<Quote>> \o Escaped(t) \o <<Quote>>
-----------------------------------------------------------------------------
(* Writing.  safe: the type's text needs no quotes (is_unquoted_safe).        *)

Braces(texts) == <<"{">> \o Joined(texts, <<",">>) \o <<"}">>

ArrayIntoBuf(elts, safe) ==
  Braces(Each(elts, LAMBDA e : IF IsNull(e) THEN NullText
                               ELSE IF safe THEN e.text ELSE Quoted(e.text)))

\* An array of arrays.
NestedIntoBuf(rows, safe) == Braces(Each(rows, LAMBDA r : ArrayIntoBuf(r, safe)))

\* The room asked for: three bytes and the elements; no separator counts.
ArraySizeBuffer(elts, safe) ==
  3 + SumOf(Each(elts, LAMBDA e :
              LET room == IF IsNull(e) THEN Len(NullText) ELSE e.room
              IN  IF safe THEN room - 1
                  ELSE 2 * (IF IsNull(e) THEN room ELSE room - 1) + 2))

\* The last comma is taken back only from several fields.
CompositeIntoBuf(fields, safe) ==
  LET text == Joined(Each(fields, LAMBDA e : IF safe THEN e.text ELSE Quoted(e.text)), <<",">>)
  IN  <<"(">> \o (IF Len(fields) = 1 THEN text \o <<",">> ELSE text) \o <<")">>

CompositeSizeBuffer(fields, safe) ==
  2 + Len(fields) + SumOf(Each(fields, LAMBDA e :
                            IF safe THEN e.room - 1 ELSE 2 + 2 * (e.room - 1)))

\* The terminating zero takes a byte.
Fits(text, room) == Len(text) + 1 <= room

-----------------------------------------------------------------------------
(* The pieces of a text.                                                      *)

\* scan_double_quoted_string: the position after the quote that closes the one at p.
EndOfQuoted(t, p) ==
  LET End[i \in 0..(Len(t) + 3), quoted \in BOOLEAN] ==
        IF i > Len(t) THEN IF quoted THEN {i} ELSE {}
        ELSE IF quoted THEN IF t[i] = Quote THEN End[i + 1, FALSE] ELSE {i}
        ELSE IF t[i] = Backslash THEN End[i + 2, FALSE]
        ELSE End[i + 1, t[i] = Quote]
  IN  End[p + 1, FALSE]

\* parse_double_quoted_string: what stands between the quotes at p and end - 1.
Unquoted(t, p, end) ==
  LET From[i \in 0..(end + 1)] ==
        IF i >= end - 1 THEN <<>>
        ELSE IF t[i] \in {Quote, Backslash} THEN <<t[i + 1]>> \o From[i + 2]
        ELSE <<t[i]>> \o From[i + 1]
  IN  From[p + 1]

\* scan_unquoted_string: up to one of the characters in stops.
EndOfWord(t, p, stops) ==
  CHOOSE i \in p..(Len(t) + 1) :
    /\ i = Len(t) + 1 \/ t[i] \in stops
    /\ \A j \in p..(i - 1) : t[j] \notin stops
-----------------------------------------------------------------------------
(* array_parser: a text as junctures, one at a time.                          *)

Juncture(kind, text) == [kind |-> kind, text |-> text]

\* One step from position p: the juncture and the position after it, past a comma.
ParseStep(t, p) ==
  LET end == EndOfWord(t, p, {",", "}"})
      word == SubSeq(t, p, end - 1)
      After(i) == IF i <= Len(t) /\ t[i] = "," THEN i + 1 ELSE i
  IN  CASE t[p] = "{" -> {<<Juncture("row_start", <<>>), After(p + 1)>>}
        [] t[p] = "}" -> {<<Juncture("row_end", <<>>), After(p + 1)>>}
        [] t[p] = Quote ->
             {<<Juncture("string_value", Unquoted(t, p, e)), After(e)>> : e \in EndOfQuoted(t, p)}
        [] OTHER ->
             {<<IF word = NullText THEN Juncture("null_value", <<>>)
                ELSE Juncture("string_value", word), After(end)>>}

\* All of them.
Junctures(t) ==
  LET From[p \in 1..(Len(t) + 1)] ==
        IF p > Len(t) THEN {<<>>}
        ELSE UNION {{<<s[1]>> \o rest : rest \in From[s[2]]} : s \in ParseStep(t, p)}
  IN  From[1]
=============================================================================
