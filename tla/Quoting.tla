------------------------------ MODULE Quoting ------------------------------
(* What goes into a statement besides its own text: quoted values and names,  *)
(* patterns, lists, parameters; and the connection string.  A text is a       *)
(* sequence of characters, however many bytes one takes.                      *)
EXTENDS Naturals, Sequences, SequencesExt

Apostrophe == "'"
DoubleQuote == "\""
Backslash == "\\"
AnyOne == "_"    \* in a pattern
AnyMany == "%"
Gap == " "

Doubled(text, c) ==
  FlattenSeq([i \in DOMAIN text |-> IF text[i] = c THEN <<c, c>> ELSE <<text[i]>>])

\* External: PQescapeStringConn() and PQescapeIdentifier().
EscapeString(text) == Doubled(text, Apostrophe)
EscapeIdentifier(name) == <<DoubleQuote>> \o Doubled(name, DoubleQuote) \o <<DoubleQuote>>

\* The elements' texts into a buffer for all of them: {} when one does not fit.
\* An item is [text, room], the room its type asks for, a final zero included.
Written(sep, items, budget) ==
  LET upTo[i \in 0..Len(items)] ==
        IF i = 0 THEN {<<>>}
        ELSE {here \o (IF i = 1 THEN <<>> ELSE sep) \o items[i].text :
                here \in {h \in upTo[i - 1] :
                            Len(h) + (IF i = 1 THEN 0 ELSE Len(sep)) + Len(items[i].text) + 1
                              <= budget}}
  IN  upTo[Len(items)]

Budget(sep, items) ==
  LET upTo[i \in 0..Len(items)] ==
        IF i = 0 THEN 0 ELSE upTo[i - 1] + items[i].room + Len(sep)
  IN  upTo[Len(items)]

\* separated_list(): one element needs no buffer.
SeparatedList(sep, items) ==
  IF items = <<>> THEN {<<>>}
  ELSE IF Len(items) = 1 THEN {items[1].text}
  ELSE Written(sep, items, Budget(sep, items))

Item(text) == [text |-> text, room |-> Len(text) + 1]  \* a std::string

\* quote(): NULL for a null; else the text between quotes, in a buffer of twice
\* its size and three.
QuoteBuffer(text) == 2 + 2 * Len(text) + 1
QuoteValue(isNull, text) ==
  IF isNull THEN <<"N", "U", "L", "L">>
  ELSE <<Apostrophe>> \o EscapeString(text) \o <<Apostrophe>>

QuoteName(name) == EscapeIdentifier(name)

\* (mutant) the path is quoted as one name
QuoteWhole(path) ==
  SeparatedList(<<>>, <<Item(QuoteName(FlattenSeq([i \in DOMAIN path |->
    (IF i = 1 THEN <<>> ELSE <<".">>) \o path[i]])))>>)

QuoteTable(path) == SeparatedList(<<".">>, [i \in DOMAIN path |-> Item(QuoteName(path[i]))])
QuoteColumns(names) == SeparatedList(<<",">>, [i \in DOMAIN names |-> Item(QuoteName(names[i]))])

\* esc_like(): the escape character itself is left alone.
EscLike(text, escape) ==
  FlattenSeq([i \in DOMAIN text |->
                IF text[i] \in {AnyOne, AnyMany} THEN <<escape, text[i]>> ELSE <<text[i]>>])
-----------------------------------------------------------------------------
(* Parameters: a list of nulls, texts and binary data, taken apart for libpq. *)

NullParam == [kind |-> "null", data |-> <<>>]
Param(kind, data) == [kind |-> kind, data |-> data]

\* append(params const &); append(params &&), which leaves the other list empty,
\* and this one too when it is the same: <<this list, the other>>.
Appended(p, q) == p \o q
AppendedMoved(p, q, same) == IF same THEN <<<<>>, <<>>>> ELSE <<p \o q, <<>>>>

Lengths(p) == [i \in DOMAIN p |-> IF p[i].kind = "null" THEN 0 ELSE Len(p[i].data)]

MakeCParams(p) ==
  [values |-> [i \in DOMAIN p |-> IF p[i].kind = "null" THEN {} ELSE {p[i].data}],
   lengths |-> Lengths(p),
   formats |-> [i \in DOMAIN p |-> IF p[i].kind = "binary" THEN "binary" ELSE "text"]]

\* External: what libpq sends for the i-th parameter.
Sent(c, i) ==
  IF c.values[i] = {} THEN NullParam
  ELSE LET data == CHOOSE d \in c.values[i] : TRUE
       IN  [kind |-> c.formats[i],
            data |-> IF c.formats[i] = "binary" THEN SubSeq(data, 1, c.lengths[i]) ELSE data]
-----------------------------------------------------------------------------
(* The connection string.  An option is [keyword, val, env, compiled]: what it *)
(* is now, in the environment and compiled in, each {} or {value}.            *)

GetDefault(option) == IF option.env # {} THEN option.env ELSE option.compiled

Setting(option) ==
  IF option.val = {} \/ option.val = GetDefault(option) THEN <<>>
  ELSE <<option.keyword, "=">> \o (CHOOSE v \in option.val : TRUE)

WithSetting(buf, setting) ==
  buf \o (IF buf = <<>> \/ setting = <<>> THEN <<>> ELSE <<Gap>>) \o setting

ConnectionString(options) ==
  LET upTo[i \in 0..Len(options)] ==
        IF i = 0 THEN <<>> ELSE WithSetting(upTo[i - 1], Setting(options[i]))
  IN  upTo[Len(options)]

\* External: what libpq makes of a connection string, option by option.
Reconnected(text, option) ==
  LET cuts == {i \in 1..Len(text) : text[i] = option.keyword /\ (i = 1 \/ text[i - 1] = Gap)
                 /\ i < Len(text) /\ text[i + 1] = "="}
      value(i) == LET ends == {j \in (i + 2)..(Len(text) + 1) : j = Len(text) + 1 \/ text[j] = Gap}
                  IN  SubSeq(text, i + 2, (CHOOSE j \in ends : \A k \in ends : j <= k) - 1)
  IN  IF cuts = {} THEN IF option.env # {} THEN option.env ELSE option.compiled
      ELSE {value(CHOOSE i \in cuts : TRUE)}
-----------------------------------------------------------------------------
(* External: the server reads a literal, a list of names, a pattern.          *)

\* What stands in quotes from position i, and the position behind it.
ReadFirst(x, r) == [r EXCEPT !.text = <<x>> \o @]
ReadQuoted(text, i, c) ==
  LET scan[k \in 1..(Len(text) + 1)] ==
        IF k > Len(text) THEN [text |-> <<>>, next |-> Len(text) + 2]  \* not closed
        ELSE IF text[k] # c THEN ReadFirst(text[k], scan[k + 1])
        ELSE IF k < Len(text) /\ text[k + 1] = c THEN ReadFirst(c, scan[k + 2])
        ELSE [text |-> <<>>, next |-> k + 1]
  IN  scan[i + 1]

ServerLiteral(text) ==
  LET r == ReadQuoted(text, 1, Apostrophe)
  IN  IF text[1] = Apostrophe /\ r.next = Len(text) + 1 THEN {r.text} ELSE {}

\* The names of a path or a list, or {} when it is none.
ServerNames(text, sep) ==
  LET from[i \in 1..(Len(text) + 1)] ==
        LET r == ReadQuoted(text, i, DoubleQuote)
        IN  IF i > Len(text) \/ text[i] # DoubleQuote THEN {}
            ELSE IF r.next = Len(text) + 1 THEN {<<r.text>>}
            ELSE IF r.next > Len(text) \/ text[r.next] # sep THEN {}
            ELSE {<<r.text>> \o rest : rest \in from[r.next + 1]}
  IN  from[1]

\* LIKE, with an escape character: where the text from there on matches the pattern
\* from j on.
Matches(text, pattern, escape) ==
  LET from[j \in 1..(Len(pattern) + 1)] ==
        IF j > Len(pattern) THEN {Len(text) + 1}
        ELSE IF pattern[j] = escape
        THEN {i \in 1..Len(text) :
                j < Len(pattern) /\ text[i] = pattern[j + 1] /\ i + 1 \in from[j + 2]}
        ELSE IF pattern[j] = AnyMany
        THEN {i \in 1..(Len(text) + 1) : \E k \in i..(Len(text) + 1) : k \in from[j + 1]}
        ELSE {i \in 1..Len(text) : pattern[j] \in {AnyOne, text[i]} /\ i + 1 \in from[j + 1]}
  IN  1 \in from[1]
=============================================================================
