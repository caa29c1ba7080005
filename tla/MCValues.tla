------------------------------ MODULE MCValues ------------------------------
(* The conversions that keep no state of their own, each on every input of a  *)
(* small set: one step picks a conversion's input, the invariants say what    *)
(* comes of it.  PhoneList, which keeps the phones of a client, takes its own *)
(* steps.                                                                     *)
EXTENDS MCPhoneList, Encodings, Ranges, Quoting, CopyText, Dates, Conversions

CONSTANT Parts   \* the conversions to look at

VARIABLES
  part,  \* the one of this behaviour
  in     \* <<its input>>, once it has been picked

Arr == INSTANCE SqlArray
Rng == INSTANCE RangeText
Res == INSTANCE Results

\* Bytes on both sides of the borders the scanners test: a backslash, a digit,
\* and lead bytes of two, three and four byte characters.
Bytes == {\h30, \h5C, \h81, \h8E, \h8F, \h9A, \hA1, \hE0, \hF0, \hFF}
EncodedInputs == [name : MultiByte \cup {"LATIN1"}, head : BoundedSeq(Bytes, 2)]

\* Types narrow enough to have all their values tried, some whose first digit
\* can be any and some where it is not.
Types == [size : {16, 64, 256}, signed : BOOLEAN]
NumberInputs == [type : Types, head : BoundedSeq({" ", "-", "1", "2", "x"}, 2)]

HexInputs == BoundedSeq({0, 9, 10, 15, 16, 165, 255}, 3)

DateInputs ==
  [y : {-32767, -32766, -9999, -1000, -999, -100, -5, -4, -1, 0, 1, 4, 99, 100, 999, 1000,
        1900, 2000, 2024, 9999, 10000, 32767},
   m : {0, 1, 2, 4, 12, 13}, d : {0, 1, 9, 10, 28, 29, 30, 31, 32}]

\* Element texts with everything that is special to arrays and composite values.
Letters == {"a", Arr!Quote, Arr!Backslash, ",", "}", ")", Arr!Wide}
ShortTexts == {Arr!Element(t) : t \in BoundedSeq(Letters, 2) \cup {Arr!NullText}}
ArrayInputs == [elts : {<<>>} \cup {<<e>> : e \in ShortTexts} \cup [1..2 -> {Arr!Null, Arr!Element(<<Arr!Quote>>), Arr!Element(<<"a">>)}],
                e : ShortTexts \cup {Arr!Null}]
\* Texts that may be no array at all.
AnyTextInputs == BoundedSeq({"{", "}", ",", "a"}, 4)

\* Ranges over a few integers, two of them with nothing in between.
RangeInputs == RangesOf({-10, 0, 1, 12})

\* Every base value under up to two wrappers, any of which may hold nothing.
BaseValues ==
  {[base |-> b, null |-> FALSE, text |-> <<"-", "1", "7">>] : b \in {"int", "enum"}}
  \cup {[base |-> b, null |-> FALSE, text |-> t] :
          b \in {"string", "zview", "char[]", "char*"}, t \in {<<>>, <<"a">>, <<"t", "r", "u", "e">>}}
  \cup {[base |-> "bool", null |-> FALSE, text |-> t] :
          t \in {<<"t", "r", "u", "e">>, <<"f", "a", "l", "s", "e">>}}
  \cup {[base |-> "bytes", null |-> FALSE, text |-> <<"\\", "x", "0", "f">>]}
  \cup {[base |-> b, null |-> TRUE, text |-> <<>>] : b \in {"char*", "nullptr"}}
WrappedValues ==
  {Value(w[1], w[2], b.base, b.null, b.text) :
     w \in {v \in BoundedSeq(Wrappers, 2) \X (0..2) :
              v[2] <= Len(v[1]) /\ (v[2] > 0 => v[1][v[2]] # "variant")},
     b \in BaseValues}

\* Rows of up to two fields with everything a line of COPY marks.
CopyFields == {Field(t) : t \in BoundedSeq({"a", "N", Escape, Tab, NewLine}, 2)}
              \cup {Null}
CopyInputs == [1..1 -> CopyFields] \cup [1..2 -> CopyFields]

\* Results of up to three columns, two of which may have one name, or three rows.
ResultFields == {Res!Null, Res!Field("1"), Res!Field("x")}
ResultsOf(widths, heights) ==
  UNION {[names : [1..w -> {"a", "b"}], rows : UNION {[1..h -> [1..w -> ResultFields]] : h \in heights}] :
           w \in widths}
ResultInputs == ResultsOf({3}, 0..1) \cup ResultsOf({2}, 0..2) \cup ResultsOf({1}, 0..3)
ResultTypes == {[null |-> n, texts |-> t] : n \in BOOLEAN, t \in {{}, {"1"}, {"1", "x"}}}

\* A path of names or a list of values, any of which may hold what marks the end.
QuotingInputs ==
  BoundedSeq(BoundedSeq({"a", ".", ",", Apostrophe, DoubleQuote, Backslash, AnyOne, AnyMany}, 1), 3)
  \cup BoundedSeq(BoundedSeq({"a", Apostrophe, DoubleQuote, Backslash, AnyMany}, 2), 2)

\* Parameters of two lists, of which the first is moved into or copied.
ParamInputs ==
  LET entries == {NullParam} \cup {Param(k, d) : k \in {"text", "binary"}, d \in BoundedSeq({"a"}, 2)}
  IN  [p : BoundedSeq(entries, 2), q : BoundedSeq(entries, 2)]

\* Options of two keywords; a value of their own, of the environment, compiled in.
OptionInputs ==
  LET Val == {{}, {<<"x">>}, {<<"y">>}}
  IN  [1..2 -> [keyword : {"host"}, val : Val, env : Val, compiled : Val]]

FloatTypes == {[digits |-> 9, min |-> -37, max |-> 38], [digits |-> 17, min |-> -307, max |-> 308],
               [digits |-> 21, min |-> -4931, max |-> 4932]}

Inputs == [values |-> WrappedValues, floats |-> FloatTypes, placeholders |-> Types,
           ranges |-> RangeInputs, arrays |-> ArrayInputs, texts |-> AnyTextInputs,
           encodings |-> EncodedInputs, numbers |-> NumberInputs, hex |-> HexInputs,
           dates |-> DateInputs, copy |-> CopyInputs, results |-> ResultInputs,
           quoting |-> QuotingInputs, params |-> ParamInputs, options |-> OptionInputs]

ValuesInit == Init /\ part \in Parts /\ in = <<>>

Pick ==
  /\ part # "phones" /\ in = <<>>
  /\ \E x \in Inputs[part] : in' = <<x>>
  /\ UNCHANGED <<vars, part>>

Phones == part = "phones" /\ Next /\ UNCHANGED <<part, in>>

ValuesSpec == ValuesInit /\ [][Pick \/ Phones]_<<vars, part, in>>
-----------------------------------------------------------------------------
Picked(p) == part = p /\ in # <<>>
It == in[1]

\* No scanner of characters runs over the end of a text, and, but in MULE_INTERNAL,
\* whose scanner tests a byte behind the character, none looks behind what it takes
\* (encodings.hxx).
ScannersStayInside ==
  Picked("encodings") =>
    \A tail \in BoundedSeq(Bytes, 2) :
      /\ StaysInside(GroupOf[It.name], It.head \o tail)
      /\ It.name # "MULE_INTERNAL" => EndsItself(GroupOf[It.name], It.head \o tail)

\* The search for an ASCII character finds characters, not bytes inside others,
\* in every encoding but MULE_INTERNAL, whose scanner takes any third byte.
SearchFindsCharacters ==
  Picked("encodings") /\ It.name # "MULE_INTERNAL" =>
    \A tail \in BoundedSeq(Bytes, 2) :
      FindsCharacters(GroupOf[It.name], It.head \o tail, {\h5C})

\* Integers of every width go to text and back, the lowest one too, in the
\* buffer they ask for (strconv.cxx:98, conversions.hxx size_buffer).
NumbersGoThrough ==
  Picked("numbers") /\ It.head = <<>> => \A v \in Values(It.type) : GoesThrough(It.type, v)

\* A text that spells no number of the type is refused, an overflow is never taken
\* for a number, and blanks are skipped before a number only (strconv.cxx:349-475;
\* strconv.hxx:435 says nothing is skipped).
NumbersReadExactly ==
  Picked("numbers") =>
    \A tail \in BoundedSeq({"-", "0", "1", "2", "5", "6", "7", "8"}, 2) :
      ReadsExactly(It.type, It.head \o tail)

\* Binary data goes to hex and back (util.cxx:133, :165).
BytesGoThrough ==
  Picked("hex") => UnescBin(EscBin(It)) = Is(It)

\* Every date of C++ goes to PostgreSQL's text and back (time.cxx:183, :204).
DatesGoThrough ==
  Picked("dates") /\ Ok(It) => DateGoesThrough(It)

\* A date of PostgreSQL up to C++'s last year is read as what it is, or refused.
ServerDatesRead ==
  Picked("dates") /\ It.y > 0 /\ It.m < 13 /\ It.d < 32 =>
    \A era \in {"AD", "BC"} : ReadsServerDate(It.y, era, It.m, It.d)

\* Both readers of arrays give back what the server had: its text is made of the
\* right junctures, and pqxx::array finds the elements, nulls too, in order and,
\* of two rows, at() each where it belongs.
ArraysReadBack ==
  Picked("arrays") =>
    LET elts == Append(It.elts, It.e)
        Piece(e) == IF e.null THEN Arr!Juncture("null_value", <<>>)
                    ELSE Arr!Juncture("string_value", e.text)
        Row(es) == <<Arr!Juncture("row_start", <<>>)>> \o [i \in DOMAIN es |-> Piece(es[i])]
                   \o <<Arr!Juncture("row_end", <<>>)>>
    IN  /\ Arr!Junctures(Arr!ServerArray(elts)) = {Row(elts)}
        /\ Arr!ParseArray(Arr!ServerArray(elts), 1, TRUE) =
             {[extents |-> [d \in {0} |-> Len(elts)], elts |-> elts]}
        /\ \E table \in Arr!ParseArray(Arr!ServerTable(<<elts, Reverse(elts)>>), 2, TRUE) :
             \A i \in 0..1, j \in 0..(Len(elts) - 1) :
               \E p \in Arr!At(table.extents, [d \in 0..1 |-> IF d = 0 THEN i ELSE j]) :
                 table.elts[p + 1] = (IF i = 0 THEN elts[j + 1] ELSE elts[Len(elts) - j])

\* What the library writes as an array the server, and its own readers, take for
\* the same elements (conversions.hxx:1026): no text is taken for null or for two.
\* The room asked for is short of the text by the separators at most.
ArraysWrittenAsMeant ==
  Picked("arrays") =>
    LET elts == Append(It.elts, It.e)
    IN  /\ {r.elts : r \in Arr!ParseArray(Arr!ArrayIntoBuf(elts, FALSE), 1, TRUE)} = {elts}
        /\ {r.elts : r \in Arr!ParseArray(Arr!NestedIntoBuf(<<elts, elts>>, FALSE), 2, TRUE)} =
             {elts \o elts}
        /\ Arr!Fits(Arr!ArrayIntoBuf(elts, FALSE),
                    Arr!ArraySizeBuffer(elts, FALSE) + Len(elts) - 1)

\* A field that starts, unquoted, with a character of several bytes.
StartsWide(e) == e.text # <<>> /\ e.text[1] = Arr!Wide /\ ~Arr!NeedsQuotes(e.text)

\* A composite value of the server is read as its fields, unless one starts with a
\* character of several bytes; what is written from several fields, none of them
\* null, is read back, and fits its buffer (composite.hxx:34, :123).
CompositesReadBack ==
  Picked("arrays") =>
    LET fields == Append(It.elts, It.e)
        n == Len(fields)
        written == Arr!CompositeIntoBuf(fields, FALSE)
    IN  /\ (\A i \in 1..n : ~StartsWide(fields[i])) =>
             /\ Arr!ParseComposite(Arr!ServerRecord(fields), n, TRUE) = {fields}
             /\ Arr!ParseComposite(Arr!ServerRecord(fields), n + 1, TRUE) = {}
        /\ n > 1 /\ (\A i \in 1..n : ~fields[i].null) =>
             /\ Arr!ParseComposite(written, n, FALSE) = {fields}
             /\ Arr!Fits(written, Arr!CompositeSizeBuffer(fields, FALSE))

\* Whatever the text, an array that is accepted is a full rectangle, and at()
\* finds each of its elements under one index (array.hxx:170-483).
ArraysAreRectangles ==
  Picked("texts") =>
    \A tail \in BoundedSeq({"{", "}", ",", "a"}, 4), D \in 1..2 :
      \A r \in Arr!ParseArray(It \o tail, D, FALSE) :
        LET size == FoldFunction(Arr!Times, 1, r.extents)
            indexes == [0..(D - 1) -> 0..2]
        IN  /\ Len(r.elts) = size
            /\ \A x, y \in indexes :
                 \A p \in Arr!At(r.extents, x) :
                   p < size /\ (x # y => p \notin Arr!At(r.extents, y))

\* What a range says of a value and of another range is true of the integers in
\* them, and the whole truth where values come as close as one likes; adjacent
\* bounds, of which the code knows less, are among the inputs (range.hxx:271-376).
RangesAreSets ==
  Picked("ranges") => \A r \in RangeInputs : RangesAgree(-21..25, It, r)

\* A range goes to text and back as an equal range, in the room it asks for, and
\* no text is read as a range whose bounds are the wrong way round.
RangesReadBack ==
  Picked("ranges") =>
    LET text == Rng!RangeIntoBuf(It)
        other == <<"[">> \o Rng!BoundText(It.upper) \o <<",">> \o Rng!BoundText(It.lower) \o <<"]">>
    IN  /\ \E r \in Rng!RangeFromString(text) : Rng!SameRange(r, It)
        /\ Rng!Fits(text, Rng!RangeSizeBuffer(It))
        /\ \A r \in Rng!RangeFromString(other) : Rng!InOrder(r.lower, r.upper)

\* A null, however deep in a value, is refused before anything follows it, and
\* becomes a null parameter; every other value is written in the room it asks for
\* and no byte more, and read back as itself (conversions.hxx, strconv.hxx).
NullsAreRefused ==
  Picked("values") =>
    IF IsNullValue(It)
    THEN ValueToString(It) = Throws /\ AppendedParam(It) = {}
    ELSE /\ ValueToString(It) = Text(It.text) /\ AppendedParam(It) = {Text(It.text)}
         /\ \A space \in 0..Room(It) :
              /\ IntoBuf(It, space) \in {Throws, Text(It.text)}
              /\ IntoBuf(It, space) = Text(It.text) <=> Len(It.text) < space
         /\ HasFromString(It) => BaseFrom(It, It.text) = {It.text}

\* The longest text of every float type fits the room it asks for, at every
\* exponent down to the smallest that is not normal, and the server's spellings
\* of what is no number are read (conversions.hxx:145, strconv.cxx:523).
FloatsFit ==
  Picked("floats") =>
    /\ \A mantissa \in 1..It.digits, exponent \in {It.min - It.digits, It.min, -1, 0, 9, It.max} :
         LongestFloat(It, mantissa, exponent) + 1 <= FloatRoom(It)
    /\ SpecialFloat(<<"N", "a", "N">>) = {"nan"}
    /\ \A t \in {<<"I", "n", "f", "i", "n", "i", "t", "y">>} :
         SpecialFloat(t) = {"infinity"} /\ SpecialFloat(<<"-">> \o t) = {"-infinity"}

\* The text of a placeholder is its number at every count a counter can reach,
\* over every carry, and fits its buffer (params.hxx:249).
PlaceholdersCount ==
  Picked("placeholders") =>
    LET all == Placeholders(It)
    IN  \A i \in DOMAIN all :
          LET n == Min({i, Top(It)})
          IN  all[i].current = n /\ all[i].text = <<"$">> \o ToText(It, n)
              /\ Len(all[i].text) + 1 <= PlaceholderRoom(It)

\* The rows written to a stream are the rows the server reads, field by field,
\* also when they are passed on from another stream (stream_to.cxx:78, :92, :128).
RowsWrittenAsMeant ==
  Picked("copy") =>
    /\ ServerRows(WriteValues(It) \o WriteValues(Reverse(It))) = <<It, Reverse(It)>>
    /\ ServerRows(Forwarded(ServerLine(It))) = <<It>>

\* A line of the server is read as its fields by both streams, which agree on
\* the values there are for every choice of types (stream_from.cxx:177,
\* stream_query.hxx:114).
RowsReadAsMeant ==
  Picked("copy") =>
    LET text == ReadCopyLine(ServerLine(It))
    IN  /\ ParseLine(text) = {It}
        /\ \A types \in [1..Len(It) -> {"null", "string", "optional"}] :
             /\ Extracted(text, types) = ParseTyped(text, types)
             /\ (\A i \in 1..Len(It) : types[i] = "optional") => ParseTyped(text, types) = {It}
        /\ Extracted(text, <<"optional", "optional", "optional">>) = {}

\* A slice, of a slice too, is a row of its columns: size and as() with a type for
\* each are theirs, and a name is its first column's in the slice, also when the name
\* stands before the slice as well (row.cxx:170, :191).  Left out is to() of a slice,
\* which reads from the first column of the row (row.hxx:566).
SlicesLookLikeRows ==
  Picked("results") /\ It.rows # <<>> =>
    LET w == Res!Row(It, 0)
        any == [null |-> TRUE, texts |-> {"1", "x"}]
    IN  \A b, e, c, d \in 0..Len(It.names) :
          /\ Res!Slice(w, b, e) # {} <=> b <= e
          /\ \A s \in Res!Slice(w, b, e) : \A t \in Res!Slice(s, c, d) :
               LET fields == SubSeq(It.rows[1], b + c + 1, b + d)
                   names == SubSeq(It.names, b + c + 1, b + d)
               IN  /\ b + d <= e /\ Res!RowSize(t) = Len(fields)
                   /\ Res!RowAs(t, [i \in DOMAIN fields |-> any]) = {fields}
                   /\ \A name \in {"a", "b"} :
                        Res!RowFieldNamed(t, name) =
                          {fields[i] : i \in {j \in DOMAIN names : names[j] = name
                                                /\ \A k \in 1..(j - 1) : names[k] # name}}

\* Forwards or backwards an iterator meets each row once, and the arithmetic of
\* the reverse ones is that of their steps (result_iterator.hxx, row.hxx).
IteratorsGoRound ==
  Picked("results") =>
    LET n == Res!Size(It)
        rbegin == Res!Reverse_(n)
    IN  /\ Res!Backward(0, n) = Reverse(Res!Forward(0, n))
        /\ Range(Res!Backward(0, n)) = 0..(n - 1)
        /\ \A i \in 0..n : LET it == Res!ReversePlus(rbegin, i)
                            IN  /\ Res!ReverseDistance(it, rbegin) = i
                                /\ Res!ReverseMinus(it, i) = rbegin
                                /\ i > 0 => Res!ReverseLess(rbegin, it)
                                /\ i < n => it = Res!Backward(0, n)[i + 1]

\* Reading a whole row by as() or to(), and its first field by as(), as() with a
\* default or to(), gives the same values: a null is given only to who can take it;
\* and a query that expects a number of rows gives all of them or none
\* (field.hxx:138, row.hxx:173, transaction_base.hxx:410).
ReadingsAgree ==
  Picked("results") =>
    \A types \in [DOMAIN It.names -> ResultTypes] :
      LET row(i) == Res!RowAs(Res!Row(It, i), types)
      IN  /\ \A i \in 0..(Res!Size(It) - 1) :
               /\ Res!RowTo(Res!Row(It, i), types) = row(i)
               /\ \A f \in {It.rows[i + 1][1]}, type \in {types[1]}, obj \in ResultFields :
                    LET orObj == Res!AsOr(f, type, obj)
                    IN  /\ Res!To(f, type, obj) = {<<~f.null, v>> : v \in orObj}
                        /\ Res!ToOr(f, type, obj) = {<<~f.null, v>> : v \in orObj}
                        /\ Res!As(f, type) \subseteq orObj \cup {Res!Null}
          /\ \A n \in 0..3, rows \in Res!Iterated(It, types) :
               /\ rows.done <=> \A i \in 0..(Res!Size(It) - 1) : row(i) # {}
               /\ \A i \in DOMAIN rows.rows : row(i - 1) = {rows.rows[i]}
               /\ Res!QueryN(It, n, types) = IF n = Res!Size(It) THEN {rows} ELSE {}
          /\ Res!Query01(It, types) =
               IF Res!Size(It) = 0 THEN {<<>>} ELSE {<<t>> : t \in Res!Query1(It, types)}
          /\ Res!QueryValue(It, types[1]) = IF Len(types) > 1 THEN {}
                                            ELSE {t[1] : t \in Res!Query1(It, types)}

\* Values, names, paths and lists are read by the server as what they were, whatever
\* they hold, in the room there is for them (connection.cxx:924, :996, :1014,
\* connection.hxx:1253, separated_list.hxx:44).
QuotedAsMeant ==
  Picked("quoting") =>
    /\ \A i \in DOMAIN It :
         /\ ServerLiteral(QuoteValue(FALSE, It[i])) = {It[i]}
         /\ Len(QuoteValue(FALSE, It[i])) < QuoteBuffer(It[i])
         /\ ServerLiteral(QuoteValue(TRUE, It[i])) = {}
    /\ It # <<>> => /\ UNION {ServerNames(t, ".") : t \in QuoteTable(It)} = {It}
                    /\ UNION {ServerNames(t, ",") : t \in QuoteColumns(It)} = {It}
    /\ \A sep \in {<<>>, <<",">>, <<",", Gap>>} :
         SeparatedList(sep, [i \in DOMAIN It |-> Item(It[i])]) # {}

\* A text that does not hold the escape character matches, as a pattern, itself and
\* nothing else (connection.cxx:1023).
LikeMatchesItself ==
  Picked("quoting") /\ Len(It) = 2 =>
    LET escape == Backslash
    IN  escape \notin Range(It[1]) =>
          (Matches(It[2], EscLike(It[1], escape), escape) <=> It[2] = It[1])

\* Every parameter reaches the server in its place, as what it is: appended one by
\* one, from another list or moved from it (params.cxx:56-121).
ParamsInStep ==
  Picked("params") =>
    LET both == Appended(It.p, It.q)
        c == MakeCParams(both)
    IN  /\ Len(c.values) = Len(both) /\ Len(c.lengths) = Len(both) /\ Len(c.formats) = Len(both)
        /\ \A i \in DOMAIN both :
             Sent(c, i) = IF i <= Len(It.p) THEN It.p[i] ELSE It.q[i - Len(It.p)]
        /\ AppendedMoved(It.p, It.q, FALSE) = <<both, <<>>>>

\* The connection string sets every option to what it is, when the values have no
\* blanks and none is unset against a default (connection.cxx:1149, :1186).
ReconnectsAlike ==
  Picked("options") =>
    LET options == <<It[1], [It[2] EXCEPT !.keyword = "port"]>>
    IN  \A i \in 1..2 : options[i].val # {} =>
          Reconnected(ConnectionString(options), options[i]) = options[i].val

-----------------------------------------------------------------------------
(* What the run checks, part by part. *)

\* Texts in every encoding are cut between characters (encodings.hxx).
TextsAreScanned == ScannersStayInside /\ SearchFindsCharacters

\* Numbers, dates, binary data and nulls go to text, in the room they ask for, and
\* back, and no other text is taken for one of them (strconv.cxx, time.cxx, util.cxx).
ValuesGoThrough ==
  /\ NumbersGoThrough /\ NumbersReadExactly /\ FloatsFit /\ PlaceholdersCount
  /\ BytesGoThrough /\ DatesGoThrough /\ ServerDatesRead /\ NullsAreRefused

\* Arrays and composite values go to text and back, and what is read as an array is
\* one (array.cxx, array.hxx, composite.hxx).
ArraysGoThrough ==
  ArraysReadBack /\ ArraysWrittenAsMeant /\ CompositesReadBack /\ ArraysAreRectangles

\* Ranges agree with the sets of what is in them as far as they can know it, and
\* their text is that of the same range (range.hxx).
RangesGoThrough == RangesAreSets /\ RangesReadBack

\* Rows go through COPY in both directions (stream_to.cxx, stream_from.cxx).
RowsGoThrough == RowsWrittenAsMeant /\ RowsReadAsMeant

\* Slices of rows, iterators and the ways of reading whole rows, their fields and
\* results agree on what is there (result.cxx, row.cxx, field.hxx).
ResultsReadAlike == SlicesLookLikeRows /\ IteratorsGoRound /\ ReadingsAgree

\* What is put into a statement, its parameters or a connection string says there
\* what it was (connection.cxx, params.cxx).
StatementsSayWhatIsMeant ==
  QuotedAsMeant /\ LikeMatchesItself /\ ParamsInStep /\ ReconnectsAlike
=============================================================================
