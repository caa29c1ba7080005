------------------------------ MODULE CopyText ------------------------------
(* The lines of PostgreSQL's COPY: what stream_to makes of the fields of a    *)
(* row, and what stream_from and stream_query make of a line.  A text is a    *)
(* sequence of characters; the control characters are their C escapes' names. *)
EXTENDS Naturals, Sequences, SequencesExt

Escape == "\\"
Tab == "TAB"
NewLine == "LF"

\* escape_char(), and unescape_char(), which leaves other characters alone.
EscapeChar ==
  [c \in {"BS", "FF", NewLine, "CR", Tab, "VT", Escape} |->
     CASE c = "BS" -> "b" [] c = "FF" -> "f" [] c = NewLine -> "n" [] c = "CR" -> "r"
       [] c = Tab -> "t" [] c = "VT" -> "v" [] OTHER -> Escape]
UnescapeChar(c) ==
  LET meant == {s \in DOMAIN EscapeChar : EscapeChar[s] = c}
  IN  IF meant = {} THEN c ELSE CHOOSE s \in meant : TRUE

\* A field of a row.
Null == [null |-> TRUE, text |-> <<>>]
Field(t) == [null |-> FALSE, text |-> t]
-----------------------------------------------------------------------------
(* Writing: every field is followed by a tab, the last one of which goes. *)

\* (mutant) a backslash stays as it is
EscapedControls(text) ==
  FlattenSeq([i \in DOMAIN text |->
                IF text[i] \in DOMAIN EscapeChar \ {Escape} THEN <<Escape, EscapeChar[text[i]]>>
                ELSE <<text[i]>>])

Escaped(text) ==
  FlattenSeq([i \in DOMAIN text |->
                IF text[i] \in DOMAIN EscapeChar THEN <<Escape, EscapeChar[text[i]]>>
                ELSE <<text[i]>>])

AppendToBuffer(buffer, f) ==
  IF f.null THEN buffer \o <<Escape, "N", Tab>> ELSE buffer \o Escaped(f.text) \o <<Tab>>

FillBuffer(fields) ==
  LET upTo[i \in 0..Len(fields)] ==
        IF i = 0 THEN <<>> ELSE AppendToBuffer(upTo[i - 1], fields[i])
  IN  upTo[Len(fields)]

\* write_copy_line() adds the end of the line, read_copy_line() takes it off.
WriteCopyLine(text) == Append(text, NewLine)
ReadCopyLine(line) == Front(line)

WriteBuffer(buffer) ==
  WriteCopyLine(IF buffer = <<>> THEN <<>> ELSE Front(buffer))

WriteValues(fields) == WriteBuffer(FillBuffer(fields))

\* stream_to << stream_from: a raw line is passed on.
Forwarded(line) == WriteCopyLine(ReadCopyLine(line))
-----------------------------------------------------------------------------
(* stream_from::parse_line(): {the fields}, or {} for a line it refuses. *)

AtStart == [fields |-> <<>>, field |-> Field(<<>>), escape |-> FALSE, failed |-> FALSE]

\* One character of the line.  What follows a null in its field goes nowhere.
Absorb(s, c) ==
  IF s.failed THEN s
  ELSE IF s.escape
  THEN IF c = "N"
       THEN [s EXCEPT !.escape = FALSE, !.failed = s.field # Field(<<>>), !.field = Null]
       ELSE [s EXCEPT !.escape = FALSE, !.field.text = Append(@, UnescapeChar(c))]
  ELSE IF c = Tab THEN [s EXCEPT !.fields = Append(@, s.field), !.field = Field(<<>>)]
  ELSE IF c = Escape THEN [s EXCEPT !.escape = TRUE]
  ELSE [s EXCEPT !.field.text = Append(@, c)]

ParseLine(line) ==
  LET upTo[i \in 0..Len(line)] ==
        IF i = 0 THEN AtStart ELSE Absorb(upTo[i - 1], line[i])
      s == upTo[Len(line)]
  IN  IF s.failed \/ s.escape THEN {} ELSE {Append(s.fields, s.field)}

\* A field as a value of a type that holds nulls only, too, or not at all.
Converted(f, type) ==
  IF f.null THEN IF type = "string" THEN {} ELSE {Null}
  ELSE IF type = "null" THEN {} ELSE {f}

\* Values of every field, or {} when one of them cannot be had.
AllOf(values) ==
  IF \E i \in DOMAIN values : values[i] = {} THEN {}
  ELSE {[i \in DOMAIN values |-> CHOOSE v \in values[i] : TRUE]}

\* stream_from >> tuple.
Extracted(line, types) ==
  UNION {IF Len(fields) # Len(types) THEN {}
         ELSE AllOf([i \in DOMAIN types |-> Converted(fields[i], types[i])]) :
           fields \in ParseLine(line)}
-----------------------------------------------------------------------------
(* stream_query: the line ends in a tab of its own, the fields are read one   *)
(* by one as the types ask.                                                   *)

\* A null's field is the marker alone, at the offset.
NullAt(line, offset) ==
  offset < Len(line) /\ line[offset] = Escape /\ line[offset + 1] = "N"

\* read_field(): the field at an offset and the offset of the next one.
ReadField(line, offset) ==
  LET scan[o \in 1..(Len(line) + 1)] ==
        IF o > Len(line) \/ line[o] = Tab THEN [next |-> o + 1, text |-> <<>>]
        ELSE LET escaped == line[o] = Escape
                 rest == scan[IF escaped THEN o + 2 ELSE o + 1]
                 char == IF escaped THEN UnescapeChar(line[o + 1]) ELSE line[o]
             IN  [rest EXCEPT !.text = <<char>> \o @]
  IN  IF NullAt(line, offset) THEN [next |-> offset + 3, field |-> Null]
      ELSE [next |-> scan[offset].next, field |-> Field(scan[offset].text)]

\* parse_line(): {} when a value cannot be had; the fields must end with the line.
ParseTyped(text, types) ==
  LET line == Append(text, Tab)
      read[i \in 0..Len(types)] ==
        IF i = 0 THEN [next |-> 1, fields |-> <<>>]
        ELSE LET r == ReadField(line, read[i - 1].next)
             IN  [next |-> r.next, fields |-> Append(read[i - 1].fields, r.field)]
      all == read[Len(types)]
  IN  IF all.next # Len(line) + 1 THEN {}
      ELSE AllOf([i \in DOMAIN types |-> Converted(all.fields[i], types[i])])
-----------------------------------------------------------------------------
(* External: the line the server writes for a row, and the row it reads. *)

ServerLine(fields) ==
  LET text(f) == IF f.null THEN <<Escape, "N">> ELSE Escaped(f.text)
  IN  FlattenSeq([i \in DOMAIN fields |->
                    text(fields[i]) \o (IF i < Len(fields) THEN <<Tab>> ELSE <<NewLine>>)])

\* A field is null when its raw text is the null marker.
Unescape(s, c) ==
  IF s.escape THEN [text |-> Append(s.text, UnescapeChar(c)), escape |-> FALSE]
  ELSE IF c = Escape THEN [s EXCEPT !.escape = TRUE]
  ELSE [s EXCEPT !.text = Append(@, c)]

ServerField(raw) ==
  LET upTo[i \in 0..Len(raw)] ==
        IF i = 0 THEN [text |-> <<>>, escape |-> FALSE] ELSE Unescape(upTo[i - 1], raw[i])
  IN  IF raw = <<Escape, "N">> THEN Null ELSE Field(upTo[Len(raw)].text)

\* The rows the server reads: a bare end of line ends a row, a bare tab a field.
Cut(s, c) ==
  IF c = NewLine THEN [rows |-> Append(s.rows, Append(s.row, ServerField(s.raw))),
                       row |-> <<>>, raw |-> <<>>]
  ELSE IF c = Tab THEN [s EXCEPT !.row = Append(@, ServerField(s.raw)), !.raw = <<>>]
  ELSE [s EXCEPT !.raw = Append(@, c)]

ServerRows(stream) ==
  LET upTo[i \in 0..Len(stream)] ==
        IF i = 0 THEN [rows |-> <<>>, row |-> <<>>, raw |-> <<>>]
        ELSE Cut(upTo[i - 1], stream[i])
  IN  upTo[Len(stream)].rows
=============================================================================
