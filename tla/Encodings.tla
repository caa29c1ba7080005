------------------------------ MODULE Encodings ------------------------------
(***************************************************************************)
(* Text in the encodings PostgreSQL knows (encodings.cxx, encodings.hxx):  *)
(* the scanners that find where a character ends, and the search for an    *)
(* ASCII character that must not find a byte inside another character.     *)
(* A text is a sequence of bytes.                                          *)
(***************************************************************************)
EXTENDS Naturals, SequencesExt

Groups == {"MONOBYTE", "BIG5", "EUC_CN", "EUC_JP", "EUC_KR", "EUC_TW", "GB18030",
           "GBK", "JOHAB", "MULE_INTERNAL", "SJIS", "UHC", "UTF8"}

\* pqxx::argument_error of throw_for_encoding_error
BadText == 0

\* enc_group(name): the group of an encoding by its name.
SingleByte ==
  {"ISO_8859_5", "ISO_8859_6", "ISO_8859_7", "ISO_8859_8", "KOI8R", "KOI8U", "LATIN1",
   "LATIN2", "LATIN3", "LATIN4", "LATIN5", "LATIN6", "LATIN7", "LATIN8", "LATIN9", "LATIN10",
   "SQL_ASCII", "WIN866", "WIN874", "WIN1250", "WIN1251", "WIN1252", "WIN1253", "WIN1254",
   "WIN1255", "WIN1256", "WIN1257", "WIN1258"}
MultiByte == (Groups \ {"MONOBYTE"}) \cup {"EUC_JIS_2004", "SHIFT_JIS_2004"}
GroupOf ==
  [n \in SingleByte \cup MultiByte |->
     CASE n \in SingleByte -> "MONOBYTE"
       [] n = "EUC_JIS_2004" -> "EUC_JP"
       [] n = "SHIFT_JIS_2004" -> "SJIS"
       [] OTHER -> n]
-----------------------------------------------------------------------------
(* The scanners.  A shape is what each byte of a multibyte character may    *)
(* be, as the scanner tests it; a byte it does not test is AnyByte.             *)

To(lo, hi) == lo..hi
AnyByte == 0..255
High == To(\hA1, \hFE)
But7F(lo, hi) == (lo..hi) \ {\h7F}

Big5 == {<<To(\h81, \hFE), To(\h40, \h7E) \cup High>>}
EucCn == {<<To(\hA1, \hF7), High>>}
EucJp == {<<{\h8E} \cup High, High>>, <<{\h8F}, High, High>>}
EucKr == {<<High, High>>}
EucTw == {<<High, High>>, <<{\h8E}, To(\hA1, \hB0), High, High>>}
Gb18030 == {<<To(\h81, \hFF), But7F(\h40, \hFE)>>,
            <<To(\h81, \hFF), To(\h30, \h39), To(\h81, \hFE), To(\h30, \h39)>>}
Gbk == {<<To(\hA1, \hA9), High>>, <<To(\hB0, \hF7), High>>,
        <<To(\h81, \hA0), But7F(\h40, \hFE)>>, <<To(\hAA, \hFE), But7F(\h40, \hA0)>>,
        <<To(\hA8, \hA9), But7F(\h40, \hA0)>>, <<To(\hAA, \hAF), High>>,
        <<To(\hF8, \hFE), High>>, <<To(\hA1, \hA7), But7F(\h40, \hA0)>>}
\* What it takes for the second byte is the first once more.
Johab == {<<To(\h84, \hD3), AnyByte>>, <<To(\hD8, \hDE) \cup To(\hE0, \hF9), AnyByte>>}
\* Of three bytes it tests the second twice; of four it tests the one after
\* the last, which is the terminator at the end of the text.
Mule == {<<To(\h81, \h8D), To(\hA0, \hFF)>>,
         <<{\h9A}, To(\hA0, \hDF), AnyByte>>, <<{\h9B}, To(\hE0, \hEF), AnyByte>>,
         <<To(\h90, \h99), To(\hA0, \hFF), AnyByte>>}
MuleFour == {<<{\h9C}, To(\hF0, \hF4), To(\hA0, \hFF), AnyByte, To(\hA0, \hFF)>>,
             <<{\h9D}, To(\hF5, \hFE), To(\hA0, \hFF), AnyByte, To(\hA0, \hFF)>>}
Sjis == {<<To(\h81, \h9F) \cup To(\hE0, \hFC), But7F(\h40, \hFC)>>}
Uhc == {<<To(\h80, \hC6), To(\h41, \h5A) \cup To(\h61, \h7A) \cup To(\h80, \hFE)>>,
        <<To(\hC7, \hFE), High>>}
Utf8 == LET more == To(\h80, \hBF)
        IN  {<<To(\hC0, \hDF), more>>, <<To(\hE0, \hEF), more, more>>,
             <<To(\hF0, \hF7), more, more, more>>}

Shapes ==
  [BIG5 |-> Big5, EUC_CN |-> EucCn, EUC_JP |-> EucJp, EUC_KR |-> EucKr,
   EUC_TW |-> EucTw, GB18030 |-> Gb18030, GBK |-> Gbk, JOHAB |-> Johab,
   MULE_INTERNAL |-> Mule, SJIS |-> Sjis, UHC |-> Uhc, UTF8 |-> Utf8,
   MONOBYTE |-> {<<To(\h80, \hFF)>>}]

\* The scanners that return after one byte without a test of the others.
OneByte(group, byte) == byte < \h80 \/ (group = "SJIS" /\ byte \in To(\hA1, \hDF))

Fits(text, here, shape) ==
  /\ here + Len(shape) - 1 <= Len(text)
  /\ \A k \in DOMAIN shape : text[here + k - 1] \in shape[k]

\* glyph_scanner<group>::call: where the character at here ends; positions
\* count from 1.
Scan(group, text, here) ==
  IF OneByte(group, text[here]) THEN here + 1
  ELSE IF group = "MULE_INTERNAL"
          /\ \E s \in MuleFour : here + 3 <= Len(text) /\ Fits(Append(text, 0), here, s)
       THEN here + 4
  ELSE LET s == {x \in Shapes[group] : Fits(text, here, x)}
       IN  IF s = {} THEN BadText ELSE here + Len(CHOOSE x \in s : TRUE)

\* for_glyphs: where the characters of a text begin, or BadText at the end of
\* the list if the scanner throws.
Glyphs(group, text) ==
  LET from[here \in 0..(Len(text) + 1)] ==
        IF here = BadText THEN <<BadText>> ELSE IF here > Len(text) THEN <<>>
        ELSE <<here>> \o from[Scan(group, text, here)]
  IN  from[1]
IsText(group, text) == BadText \notin ToSet(Glyphs(group, text))
-----------------------------------------------------------------------------
(* The search *)

AsciiSafe == {"MONOBYTE", "EUC_CN", "EUC_JP", "EUC_KR", "EUC_TW", "MULE_INTERNAL", "UTF8"}

\* (mutant) one of the unsafe encodings taken for a safe one
SearchGroupTooSafe(group) == IF group \in AsciiSafe \cup {"SJIS"} THEN "MONOBYTE" ELSE group

\* map_ascii_search_group
SearchGroup(group) == IF group \in AsciiSafe THEN "MONOBYTE" ELSE group

\* find_ascii_char<group, needles>: the first of the needles from start on, the
\* end of the text if there is none, BadText if the scanner throws first.
FindFrom(group, text, needles, start) ==
  LET from[here \in 0..(Len(text) + 1)] ==
        IF here = BadText \/ here > Len(text) \/ text[here] \in needles THEN here
        ELSE from[Scan(group, text, here)]
  IN  from[start]

\* get_char_finder(group)
Find(group, text, needles, start) == FindFrom(SearchGroup(group), text, needles, start)
-----------------------------------------------------------------------------
(* What they promise *)

\* A scanner ends inside the text or behind its last byte, or throws.
StaysInside(group, text) ==
  \A i \in DOMAIN text : Scan(group, text, i) \in {BadText} \cup (i + 1)..(Len(text) + 1)

\* Where a character ends is told by its own bytes: whatever is cut off behind it, it
\* ends in the same place, and cut off itself it is refused, not taken for a shorter
\* one (encodings.hxx, every "start + 2 > buffer_len").
EndsItself(group, text) ==
  \A i \in DOMAIN text :
    LET end == Scan(group, text, i)
    IN  end # BadText =>
          \A k \in i..Len(text) :
            Scan(group, SubSeq(text, 1, k), i) = IF end <= k + 1 THEN end ELSE BadText

\* In a text of its encoding the search finds the first character that is one
\* of the needles and never a byte in the middle of another character, also
\* where it goes byte by byte (encodings.hxx: "we can just pretend that we're
\* dealing with a single-byte encoding").
FindsCharacters(group, text, needles) ==
  IsText(group, text) =>
    LET hits == {i \in ToSet(Glyphs(group, text)) :
                   text[i] \in needles /\ Scan(group, text, i) = i + 1}
    IN  Find(group, text, needles, 1) =
          IF hits = {} THEN Len(text) + 1 ELSE CHOOSE i \in hits : \A j \in hits : i <= j
=============================================================================
