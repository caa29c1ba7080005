------------------------------ MODULE PhoneList ------------------------------
(***************************************************************************)
(* The phones of one client on their way through text: AddClient writes    *)
(* them into a PostgreSQL array literal, AddPhone and DeletePhone pass     *)
(* them as plain text, FindClients cuts the array's text form at the       *)
(* commas, ShowFoundClients prints what it got.  A text is a sequence of   *)
(* characters: any symbol stands for itself and needs no quoting; space,   *)
(* comma, apostrophe, brace and quote are those that something treats in   *)
(* another way.  Left out: braces, quotes, backslashes and white space     *)
(* other than a blank inside a phone, and the letter N, so that no part of *)
(* a phone reads NULL.                                                     *)
(***************************************************************************)
EXTENDS Naturals, SequencesExt

CONSTANTS
  Texts,      \* the phone numbers callers use
  MaxPhones   \* bound: phones of a client

Space == " "
Comma == ","
Quote == "q"        \* the character "
Open == "{"
Close == "}"
SingleQuote == "'"
Unmodelled == {Open, Close, Quote, "\\", "\t", "\n", "N", "n"}

ASSUME TextsAssumption ==
  \A t \in Texts : t \in Seq(ToSet(t)) /\ ToSet(t) \cap Unmodelled = {}
ASSUME BoundAssumption == MaxPhones \in Nat

VARIABLES
  present,    \* the client has a row
  meant,      \* history: the phones its callers have given it
  clean,      \* history: every text they used for it was a clean number
  stored,     \* the array in column phones
  found,      \* Client::phones in the last result of FindClients
  shown       \* what ShowFoundClients printed for it

vars == <<present, meant, clean, stored, found, shown>>
-----------------------------------------------------------------------------
(* Text *)

JoinWith(sep, texts) ==
  FlattenSeq([i \in DOMAIN texts |-> (IF i = 1 THEN <<>> ELSE sep) \o texts[i]])

Erased(text, chars) ==
  FlattenSeq([i \in DOMAIN text |-> IF text[i] \in chars THEN <<>> ELSE <<text[i]>>])

\* The pieces of a text once one more character has been read.
Read(pieces, ch) ==
  IF ch = Comma THEN Append(pieces, <<>>)
  ELSE [pieces EXCEPT ![Len(pieces)] = Append(@, ch)]

Pieces(text) ==
  LET upTo[n \in 0..Len(text)] == IF n = 0 THEN <<<<>>>> ELSE Read(upTo[n - 1], text[n])
  IN  upTo[Len(text)]

\* (mutant) the piece the stream ends in is lost
SplitLosingLast(text) == Front(Pieces(text))

\* std::getline(ss, phone, ',') until the stream ends.
SplitAtCommas(text) == IF Last(Pieces(text)) = <<>> THEN Front(Pieces(text)) ELSE Pieces(text)

Trim(text) ==
  LET solid == {i \in DOMAIN text : text[i] # Space}
  IN  IF solid = {} THEN <<>>
      ELSE SubSeq(text, CHOOSE i \in solid : \A j \in solid : i <= j,
                        CHOOSE i \in solid : \A j \in solid : j <= i)

\* (mutant) the separator left out
LiteralRunTogether(phones) == JoinWith(<<>>, phones)

\* AddClient's array literal, without its braces: no phone is quoted.
Literal(phones) == JoinWith(<<Comma>>, phones)

\* The server's array_in: elements between commas, without the spaces around
\* them; an empty one is a syntax error, except as the whole of "{}".
ArrayIn(body) ==
  IF Trim(body) = <<>> THEN <<>> ELSE [i \in DOMAIN Pieces(body) |-> Trim(Pieces(body)[i])]
Malformed(body) == \E i \in DOMAIN ArrayIn(body) : ArrayIn(body)[i] = <<>>

\* The server's array_out: an element that is empty or has a space or a comma
\* is quoted.
ElementOut(p) ==
  IF p = <<>> \/ Contains(p, Space) \/ Contains(p, Comma) THEN <<Quote>> \o p \o <<Quote>>
  ELSE p
ArrayOut(phones) ==
  <<Open>> \o JoinWith(<<Comma>>, [i \in DOMAIN phones |-> ElementOut(phones[i])]) \o <<Close>>

\* (mutant) the braces cut off before splitting
FoundWithoutBraces(array) ==
  LET text == ArrayOut(array) IN SplitAtCommas(SubSeq(text, 2, Len(text) - 1))

\* FindClients: column phones as text, cut at every comma.
FoundPhones(array) == SplitAtCommas(ArrayOut(array))

\* ShowFoundClients: a phone equal to the last one is taken for the last one and
\* gets no separator; then braces, quotes and apostrophes are erased from it all.
Show(phones) ==
  LET printed == [i \in DOMAIN phones |->
                    phones[i] \o (IF phones[i] = Last(phones) THEN <<>> ELSE <<Comma, Space>>)]
  IN  Erased(FlattenSeq(printed), {Open, Close, Quote, SingleQuote})
-----------------------------------------------------------------------------
Init ==
  /\ present = FALSE /\ clean = TRUE
  /\ meant = <<>> /\ stored = <<>> /\ found = <<>> /\ shown = <<>>

\* A number a person would write: not empty, no comma, no space around it.
Clean(p) == p # <<>> /\ ~Contains(p, Comma) /\ Trim(p) = p

Forget == found' = <<>> /\ shown' = <<>>

\* A malformed literal is an SQL error: no client is added.
AddClient(phones) ==
  /\ ~present /\ Forget
  /\ IF Malformed(Literal(phones)) THEN UNCHANGED <<present, meant, clean, stored>>
     ELSE /\ present' = TRUE /\ meant' = phones /\ stored' = ArrayIn(Literal(phones))
          /\ clean' = \A i \in DOMAIN phones : Clean(phones[i])

AddPhone(p) ==
  /\ present /\ Len(meant) < MaxPhones /\ Forget
  /\ meant' = Append(meant, p) /\ stored' = Append(stored, p)
  /\ clean' = (clean /\ Clean(p))
  /\ UNCHANGED present

DeletePhone(p) ==
  /\ present /\ Forget
  /\ meant' = Erased(meant, {p})
  /\ stored' = Erased(stored, {p})
  /\ clean' = (clean /\ Clean(p))
  /\ UNCHANGED present

DeleteClient ==
  /\ present /\ Forget
  /\ present' = FALSE /\ meant' = <<>> /\ clean' = TRUE /\ stored' = <<>>

FindAndShow ==
  /\ present
  /\ found' = FoundPhones(stored) /\ shown' = Show(found')
  /\ UNCHANGED <<present, meant, clean, stored>>

Next ==
  \/ \E phones \in BoundedSeq(Texts, MaxPhones) : AddClient(phones)
  \/ \E p \in Texts : AddPhone(p) \/ DeletePhone(p)
  \/ DeleteClient \/ FindAndShow

Spec == Init /\ [][Next]_vars
-----------------------------------------------------------------------------
(* Properties *)

\* Clean numbers reach the table as they were given, whether AddClient's literal
\* or AddPhone carried them, so DeletePhone finds them (Client_Manager.cpp:35, :83).
StoredAsMeant == clean => stored = meant

\* Clean numbers are printed as they were given but for their apostrophes, each one,
\* in order and apart, also when one is there twice or is the same as the last
\* (Client_Manager.cpp:231).  For a client without phones nothing is printed: the one
\* phone that FindClients returns for it consists of the braces of the empty array
\* (Client_Manager.cpp:148), though a client need not have a phone (readme.md:45).
ShownAsMeant ==
  clean /\ found # <<>> =>
    /\ shown = Erased(JoinWith(<<Comma, Space>>, meant), {SingleQuote})
    /\ meant = <<>> => found = <<<<Open, Close>>>>

\* Whatever the callers write, what is printed holds every character of every
\* phone in the table in its order, but for spaces, commas and apostrophes, however
\* FindClients cuts the text (Client_Manager.cpp:147, :237).
Solid(text) == Erased(text, {Space, Comma, SingleQuote})
NothingLost == found # <<>> => Solid(shown) = Solid(JoinWith(<<>>, stored))
=============================================================================
