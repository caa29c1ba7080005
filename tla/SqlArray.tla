------------------------------- MODULE SqlArray -------------------------------
(***************************************************************************)
(* pqxx::array (array.hxx): a text parsed into elements and extents, with  *)
(* row-major indexing, and parse_composite (composite.hxx).                *)
(***************************************************************************)
EXTENDS ArrayText, Integers

Outer == -1  \* the fictional dimension around the array: size_t(0) - 1

\* check_dims: as many braces at either end as there are dimensions.
DimsFit(t, D) ==
  /\ Len(t) >= 2 * D
  /\ \A i \in 1..D : t[i] = "{" /\ t[Len(t) + 1 - i] = "}"
  /\ t[D + 1] # "{"

\* parse_field_end: where parsing goes on after a field or a row that ends before p.
FieldEnd(t, p) ==
  IF p > Len(t) \/ t[p] = "}" THEN {p}
  ELSE IF t[p] = "," /\ p < Len(t) /\ t[p + 1] \notin {",", "}"} THEN {p + 1}
  ELSE {}

\* The parser: where it is, the dimension it is in, the extents counted so far
\* (indexed from 0), those of finished rows, from which dimension on they are known.
Start(D) == [here |-> 1, dim |-> Outer, counted |-> [d \in 0..(D - 1) |-> 0],
             extents |-> [d \in 0..(D - 1) |-> 0], known |-> D, elts |-> <<>>]

OpenRow(D, s) ==
  IF (s.dim = Outer /\ s.known # D) \/ s.dim = D - 1 THEN {}
  ELSE LET c == IF s.dim = Outer THEN s.counted ELSE [s.counted EXCEPT ![s.dim] = @ + 1]
       IN  {[s EXCEPT !.here = @ + 1, !.dim = @ + 1, !.counted = [c EXCEPT ![s.dim + 1] = 0]]}

\* (mutant) rows of any length are taken
CloseAnyRow(t, s) ==
  IF s.dim = Outer THEN {}
  ELSE LET first == s.dim < s.known
       IN  {[s EXCEPT !.here = h, !.dim = @ - 1,
                      !.extents = IF first THEN [@ EXCEPT ![s.dim] = s.counted[s.dim]] ELSE @,
                      !.known = IF first THEN s.dim ELSE @] : h \in FieldEnd(t, s.here + 1)}

\* A row ends: the first of its dimension gives the extent, the others must agree.
CloseRow(t, s) ==
  LET first == s.dim < s.known
  IN  IF s.dim = Outer \/ (~first /\ s.counted[s.dim] # s.extents[s.dim]) THEN {}
      ELSE {[s EXCEPT !.here = h, !.dim = @ - 1,
                      !.extents = IF first THEN [@ EXCEPT ![s.dim] = s.counted[s.dim]] ELSE @,
                      !.known = IF first THEN s.dim ELSE @] : h \in FieldEnd(t, s.here + 1)}

\* An element and the position after it; nulls: the element type has a null.
ElementAt(t, p, nulls) ==
  LET end == EndOfWord(t, p, {",", "}"})
      word == SubSeq(t, p, end - 1)
  IN  CASE t[p] = "," -> {}
        [] t[p] = Quote -> {<<Element(Unquoted(t, p, e)), e>> : e \in EndOfQuoted(t, p)}
        [] OTHER -> IF word = NullText
                    THEN IF nulls THEN {<<Null, end>>} ELSE {}
                    ELSE {<<Element(word), end>>}

TakeElement(t, D, s, nulls) ==
  IF s.dim # D - 1 THEN {}
  ELSE UNION {{[s EXCEPT !.counted[s.dim] = @ + 1, !.elts = Append(@, e[1]), !.here = h] :
                 h \in FieldEnd(t, e[2])} : e \in ElementAt(t, s.here, nulls)}

\* parse: {} when it throws, else {[extents, elts]}.
ParseArray(t, D, nulls) ==
  LET Step(states, i) ==
        UNION {IF s.here # i THEN {s}
               ELSE IF t[i] = "{" THEN OpenRow(D, s)
               ELSE IF t[i] = "}" THEN CloseRow(t, s)
               ELSE TakeElement(t, D, s, nulls) : s \in states}
      ends == FoldLeftDomain(Step, {Start(D)}, t)
  IN  IF DimsFit(t, D)
      THEN {[extents |-> s.extents, elts |-> s.elts] : s \in {e \in ends : e.dim = Outer}}
      ELSE {}

Times(a, b) == a * b

\* init_factors: how many elements a step along dimension d passes.
Factor(extents, d) ==
  FoldFunctionOnSet(Times, 1, extents, {e \in DOMAIN extents : e > d})

\* at(): check_bounds, then locate.
At(extents, index) ==
  IF \E d \in DOMAIN extents : index[d] >= extents[d] THEN {}
  ELSE {FoldFunction(+, 0, [d \in DOMAIN extents |-> index[d] * Factor(extents, d)])}
-----------------------------------------------------------------------------
(* Composite values.                                                          *)

\* parse_composite_field: the field at p and the position after its comma or,
\* for the last field, the closing parenthesis.
FieldAt(t, p, last, nulls) ==
  LET end == EndOfWord(t, p, {",", ")", "]"})
      Read ==
        CASE p > Len(t) \/ t[p] = Wide -> {}
          [] t[p] \in {",", ")", "]"} -> IF nulls THEN {<<Null, p>>} ELSE {}
          [] t[p] = Quote -> {<<Element(Unquoted(t, p, e)), e>> : e \in EndOfQuoted(t, p)}
          [] OTHER -> {<<Element(SubSeq(t, p, end - 1)), end>>}
  IN  {<<r[1], r[2] + 1>> : r \in
         {r \in Read : /\ r[2] <= Len(t)
                       /\ IF last THEN t[r[2]] \in {")", "]"} /\ r[2] = Len(t)
                                  ELSE t[r[2]] = ","}}

\* parse_composite into n fields.
ParseComposite(t, n, nulls) ==
  LET Step(reads, i) ==
        UNION {{<<Append(r[1], f[1]), f[2]>> : f \in FieldAt(t, r[2], i = n, nulls)} : r \in reads}
  IN  IF t = <<>> \/ t[1] # "(" THEN {}
      ELSE {r[1] : r \in {r \in FoldLeft(Step, {<<<<>>, 2>>}, [i \in 1..n |-> i]) :
                            r[2] = Len(t) + 1 /\ t[r[2] - 1] = ")"}}
-----------------------------------------------------------------------------
(* The server (external).                                                     *)

Special == {Quote, Backslash, "{", "}", "(", ")", ",", " "}
NeedsQuotes(t) == t = <<>> \/ t = NullText \/ \E i \in DOMAIN t : t[i] \in Special

ServerElement(e) ==
  IF IsNull(e) THEN NullText ELSE IF NeedsQuotes(e.text) THEN Quoted(e.text) ELSE e.text

\* array_out: an array without elements has no dimensions.
ServerArray(elts) == Braces(Each(elts, ServerElement))
ServerTable(rows) == Braces(Each(rows, ServerArray))

\* record_out doubles what is special and writes nothing for null.
ServerField(e) ==
  IF IsNull(e) THEN <<>>
  ELSE IF NeedsQuotes(e.text)
  THEN <<Quote>> \o FlattenSeq(Each(e.text, LAMBDA c : IF c \in {Quote, Backslash}
                                                       THEN <<c, c>> ELSE <<c>>)) \o <<Quote>>
  ELSE e.text
ServerRecord(fields) == <<"(">> \o Joined(Each(fields, ServerField), <<",">>) \o <<")">>
=============================================================================
