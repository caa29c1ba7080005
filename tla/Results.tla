------------------------------ MODULE Results ------------------------------
(* The result of a query as the library hands it out: rows, slices of rows,   *)
(* fields, the iterators over them, and the calls that expect a number of     *)
(* rows.  Rows and columns are counted from 0.  A call that may throw gives   *)
(* {} for the exception, else {what it returns}.                              *)
EXTENDS Integers, Sequences, SequencesExt

\* A result: the names of its columns and its rows, sequences of fields.
Null == [null |-> TRUE, text |-> ""]
Field(t) == [null |-> FALSE, text |-> t]

Size(r) == Len(r.rows)
Columns(r) == Len(r.names)
GetValue(r, row, col) == r.rows[row + 1][col + 1]

\* A row refers to a result and sees the columns from its begin up to its end.
Row(r, i) == [result |-> r, index |-> i, begin |-> 0, end |-> Columns(r)]
RowSize(w) == w.end - w.begin

\* result::at().
RowAt(r, i) == IF i >= Size(r) THEN {} ELSE {Row(r, i)}
FieldAt(r, i, c) ==
  IF i >= Size(r) \/ c >= Columns(r) THEN {} ELSE {GetValue(r, i, c)}

\* row::operator[], row::at().
RowField(w, i) == GetValue(w.result, w.index, w.begin + i)
RowFieldAt(w, i) == IF i >= RowSize(w) THEN {} ELSE {RowField(w, i)}

\* (mutant) the bounds are those of the whole row
SliceOfRow(w, sbegin, send) ==
  IF sbegin > send \/ send > RowSize(w) THEN {}
  ELSE {[w EXCEPT !.begin = sbegin, !.end = send]}

\* row::slice(): the bounds count from the slice's own begin.
Slice(w, sbegin, send) ==
  IF sbegin > send \/ send > RowSize(w) THEN {}
  ELSE {[w EXCEPT !.begin = w.begin + sbegin, !.end = w.begin + send]}

\* External (PQfnumber): the first column of a name.
FirstNamed(r, name) ==
  LET at == {c \in 0..(Columns(r) - 1) : r.names[c + 1] = name}
  IN  IF at = {} THEN {} ELSE {CHOOSE c \in at : \A d \in at : c <= d}

\* row::column_number(): a name may stand before the slice and inside it.
ColumnNumber(w, name) ==
  UNION {IF n >= w.end THEN {}
         ELSE IF n >= w.begin THEN {n - w.begin}
         ELSE LET inside == {i \in w.begin..(w.end - 1) :
                               w.result.names[i + 1] = w.result.names[n + 1]}
              IN  IF inside = {} THEN {}
                  ELSE {(CHOOSE i \in inside : \A j \in inside : i <= j) - w.begin} :
           n \in FirstNamed(w.result, name)}

RowFieldNamed(w, name) == {RowField(w, c) : c \in ColumnNumber(w, name)}

\* field and row and result ==: nulls are equal to each other and to nothing else.
SameField(f, g) == IF f.null \/ g.null THEN f.null = g.null ELSE f.text = g.text
SameRow(v, w) ==
  RowSize(v) = RowSize(w) /\ \A i \in 0..(RowSize(v) - 1) : SameField(RowField(v, i), RowField(w, i))
SameResult(r, s) == Size(r) = Size(s) /\ \A i \in 0..(Size(r) - 1) : SameRow(Row(r, i), Row(s, i))
-----------------------------------------------------------------------------
(* Reading fields.  A type is [null, texts]: whether it has a null value and  *)
(* the texts it can be read from.                                             *)

FromString(type, text) == IF text \in type.texts THEN {Field(text)} ELSE {}

\* field::as(), as(default), to(obj) and to(obj, default); the latter two give
\* what they return and what the object holds then.
As(f, type) ==
  IF f.null THEN IF type.null THEN {Null} ELSE {} ELSE FromString(type, f.text)
AsOr(f, type, default) == IF f.null THEN {default} ELSE FromString(type, f.text)
To(f, type, obj) ==
  IF f.null THEN {<<FALSE, obj>>} ELSE {<<TRUE, v>> : v \in FromString(type, f.text)}
ToOr(f, type, default) ==
  IF f.null THEN {<<FALSE, default>>} ELSE {<<TRUE, v>> : v \in FromString(type, f.text)}

\* All of a sequence of values, or {} when one of them cannot be had.
AllOf(values) ==
  IF \E i \in DOMAIN values : values[i] = {} THEN {}
  ELSE {[i \in DOMAIN values |-> CHOOSE v \in values[i] : TRUE]}

\* row::as<...>() goes through operator[]; row::to(tuple) reads the columns of
\* the result, and does not know of the begin of a slice.
RowAs(w, types) ==
  IF RowSize(w) # Len(types) THEN {}
  ELSE AllOf([i \in DOMAIN types |-> As(RowField(w, i - 1), types[i])])
Convert(w, types) == AllOf([i \in DOMAIN types |-> As(GetValue(w.result, w.index, i - 1), types[i])])
RowTo(w, types) == IF RowSize(w) # Len(types) THEN {} ELSE Convert(w, types)

\* result_iter, which begins at the end when there is nothing to read; the rows it
\* gives before the first that cannot be converted, and whether it got to the end.
Iterated(r, types) ==
  IF Columns(r) # Len(types) THEN {}
  ELSE LET good[i \in 0..Size(r)] ==
             IF i = Size(r) THEN [rows |-> <<>>, done |-> TRUE]
             ELSE IF Convert(Row(r, i), types) = {} THEN [rows |-> <<>>, done |-> FALSE]
             ELSE [good[i + 1] EXCEPT !.rows = <<CHOOSE t \in Convert(Row(r, i), types) : TRUE>> \o @]
       IN  {good[0]}
-----------------------------------------------------------------------------
(* Iterators over rows and fields are positions; a reverse one keeps the      *)
(* position of what it refers to, one before its base().                      *)

Reverse_(base) == base - 1
BaseOf(rev) == rev + 1
ReversePlus(rev, i) == Reverse_(BaseOf(rev) - i)
ReverseMinus(rev, i) == Reverse_(BaseOf(rev) + i)
ReverseDistance(a, b) == b - a
ReverseLess(a, b) == a > b

\* The positions from one to another, by ++.
Forward(begin, end) == [i \in 1..(end - begin) |-> begin + i - 1]
Backward(begin, end) ==
  LET rbegin == Reverse_(end)
      rend == Reverse_(begin)
  IN  [i \in 1..ReverseDistance(rend, rbegin) |-> rbegin - (i - 1)]
-----------------------------------------------------------------------------
(* Calls that expect a number of rows (exec_n, exec_params_n, exec_prepared_n *)
(* and what is made of them).                                                 *)

ExecN(r, rows) == IF Size(r) # rows THEN {} ELSE {r}

Exec1(r) == {Row(s, 0) : s \in ExecN(r, 1)}
Query1(r, types) == UNION {RowAs(w, types) : w \in Exec1(r)}
QueryN(r, rows, types) == UNION {Iterated(s, types) : s \in ExecN(r, rows)}
QueryValue(r, type) ==
  UNION {IF RowSize(w) # 1 THEN {} ELSE As(RowField(w, 0), type) : w \in Exec1(r)}

\* query01(): {<<>>} for no row.
Query01(r, types) ==
  IF Size(r) = 0 THEN {<<>>}
  ELSE IF Size(r) = 1 THEN {<<t>> : t \in RowAs(Row(r, 0), types)}
  ELSE {}
=============================================================================
