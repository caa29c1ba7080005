----------------------------- MODULE SqlCursor -----------------------------
(***************************************************************************)
(* pqxx::internal::sql_cursor (sql_cursor.cxx) and stateless_cursor        *)
(* (cursor.cxx) over a cursor of the server.  The server tells how many    *)
(* rows a FETCH or MOVE passed, never where the cursor stands: the client  *)
(* works its position out, with the two positions before the first row and *)
(* after the last one.                                                     *)
(***************************************************************************)
EXTENDS Integers, Sequences, SequencesExt

CONSTANTS
  MaxRows,    \* bound: rows of the cursor's query
  Strides,    \* the distances fetched and moved, all() and backward_all() among them
  Habits      \* "beyond": retrieves rows downward from one past the last

ASSUME RowsAssumption == MaxRows \in Nat
ASSUME StridesAssumption == Strides \subseteq Int

VARIABLES
  cur,   \* the client's sql_cursor: at_end, pos and endpos are its members, adopted
         \* says which constructor made it, owned its m_ownership, empty what
         \* init_empty_result() has kept; srv is the cursor at the server
  srv,   \* the cursor at the server: its rows, where it stands, and whether it
         \* scrolls (access_policy) and is open
  last   \* the last call: the displacement it reported and the real one, the rows
         \* it returned and those asked for, and whether it threw

vars == <<cur, srv, last>>

Distance(n) == IF n < 0 THEN -n ELSE n
Direction(n) == IF n < 0 THEN -1 ELSE 1
Lesser(a, b) == IF a < b THEN a ELSE b
Greater(a, b) == IF a > b THEN a ELSE b

Positions == 0..(MaxRows + 1)

TypeOK ==
  /\ cur \in [at_end : {-1, 0, 1}, pos : Positions \cup {-1}, endpos : Positions \cup {-1},
              adopted : BOOLEAN, owned : BOOLEAN]
  /\ srv \in [rows : 0..MaxRows, at : Positions, scroll : BOOLEAN, open : BOOLEAN]
  /\ last \in [reported : Int, real : Int, got : Seq(Int), asked : Seq(Int),
               throws : {"", "internal", "range", "sql"}]

NoCall == [reported |-> 0, real |-> 0, got |-> <<>>, asked |-> <<>>, throws |-> ""]

\* A cursor declared by the constructor stands before its first row; an adopted
\* one anywhere.
Declared == [at_end |-> -1, pos |-> 0, endpos |-> -1, adopted |-> FALSE, owned |-> TRUE]
Adopted(owned) == [at_end |-> 0, pos |-> -1, endpos |-> -1, adopted |-> TRUE, owned |-> owned]

Init ==
  /\ \E n \in 0..MaxRows, scroll \in BOOLEAN :
       \/ /\ srv = [rows |-> n, at |-> 0, scroll |-> scroll, open |-> TRUE]
          /\ cur = Declared
       \/ \E p \in 0..(n + 1), owned \in BOOLEAN :
            /\ srv = [rows |-> n, at |-> p, scroll |-> scroll, open |-> TRUE]
            /\ cur = Adopted(owned)
  /\ last = NoCall
-----------------------------------------------------------------------------
(* The server (external) *)

\* Where FETCH n or MOVE n takes it, and the rows passed: it stops at the first
\* position that is no row.
Arrives(s, n) ==
  IF n > 0 THEN Lesser(s.at + n, s.rows + 1) ELSE Greater(s.at + n, 0)

Count(s, n) ==
  IF n > 0 THEN Greater(Lesser(s.at + n, s.rows) - s.at, 0)
  ELSE Greater(s.at - Greater(s.at + n, 1), 0)

\* The rows in the order they come.
RowsPassed(s, n) ==
  [i \in 1..Count(s, n) |-> s.at + Direction(n) * i]

\* A cursor declared NO SCROLL refuses to go back, and a closed one to move.
Refuses(s, n) == ~s.open \/ (n < 0 /\ ~s.scroll)
-----------------------------------------------------------------------------
\* (mutant) a short move always makes the extra step
StepAlways(c, dir, short, actual) == IF short THEN actual + 1 ELSE actual

\* A move that falls short made an extra step onto the position beyond, unless
\* the one before it went the same way and fell short too.
Step(c, dir, short, actual) ==
  IF short /\ c.at_end # dir THEN actual + 1 ELSE actual

AtEnd(c, dir, short) == IF short THEN dir ELSE 0

\* adjust(): what the members become, the displacement it works out, and
\* whether one of its checks throws (the members are then of no use any more).
Adjust(c, hoped, actual) ==
  LET dir == Direction(hoped)
      short == actual # Distance(hoped)
      step == Step(c, dir, short, actual)
      back == short /\ dir < 0
      pos == IF back /\ c.pos = -1 THEN step ELSE c.pos     \* so that it comes to 0
      moved == IF pos >= 0 THEN pos + dir * step ELSE pos
      ends == short /\ dir > 0
  IN  [cur |-> [c EXCEPT !.at_end = AtEnd(c, dir, short), !.pos = moved,
                         !.endpos = IF ends THEN moved ELSE @],
       displacement |-> dir * step,
       throws |-> \/ actual > Distance(hoped)
                  \/ back /\ pos # step
                  \/ ends /\ c.endpos >= 0 /\ moved # c.endpos]

\* Calls(c, s, n): FETCH or MOVE n, and adjust(); zero rows are never asked for.
Call(c, s, n) ==
  IF n = 0 THEN [cur |-> c, srv |-> s, displacement |-> 0, throws |-> "", rows |-> <<>>]
  ELSE IF Refuses(s, n)
  THEN [cur |-> c, srv |-> s, displacement |-> 0, throws |-> "sql", rows |-> <<>>]
  ELSE LET a == Adjust(c, n, Count(s, n))
       IN  [cur |-> a.cur, srv |-> [s EXCEPT !.at = Arrives(s, n)],
            displacement |-> a.displacement, rows |-> RowsPassed(s, n),
            throws |-> IF a.throws THEN "internal" ELSE ""]
-----------------------------------------------------------------------------
\* sql_cursor::fetch and move.
FetchOrMove(n) ==
  /\ last.throws = ""
  /\ LET r == Call(cur, srv, n)
     IN  /\ cur' = r.cur /\ srv' = r.srv
         /\ last' = [NoCall EXCEPT !.reported = r.displacement, !.real = r.srv.at - srv.at,
                                   !.throws = r.throws]

\* (mutant) the size counts the position past the end
SizeToEnd(c) == c.endpos

\* obtain_stateless_cursor_size, once the end is known.
SizeOf(c) == c.endpos - 1

\* The move that takes it to the position before row b (rows count from 0).
MoveTo(c, b, dir) == (b - dir) - (c.pos - 1)

\* stateless_cursor: the constructor that adopts moves to the start first;
\* retrieve() moves to the end once to know the size, then before row b, and
\* fetches up to e, which is cut down to one past either end.
Size(r) == IF r.cur.endpos = -1 THEN Call(r.cur, r.srv, MaxRows + 1) ELSE r

Retrieve(b, e) ==
  LET start == [cur |-> cur, srv |-> srv, throws |-> "", rows |-> <<>>]
      known == IF cur.pos = -1 THEN Call(cur, srv, -(MaxRows + 1)) ELSE start
      sized == Size(known)
      size == SizeOf(sized.cur)
      end == Greater(Lesser(e, size), -1)
      dir == IF b < end THEN 1 ELSE -1
      there == Call(sized.cur, sized.srv, MoveTo(sized.cur, b, dir))
      fetched == Call(there.cur, there.srv, end - b)
      r == IF b > size \/ b = end THEN sized ELSE fetched
      thrown == {known.throws, sized.throws, there.throws, fetched.throws}
  IN  /\ cur' = r.cur /\ srv' = r.srv
      /\ last' = [NoCall EXCEPT
           !.got = IF b > size \/ b = end THEN <<>> ELSE fetched.rows,
           !.asked = [i \in 1..Distance(end - b) |-> b + dir * (i - 1)],
           !.throws = IF "internal" \in thrown THEN "internal"
                      ELSE IF b > size THEN "range" ELSE ""]

\* Its cursor is declared to scroll: no move of it is refused.
StatelessRetrieve(b, e) ==
  /\ last.throws = "" /\ srv.open /\ srv.scroll
  /\ b = srv.rows /\ e \in 0..(b - 1) => "beyond" \in Habits
  /\ Retrieve(b, e)

\* close(), and the destructor: an owned cursor goes, a loose one stays.
Close ==
  /\ cur.owned
  /\ cur' = [cur EXCEPT !.owned = FALSE]
  /\ srv' = [srv EXCEPT !.open = FALSE]
  /\ last' = NoCall

Next ==
  \/ \E n \in Strides : FetchOrMove(n)
  \/ \E b \in 0..(MaxRows + 1), e \in -2..(MaxRows + 1) : StatelessRetrieve(b, e)
  \/ Close

Spec == Init /\ [][Next]_vars
-----------------------------------------------------------------------------
(* Properties *)

\* The position the client has worked out is where the cursor stands, and the
\* end it has seen is the end: "Position may be unknown if (and only if) this
\* cursor was adopted, and has never hit its starting position"
\* (sql_cursor.hxx:60).
PositionKnown ==
  last.throws # "internal" =>
    /\ cur.pos # -1 => cur.pos = srv.at
    /\ cur.pos = -1 => cur.adopted
    /\ cur.endpos # -1 => cur.endpos = srv.rows + 1

\* None of the checks of adjust() ever fails, whatever the moves.
NeverConfused == last.throws # "internal"

\* The displacement reported is the real one, unless it is a move of an adopted
\* cursor that may have stood at the end it was moved to.
DisplacementRight ==
  last.throws = "" /\ ~cur.adopted => last.reported = last.real

\* Whatever the moves, the client knows where the cursor stands, as far as that can
\* be known, and says so (sql_cursor.cxx:165).
CursorKnowsItsPlace == PositionKnown /\ NeverConfused /\ DisplacementRight

\* retrieve(b, e) returns the rows from b up to, not including, e, in order:
\* "rows are numbered starting from 0", "only existing rows are included in the
\* result" (cursor.hxx).  At most the first of those asked for does not exist: the
\* one past the last, from which it may go back.
RetrievesAsked ==
  last.throws = "" =>
    \E skip \in {0, 1} :
      /\ \A i \in DOMAIN last.asked :
           last.asked[i] + 1 \in 1..srv.rows <=> i - skip \in DOMAIN last.got
      /\ \A i \in DOMAIN last.got :
           /\ i + skip \in DOMAIN last.asked
           /\ last.got[i] = last.asked[i + skip] + 1

\* What makes PositionKnown inductive: m_at_end is where the cursor stands, as
\* far as its last move could tell.
AtEndRight ==
  last.throws # "internal" =>
    /\ cur.at_end = -1 => srv.at = 0
    /\ cur.at_end = 1 => srv.at = srv.rows + 1
    /\ cur.at_end = 0 /\ ~cur.adopted => srv.at \in 1..srv.rows
=============================================================================
