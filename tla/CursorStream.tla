---------------------------- MODULE CursorStream ----------------------------
(***************************************************************************)
(* pqxx::icursorstream and icursor_iterator (cursor.cxx): a forward-only   *)
(* cursor read block by block, and iterators over it that read nothing     *)
(* until they are looked at.  The stream keeps a list of its iterators, so *)
(* that a block one of them needs is given to all that stand at it before  *)
(* the cursor goes past.                                                   *)
(***************************************************************************)
EXTENDS SqlCursor

CONSTANTS
  Its,       \* iterator objects
  Null,      \* a null pointer to one
  MaxStride, \* strides are 1..MaxStride
  MaxAsk     \* bound: how far beyond the rows iterators go

VARIABLES
  strm,      \* icursorstream: m_stride (0 of none), m_realpos, m_reqpos, m_done
  it,        \* the iterators: live, m_stream # nullptr, m_pos, m_here
  head,      \* m_iterators
  next, prev \* m_next, m_prev of each

streamVars == <<strm, it, head, next, prev>>
allVars == <<vars, streamVars>>

Blank == [live |-> FALSE, on |-> FALSE, pos |-> 0, here |-> <<>>]

StreamTypeOK ==
  /\ TypeOK
  /\ strm \in [stride : 1..MaxStride, realpos : 0..MaxRows, reqpos : 0..MaxAsk, done : BOOLEAN]
  /\ it \in [Its -> [live : BOOLEAN, on : BOOLEAN, pos : 0..MaxAsk, here : Seq(1..MaxRows)]]
  /\ head \in Its \cup {Null}
  /\ next \in [Its -> Its \cup {Null}] /\ prev \in [Its -> Its \cup {Null}]

\* The constructor that declares its own cursor.
StreamInit ==
  /\ \E n \in 0..MaxRows :
       srv = [rows |-> n, at |-> 0, scroll |-> FALSE, open |-> TRUE]
  /\ cur = Declared /\ last = NoCall
  /\ \E s \in 1..MaxStride :
       strm = [stride |-> s, realpos |-> 0, reqpos |-> 0, done |-> FALSE]
  /\ it = [i \in Its |-> Blank]
  /\ head = Null
  /\ next = [i \in Its |-> Null] /\ prev = [i \in Its |-> Null]

Live == {i \in Its : it[i].live}
OnStream == {i \in Live : it[i].on}
-----------------------------------------------------------------------------
(* The list *)

\* Lists(h, n, p): what m_iterators, m_next and m_prev become.
Lists(h, n, p) == head' = h /\ next' = n /\ prev' = p
SameList == UNCHANGED <<head, next, prev>>

\* icursorstream::insert_iterator
Link(i) ==
  Lists(i, [next EXCEPT ![i] = head],
           IF head = Null THEN prev ELSE [prev EXCEPT ![head] = i])

\* icursorstream::remove_iterator
Unlink(i) ==
  LET before == IF i = head THEN Null ELSE prev[i]
      pointed == IF next[i] = Null THEN prev ELSE [prev EXCEPT ![next[i]] = before]
      passed == IF i = head THEN next ELSE [next EXCEPT ![prev[i]] = next[i]]
  IN  Lists(IF i = head THEN next[i] ELSE head,
            [passed EXCEPT ![i] = Null], [pointed EXCEPT ![i] = Null])
-----------------------------------------------------------------------------
(* The stream *)

\* A stream, its cursor and the server, as one value that reading passes on.
Now == [s |-> strm, c |-> cur, srv |-> srv, here |-> [i \in Its |-> it[i].here]]

CountBlock(w, r) == w.s.realpos + Len(r.rows)

\* fetchblock(): the rows read are w.block.
FetchBlock(w) ==
  LET r == Call(w.c, w.srv, w.s.stride)
  IN  [s |-> [w.s EXCEPT !.realpos = CountBlock(w, r), !.done = @ \/ r.rows = <<>>],
       c |-> r.cur, srv |-> r.srv, here |-> w.here, block |-> r.rows]

\* ignore(n)
Ignore(w, n) ==
  LET r == Call(w.c, w.srv, n)
  IN  [w EXCEPT !.s.realpos = @ + Len(r.rows), !.s.done = @ \/ Len(r.rows) < n,
                !.c = r.cur, !.srv = r.srv]

\* (mutant) only the iterator that is looked at is served
AtOnly(w, topos) == {i \in OnStream : it[i].pos = topos}

\* The iterators that stand at a block not read yet, up to topos.
Todo(w, topos) == {i \in OnStream : it[i].pos >= w.s.realpos /\ it[i].pos <= topos}

\* Read the block at pos and give it to the iterators that stand there.
Serve(w, pos, todo) ==
  LET there == IF pos > w.s.realpos THEN Ignore(w, pos - w.s.realpos) ELSE w
      read == FetchBlock(there)
  IN  [s |-> read.s, c |-> read.c, srv |-> read.srv,
       here |-> [i \in Its |-> IF i \in todo /\ it[i].pos = pos THEN read.block
                               ELSE read.here[i]]]

\* service_iterators(topos): their positions in order.  served[n] is what has become
\* of the stream when those below n have been read.
Service(topos) ==
  LET todo == Todo(Now, topos)
      served[n \in 0..(topos + 1)] ==
        IF n = 0 THEN Now
        ELSE IF \E i \in todo : it[i].pos = n - 1 THEN Serve(served[n - 1], n - 1, todo)
        ELSE served[n - 1]
  IN  served[topos + 1]

Becomes(w) ==
  /\ strm' = w.s /\ cur' = w.c /\ srv' = w.srv
  /\ it' = [i \in Its |-> [it[i] EXCEPT !.here = w.here[i]]]
  /\ UNCHANGED last /\ SameList

\* get() and ignore(): not while there are iterators ("Do not read from the
\* underlying stream", cursor.hxx:391).
Read == Live = {} /\ Becomes(FetchBlock(Now))
Skip(n) == Live = {} /\ Becomes(Ignore(Now, n))
-----------------------------------------------------------------------------
(* The iterators *)

\* icursor_iterator(stream): it stands where the next advance starts from.
Make(i) ==
  /\ ~it[i].live
  /\ strm.realpos > strm.reqpos => "late" \in Habits
  /\ it' = [it EXCEPT ![i] = [live |-> TRUE, on |-> TRUE, pos |-> strm.reqpos, here |-> <<>>]]
  /\ Link(i)
  /\ UNCHANGED <<vars, strm>>

\* icursor_iterator(): the end of every stream.
MakeEnd(i) ==
  /\ ~it[i].live
  /\ it' = [it EXCEPT ![i] = [Blank EXCEPT !.live = TRUE]]
  /\ SameList /\ UNCHANGED <<vars, strm>>

Copy(i, j) ==
  /\ ~it[i].live /\ it[j].live
  /\ it' = [it EXCEPT ![i] = it[j]]
  /\ IF it[j].on THEN Link(i) ELSE SameList
  /\ UNCHANGED <<vars, strm>>

\* operator=: i leaves its stream, if that is not the stream of j.
Assign(i, j) ==
  /\ it[i].live /\ it[j].live /\ i # j
  /\ it' = [it EXCEPT ![i] = it[j]]
  /\ CASE it[i].on /\ ~it[j].on -> Unlink(i)
       [] ~it[i].on /\ it[j].on -> Link(i)
       [] OTHER -> SameList
  /\ UNCHANGED <<vars, strm>>

Destroy(i) ==
  /\ it[i].live
  /\ it' = [it EXCEPT ![i] = Blank]
  /\ IF it[i].on THEN Unlink(i) ELSE SameList
  /\ UNCHANGED <<vars, strm>>

\* forward(n): an advance starts from where the last one of any iterator ended.
Forward(n) == strm.reqpos + n * strm.stride

\* operator++ and += n
Advance(i, n) ==
  /\ i \in OnStream /\ Forward(n) <= MaxAsk
  /\ strm' = [strm EXCEPT !.reqpos = Forward(n)]
  /\ it' = [it EXCEPT ![i].pos = Forward(n), ![i].here = <<>>]
  /\ SameList /\ UNCHANGED vars

\* operator*, operator-> and comparison with another stream's iterator:
\* refresh(), which finds nothing to do for a position already passed.
Look(i) ==
  /\ i \in OnStream
  /\ IF it[i].pos < strm.realpos THEN UNCHANGED allVars ELSE Becomes(Service(it[i].pos))

StreamNext ==
  \/ Read
  \/ \E n \in 1..2 : Skip(n)
  \/ \E i \in Its :
       \/ Make(i) \/ MakeEnd(i) \/ Destroy(i) \/ Look(i)
       \/ \E j \in Its : Copy(i, j) \/ Assign(i, j)
       \/ \E n \in 1..2 : Advance(i, n)

StreamSpec == StreamInit /\ [][StreamNext]_allVars
-----------------------------------------------------------------------------
(* Properties *)

\* The block of rows at a position.
Block(pos) ==
  [k \in 1..Greater(Lesser(strm.stride, srv.rows - pos), 0) |-> pos + k]

\* An iterator gives the rows of its own position whenever it is looked at,
\* copied or assigned, however far others have read: what is behind the stream
\* it holds, what is not it can still get (cursor.hxx:371).
IteratorsKeepTheirPlace ==
  \A i \in OnStream :
    it[i].here = IF it[i].pos < strm.realpos THEN Block(it[i].pos) ELSE <<>>

\* The stream knows how many rows it has passed, and is done only at the end.
StreamPlace ==
  /\ strm.realpos = Lesser(srv.at, srv.rows)
  /\ strm.done => srv.at = srv.rows + 1

\* The list holds the iterators of the stream and no other: each but the head
\* has one before it, the pointers agree both ways, and nothing points to an
\* iterator that is gone.
ListSound ==
  /\ (head = Null) = (OnStream = {})
  /\ head # Null => head \in OnStream /\ prev[head] = Null
  /\ \A i \in OnStream :
       /\ next[i] # Null => next[i] \in OnStream /\ prev[next[i]] = i
       /\ prev[i] # Null => prev[i] \in OnStream /\ next[prev[i]] = i
       /\ prev[i] = Null => i = head
  /\ \A i \in Its \ OnStream : next[i] = Null /\ prev[i] = Null

\* Each iterator gets the rows of its own place, whoever made the stream read them
\* and whatever came and went meanwhile.  (A stride is positive: cursor.cxx:100.)
IteratorsServed ==
  strm.stride > 0 => StreamPlace /\ IteratorsKeepTheirPlace /\ ListSound
=============================================================================
