-------------------------------- MODULE Blob --------------------------------
(***************************************************************************)
(* pqxx::blob (blob.cxx): large objects.  A blob holds a descriptor of the *)
(* session, which opened it in the transaction that is going on; blobs     *)
(* move, but are not copied.  The static functions read, write and create  *)
(* whole objects by way of a blob of their own.                            *)
(***************************************************************************)
EXTENDS Integers, Sequences, FiniteSets, SequencesExt

CONSTANTS
  Blobs,        \* the program's blob objects
  Ids,          \* object ids, positive; the server gives one of them for id 0
  MaxFd,        \* bound: descriptors open at a time
  MaxLen,       \* bound: bytes of an object
  ChunkLimit,   \* chunk_limit: bytes of one read or write (2 GB in the code)
  BlobHabits    \* "anonymous": from_buf with the id 0, and with too much data

ASSUME BlobAssumption ==
  Ids \subseteq Nat \ {0} /\ MaxFd \in Nat /\ MaxLen \in Nat /\ ChunkLimit \in Nat

VARIABLE blob   \* the server's block, objects, their bytes and its descriptors;
                \* m_conn # nullptr and m_fd of each blob; meant, the object each was
                \* opened on (0: none)

Detached == [conn |-> FALSE, fd |-> -1]
Free == [of |-> 0, pos |-> 0, writes |-> FALSE]
Bytes == {0, 1}                    \* 0 is what fills a gap
Texts(n) == BoundedSeq({1}, n)

BlobTypeOK ==
  blob \in [tx : {"block", "failed", "over"},
            objs : SUBSET Ids,
            bytes : [Ids -> BoundedSeq(Bytes, MaxLen)],
            fds : [0..MaxFd -> {Free} \cup [of : Ids, pos : 0..MaxLen, writes : BOOLEAN]],
            held : [Blobs -> {Detached} \cup [conn : {TRUE}, fd : 0..MaxFd]],
            meant : [Blobs -> Ids \cup {0}]]

\* One object, in a transaction that has begun.
Holding(id) ==
  [tx |-> "block", objs |-> {id}, bytes |-> [i \in Ids |-> <<>>],
   fds |-> [fd \in 0..MaxFd |-> Free],
   held |-> [b \in Blobs |-> Detached], meant |-> [b \in Blobs |-> 0]]

BlobInit == \E id \in Ids : blob = Holding(id)
-----------------------------------------------------------------------------
(* The server (external).  s is the state, and ok whether the call succeeded *)
(* in it: a call that fails, or is made in a failed block, fails the block.  *)

Ok(s, v) == [ok |-> TRUE, s |-> s, v |-> v]
FailsBlock(s) == [ok |-> FALSE, s |-> [s EXCEPT !.tx = "failed"], v |-> -1]

FreeFds(s) == {fd \in 0..MaxFd : s.fds[fd] = Free}
OneOf(S) == CHOOSE x \in S : TRUE         \* as the server likes

LoCreate(s, id) ==
  LET new == IF id = 0 THEN Ids \ s.objs ELSE {id} \ s.objs
  IN  IF s.tx = "block" /\ new # {}
      THEN Ok([s EXCEPT !.objs = @ \cup {OneOf(new)}, !.bytes[OneOf(new)] = <<>>],
              OneOf(new))
      ELSE FailsBlock(s)

LoUnlink(s, id) ==
  IF s.tx = "block" /\ id \in s.objs
  THEN Ok([s EXCEPT !.objs = @ \ {id}, !.bytes[id] = <<>>], id) ELSE FailsBlock(s)

LoOpen(s, id, writes) ==
  IF s.tx = "block" /\ id \in s.objs
  THEN Ok([s EXCEPT !.fds[OneOf(FreeFds(s))] = [of |-> id, pos |-> 0, writes |-> writes]],
          OneOf(FreeFds(s)))
  ELSE FailsBlock(s)

LoClose(s, fd) ==
  IF s.tx = "block" /\ s.fds[fd] # Free THEN Ok([s EXCEPT !.fds[fd] = Free], 0) ELSE FailsBlock(s)

Usable(s, fd) == s.tx = "block" /\ s.fds[fd].of \in s.objs
Content(s, fd) == s.bytes[s.fds[fd].of]

LoRead(s, fd, n) ==
  IF ~ Usable(s, fd) THEN FailsBlock(s)
  ELSE LET d == s.fds[fd]
           end == IF d.pos + n < Len(Content(s, fd)) THEN d.pos + n ELSE Len(Content(s, fd))
           got == SubSeq(Content(s, fd), d.pos + 1, end)
       IN  Ok([s EXCEPT !.fds[fd].pos = @ + Len(got)], got)

\* A write past the end leaves a gap.
LoWrite(s, fd, data) ==
  IF ~ (Usable(s, fd) /\ s.fds[fd].writes) THEN FailsBlock(s)
  ELSE LET d == s.fds[fd]
           old == Content(s, fd)
           end == d.pos + Len(data)
           size == IF end > Len(old) THEN end ELSE Len(old)
           new == [i \in 1..size |-> IF i \in d.pos + 1..end THEN data[i - d.pos]
                                     ELSE IF i \in DOMAIN old THEN old[i] ELSE 0]
       IN  Ok([s EXCEPT !.bytes[d.of] = IF data = <<>> THEN old ELSE new,
                        !.fds[fd].pos = end], Len(data))

LoTruncate(s, fd, size) ==
  IF ~ (Usable(s, fd) /\ s.fds[fd].writes /\ size >= 0) THEN FailsBlock(s)
  ELSE Ok([s EXCEPT !.bytes[s.fds[fd].of] =
             [i \in 1..size |-> IF i \in DOMAIN @ THEN @[i] ELSE 0]], 0)

Origin(s, fd, whence) ==
  CASE whence = "set" -> 0 [] whence = "cur" -> s.fds[fd].pos
    [] whence = "end" -> Len(Content(s, fd))
LoSeek(s, fd, offset, whence) ==
  IF Usable(s, fd) /\ Origin(s, fd, whence) + offset >= 0
  THEN Ok([s EXCEPT !.fds[fd].pos = Origin(s, fd, whence) + offset],
          Origin(s, fd, whence) + offset)
  ELSE FailsBlock(s)
-----------------------------------------------------------------------------
(* The blobs.  A call that throws is one that is not ok. *)

Throws(s) == [ok |-> FALSE, s |-> s, v |-> -1]    \* before the server is asked
Ignored(r) == r.s

\* blob::close, ~blob: what lo_close says is ignored.
ClosedHalf(s, b) ==       \* (mutant) m_conn is not reset
  IF s.held[b].fd = -1 THEN s
  ELSE [Ignored(LoClose(s, s.held[b].fd)) EXCEPT !.held[b].fd = -1, !.meant[b] = 0]
ClosedBlob(s, b) ==
  IF s.held[b].fd = -1 THEN s
  ELSE [Ignored(LoClose(s, s.held[b].fd)) EXCEPT !.held[b] = Detached, !.meant[b] = 0]

\* The move constructor and operator=: the other one is left closed.
TakenOver(s, b, h, id) == [s EXCEPT !.held[b] = h, !.meant[b] = id]
AssignedOver(s, b, h, id) == TakenOver(s, b, h, id)       \* (mutant) without closing
Assigned(s, b, h, id) == TakenOver(ClosedBlob(s, b), b, h, id)

Opened(s, b, id, writes) ==
  LET r == LoOpen(s, id, writes)
  IN  IF r.ok THEN Ok(Assigned(r.s, b, [conn |-> TRUE, fd |-> r.v], id), r.v) ELSE r

RawRead(s, h, n) ==
  IF ~ h.conn \/ n > ChunkLimit THEN Throws(s) ELSE LoRead(s, h.fd, n)
RawWrite(s, h, data) ==
  IF ~ h.conn \/ Len(data) > ChunkLimit THEN Throws(s) ELSE LoWrite(s, h.fd, data)
Resized(s, h, size) == IF ~ h.conn THEN Throws(s) ELSE LoTruncate(s, h.fd, size)
Sought(s, h, offset, whence) ==
  IF ~ h.conn THEN Throws(s) ELSE LoSeek(s, h.fd, offset, whence)

Removed(s, id) == IF id = 0 THEN Throws(s) ELSE LoUnlink(s, id)

\* A blob that lives in one expression: it is closed, whatever became of it.
Using(s, id, writes, Use(_, _)) ==
  LET o == LoOpen(s, id, writes)
      r == Use(o.s, [conn |-> TRUE, fd |-> o.v])
  IN  IF ~ o.ok THEN o
      ELSE [r EXCEPT !.s = Ignored(LoClose(r.s, o.v))]

CleanedUp(s, id) == Ignored(Removed(s, id))

FromBuf(s, id, data) ==
  LET c == LoCreate(s, id)
      r == Using(c.s, c.v, TRUE, LAMBDA t, h : RawWrite(t, h, data))
  IN  IF ~ c.ok THEN c
      ELSE IF r.ok THEN Ok(r.s, c.v) ELSE Throws(CleanedUp(r.s, id))

AppendFromBuf(s, id, data) ==
  IF Len(data) > ChunkLimit THEN Throws(s)
  ELSE Using(s, id, TRUE,
         LAMBDA t, h : LET k == Sought(t, h, 0, "end")
                       IN  IF k.ok THEN RawWrite(k.s, h, data) ELSE k)

\* The buffer grows by what was read, and stays as it was if the call throws.
Grown(buf, read, room) == buf \o read
AppendToBuf(s, id, offset, buf, room) ==
  LET r == Using(s, id, FALSE,
             LAMBDA t, h : LET k == Sought(t, h, offset, "set")
                           IN  IF k.ok THEN LoRead(k.s, h.fd, room) ELSE k)
  IN  IF room > ChunkLimit THEN [Throws(s) EXCEPT !.v = buf]
      ELSE [r EXCEPT !.v = IF r.ok THEN Grown(buf, r.v, room) ELSE buf]
-----------------------------------------------------------------------------
Fds(s) == {s.held[b].fd : b \in Blobs} \ {-1}
Fits(s) ==
  /\ \A id \in Ids : Len(s.bytes[id]) <= MaxLen
  /\ \A fd \in 0..MaxFd : s.fds[fd].pos <= MaxLen

OpenBlob(b, id, writes) ==
  /\ FreeFds(blob) # {} /\ blob.tx = "block"
  /\ blob' = Opened(blob, b, id, writes).s

Take(b, c) ==
  /\ b # c
  /\ blob' = [Assigned(blob, b, blob.held[c], blob.meant[c])
                EXCEPT !.held[c] = Detached, !.meant[c] = 0]

CloseBlob(b) == blob' = ClosedBlob(blob, b)

Access(b) ==
  \E s \in {RawRead(blob, blob.held[b], n).s : n \in 0..ChunkLimit + 1}
       \cup {RawWrite(blob, blob.held[b], data).s : data \in Texts(ChunkLimit + 1)}
       \cup {Resized(blob, blob.held[b], n).s : n \in -1..MaxLen}
       \cup {Sought(blob, blob.held[b], n, "set").s : n \in -1..MaxLen}
       \cup {Sought(blob, blob.held[b], n, "cur").s : n \in -1..1}
       \cup {Sought(blob, blob.held[b], n, "end").s : n \in -1..1} :
    Fits(s) /\ blob' = s

Whole(id) ==
  /\ FreeFds(blob) # {}
  /\ \E s \in {FromBuf(blob, id, data).s : data \in Texts(ChunkLimit)}
         \cup {AppendFromBuf(blob, id, data).s : data \in Texts(ChunkLimit + 1)}
         \cup {LoCreate(blob, id).s, Removed(blob, id).s} :
       Fits(s) /\ blob' = s

\* The transaction ends, and with it the descriptors: the blobs are closed first.
End ==
  /\ blob.tx # "over" /\ \A b \in Blobs : ~ blob.held[b].conn
  /\ blob' = [blob EXCEPT !.tx = "over", !.fds = [fd \in 0..MaxFd |-> Free]]

BlobNext ==
  /\ blob.tx # "over"
  /\ \/ \E b \in Blobs :
          \/ \E id \in Ids, writes \in BOOLEAN : OpenBlob(b, id, writes)
          \/ \E c \in Blobs : Take(b, c)
          \/ CloseBlob(b) \/ Access(b)
     \/ \E id \in Ids : Whole(id)
     \/ End

BlobSpec == BlobInit /\ [][BlobNext]_blob
-----------------------------------------------------------------------------
(* Properties *)

\* Every open descriptor is held by exactly one blob, which opened it on the
\* object it is about: moves and assignments lose none, and share none
\* (blob.cxx:96).
DescriptorsOwned ==
  blob.tx = "block" =>
    /\ Fds(blob) = (0..MaxFd) \ FreeFds(blob)
    /\ \A b, c \in Blobs : blob.held[b].conn /\ blob.held[b].fd = blob.held[c].fd => b = c
    /\ \A b \in Blobs : blob.held[b].conn => blob.fds[blob.held[b].fd].of = blob.meant[b]

\* from_buf creates an object that holds the data, or throws and leaves none,
\* also where the server has no failed block to roll back (blob.cxx:240).
FromBufLeavesNothing ==
  FreeFds(blob) # {} /\ blob.tx = "block" =>
    \A data \in Texts(ChunkLimit + 1) :
      \A id \in Ids \cup (IF "anonymous" \in BlobHabits THEN {0} ELSE {}) :
        LET r == FromBuf(blob, id, data)
        IN  IF r.ok THEN r.s.objs = blob.objs \cup {r.v} /\ r.s.bytes[r.v] = data
            ELSE r.s.tx = "block" => r.s = blob

\* append_from_buf adds the data at the end, whatever is open on the object.
AppendsAtTheEnd ==
  FreeFds(blob) # {} =>
    \A id \in Ids, data \in Texts(ChunkLimit) :
      LET r == AppendFromBuf(blob, id, data)
      IN  r.ok => r.s = [blob EXCEPT !.bytes[id] = @ \o data]

\* append_to_buf adds to the caller's buffer what the object has from the offset
\* on, and no more; a call that throws leaves the buffer alone (blob.cxx:289).
AppendsWhatIsRead ==
  FreeFds(blob) # {} =>
    \A id \in Ids, offset \in -1..MaxLen + 1, room \in 0..ChunkLimit + 1 :
      LET r == AppendToBuf(blob, id, offset, <<1>>, room)
          rest == [i \in 1..Len(blob.bytes[id]) - offset |-> blob.bytes[id][offset + i]]
      IN  IF r.ok THEN r.v = <<1>> \o (IF Len(rest) > room THEN SubSeq(rest, 1, room) ELSE rest)
          ELSE r.v = <<1>>

\* Descriptors are neither shared nor lost, and whole objects are written and read
\* as whole objects.
BlobsSound ==
  DescriptorsOwned /\ FromBufLeavesNothing /\ AppendsAtTheEnd /\ AppendsWhatIsRead
=============================================================================
