--------------------------- MODULE Subtransaction ---------------------------
(***************************************************************************)
(* pqxx::subtransaction (subtransaction.cxx): savepoints as transaction    *)
(* objects, nested in a work and in each other.  The code that uses them   *)
(* is strict RAII: an exception of a statement leaves the scope of the     *)
(* object it was executed on, and may be caught in that of its parent.     *)
(***************************************************************************)
EXTENDS Integers, Sequences, FiniteSets, SequencesExt

CONSTANTS
  MaxSubs,       \* subtransactions, constructed at most once each; 0 is the work
  MaxWrites,     \* bound: writes of each
  SubHabits      \* "swallow": catches an exception within the scope of the
                 \* subtransaction it was thrown from, and goes on with it

ASSUME SubAssumption == MaxSubs \in Nat /\ MaxWrites \in Nat

VARIABLE sub     \* life, status, parent, writes and throws of each object; the server's
                 \* block: its state and its frames, one per savepoint; durable writes

Objects == 0..MaxSubs
SubStatuses == {"active", "aborted", "committed"}

SubTypeOK ==
  sub \in [life : [Objects -> {"unborn", "live", "dead"}],
           status : [Objects -> SubStatuses],
           parent : [Objects -> Objects],
           wrote : [Objects -> 0..MaxWrites],   \* its writes are <<k, 1>> ... <<k, wrote[k]>>
           told : [Objects -> BOOLEAN],          \* a call on it has thrown
           st : {"block", "failed", "idle"},
           frames : Seq([of : Objects, writes : SUBSET (Objects \X (1..MaxWrites))]),
           durable : SUBSET (Objects \X (1..MaxWrites))]

\* A work has begun.
Begun ==
  [life |-> [k \in Objects |-> IF k = 0 THEN "live" ELSE "unborn"],
   status |-> [k \in Objects |-> "active"],
   parent |-> [k \in Objects |-> 0],
   wrote |-> [k \in Objects |-> 0],
   told |-> [k \in Objects |-> FALSE],
   st |-> "block", frames |-> <<[of |-> 0, writes |-> {}]>>, durable |-> {}]

SubInit == sub = Begun

Alive == {k \in Objects : sub.life[k] = "live"}
Active == {k \in Alive : sub.status[k] = "active"}
Children(k) == {c \in Alive \ {0} : sub.parent[c] = k}

\* The object in whose scope the program is: it is destroyed before what it is
\* nested in.
Innermost(k) == k \in Alive /\ Children(k) = {}

\* The program works with k, and not with what k is nested in meanwhile: the
\* library does not see to that, as the object does not register as the focus.
InUse(k) ==
  /\ Innermost(k)
  /\ sub.told[k] => k # 0 /\ "swallow" \in SubHabits
-----------------------------------------------------------------------------
(* The server (external): a statement in a failed block fails. *)

Error(s) == [s EXCEPT !.st = IF @ = "block" THEN "failed" ELSE @]

FrameOf(s, k) == SelectLastInSeq(s.frames, LAMBDA f : f.of = k)

Savepoint(s, k) == [s EXCEPT !.frames = Append(@, [of |-> k, writes |-> {}])]

\* The savepoint stays, with what came after it forgotten; so does a failure.
RollbackTo(s, k) ==
  LET n == FrameOf(s, k)
  IN  [s EXCEPT !.st = "block",
                !.frames = Append(SubSeq(@, 1, n - 1), [of |-> k, writes |-> {}])]

\* What came after the savepoint joins what was before it.
Released(fs, n) ==
  [SubSeq(fs, 1, n - 1) EXCEPT ![n - 1].writes = @ \cup UNION {fs[i].writes : i \in n..Len(fs)}]
Release(s, k) == [s EXCEPT !.frames = Released(@, FrameOf(s, k))]

Write(s, x) == [s EXCEPT !.frames[Len(s.frames)].writes = @ \cup {x}]

EndBlock(s, d) == [s EXCEPT !.st = "idle", !.frames = <<>>, !.durable = d]
CommitBlock(s) ==
  EndBlock(s, IF s.st = "block" THEN UNION {s.frames[i].writes : i \in DOMAIN s.frames}
              ELSE {})

\* A command about savepoint k can be carried out.
Knows(s, k) == s.st # "idle" /\ FrameOf(s, k) > 0
-----------------------------------------------------------------------------
(* The constructor, and exec() *)

Tell(s, k) == [s EXCEPT !.told[k] = TRUE]
SetStatus(s, k, x) == [s EXCEPT !.status[k] = x]

\* SAVEPOINT.  When it throws there is no object, and the exception is the
\* parent's.
Construct(k, p) ==
  /\ k # 0 /\ sub.life[k] = "unborn" /\ InUse(p) /\ p \in Active
  /\ sub' = IF sub.st = "block"
            THEN Savepoint([sub EXCEPT !.life[k] = "live", !.parent[k] = p], k)
            ELSE Tell(Error([sub EXCEPT !.life[k] = "dead"]), p)

\* A statement that writes; it may fail.
Exec(k) ==
  /\ InUse(k) /\ k \in Active /\ sub.wrote[k] < MaxWrites
  /\ \/ sub.st = "block" /\ sub' = Write([sub EXCEPT !.wrote[k] = @ + 1], <<k, sub.wrote[k] + 1>>)
     \/ sub' = Tell(Error(sub), k)
-----------------------------------------------------------------------------
(* commit(), abort() and the destructor *)

\* do_commit has thrown.
CommitThrew(s, k) == Tell(SetStatus(s, k, "aborted"), k)

\* do_commit: COMMIT of the work, RELEASE SAVEPOINT of a subtransaction.
Commit(k) ==
  /\ InUse(k) /\ k \in Active
  /\ IF k = 0 THEN sub' = CommitBlock(SetStatus(sub, k, "committed"))
     ELSE sub' = IF sub.st = "block" /\ Knows(sub, k)
                 THEN Release(SetStatus(sub, k, "committed"), k)
                 ELSE Error(CommitThrew(sub, k))

\* m_rollback_cmd: ROLLBACK TO SAVEPOINT, or ROLLBACK; an error is swallowed.
RollbackCmd(s, k) ==
  IF k = 0 THEN EndBlock(s, s.durable)
  ELSE IF Knows(s, k) THEN RollbackTo(s, k) ELSE Error(s)

\* (mutant) nothing is rolled back
StatusOnly(s, k) == SetStatus(s, k, "aborted")

DoAbort(s, k) == RollbackCmd(SetStatus(s, k, "aborted"), k)

Abort(k) == InUse(k) /\ k \in Active /\ sub' = DoAbort(sub, k)

\* close(): only what is active is aborted.
DestroyObject(k) ==
  /\ Innermost(k)
  /\ sub' = LET dead == [sub EXCEPT !.life[k] = "dead"]
            IN  IF k \in Active THEN DoAbort(dead, k) ELSE dead

SubNext ==
  \E k \in Objects :
    \/ Exec(k) \/ Commit(k) \/ Abort(k) \/ DestroyObject(k)
    \/ \E p \in Objects : Construct(k, p)

SubSpec == SubInit /\ [][SubNext]_sub
-----------------------------------------------------------------------------
(* Properties *)

\* k and what it is nested in, directly or not.
Above(k) ==
  {a \in Objects : \A S \in SUBSET Objects :
     k \in S /\ (\A j \in S : sub.parent[j] \in S) => a \in S}

Writes(k) == {k} \X (1..sub.wrote[k])

\* What the work makes durable is what was written on it and on subtransactions
\* all of whose parents committed too, and nothing of one that was aborted.
ExactlyKept ==
  sub.durable =
    IF sub.status[0] = "committed"
    THEN UNION {Writes(k) : k \in {j \in Objects : \A a \in Above(j) :
                                     sub.status[a] = "committed"}}
    ELSE {}

\* "S may have gone into a failed state and been destroyed, but the upper-level
\* transaction W is still fine" (subtransaction.hxx:53).
ParentFine ==
  \A k \in Active : ~sub.told[k] /\ Children(k) = {} => sub.st = "block"

\* The savepoints of the block are those of the open subtransactions, in the
\* order they are nested, among ones that are rolled back and forgotten: none is
\* ever released or rolled back that is not there.
SavepointsNested ==
  \A k \in Active : Knows(sub, k) /\ (k # 0 => FrameOf(sub, sub.parent[k]) < FrameOf(sub, k))

\* However subtransactions are nested, fail and end, their work is kept or undone as
\* a whole, and their parents go on.
SubtransactionsKept == ExactlyKept /\ ParentFine /\ SavepointsNested
=============================================================================
