---------------------------- MODULE ObjectProofs ----------------------------
(***************************************************************************)
(* What lives inside a transaction: subtransactions, nested like the scopes*)
(* of their objects, and blobs, which hold descriptors of the session that *)
(* are good until the transaction ends.                                    *)
(***************************************************************************)
EXTENDS Subtransaction, Blob, TLAPS, SequenceTheorems

-----------------------------------------------------------------------------
(***************************************************************************)
(* Subtransactions keep their promises, however many there are and however *)
(* they are nested: SubtransactionsKept, for programs that leave the scope *)
(* of an object with the exception that was thrown from it.                *)
(*                                                                         *)
(* The invariant needs two things that the objects do not hold: where the  *)
(* savepoint of each is in the block (pos), and which object's end decides *)
(* on what it wrote (own), -1 if it is decided that nothing of it is kept. *)
(* An object that commits leaves its writes, and those that were left to   *)
(* it, to its parent.                                                      *)
(***************************************************************************)
Unborn(k) == sub.life[k] = "unborn"

\* Objects are nested like the scopes they live in.
Scopes ==
  /\ sub.parent[0] = 0 /\ ~ Unborn(0)
  /\ \A k \in Objects : Unborn(k) =>
       sub.status[k] = "active" /\ sub.wrote[k] = 0 /\ sub.parent[k] = 0
  /\ \A k \in Objects : sub.life[k] = "dead" => sub.status[k] # "active"
  /\ \A k \in Objects : ~ Unborn(sub.parent[k])
  /\ \A k \in Alive \ {0} : sub.parent[k] \in Active /\ sub.parent[k] # k
  /\ \A j, k \in Objects : Innermost(j) /\ Innermost(k) => j = k

\* Whatever an object is nested in is nested in the work.
Rooted ==
  \A S \in SUBSET Objects : S # {} /\ (\A j \in S : sub.parent[j] \in S) => 0 \in S

\* The block has failed exactly if an exception is on its way out.
Block ==
  /\ \A k \in Alive : sub.told[k] => k \in Active /\ Children(k) = {} /\ sub.st = "failed"
  /\ \A k \in Objects : Unborn(k) => ~ sub.told[k]
  /\ sub.st = "failed" => \E k \in Active : sub.told[k]
  /\ sub.st = "idle" => Active = {} /\ sub.frames = <<>>
  /\ sub.status[0] # "active" => sub.st = "idle"

\* The savepoints of the active objects are in the block, in the order they are
\* nested; that of the innermost is above all others.
Places(pos) ==
  /\ pos \in [Objects -> Nat]
  /\ 0 \in Active => pos[0] = 1
  /\ \A k \in Active : pos[k] \in DOMAIN sub.frames /\ sub.frames[pos[k]].of = k
  /\ \A i, j \in DOMAIN sub.frames : sub.frames[i].of = sub.frames[j].of => i = j
  /\ \A i \in DOMAIN sub.frames : ~ Unborn(sub.frames[i].of)
  /\ \A k \in Active \ {0} :
       /\ pos[sub.parent[k]] < pos[k]
       /\ \A b \in Active : pos[b] <= pos[sub.parent[k]] \/ pos[k] <= pos[b]
  /\ \A k \in Objects : Innermost(k) =>
       \A b \in Active \ {k} : k # 0 /\ pos[b] <= pos[sub.parent[k]]

\* Who decides on the writes of whom.
Owners(own) ==
  /\ own \in [Objects -> Objects \cup {-1}]
  /\ \A k \in Active : own[k] = k
  /\ \A k \in Objects : Unborn(k) \/ sub.status[k] = "aborted" => own[k] = -1
  /\ \A k \in Objects \ {0} : sub.status[k] = "committed" => own[k] = own[sub.parent[k]]
  /\ \A k \in Objects : own[k] # -1 =>
       own[k] \in Active \/ (own[k] = 0 /\ sub.status[0] = "committed")
  /\ sub.status[0] = "committed" => own[0] = 0

\* A write is between the savepoint of its owner and the next one of an active object.
Between(own, pos) ==
  \A i \in DOMAIN sub.frames : \A x \in sub.frames[i].writes :
    /\ x[2] <= sub.wrote[x[1]]
    /\ own[x[1]] \in Active /\ pos[own[x[1]]] <= i
    /\ \A b \in Active : pos[b] <= i => pos[b] <= pos[own[x[1]]]

\* What an owner may still keep is in the block.
Present(own) ==
  sub.st # "idle" =>
    \A k \in Objects : own[k] # -1 => \A n \in 1..sub.wrote[k] :
      \E i \in DOMAIN sub.frames : <<k, n>> \in sub.frames[i].writes

Kept(own) == {x \in Objects \X (1..MaxWrites) : own[x[1]] = 0 /\ x[2] <= sub.wrote[x[1]]}
Durable(own) == sub.durable = IF sub.status[0] = "committed" THEN Kept(own) ELSE {}

Sound(own, pos) ==
  /\ SubTypeOK /\ Scopes /\ Rooted /\ Block
  /\ Places(pos) /\ Owners(own) /\ Between(own, pos) /\ Present(own) /\ Durable(own)

SubInv == \E own \in [Objects -> Objects \cup {-1}], pos \in [Objects -> Nat] : Sound(own, pos)
-----------------------------------------------------------------------------
(* What the server does to its savepoints *)

Frame == [of : Objects, writes : SUBSET (Objects \X (1..MaxWrites))]

\* SAVEPOINT puts one above the others (subtransaction.cxx:46).
LEMMA SavepointAbove ==
  ASSUME NEW fs \in Seq(Frame), NEW k \in Objects
  PROVE  \A g : g = Append(fs, [of |-> k, writes |-> {}]) =>
           /\ g \in Seq(Frame) /\ Len(g) = Len(fs) + 1
           /\ \A i \in 1..Len(fs) : g[i] = fs[i]
           /\ g[Len(fs) + 1].of = k /\ g[Len(fs) + 1].writes = {}
<1>1. [of |-> k, writes |-> {}] \in Frame
  BY DEF Frame
<1> QED BY <1>1

RolledBack(fs, k, n) == Append(SubSeq(fs, 1, n - 1), [of |-> k, writes |-> {}])

\* ROLLBACK TO SAVEPOINT forgets what is above it, and what was written since
\* (subtransaction.cxx:38).
LEMMA RolledBackTo ==
  ASSUME NEW fs \in Seq(Frame), NEW k \in Objects, NEW n \in 1..Len(fs)
  PROVE  LET g == RolledBack(fs, k, n)
         IN  /\ g \in Seq(Frame) /\ Len(g) = n
             /\ \A i \in 1..(n - 1) : g[i] = fs[i]
             /\ g[n].of = k /\ g[n].writes = {}
<1> DEFINE low == SubSeq(fs, 1, n - 1)
           g == RolledBack(fs, k, n)
<1>1. low \in Seq(Frame) /\ Len(low) = n - 1 /\ \A i \in 1..(n - 1) : low[i] = fs[i]
  <2>1. \A i \in 1..(n - 1) : fs[i] \in Frame
    BY ElementOfSeq
  <2> QED BY <2>1, SubSeqProperties
<1>2. g = Append(low, [of |-> k, writes |-> {}])
  BY DEF RolledBack
<1> HIDE DEF low, g
<1>3. /\ g \in Seq(Frame) /\ Len(g) = Len(low) + 1
      /\ \A i \in 1..Len(low) : g[i] = low[i]
      /\ g[Len(low) + 1].of = k /\ g[Len(low) + 1].writes = {}
  BY <1>1, <1>2, SavepointAbove
<1>4. /\ g \in Seq(Frame) /\ Len(g) = n
      /\ \A i \in 1..(n - 1) : g[i] = fs[i]
      /\ g[n].of = k /\ g[n].writes = {}
  BY <1>1, <1>3
<1> QED BY <1>4 DEF g

\* A frame with more written in it is a frame of the same savepoint.
LEMMA WidenedFrame ==
  ASSUME NEW f \in Frame, NEW X \in SUBSET (Objects \X (1..MaxWrites))
  PROVE  LET new == [f EXCEPT !.writes = @ \cup X]
         IN  new \in Frame /\ new.of = f.of /\ new.writes = f.writes \cup X
BY DEF Frame

\* RELEASE SAVEPOINT leaves what was written since to the savepoint below
\* (subtransaction.cxx:64).
LEMMA ReleasedInto ==
  ASSUME NEW fs \in Seq(Frame), NEW n \in 2..Len(fs)
  PROVE  LET g == Released(fs, n)
         IN  /\ g \in Seq(Frame) /\ Len(g) = n - 1
             /\ \A i \in 1..(n - 1) : g[i].of = fs[i].of
             /\ \A i \in 1..(n - 2) : g[i].writes = fs[i].writes
             /\ \A x : x \in g[n - 1].writes <=> \E i \in (n - 1)..Len(fs) : x \in fs[i].writes
<1> DEFINE low == SubSeq(fs, 1, n - 1)
           above == UNION {fs[i].writes : i \in n..Len(fs)}
           top == [low[n - 1] EXCEPT !.writes = @ \cup above]
           g == Released(fs, n)
<1>0. \A i \in 1..Len(fs) : fs[i] \in Frame
  BY ElementOfSeq
<1>1. low \in Seq(Frame) /\ Len(low) = n - 1 /\ \A i \in 1..(n - 1) : low[i] = fs[i]
  BY <1>0, SubSeqProperties
<1>2. above \subseteq Objects \X (1..MaxWrites)
  BY <1>0 DEF Frame
<1>3. g = [low EXCEPT ![n - 1] = top]
  BY DEF Released
<1>4. \A x : x \in above <=> \E i \in n..Len(fs) : x \in fs[i].writes
  OBVIOUS
<1> HIDE DEF low, above, g
<1>5. low[n - 1] = fs[n - 1] /\ low[n - 1] \in Frame
  BY <1>0, <1>1
<1>6. top \in Frame /\ top.of = fs[n - 1].of /\ top.writes = fs[n - 1].writes \cup above
  BY <1>2, <1>5, WidenedFrame
<1> HIDE DEF top
<1>7. /\ g \in Seq(Frame) /\ Len(g) = n - 1
      /\ \A i \in 1..(n - 1) : g[i] = IF i = n - 1 THEN top ELSE fs[i]
  BY <1>1, <1>3, <1>6, ExceptSeq
<1>8. \A x : x \in g[n - 1].writes <=> \E i \in (n - 1)..Len(fs) : x \in fs[i].writes
  <2>1. \A x : x \in g[n - 1].writes <=> x \in fs[n - 1].writes \/ x \in above
    BY <1>6, <1>7
  <2> QED BY <2>1, <1>4
<1>9. /\ \A i \in 1..(n - 1) : g[i].of = fs[i].of
      /\ \A i \in 1..(n - 2) : g[i].writes = fs[i].writes
  BY <1>6, <1>7
<1> QED BY <1>7, <1>8, <1>9 DEF g

\* A statement writes above the last savepoint (transaction_base.cxx:247).
LEMMA WrittenOnTop ==
  ASSUME NEW fs \in Seq(Frame), Len(fs) > 0, NEW x \in Objects \X (1..MaxWrites)
  PROVE  \A g : g = [fs EXCEPT ![Len(fs)].writes = @ \cup {x}] =>
           /\ g \in Seq(Frame) /\ Len(g) = Len(fs)
           /\ \A i \in 1..Len(fs) : g[i].of = fs[i].of
           /\ \A i \in 1..(Len(fs) - 1) : g[i].writes = fs[i].writes
           /\ g[Len(fs)].writes = fs[Len(fs)].writes \cup {x}
<1>g. SUFFICES ASSUME NEW g, g = [fs EXCEPT ![Len(fs)].writes = @ \cup {x}]
               PROVE  /\ g \in Seq(Frame) /\ Len(g) = Len(fs)
                      /\ \A i \in 1..Len(fs) : g[i].of = fs[i].of
                      /\ \A i \in 1..(Len(fs) - 1) : g[i].writes = fs[i].writes
                      /\ g[Len(fs)].writes = fs[Len(fs)].writes \cup {x}
  OBVIOUS
<1> DEFINE top == [fs[Len(fs)] EXCEPT !.writes = @ \cup {x}]
<1>0. fs[Len(fs)] \in Frame
  BY ElementOfSeq
<1>4. top \in Frame /\ top.of = fs[Len(fs)].of /\ top.writes = fs[Len(fs)].writes \cup {x}
  BY <1>0, WidenedFrame
<1>3. g = [fs EXCEPT ![Len(fs)] = top]
  BY <1>g
<1> HIDE DEF top
<1>5. /\ g \in Seq(Frame) /\ Len(g) = Len(fs)
      /\ \A i \in 1..Len(fs) : g[i] = IF i = Len(fs) THEN top ELSE fs[i]
  BY <1>3, <1>4, ExceptSeq
<1> QED BY <1>4, <1>5
-----------------------------------------------------------------------------
(* What the invariant says *)

\* The savepoint of an active object is found where it was made.
LEMMA FrameIsPlace ==
  ASSUME NEW own, NEW pos, Sound(own, pos), NEW k \in Active
  PROVE  FrameOf(sub, k) = pos[k]
<1> DEFINE I == {i \in 1..Len(sub.frames) : sub.frames[i].of = k}
<1>1. sub.frames \in Seq(Frame)
  BY DEF Sound, SubTypeOK, Frame
<1>2. I = {pos[k]}
  BY <1>1 DEF Sound, Places
<1>3. Max(I) = pos[k]
  <2>1. pos[k] \in Nat
    BY DEF Sound, Places, Active, Alive
  <2> QED BY <1>2, <2>1 DEF Max
<1>4. FrameOf(sub, k) = IF I # {} THEN Max(I) ELSE 0
  BY DEF FrameOf, SelectLastInSeq
<1> QED BY <1>2, <1>3, <1>4

\* Above(k) is closed, and the least such set.
LEMMA AboveIsClosed ==
  ASSUME NEW own, NEW pos, Sound(own, pos), NEW k \in Objects
  PROVE  /\ k \in Above(k) /\ Above(k) \subseteq Objects
         /\ \A j \in Above(k) : sub.parent[j] \in Above(k)
         /\ \A S \in SUBSET Objects :
              k \in S /\ (\A j \in S : sub.parent[j] \in S) => Above(k) \subseteq S
<1>1. \A j \in Objects : sub.parent[j] \in Objects
  BY DEF Sound, SubTypeOK
<1> QED BY <1>1 DEF Above

\* A write is kept exactly if its object and all that it is nested in have committed.
LEMMA KeptIsCommitted ==
  ASSUME NEW own, NEW pos, Sound(own, pos), sub.status[0] = "committed", NEW k \in Objects
  PROVE  own[k] = 0 <=> \A a \in Above(k) : sub.status[a] = "committed"
<1> USE SubAssumption DEF Objects
<1>0. sub.parent \in [Objects -> Objects] /\ sub.parent[0] = 0
  BY DEF Sound, SubTypeOK, Scopes
<1>1. ASSUME own[k] = 0 PROVE \A a \in Above(k) : sub.status[a] = "committed"
  <2> DEFINE S == {a \in Objects : own[a] = 0}
  <2>1. \A a \in S : sub.status[a] = "committed" /\ sub.parent[a] \in S
    <3> SUFFICES ASSUME NEW a \in S
                 PROVE  sub.status[a] = "committed" /\ sub.parent[a] \in S
      OBVIOUS
    <3>1. Active = {}
      BY DEF Sound, Block
    <3>2. sub.status[a] = "committed"
      <4>1. sub.life[a] # "unborn" /\ sub.status[a] # "aborted"
        BY DEF Sound, Owners, Unborn
      <4>2. sub.life[a] \in {"unborn", "live", "dead"} /\ sub.status[a] \in SubStatuses
        BY DEF Sound, SubTypeOK
      <4> QED BY <3>1, <4>1, <4>2 DEF Active, Alive, SubStatuses, Sound, Scopes
    <3>3. sub.parent[a] \in S
      BY <1>0, <3>2 DEF Sound, Owners
    <3> QED BY <3>2, <3>3
  <2>2. Above(k) \subseteq S
    <3> HIDE DEF Objects
    <3>1. S \in SUBSET Objects /\ k \in S
      BY <1>1
    <3> QED BY <2>1, <3>1, AboveIsClosed
  <2> QED BY <2>1, <2>2
<1>2. ASSUME \A a \in Above(k) : sub.status[a] = "committed" PROVE own[k] = 0
  <2> DEFINE S == {a \in Above(k) : own[a] = own[k]}
  <2>1. S \in SUBSET Objects /\ k \in S
    BY AboveIsClosed
  <2>2. \A a \in S : sub.parent[a] \in S
    <3> SUFFICES ASSUME NEW a \in S PROVE sub.parent[a] \in S
      OBVIOUS
    <3>1. sub.parent[a] \in Above(k) /\ a \in Objects
      BY AboveIsClosed
    <3>2. own[sub.parent[a]] = own[a]
      BY <1>0, <1>2, <3>1 DEF Sound, Owners
    <3> QED BY <3>1, <3>2
  <2>3. 0 \in S
    BY <2>1, <2>2 DEF Sound, Rooted
  <2> QED BY <2>3 DEF Sound, Owners
<1> QED BY <1>1, <1>2

\* The invariant says that subtransactions are kept.
LEMMA SoundIsKept ==
  ASSUME NEW own, NEW pos, Sound(own, pos)
  PROVE  SubtransactionsKept
<1>1. ExactlyKept
  <2>1. CASE sub.status[0] # "committed"
    BY <2>1 DEF Sound, Durable, ExactlyKept
  <2>2. CASE sub.status[0] = "committed"
    <3> DEFINE C == {j \in Objects : \A a \in Above(j) : sub.status[a] = "committed"}
    <3>1. C = {j \in Objects : own[j] = 0}
      BY <2>2, KeptIsCommitted
    <3>2. sub.durable = Kept(own)
      BY <2>2 DEF Sound, Durable
    <3>3. Kept(own) = UNION {Writes(j) : j \in C}
      <4> HIDE DEF C
      <4>1. \A j \in Objects : sub.wrote[j] \in 0..MaxWrites
        BY DEF Sound, SubTypeOK
      <4>2. \A j \in C : Writes(j) = {x \in Objects \X (1..MaxWrites) : x[1] = j /\ x[2] <= sub.wrote[j]}
        BY <3>1, <4>1, SubAssumption DEF Writes
      <4> QED BY <3>1, <4>2 DEF Kept
    <3> QED BY <2>2, <3>2, <3>3 DEF ExactlyKept
  <2> QED BY <2>1, <2>2
<1>2. ParentFine
  <2> SUFFICES ASSUME NEW k \in Active, ~ sub.told[k], Children(k) = {} PROVE sub.st = "block"
    BY DEF ParentFine
  <2>1. sub.st # "idle"
    BY DEF Sound, Block
  <2>2. ASSUME sub.st = "failed" PROVE FALSE
    <3>1. PICK j \in Active : sub.told[j]
      BY <2>2 DEF Sound, Block
    <3>2. Innermost(j) /\ Innermost(k) /\ j \in Objects /\ k \in Objects
      BY <3>1 DEF Sound, Block, Innermost, Active, Alive
    <3> QED BY <3>1, <3>2 DEF Sound, Scopes
  <2>3. sub.st \in {"block", "failed", "idle"}
    BY DEF Sound, SubTypeOK
  <2> QED BY <2>1, <2>2, <2>3
<1>3. SavepointsNested
  <2> SUFFICES ASSUME NEW k \in Active
               PROVE  Knows(sub, k) /\ (k # 0 => FrameOf(sub, sub.parent[k]) < FrameOf(sub, k))
    BY DEF SavepointsNested
  <2>1. sub.st # "idle"
    BY DEF Sound, Block
  <2>2. sub.frames \in Seq(Frame)
    BY DEF Sound, SubTypeOK, Frame
  <2>3. pos[k] > 0
    BY <2>2 DEF Sound, Places
  <2>4. k # 0 => sub.parent[k] \in Active /\ pos[sub.parent[k]] < pos[k]
    BY DEF Sound, Scopes, Places, Active
  <2>5. FrameOf(sub, k) = pos[k]
    BY FrameIsPlace
  <2>6. k # 0 => FrameOf(sub, sub.parent[k]) = pos[sub.parent[k]]
    <3> SUFFICES ASSUME k # 0 PROVE FrameOf(sub, sub.parent[k]) = pos[sub.parent[k]]
      OBVIOUS
    <3>1. PICK p \in Objects : p = sub.parent[k] /\ p \in Active
      BY <2>4 DEF Active, Alive
    <3>2. FrameOf(sub, p) = pos[p]
      BY <3>1, FrameIsPlace
    <3> QED BY <3>1, <3>2
  <2> QED BY <2>1, <2>3, <2>4, <2>5, <2>6 DEF Knows
<1> QED BY <1>1, <1>2, <1>3 DEF SubtransactionsKept
-----------------------------------------------------------------------------
(* The steps keep it *)

\* Where a program may work with an object, the block is in order.
LEMMA InUseIsFine ==
  ASSUME NEW own, NEW pos, Sound(own, pos), "swallow" \notin SubHabits,
         NEW k \in Active, InUse(k)
  PROVE  Innermost(k) /\ sub.st = "block" /\ ~ sub.told[k]
<1>1. Innermost(k) /\ ~ sub.told[k]
  BY DEF InUse
<1>2. Children(k) = {}
  BY <1>1 DEF Innermost
<1>3. SubtransactionsKept
  BY SoundIsKept
<1> QED BY <1>1, <1>2, <1>3 DEF SubtransactionsKept, ParentFine

\* A work has begun: it owns its writes, and its savepoint is the bottom of the block.
LEMMA BegunIsSound ==
  ASSUME SubInit
  PROVE  SubInv
<1> USE SubAssumption DEF Objects
<1> DEFINE own == [k \in Objects |-> IF k = 0 THEN 0 ELSE -1]
           pos == [k \in Objects |-> IF k = 0 THEN 1 ELSE 0]
           bottom == <<[of |-> 0, writes |-> {}]>>
<1>1. own \in [Objects -> Objects \cup {-1}] /\ pos \in [Objects -> Nat]
  OBVIOUS
<1>2. /\ bottom \in Seq(Frame) /\ Len(bottom) = 1 /\ DOMAIN bottom = {1}
      /\ bottom[1].of = 0 /\ bottom[1].writes = {}
  BY DEF Frame
<1> HIDE DEF bottom
<1>3. /\ sub.life = [k \in Objects |-> IF k = 0 THEN "live" ELSE "unborn"]
      /\ sub.status = [k \in Objects |-> "active"] /\ sub.parent = [k \in Objects |-> 0]
      /\ sub.wrote = [k \in Objects |-> 0] /\ sub.told = [k \in Objects |-> FALSE]
      /\ sub.st = "block" /\ sub.frames = bottom /\ sub.durable = {}
  BY DEF SubInit, Begun, bottom
<1>4. Alive = {0} /\ Active = {0} /\ Children(0) = {}
  BY <1>3 DEF Alive, Active, Children
<1>5. SubTypeOK
  BY <1>2, <1>3 DEF SubTypeOK, SubInit, Begun, Frame, SubStatuses, bottom
<1>6. Scopes
  BY <1>3, <1>4 DEF Scopes, Unborn, Innermost
<1>7. Rooted
  <2>1. \A j \in Objects : sub.parent[j] = 0
    BY <1>3
  <2> QED BY <2>1 DEF Rooted
<1>8. Block
  BY <1>3, <1>4 DEF Block, Unborn
<1>9. Places(pos)
  BY <1>1, <1>2, <1>3, <1>4 DEF Places, Unborn, Innermost
<1>10. Owners(own)
  BY <1>1, <1>3, <1>4 DEF Owners, Unborn
<1>11. Between(own, pos) /\ Present(own) /\ Durable(own)
  BY <1>2, <1>3 DEF Between, Present, Durable
<1> HIDE DEF own, pos
<1>12. Sound(own, pos)
  BY <1>5, <1>6, <1>7, <1>8, <1>9, <1>10, <1>11 DEF Sound
<1> QED BY <1>1, <1>12 DEF SubInv

\* The constructor: the new savepoint is above all others, and the new object owns
\* what it will write.
LEMMA ConstructKeeps ==
  ASSUME NEW own \in [Objects -> Objects \cup {-1}], NEW pos \in [Objects -> Nat],
         Sound(own, pos), "swallow" \notin SubHabits,
         NEW k \in Objects, NEW p \in Objects, Construct(k, p)
  PROVE  SubInv'
<1>0. /\ SubTypeOK /\ Scopes /\ Rooted /\ Block /\ Places(pos) /\ Owners(own)
      /\ Between(own, pos) /\ Present(own) /\ Durable(own)
  BY DEF Sound
<1>T. /\ sub.life \in [Objects -> {"unborn", "live", "dead"}]
      /\ sub.parent \in [Objects -> Objects] /\ sub.frames \in Seq(Frame)
      /\ Alive \subseteq Objects /\ Active \subseteq Alive
  BY <1>0 DEF SubTypeOK, Frame, Alive, Active
<1>1. /\ k # 0 /\ Unborn(k) /\ p \in Active /\ p # k /\ k \notin Alive
      /\ ~ Unborn(p) /\ Innermost(p) /\ sub.st = "block" /\ ~ sub.told[p]
  <2>1. p \in Active /\ InUse(p) /\ k # 0 /\ Unborn(k)
    BY DEF Construct, Unborn
  <2>2. p # k /\ k \notin Alive /\ ~ Unborn(p)
    BY <2>1 DEF Active, Alive, Unborn
  <2> QED BY <2>1, <2>2, InUseIsFine
<1>e. sub' = [sub EXCEPT !.life[k] = "live", !.parent[k] = p,
                         !.frames = Append(@, [of |-> k, writes |-> {}])]
  BY <1>0, <1>1 DEF Construct, Savepoint, SubTypeOK
<1>f. sub'.frames = Append(sub.frames, [of |-> k, writes |-> {}])
  BY <1>0, <1>e DEF SubTypeOK
<1>g. sub'.life = [sub.life EXCEPT ![k] = "live"] /\ sub'.parent = [sub.parent EXCEPT ![k] = p]
  BY <1>0, <1>e DEF SubTypeOK
<1>2. /\ \A j \in Objects : sub'.life[j] = IF j = k THEN "live" ELSE sub.life[j]
      /\ \A j \in Objects : sub'.parent[j] = IF j = k THEN p ELSE sub.parent[j]
  BY <1>T, <1>g
<1>s. /\ sub'.status = sub.status /\ sub'.wrote = sub.wrote /\ sub'.told = sub.told
      /\ sub'.st = sub.st /\ sub'.durable = sub.durable
  BY <1>0, <1>e DEF SubTypeOK
<1>t. PICK n \in Nat : n = Len(sub.frames) /\ DOMAIN sub.frames = 1..n
  BY <1>T
<1>F. sub'.frames \in Seq(Frame)
  BY <1>T, <1>f DEF Frame
<1>3. /\ DOMAIN sub'.frames = 1..(n + 1)
      /\ \A i \in 1..n : sub'.frames[i] = sub.frames[i]
      /\ sub'.frames[n + 1].of = k /\ sub'.frames[n + 1].writes = {}
  <2>1. PICK fs, g : /\ fs = sub.frames /\ g = sub'.frames
                     /\ fs \in Seq(Frame) /\ g = Append(fs, [of |-> k, writes |-> {}])
    BY <1>f, <1>T
  <2>2. /\ DOMAIN g = 1..(Len(fs) + 1)
        /\ \A i \in 1..Len(fs) : g[i] = fs[i]
        /\ g[Len(fs) + 1].of = k /\ g[Len(fs) + 1].writes = {}
    <3>1. /\ g \in Seq(Frame) /\ Len(g) = Len(fs) + 1
          /\ \A i \in 1..Len(fs) : g[i] = fs[i]
          /\ g[Len(fs) + 1].of = k /\ g[Len(fs) + 1].writes = {}
      <4>1. fs \in Seq(Frame)
        BY <2>1
      <4>2. \A h : h = Append(fs, [of |-> k, writes |-> {}]) =>
              /\ h \in Seq(Frame) /\ Len(h) = Len(fs) + 1
              /\ \A i \in 1..Len(fs) : h[i] = fs[i]
              /\ h[Len(fs) + 1].of = k /\ h[Len(fs) + 1].writes = {}
        BY <4>1, SavepointAbove
      <4>3. g = Append(fs, [of |-> k, writes |-> {}])
        BY <2>1
      <4> QED BY <4>2, <4>3
    <3>2. DOMAIN g = 1..Len(g)
      BY <3>1
    <3> QED BY <3>1, <3>2, Zenon
  <2> QED BY <2>1, <2>2, <1>t, Zenon
<1>4. Alive' = Alive \cup {k} /\ Active' = Active \cup {k}
  <2>1. Alive' = Alive \cup {k}
    BY <1>2 DEF Alive
  <2>2. sub.status[k] = "active"
    BY <1>0, <1>1 DEF Scopes
  <2> QED BY <1>s, <2>1, <2>2 DEF Active
<1>5. \A j \in Objects : Innermost(j)' <=> j = k
  <2>2. \A c \in Alive : sub.parent[c] # k
    BY <1>0, <1>1, <1>T DEF Scopes
  <2>3. Children(k)' = {}
    BY <1>1, <1>2, <1>4, <1>T, <2>2 DEF Children
  <2>4. k \in Children(p)'
    BY <1>1, <1>2, <1>4 DEF Children
  <2>5. \A j \in Objects \ {k} : Children(j) \subseteq Children(j)'
    BY <1>1, <1>2, <1>4, <1>T DEF Children
  <2>6. \A j \in Objects \ {k} : Innermost(j)' => Innermost(j)
    BY <1>4, <2>5 DEF Innermost
  <2>7. \A j \in Objects \ {k} : Innermost(j) => j = p
    BY <1>0, <1>1, <1>T DEF Scopes
  <2> QED BY <1>4, <2>3, <2>4, <2>6, <2>7 DEF Innermost
<1>6. SubTypeOK'
  <2>1. /\ sub'.life \in [Objects -> {"unborn", "live", "dead"}]
        /\ sub'.parent \in [Objects -> Objects]
    BY <1>T, <1>g
  <2> QED BY <1>0, <1>F, <1>e, <1>s, <2>1 DEF SubTypeOK, Frame
<1>7. Scopes'
  <2>1. sub'.parent[0] = 0 /\ sub'.life[0] # "unborn"
    BY <1>0, <1>1, <1>2, SubAssumption DEF Scopes, Unborn, Objects
  <2>2. \A j \in Objects : sub'.life[j] = "unborn" =>
          sub'.status[j] = "active" /\ sub'.wrote[j] = 0 /\ sub'.parent[j] = 0
    BY <1>0, <1>2, <1>s DEF Scopes, Unborn
  <2>3. \A j \in Objects : sub'.life[j] = "dead" => sub'.status[j] # "active"
    BY <1>0, <1>2, <1>s DEF Scopes
  <2>4. \A j \in Objects : sub'.life[sub'.parent[j]] # "unborn"
    <3>1. \A j \in Objects : sub.parent[j] \in Objects /\ sub.life[sub.parent[j]] # "unborn"
      BY <1>0, <1>T DEF Scopes, Unborn
    <3> QED BY <1>1, <1>2, <3>1 DEF Unborn
  <2>5. \A j \in Alive' \ {0} : sub'.parent[j] \in Active' /\ sub'.parent[j] # j
    BY <1>0, <1>1, <1>2, <1>4, <1>T DEF Scopes
  <2> QED BY <1>5, <2>1, <2>2, <2>3, <2>4, <2>5 DEF Scopes, Unborn
<1>8. Rooted'
  <2> SUFFICES ASSUME NEW S \in SUBSET Objects, S # {}, \A j \in S : sub'.parent[j] \in S
               PROVE  0 \in S
    BY DEF Rooted
  <2>2. \A j \in Objects : sub.parent[j] # k
    BY <1>0, <1>1 DEF Scopes
  <2>3. S \ {k} # {}
    BY <1>1, <1>2
  <2>4. \A j \in S \ {k} : sub.parent[j] \in S \ {k}
    BY <1>2, <2>2
  <2> QED BY <1>0, <2>3, <2>4 DEF Rooted
<1>9. Block'
  <2>1. \A j \in Alive' : ~ sub'.told[j]
    BY <1>0, <1>1, <1>s, <1>4 DEF Block
  <2>2. \A j \in Objects : sub'.life[j] = "unborn" => ~ sub'.told[j]
    BY <1>0, <1>2, <1>s DEF Block, Unborn
  <2> QED BY <1>0, <1>1, <1>s, <2>1, <2>2 DEF Block, Unborn
<1>q. PICK q \in [Objects -> Nat] : q = [pos EXCEPT ![k] = n + 1]
  <2>1. [pos EXCEPT ![k] = n + 1] \in [Objects -> Nat]
    OBVIOUS
  <2> QED BY <2>1
<1>p. \A b \in Active : b \in Objects /\ b # k /\ q[b] = pos[b] /\ pos[b] \in 1..n
  <2>1. \A b \in Active : b \in Objects /\ b # k /\ pos[b] \in 1..n
    BY <1>0, <1>1, <1>T, <1>t DEF Places
  <2> QED BY <1>q, <2>1
<1>r. q[k] = n + 1
  BY <1>q
<1>10. Places(q)'
  <2>1. 0 \in Active' => q[0] = 1
    BY <1>0, <1>1, <1>4, <1>p DEF Places
  <2>2. \A b \in Active' : q[b] \in DOMAIN sub'.frames /\ sub'.frames[q[b]].of = b
    <3>1. \A b \in Active : sub.frames[pos[b]].of = b
      BY <1>0 DEF Places
    <3>2. \A b \in Active : q[b] \in 1..n /\ sub'.frames[q[b]].of = b
      BY <1>3, <1>p, <3>1
    <3> QED BY <1>3, <1>4, <1>r, <3>2
  <2>3. \A i \in 1..n : sub'.frames[i].of = sub.frames[i].of /\ sub.frames[i].of # k
    BY <1>0, <1>1, <1>3, <1>t DEF Places
  <2>4. \A i, j \in DOMAIN sub'.frames : sub'.frames[i].of = sub'.frames[j].of => i = j
    <3>1. \A i, j \in 1..n : sub.frames[i].of = sub.frames[j].of => i = j
      BY <1>0, <1>t DEF Places
    <3>2. \A i \in DOMAIN sub'.frames : i \in 1..n \/ i = n + 1
      BY <1>3
    <3> QED BY <1>3, <2>3, <3>1, <3>2
  <2>5. \A i \in DOMAIN sub'.frames : sub'.life[sub'.frames[i].of] # "unborn"
    <3> SUFFICES ASSUME NEW i \in DOMAIN sub'.frames
                 PROVE  sub'.life[sub'.frames[i].of] # "unborn"
      OBVIOUS
    <3>1. i \in 1..n \/ i = n + 1
      BY <1>3
    <3>2. sub'.frames[i] \in Frame
      BY <1>F, ElementOfSeq
    <3>3. PICK j \in Objects : j = sub'.frames[i].of
      BY <3>2 DEF Frame
    <3>4. CASE i \in 1..n
      <4>1. sub.life[j] # "unborn"
        BY <1>0, <1>t, <2>3, <3>3, <3>4 DEF Places, Unborn
      <4> QED BY <1>2, <3>3, <4>1
    <3>5. CASE i = n + 1
      BY <1>2, <1>3, <3>3, <3>5
    <3> QED BY <3>1, <3>4, <3>5
  <2>6. \A c \in Active' \ {0} :
          /\ q[sub'.parent[c]] < q[c]
          /\ \A b \in Active' : q[b] <= q[sub'.parent[c]] \/ q[c] <= q[b]
    <3> SUFFICES ASSUME NEW c \in Active' \ {0}
                 PROVE  /\ q[sub'.parent[c]] < q[c]
                        /\ \A b \in Active' : q[b] <= q[sub'.parent[c]] \/ q[c] <= q[b]
      OBVIOUS
    <3>1. CASE c = k
      <4>1. sub'.parent[c] = p
        BY <1>2, <3>1
      <4>2. \A b \in Active \ {p} : pos[b] <= pos[p]
        <5> SUFFICES ASSUME NEW b \in Active \ {p} PROVE pos[b] <= pos[p]
          OBVIOUS
        <5>1. p # 0 /\ pos[b] <= pos[sub.parent[p]]
          BY <1>0, <1>1 DEF Places
        <5>2. pos[sub.parent[p]] < pos[p]
          BY <1>0, <1>1, <5>1 DEF Places
        <5>3. pos[sub.parent[p]] \in Nat /\ pos[b] \in Nat /\ pos[p] \in Nat
          BY <1>T
        <5> QED BY <5>1, <5>2, <5>3
      <4> QED BY <1>1, <1>4, <1>p, <1>r, <3>1, <4>1, <4>2
    <3>2. CASE c # k
      <4>1. c \in Active \ {0} /\ sub'.parent[c] = sub.parent[c] /\ sub.parent[c] \in Active
        BY <1>0, <1>2, <1>4, <1>T, <3>2 DEF Scopes
      <4>2. /\ pos[sub.parent[c]] < pos[c]
            /\ \A b \in Active : pos[b] <= pos[sub.parent[c]] \/ pos[c] <= pos[b]
        BY <1>0, <4>1 DEF Places
      <4> QED BY <1>4, <1>p, <1>r, <4>1, <4>2
    <3> QED BY <3>1, <3>2
  <2>7. \A j \in Objects : Innermost(j)' =>
           \A b \in Active' \ {j} : j # 0 /\ q[b] <= q[sub'.parent[j]]
    <3> SUFFICES ASSUME NEW b \in Active' \ {k} PROVE q[b] <= q[sub'.parent[k]]
      BY <1>1, <1>5
    <3>1. k \in Active' \ {0} /\ b \in Active' /\ q[b] < q[k] /\ q[b] \in Nat /\ q[k] \in Nat
      BY <1>1, <1>4, <1>p, <1>r
    <3>2. q[b] <= q[sub'.parent[k]] \/ q[k] <= q[b]
      BY <2>6, <3>1
    <3> QED BY <3>1, <3>2
  <2> QED BY <2>1, <2>2, <2>4, <2>5, <2>6, <2>7 DEF Places, Unborn
<1>o. PICK o \in [Objects -> Objects \cup {-1}] : o = [own EXCEPT ![k] = k]
  OBVIOUS
<1>v. o[k] = k /\ \A j \in Objects \ {k} : o[j] = own[j]
  BY <1>o
<1>11. Owners(o)'
  <2>1. \A b \in Active' : o[b] = b
    BY <1>0, <1>4, <1>p, <1>v DEF Owners
  <2>2. \A j \in Objects : sub'.life[j] = "unborn" \/ sub'.status[j] = "aborted" => o[j] = -1
    BY <1>0, <1>1, <1>2, <1>s, <1>v DEF Owners, Unborn, Scopes
  <2>3. \A j \in Objects \ {0} : sub'.status[j] = "committed" => o[j] = o[sub'.parent[j]]
    <3> SUFFICES ASSUME NEW j \in Objects \ {0}, sub.status[j] = "committed"
                 PROVE  o[j] = o[sub'.parent[j]]
      BY <1>s
    <3>1. j # k
      BY <1>0, <1>1 DEF Scopes
    <3>2. sub'.parent[j] = sub.parent[j] /\ sub.parent[j] \in Objects /\ sub.parent[j] # k
      BY <1>0, <1>1, <1>2, <1>T, <3>1 DEF Scopes
    <3>3. own[j] = own[sub.parent[j]]
      BY <1>0 DEF Owners
    <3> QED BY <1>v, <3>1, <3>2, <3>3
  <2>4. \A j \in Objects : o[j] # -1 =>
          o[j] \in Active' \/ (o[j] = 0 /\ sub'.status[0] = "committed")
    BY <1>0, <1>4, <1>s, <1>v DEF Owners
  <2>5. sub'.status[0] = "committed" => o[0] = 0
    BY <1>0, <1>1, <1>s, <1>v, SubAssumption DEF Owners, Objects
  <2> QED BY <2>1, <2>2, <2>3, <2>4, <2>5 DEF Owners, Unborn
<1>12. Between(o, q)'
  <2> SUFFICES ASSUME NEW i \in DOMAIN sub'.frames, NEW x \in sub'.frames[i].writes
               PROVE  /\ x[2] <= sub'.wrote[x[1]]
                      /\ o[x[1]] \in Active' /\ q[o[x[1]]] <= i
                      /\ \A b \in Active' : q[b] <= i => q[b] <= q[o[x[1]]]
    BY DEF Between
  <2>1. i \in 1..n /\ x \in sub.frames[i].writes
    <3>1. i \in 1..n \/ i = n + 1
      BY <1>3
    <3> QED BY <1>3, <3>1
  <2>2. /\ x[2] <= sub.wrote[x[1]]
        /\ own[x[1]] \in Active /\ pos[own[x[1]]] <= i
        /\ \A b \in Active : pos[b] <= i => pos[b] <= pos[own[x[1]]]
    BY <1>0, <1>t, <2>1 DEF Between
  <2>3. x[1] \in Objects
    <3>1. sub.frames[i] \in Frame
      BY <1>T, <1>t, <2>1, ElementOfSeq
    <3> QED BY <2>1, <3>1 DEF Frame
  <2>4. x[1] # k
    <3>1. own[k] = -1 /\ -1 \notin Objects
      BY <1>0, <1>1 DEF Owners, Objects
    <3> QED BY <1>p, <2>2, <3>1
  <2>5. o[x[1]] = own[x[1]]
    BY <1>v, <2>3, <2>4
  <2> QED BY <1>4, <1>p, <1>r, <1>s, <2>1, <2>2, <2>5
<1>13. Present(o)'
  <2> SUFFICES ASSUME NEW j \in Objects, o[j] # -1, NEW m \in 1..sub'.wrote[j]
               PROVE  \E i \in DOMAIN sub'.frames : <<j, m>> \in sub'.frames[i].writes
    BY DEF Present
  <2>1. j # k
    BY <1>0, <1>1, <1>s DEF Scopes
  <2>2. PICK i \in 1..n : <<j, m>> \in sub.frames[i].writes
    BY <1>0, <1>1, <1>s, <1>t, <1>v, <2>1 DEF Present
  <2>3. i \in DOMAIN sub'.frames /\ sub'.frames[i] = sub.frames[i]
    BY <1>3, SMTT(30)
  <2> QED BY <2>2, <2>3
<1>14. Durable(o)'
  BY <1>0, <1>1, <1>s DEF Durable, Block
<1>15. Sound(o, q)'
  BY <1>6, <1>7, <1>8, <1>9, <1>10, <1>11, <1>12, <1>13, <1>14 DEF Sound
<1> QED BY <1>15 DEF SubInv

\* The end of an object leaves the scopes nested, and the savepoint of the innermost
\* active object above all others.
LEMMA ScopesAtEnd ==
  ASSUME NEW own, NEW pos \in [Objects -> Nat], Sound(own, pos),
         NEW k \in Alive, Innermost(k),
         NEW x \in {"aborted", "committed"}, NEW L \in {"live", "dead"},
         sub'.life = [sub.life EXCEPT ![k] = L], sub'.status = [sub.status EXCEPT ![k] = x],
         sub'.parent = sub.parent, sub'.wrote = sub.wrote
  PROVE  /\ Scopes' /\ Rooted' /\ Active' = Active \ {k}
         /\ Alive' = IF L = "live" THEN Alive ELSE Alive \ {k}
         /\ \A j \in Objects : Unborn(j)' <=> Unborn(j)
         /\ \A j \in Objects : Innermost(j)' =>
              \A b \in Active' \ {j} : j # 0 /\ pos[b] <= pos[sub.parent[j]]
<1>0. SubTypeOK /\ Scopes /\ Rooted /\ Block /\ Places(pos)
  BY DEF Sound
<1>T. /\ sub.life \in [Objects -> {"unborn", "live", "dead"}]
      /\ sub.status \in [Objects -> SubStatuses]
      /\ sub.parent \in [Objects -> Objects] /\ sub.frames \in Seq(Frame)
      /\ Alive \subseteq Objects /\ Active \subseteq Alive /\ sub.life[k] = "live"
  BY <1>0 DEF SubTypeOK, Frame, Alive, Active
<1>2. /\ \A j \in Objects : sub'.life[j] = IF j = k THEN L ELSE sub.life[j]
      /\ \A j \in Objects : sub'.status[j] = IF j = k THEN x ELSE sub.status[j]
  BY <1>T
<1>3. Alive' = IF L = "live" THEN Alive ELSE Alive \ {k}
  BY <1>2, <1>T DEF Alive
<1>4. Active' = Active \ {k}
  BY <1>2, <1>3, <1>T DEF Active
<1>5. \A j \in Objects : Unborn(j)' <=> Unborn(j)
  BY <1>2, <1>T DEF Unborn
<1>6. \A c \in Alive \ {0} : sub.parent[c] # k
  BY DEF Innermost, Children
<1>7. \A j \in Objects : Innermost(j)' =>
        IF L = "live" THEN j = k ELSE k # 0 /\ j = sub.parent[k]
  <2> SUFFICES ASSUME NEW j \in Objects, Innermost(j)'
               PROVE  IF L = "live" THEN j = k ELSE k # 0 /\ j = sub.parent[k]
    OBVIOUS
  <2>1. j \in Alive' /\ Children(j)' = {}
    BY DEF Innermost
  <2>2. CASE L = "live"
    <3>1. Innermost(j)
      BY <1>3, <2>1, <2>2 DEF Innermost, Children
    <3> QED BY <1>0, <1>T, <2>2, <3>1 DEF Scopes
  <2>3. CASE L = "dead"
    <3>1. j \in Alive /\ j # k
      BY <1>3, <2>1, <2>3
    <3>2. ~ Innermost(j)
      BY <1>0, <1>T, <3>1 DEF Scopes
    <3>3. PICK c \in Alive \ {0} : sub.parent[c] = j
      BY <3>1, <3>2 DEF Innermost, Children
    <3>4. c = k
      BY <1>3, <2>1, <2>3, <3>3 DEF Children
    <3> QED BY <2>3, <3>3, <3>4
  <2> QED BY <2>2, <2>3
<1>8. Scopes'
  <2>1. sub'.parent[0] = 0 /\ ~ Unborn(0)'
    BY <1>0, <1>5, SubAssumption DEF Scopes, Objects
  <2>2. \A j \in Objects : Unborn(j)' =>
          sub'.status[j] = "active" /\ sub'.wrote[j] = 0 /\ sub'.parent[j] = 0
    BY <1>0, <1>2, <1>5, <1>T DEF Scopes, Unborn
  <2>3. \A j \in Objects : sub'.life[j] = "dead" => sub'.status[j] # "active"
    BY <1>0, <1>2 DEF Scopes
  <2>4. \A j \in Objects : ~ Unborn(sub.parent[j])'
    <3> SUFFICES ASSUME NEW j \in Objects PROVE sub'.life[sub'.parent[j]] # "unborn"
      BY DEF Unborn
    <3>1. sub.parent[j] \in Objects /\ ~ Unborn(sub.parent[j])
      BY <1>0, <1>T DEF Scopes
    <3> QED BY <1>2, <3>1 DEF Unborn
  <2>5. \A j \in Alive' \ {0} : sub'.parent[j] \in Active' /\ sub'.parent[j] # j
    BY <1>0, <1>3, <1>4, <1>6 DEF Scopes
  <2>6. \A i, j \in Objects : Innermost(i)' /\ Innermost(j)' => i = j
    BY <1>7
  <2> QED BY <2>1, <2>2, <2>3, <2>4, <2>5, <2>6 DEF Scopes
<1>9. Rooted'
  BY <1>0 DEF Rooted
<1>10. \A j \in Objects : Innermost(j)' =>
         \A b \in Active' \ {j} : j # 0 /\ pos[b] <= pos[sub.parent[j]]
  <2> SUFFICES ASSUME NEW j \in Objects, Innermost(j)', NEW b \in Active', b # j
               PROVE  j # 0 /\ pos[b] <= pos[sub.parent[j]]
    OBVIOUS
  <2>1. b \in Active /\ b # k /\ k # 0 /\ pos[b] <= pos[sub.parent[k]]
    BY <1>0, <1>4, <1>T DEF Places
  <2>2. CASE j = k
    BY <2>1, <2>2
  <2>3. CASE j # k
    <3>1. j = sub.parent[k] /\ j \in Active
      BY <1>0, <1>7, <2>1, <2>3 DEF Scopes
    <3>2. /\ pos[b] \in DOMAIN sub.frames /\ sub.frames[pos[b]].of = b /\ pos[b] \in Nat
          /\ pos[j] \in DOMAIN sub.frames /\ sub.frames[pos[j]].of = j /\ pos[j] \in Nat
      BY <1>0, <1>T, <2>1, <3>1 DEF Places
    <3>3. pos[b] # pos[j]
      BY <3>2
    <3>4. pos[b] >= 1
      BY <1>T, <3>2
    <3>5. j # 0
      BY <1>0, <2>1, <3>1, <3>2, <3>3, <3>4 DEF Places
    <3>6. pos[b] <= pos[sub.parent[j]] \/ pos[j] <= pos[b]
      BY <1>0, <2>1, <3>1, <3>5 DEF Places
    <3> QED BY <2>1, <3>1, <3>2, <3>3, <3>5, <3>6
  <2> QED BY <2>2, <2>3
<1> QED BY <1>3, <1>4, <1>5, <1>8, <1>9, <1>10

\* exec() writes above the savepoint of the object, the innermost and so its own owner.
LEMMA WriteKeeps ==
  ASSUME NEW own \in [Objects -> Objects \cup {-1}], NEW pos \in [Objects -> Nat],
         Sound(own, pos), NEW k \in Active, Innermost(k)
  PROVE  /\ sub.wrote[k] < MaxWrites
         /\ sub' = Write([sub EXCEPT !.wrote[k] = @ + 1], <<k, sub.wrote[k] + 1>>)
         => SubInv'
<1>h. SUFFICES ASSUME sub.wrote[k] < MaxWrites,
                      sub' = Write([sub EXCEPT !.wrote[k] = @ + 1], <<k, sub.wrote[k] + 1>>)
               PROVE  SubInv'
  OBVIOUS
<1>0. /\ SubTypeOK /\ Scopes /\ Rooted /\ Block /\ Places(pos) /\ Owners(own)
      /\ Between(own, pos) /\ Present(own) /\ Durable(own)
  BY DEF Sound
<1>T. /\ sub.wrote \in [Objects -> 0..MaxWrites] /\ sub.frames \in Seq(Frame)
      /\ Alive \subseteq Objects /\ Active \subseteq Alive /\ k \in Objects
  BY <1>0 DEF SubTypeOK, Frame, Alive, Active
<1>m. PICK m \in 1..MaxWrites : m = sub.wrote[k] + 1
  BY <1>h, <1>T, SubAssumption
<1>e. sub' = [sub EXCEPT !.wrote[k] = m, !.frames[Len(sub.frames)].writes = @ \cup {<<k, m>>}]
  BY <1>0, <1>h, <1>m DEF Write, SubTypeOK
<1>f. sub'.frames = [sub.frames EXCEPT ![Len(sub.frames)].writes = @ \cup {<<k, m>>}]
  BY <1>0, <1>e DEF SubTypeOK
<1>g. sub'.wrote = [sub.wrote EXCEPT ![k] = m]
  BY <1>0, <1>e DEF SubTypeOK
<1>s. /\ sub'.life = sub.life /\ sub'.parent = sub.parent /\ sub'.status = sub.status
      /\ sub'.told = sub.told /\ sub'.st = sub.st /\ sub'.durable = sub.durable
  BY <1>0, <1>e DEF SubTypeOK
<1>2. /\ sub'.wrote[k] = m /\ m - 1 = sub.wrote[k] /\ m \in Nat
      /\ \A j \in Objects \ {k} : sub'.wrote[j] = sub.wrote[j]
  <2>1. sub'.wrote[k] = m /\ \A j \in Objects \ {k} : sub'.wrote[j] = sub.wrote[j]
    BY <1>T, <1>g
  <2>2. PICK w \in Int : w = sub.wrote[k]
    BY <1>T
  <2> QED BY <1>m, <2>1, <2>2
<1>t. PICK n \in Nat : n = Len(sub.frames) /\ DOMAIN sub.frames = 1..n
  BY <1>T
<1>n. pos[k] \in 1..n /\ n \in 1..n
  BY <1>0, <1>t DEF Places
<1>w. /\ sub'.frames \in Seq(Frame) /\ Len(sub'.frames) = Len(sub.frames)
      /\ \A i \in 1..Len(sub.frames) : sub'.frames[i].of = sub.frames[i].of
      /\ \A i \in 1..(Len(sub.frames) - 1) : sub'.frames[i].writes = sub.frames[i].writes
      /\ sub'.frames[Len(sub.frames)].writes = sub.frames[Len(sub.frames)].writes \cup {<<k, m>>}
  <2>1. PICK x \in Objects \X (1..MaxWrites) : x = <<k, m>>
    BY <1>T
  <2>2. PICK fs \in Seq(Frame) : fs = sub.frames
    BY <1>T
  <2>3. Len(fs) > 0
    BY <1>n, <1>t, <2>2
  <2>4. \A h : h = [fs EXCEPT ![Len(fs)].writes = @ \cup {x}] =>
          /\ h \in Seq(Frame) /\ Len(h) = Len(fs)
          /\ \A i \in 1..Len(fs) : h[i].of = fs[i].of
          /\ \A i \in 1..(Len(fs) - 1) : h[i].writes = fs[i].writes
          /\ h[Len(fs)].writes = fs[Len(fs)].writes \cup {x}
    BY <2>3, WrittenOnTop
  <2>5. PICK g : g = sub'.frames
    OBVIOUS
  <2>6. g = [fs EXCEPT ![Len(fs)].writes = @ \cup {x}]
    BY <1>f, <2>1, <2>2, <2>5
  <2>7. /\ g \in Seq(Frame) /\ Len(g) = Len(fs)
        /\ \A i \in 1..Len(fs) : g[i].of = fs[i].of
        /\ \A i \in 1..(Len(fs) - 1) : g[i].writes = fs[i].writes
        /\ g[Len(fs)].writes = fs[Len(fs)].writes \cup {x}
    BY <2>4, <2>6, Zenon
  <2> QED BY <2>1, <2>2, <2>5, <2>7, Zenon
<1>F. sub'.frames \in Seq(Frame)
  BY <1>w
<1>3. /\ DOMAIN sub'.frames = 1..n
      /\ \A i \in 1..n : sub'.frames[i].of = sub.frames[i].of
      /\ \A i \in 1..(n - 1) : sub'.frames[i].writes = sub.frames[i].writes
      /\ sub'.frames[n].writes = sub.frames[n].writes \cup {<<k, m>>}
  <2>1. DOMAIN sub'.frames = 1..Len(sub'.frames)
    BY <1>F
  <2> QED BY <1>t, <1>w, <2>1, Zenon
<1>4. Alive' = Alive /\ Active' = Active /\ \A j \in Objects : Innermost(j)' <=> Innermost(j)
  BY <1>s DEF Alive, Active, Innermost, Children
<1>6. SubTypeOK'
  <2>1. sub'.wrote \in [Objects -> 0..MaxWrites]
    BY <1>T, <1>g
  <2> QED BY <1>0, <1>F, <1>e, <1>s, <2>1 DEF SubTypeOK, Frame
<1>7. Scopes'
  <2>1. ~ Unborn(k)
    BY <1>T DEF Unborn, Active, Alive
  <2>2. \A j \in Objects : Unborn(j)' <=> Unborn(j)
    BY <1>s DEF Unborn
  <2>3. \A j \in Objects : ~ Unborn(sub.parent[j])'
    BY <1>0, <1>s DEF Scopes, Unborn
  <2>4. ~ Unborn(0)'
    BY <1>0, <1>s DEF Scopes, Unborn
  <2> QED BY <1>0, <1>2, <1>4, <1>s, <2>1, <2>2, <2>3, <2>4 DEF Scopes
<1>8. Rooted' /\ Owners(own)'
  BY <1>0, <1>4, <1>s DEF Rooted, Owners, Unborn
<1>9. Block'
  <2>1. \A j \in Alive : Children(j)' = Children(j)
    BY <1>4, <1>s DEF Children
  <2>2. sub.st # "idle"
    BY <1>0 DEF Block
  <2> QED BY <1>0, <1>4, <1>s, <2>1, <2>2 DEF Block, Unborn
<1>10. Places(pos)'
  <2>1. \A j \in Active : pos[j] \in 1..n /\ sub'.frames[pos[j]].of = j
    BY <1>0, <1>3, <1>t DEF Places
  <2>2. \A i, j \in 1..n : sub'.frames[i].of = sub'.frames[j].of => i = j
    <3>1. \A i, j \in 1..n : sub.frames[i].of = sub.frames[j].of => i = j
      BY <1>0, <1>t DEF Places
    <3> QED BY <1>3, <3>1, Zenon
  <2>3. \A i \in 1..n : sub'.life[sub'.frames[i].of] # "unborn"
    BY <1>0, <1>3, <1>s, <1>t DEF Places, Unborn
  <2> QED BY <1>0, <1>3, <1>4, <1>s, <2>1, <2>2, <2>3 DEF Places, Unborn
<1>11. \A b \in Active : pos[b] <= pos[k]
  <2> SUFFICES ASSUME NEW b \in Active, b # k PROVE pos[b] <= pos[k]
    BY <1>T
  <2>1. k # 0 /\ pos[b] <= pos[sub.parent[k]]
    BY <1>0, <1>T DEF Places
  <2>2. pos[sub.parent[k]] < pos[k]
    BY <1>0, <2>1 DEF Places
  <2>3. sub.parent[k] \in Objects
    BY <1>0, <1>T DEF SubTypeOK
  <2> QED BY <1>T, <2>1, <2>2, <2>3
<1>12. Between(own, pos)'
  <2> SUFFICES ASSUME NEW i \in DOMAIN sub'.frames, NEW x \in sub'.frames[i].writes
               PROVE  /\ x[2] <= sub'.wrote[x[1]]
                      /\ own[x[1]] \in Active' /\ pos[own[x[1]]] <= i
                      /\ \A b \in Active' : pos[b] <= i => pos[b] <= pos[own[x[1]]]
    BY DEF Between
  <2>0. i \in 1..n
    BY <1>3
  <2>1. x \in sub.frames[i].writes \/ (i = n /\ x = <<k, m>>)
    <3>1. i \in 1..(n - 1) \/ i = n
      BY <2>0
    <3> QED BY <1>3, <3>1
  <2>2. CASE x \in sub.frames[i].writes
    <3>1. /\ x[2] <= sub.wrote[x[1]]
          /\ own[x[1]] \in Active /\ pos[own[x[1]]] <= i
          /\ \A b \in Active : pos[b] <= i => pos[b] <= pos[own[x[1]]]
      BY <1>0, <1>t, <2>0, <2>2 DEF Between
    <3>2. x[1] \in Objects /\ x[2] \in 1..MaxWrites
      <4>1. sub.frames[i] \in Frame
        BY <1>T, <1>t, <2>0, ElementOfSeq
      <4> QED BY <2>2, <4>1 DEF Frame
    <3>3. x[2] <= sub'.wrote[x[1]]
      <4>1. x[2] <= m - 1 => x[2] <= m
        BY <1>2, <3>2
      <4> QED BY <1>2, <3>1, <3>2, <4>1
    <3> QED BY <1>4, <3>1, <3>3
  <2>3. CASE i = n /\ x = <<k, m>>
    <3>1. own[k] = k
      BY <1>0 DEF Owners
    <3>2. x[1] = k /\ x[2] = m
      BY <2>3
    <3>3. m <= sub'.wrote[k]
      BY <1>2, <1>m, <1>T
    <3> QED BY <1>4, <1>11, <1>n, <2>3, <3>1, <3>2, <3>3
  <2> QED BY <2>1, <2>2, <2>3
<1>13. Present(own)'
  <2> SUFFICES ASSUME NEW j \in Objects, own[j] # -1, NEW c \in 1..sub'.wrote[j]
               PROVE  \E i \in DOMAIN sub'.frames : <<j, c>> \in sub'.frames[i].writes
    BY DEF Present
  <2>1. CASE c \in 1..sub.wrote[j]
    <3>1. sub.st # "idle"
      BY <1>0 DEF Block
    <3>2. PICK i \in 1..n : <<j, c>> \in sub.frames[i].writes
      BY <1>0, <1>t, <2>1, <3>1 DEF Present
    <3>3. <<j, c>> \in sub'.frames[i].writes
      <4>1. i \in 1..(n - 1) \/ i = n
        OBVIOUS
      <4> QED BY <1>3, <3>2, <4>1
    <3> QED BY <1>3, <3>3
  <2>2. CASE c \notin 1..sub.wrote[j]
    <3>1. j = k /\ c = m
      BY <1>2, <1>m, <1>T, <2>2, SubAssumption
    <3> QED BY <1>3, <1>n, <3>1
  <2> QED BY <2>1, <2>2
<1>14. Durable(own)'
  <2>1. sub.status[0] # "committed"
    BY <1>0 DEF Block
  <2> QED BY <1>0, <1>s, <2>1 DEF Durable
<1>15. Sound(own, pos)'
  BY <1>6, <1>7, <1>8, <1>9, <1>10, <1>12, <1>13, <1>14 DEF Sound
<1> QED BY <1>15 DEF SubInv

\* An exception out of exec(): the block has failed, and only the innermost object knows.
LEMMA ThrowKeeps ==
  ASSUME NEW own \in [Objects -> Objects \cup {-1}], NEW pos \in [Objects -> Nat],
         Sound(own, pos), NEW k \in Active, Innermost(k), sub.st = "block"
  PROVE  sub' = Tell(Error(sub), k) => SubInv'
<1>h. SUFFICES ASSUME sub' = Tell(Error(sub), k) PROVE SubInv'
  OBVIOUS
<1>0. /\ SubTypeOK /\ Scopes /\ Rooted /\ Block /\ Places(pos) /\ Owners(own)
      /\ Between(own, pos) /\ Present(own) /\ Durable(own)
  BY DEF Sound
<1>T. /\ sub.told \in [Objects -> BOOLEAN] /\ k \in Objects
      /\ Alive \subseteq Objects /\ Active \subseteq Alive
  BY <1>0 DEF SubTypeOK, Alive, Active
<1>e. sub' = [sub EXCEPT !.st = "failed", !.told[k] = TRUE]
  BY <1>0, <1>h DEF Tell, Error, SubTypeOK
<1>s. /\ sub'.life = sub.life /\ sub'.parent = sub.parent /\ sub'.status = sub.status
      /\ sub'.wrote = sub.wrote /\ sub'.frames = sub.frames /\ sub'.durable = sub.durable
      /\ sub'.st = "failed" /\ sub'.told = [sub.told EXCEPT ![k] = TRUE]
  BY <1>0, <1>e DEF SubTypeOK
<1>1. \A j \in Objects : sub'.told[j] <=> (j = k \/ sub.told[j])
  BY <1>s, <1>T
<1>4. /\ Alive' = Alive /\ Active' = Active
      /\ \A j \in Objects : (Innermost(j)' <=> Innermost(j)) /\ (Unborn(j)' <=> Unborn(j))
  BY <1>s DEF Alive, Active, Innermost, Children, Unborn
<1>6. SubTypeOK'
  <2>1. sub'.told \in [Objects -> BOOLEAN]
    BY <1>T, <1>s
  <2> QED BY <1>0, <1>e, <1>s, <2>1 DEF SubTypeOK
<1>7. Scopes' /\ Rooted' /\ Owners(own)'
  BY <1>0, <1>4, <1>s DEF Scopes, Unborn, Rooted, Owners
<1>8. Places(pos)'
  BY <1>0, <1>4, <1>s DEF Places, Unborn
<1>9. Block'
  <2>1. \A j \in Alive' : sub'.told[j] => j = k
    BY <1>0, <1>1, <1>4, <1>T DEF Block
  <2>2. k \in Active' /\ Children(k)' = {} /\ sub'.told[k]
    BY <1>1, <1>4, <1>T DEF Innermost
  <2>3. \A j \in Objects : Unborn(j)' => ~ sub'.told[j]
    BY <1>0, <1>1, <1>4, <1>T DEF Block, Unborn, Active, Alive
  <2>4. sub'.status[0] = "active"
    BY <1>0, <1>s DEF Block
  <2> QED BY <1>s, <2>1, <2>2, <2>3, <2>4 DEF Block
<1>10. Between(own, pos)' /\ Present(own)' /\ Durable(own)'
  BY <1>0, <1>4, <1>s DEF Between, Present, Durable, Kept
<1>11. Sound(own, pos)'
  BY <1>6, <1>7, <1>8, <1>9, <1>10 DEF Sound
<1> QED BY <1>11 DEF SubInv

\* A savepoint is found in the frames alone.
LEMMA FoundInFrames ==
  ASSUME NEW own, NEW pos, Sound(own, pos), NEW k \in Active,
         NEW s, s.frames = sub.frames, s.st = sub.st
  PROVE  FrameOf(s, k) = pos[k] /\ Knows(s, k)
<1>1. FrameOf(s, k) = FrameOf(sub, k)
  BY DEF FrameOf, SelectLastInSeq
<1>2. FrameOf(sub, k) = pos[k]
  BY FrameIsPlace
<1>3. SubtransactionsKept
  BY SoundIsKept
<1>4. Knows(sub, k)
  BY <1>3 DEF SubtransactionsKept, SavepointsNested
<1> QED BY <1>1, <1>2, <1>4 DEF Knows

\* A program that goes on with an object after it has ended has not been told of an
\* exception.
LEMMA BlockAtEnd ==
  ASSUME NEW own, NEW pos \in [Objects -> Nat], Sound(own, pos),
         NEW k \in Alive, Innermost(k), NEW L \in {"live", "dead"},
         L = "live" => ~ sub.told[k],
         Alive' = IF L = "live" THEN Alive ELSE Alive \ {k}, sub'.told = sub.told
  PROVE  \A j \in Alive' : ~ sub'.told[j]
<1> SUFFICES ASSUME NEW j \in Alive', sub.told[j] PROVE FALSE
  OBVIOUS
<1>0. Scopes /\ Block
  BY DEF Sound
<1>1. j \in Alive /\ Innermost(j) /\ j \in Objects /\ k \in Objects
  BY <1>0 DEF Block, Innermost, Alive
<1>2. j = k
  BY <1>0, <1>1 DEF Scopes
<1> QED BY <1>2

\* abort() of a subtransaction: its writes and those left to it are forgotten, and
\* nobody else's.
LEMMA RollbackKeeps ==
  ASSUME NEW own \in [Objects -> Objects \cup {-1}], NEW pos \in [Objects -> Nat],
         Sound(own, pos), NEW k \in Active, k # 0, Innermost(k), NEW L \in {"live", "dead"},
         L = "live" => ~ sub.told[k]
  PROVE  sub' = DoAbort([sub EXCEPT !.life[k] = L], k) => SubInv'
<1>h. SUFFICES ASSUME sub' = DoAbort([sub EXCEPT !.life[k] = L], k) PROVE SubInv'
  OBVIOUS
<1>0. /\ SubTypeOK /\ Scopes /\ Rooted /\ Block /\ Places(pos) /\ Owners(own)
      /\ Between(own, pos) /\ Present(own) /\ Durable(own)
  BY DEF Sound
<1>T. /\ sub.life \in [Objects -> {"unborn", "live", "dead"}]
      /\ sub.status \in [Objects -> SubStatuses] /\ sub.frames \in Seq(Frame)
      /\ sub.parent \in [Objects -> Objects]
      /\ Alive \subseteq Objects /\ Active \subseteq Alive /\ k \in Objects
  BY <1>0 DEF SubTypeOK, Frame, Alive, Active
<1>t. PICK n \in Nat : n = Len(sub.frames) /\ DOMAIN sub.frames = 1..n
  BY <1>T
<1>c. PICK c \in 1..n : c = pos[k]
  BY <1>0, <1>t DEF Places
<1>e. sub' = [sub EXCEPT !.life[k] = L, !.status[k] = "aborted", !.st = "block",
                         !.frames = Append(SubSeq(@, 1, c - 1), [of |-> k, writes |-> {}])]
  <2>1. PICK s : s = [sub EXCEPT !.life[k] = L, !.status[k] = "aborted"]
    OBVIOUS
  <2>2. s.frames = sub.frames /\ s.st = sub.st
    BY <1>0, <2>1 DEF SubTypeOK
  <2>3. FrameOf(s, k) = c /\ Knows(s, k)
    BY <1>c, <2>2, FoundInFrames
  <2>4. sub' = RollbackTo(s, k)
    <3>1. SetStatus([sub EXCEPT !.life[k] = L], k, "aborted") = s
      BY <1>0, <2>1 DEF SubTypeOK, SetStatus
    <3> QED BY <1>h, <2>3, <3>1 DEF DoAbort, RollbackCmd
  <2>5. sub' = [s EXCEPT !.st = "block",
                         !.frames = Append(SubSeq(@, 1, c - 1), [of |-> k, writes |-> {}])]
    BY <2>3, <2>4 DEF RollbackTo
  <2> QED BY <1>0, <2>1, <2>5 DEF SubTypeOK
<1>f. sub'.frames = Append(SubSeq(sub.frames, 1, c - 1), [of |-> k, writes |-> {}])
  BY <1>0, <1>e DEF SubTypeOK
<1>g. /\ sub'.life = [sub.life EXCEPT ![k] = L]
      /\ sub'.status = [sub.status EXCEPT ![k] = "aborted"]
  BY <1>0, <1>e DEF SubTypeOK
<1>s. /\ sub'.parent = sub.parent /\ sub'.wrote = sub.wrote
      /\ sub'.told = sub.told /\ sub'.st = "block" /\ sub'.durable = sub.durable
  BY <1>0, <1>e DEF SubTypeOK
<1>w. /\ sub'.frames \in Seq(Frame) /\ Len(sub'.frames) = c
      /\ \A i \in 1..(c - 1) : sub'.frames[i] = sub.frames[i]
      /\ sub'.frames[c].of = k /\ sub'.frames[c].writes = {}
  <2>1. PICK fs \in Seq(Frame) : fs = sub.frames
    BY <1>T
  <2>2. c \in 1..Len(fs) /\ k \in Objects
    BY <1>t, <1>T, <2>1
  <2>3. PICK g : g = RolledBack(fs, k, c)
    OBVIOUS
  <2>4. /\ g \in Seq(Frame) /\ Len(g) = c
        /\ \A i \in 1..(c - 1) : g[i] = fs[i]
        /\ g[c].of = k /\ g[c].writes = {}
    BY <2>2, <2>3, RolledBackTo
  <2>5. sub'.frames = g
    BY <1>f, <2>1, <2>3 DEF RolledBack
  <2> QED BY <2>1, <2>4, <2>5, Zenon
<1>F. sub'.frames \in Seq(Frame) /\ DOMAIN sub'.frames = 1..c
  BY <1>w
<1>1. /\ Scopes' /\ Rooted' /\ Active' = Active \ {k}
      /\ Alive' = IF L = "live" THEN Alive ELSE Alive \ {k}
      /\ \A j \in Objects : Unborn(j)' <=> Unborn(j)
      /\ \A j \in Objects : Innermost(j)' =>
           \A b \in Active' \ {j} : j # 0 /\ pos[b] <= pos[sub.parent[j]]
  <2>1. PICK x \in {"aborted", "committed"} : x = "aborted"
    OBVIOUS
  <2>2. sub'.status = [sub.status EXCEPT ![k] = x]
    BY <1>g, <2>1
  <2>3. k \in Alive
    BY <1>T
  <2> QED BY <1>g, <1>s, <2>2, <2>3, ScopesAtEnd, ZenonT(40)
<1>2. \A j \in Objects : sub'.status[j] = IF j = k THEN "aborted" ELSE sub.status[j]
  BY <1>T, <1>g
<1>3. \A b \in Active' : b \in Active /\ b # k /\ b \in Objects /\ pos[b] \in 1..(c - 1)
  <2> SUFFICES ASSUME NEW b \in Active \ {k} PROVE pos[b] \in 1..(c - 1)
    BY <1>1, <1>T
  <2>1. pos[b] <= pos[sub.parent[k]] /\ pos[sub.parent[k]] < pos[k]
    BY <1>0, <1>T DEF Places
  <2>2. pos[b] \in 1..n /\ pos[sub.parent[k]] \in Nat
    BY <1>0, <1>t, <1>T DEF Places
  <2> QED BY <1>c, <2>1, <2>2
<1>4. SubTypeOK'
  <2>1. /\ sub'.life \in [Objects -> {"unborn", "live", "dead"}]
        /\ sub'.status \in [Objects -> SubStatuses]
    BY <1>T, <1>g DEF SubStatuses
  <2> QED BY <1>0, <1>F, <1>e, <1>s, <2>1 DEF SubTypeOK, Frame
<1>5. Block'
  <2>1. \A j \in Alive' : ~ sub'.told[j]
    BY <1>1, <1>s, <1>T, BlockAtEnd
  <2>2. sub'.status[0] = "active"
    <3>1. sub.status[0] = "active"
      BY <1>0 DEF Block
    <3> QED BY <1>2, <3>1, SubAssumption DEF Objects
  <2>3. \A j \in Objects : Unborn(j)' => ~ sub'.told[j]
    BY <1>0, <1>1, <1>s DEF Block
  <2> QED BY <1>s, <2>1, <2>2, <2>3 DEF Block
<1>6. Places(pos)'
  <2>1. 0 \in Active' => pos[0] = 1
    BY <1>0, <1>3 DEF Places
  <2>2. \A b \in Active' : pos[b] \in 1..c /\ sub'.frames[pos[b]].of = b
    <3>1. \A b \in Active : sub.frames[pos[b]].of = b
      BY <1>0 DEF Places
    <3>2. \A i \in 1..(c - 1) : i \in 1..c
      OBVIOUS
    <3> QED BY <1>3, <1>w, <3>1, <3>2
  <2>3. \A i \in 1..c : sub'.frames[i].of = sub.frames[i].of /\ i \in 1..n
    <3>1. sub.frames[c].of = k
      BY <1>0, <1>c DEF Places
    <3>2. \A i \in 1..c : i \in 1..n /\ (i \in 1..(c - 1) \/ i = c)
      OBVIOUS
    <3> QED BY <1>w, <3>1, <3>2
  <2>4. \A i, j \in 1..c : sub'.frames[i].of = sub'.frames[j].of => i = j
    <3>1. \A i, j \in 1..n : sub.frames[i].of = sub.frames[j].of => i = j
      BY <1>0, <1>t DEF Places
    <3> QED BY <2>3, <3>1
  <2>5. \A i \in 1..c : ~ Unborn(sub.frames[i].of)'
    <3> SUFFICES ASSUME NEW i \in 1..c PROVE sub'.life[sub'.frames[i].of] # "unborn"
      BY DEF Unborn
    <3>1. ~ Unborn(sub.frames[i].of)
      BY <1>0, <1>t, <2>3 DEF Places
    <3>2. sub'.frames[i] \in Frame
      BY <1>w, ElementOfSeq
    <3>3. PICK j \in Objects : j = sub'.frames[i].of
      BY <3>2 DEF Frame
    <3>4. ~ Unborn(j)
      BY <2>3, <3>1, <3>3
    <3> QED BY <1>1, <3>3, <3>4 DEF Unborn
  <2>6. \A a \in Active' \ {0} :
          /\ pos[sub'.parent[a]] < pos[a]
          /\ \A b \in Active' : pos[b] <= pos[sub'.parent[a]] \/ pos[a] <= pos[b]
    BY <1>0, <1>3, <1>s DEF Places
  <2> QED BY <1>1, <1>F, <1>s, <2>1, <2>2, <2>4, <2>5, <2>6 DEF Places
<1>o. PICK o \in [Objects -> Objects \cup {-1}] :
        o = [j \in Objects |-> IF own[j] = k THEN -1 ELSE own[j]]
  <2>1. [j \in Objects |-> IF own[j] = k THEN -1 ELSE own[j]] \in [Objects -> Objects \cup {-1}]
    OBVIOUS
  <2> QED BY <2>1
<1>v. \A j \in Objects : o[j] = IF own[j] = k THEN -1 ELSE own[j]
  BY <1>o
<1>n. -1 \notin Objects
  BY DEF Objects
<1>7. Owners(o)'
  <2>1. \A b \in Active' : o[b] = b
    BY <1>0, <1>3, <1>v DEF Owners
  <2>2. \A j \in Objects : Unborn(j)' \/ sub'.status[j] = "aborted" => o[j] = -1
    <3>1. own[k] = k
      BY <1>0 DEF Owners
    <3> QED BY <1>0, <1>1, <1>2, <1>v, <3>1 DEF Owners
  <2>3. \A j \in Objects \ {0} : sub'.status[j] = "committed" => o[j] = o[sub'.parent[j]]
    <3> SUFFICES ASSUME NEW j \in Objects \ {0}, sub'.status[j] = "committed"
                 PROVE  o[j] = o[sub.parent[j]]
      BY <1>s
    <3>1. own[j] = own[sub.parent[j]]
      BY <1>0, <1>2 DEF Owners
    <3> QED BY <1>T, <1>v, <3>1
  <2>4. \A j \in Objects : o[j] # -1 =>
          o[j] \in Active' \/ (o[j] = 0 /\ sub'.status[0] = "committed")
    <3>1. sub'.status[0] = sub.status[0]
      BY <1>2, SubAssumption DEF Objects
    <3> QED BY <1>0, <1>1, <1>v, <3>1 DEF Owners
  <2>5. sub'.status[0] # "committed"
    <3>1. sub.status[0] = "active"
      BY <1>0 DEF Block
    <3> QED BY <1>2, <3>1, SubAssumption DEF Objects
  <2> QED BY <2>1, <2>2, <2>3, <2>4, <2>5 DEF Owners
<1>8. Between(o, pos)'
  <2> SUFFICES ASSUME NEW i \in DOMAIN sub'.frames, NEW x \in sub'.frames[i].writes
               PROVE  /\ x[2] <= sub'.wrote[x[1]]
                      /\ o[x[1]] \in Active' /\ pos[o[x[1]]] <= i
                      /\ \A b \in Active' : pos[b] <= i => pos[b] <= pos[o[x[1]]]
    BY DEF Between
  <2>1. i \in 1..(c - 1) /\ i \in 1..n /\ x \in sub.frames[i].writes
    <3>1. i \in 1..(c - 1) \/ i = c
      BY <1>F
    <3> QED BY <1>w, <3>1
  <2>2. /\ x[2] <= sub.wrote[x[1]]
        /\ own[x[1]] \in Active /\ pos[own[x[1]]] <= i
        /\ \A b \in Active : pos[b] <= i => pos[b] <= pos[own[x[1]]]
    BY <1>0, <1>t, <2>1 DEF Between
  <2>3. x[1] \in Objects
    <3>1. sub.frames[i] \in Frame
      BY <1>T, <1>t, <2>1, ElementOfSeq
    <3> QED BY <2>1, <3>1 DEF Frame
  <2>4. own[x[1]] # k
    BY <1>c, <2>1, <2>2
  <2>5. o[x[1]] = own[x[1]]
    BY <1>v, <2>3, <2>4
  <2> QED BY <1>1, <1>s, <2>2, <2>4, <2>5
<1>9. Present(o)'
  <2> SUFFICES ASSUME NEW j \in Objects, o[j] # -1, NEW m \in 1..sub'.wrote[j]
               PROVE  \E i \in DOMAIN sub'.frames : <<j, m>> \in sub'.frames[i].writes
    BY DEF Present
  <2>1. own[j] # -1 /\ own[j] # k
    BY <1>v
  <2>2. sub.st # "idle"
    BY <1>0 DEF Block
  <2>3. PICK i \in 1..n : <<j, m>> \in sub.frames[i].writes
    BY <1>0, <1>s, <1>t, <2>1, <2>2 DEF Present
  <2>4. /\ own[j] \in Active
        /\ \A b \in Active : pos[b] <= i => pos[b] <= pos[own[j]]
    BY <1>0, <1>t, <2>3 DEF Between
  <2>5. pos[own[j]] \in 1..(c - 1)
    BY <1>1, <1>3, <2>1, <2>4
  <2>6. i \in 1..(c - 1)
    <3>1. ~ (c <= i)
      BY <1>c, <2>4, <2>5
    <3> QED BY <3>1
  <2>7. i \in DOMAIN sub'.frames
    BY <1>F, <2>6
  <2> QED BY <1>w, <2>3, <2>6, <2>7
<1>10. Durable(o)'
  <2>1. sub.status[0] = "active"
    BY <1>0 DEF Block
  <2>2. sub'.status[0] # "committed"
    BY <1>2, <2>1, SubAssumption DEF Objects
  <2> QED BY <1>0, <1>s, <2>1, <2>2 DEF Durable
<1>11. Sound(o, pos)'
  BY <1>1, <1>4, <1>5, <1>6, <1>7, <1>8, <1>9, <1>10 DEF Sound
<1> QED BY <1>11 DEF SubInv
\* commit() of a subtransaction: its writes and those left to it are its parent's.
LEMMA ReleaseKeeps ==
  ASSUME NEW own \in [Objects -> Objects \cup {-1}], NEW pos \in [Objects -> Nat],
         Sound(own, pos), NEW k \in Active, k # 0, Innermost(k), ~ sub.told[k],
         sub.st = "block"
  PROVE  sub' = Release(SetStatus(sub, k, "committed"), k) => SubInv'
<1>h. SUFFICES ASSUME sub' = Release(SetStatus(sub, k, "committed"), k) PROVE SubInv'
  OBVIOUS
<1>0. /\ SubTypeOK /\ Scopes /\ Rooted /\ Block /\ Places(pos) /\ Owners(own)
      /\ Between(own, pos) /\ Present(own) /\ Durable(own)
  BY DEF Sound
<1>T. /\ sub.life \in [Objects -> {"unborn", "live", "dead"}]
      /\ sub.status \in [Objects -> SubStatuses] /\ sub.frames \in Seq(Frame)
      /\ sub.parent \in [Objects -> Objects]
      /\ Alive \subseteq Objects /\ Active \subseteq Alive /\ k \in Objects
  BY <1>0 DEF SubTypeOK, Frame, Alive, Active
<1>t. PICK n \in Nat : n = Len(sub.frames) /\ DOMAIN sub.frames = 1..n
  BY <1>T
<1>c. PICK c \in 2..n : c = pos[k]
  <2>1. sub.parent[k] \in Active /\ pos[sub.parent[k]] < pos[k]
    BY <1>0, <1>T DEF Scopes, Places
  <2>2. pos[sub.parent[k]] \in 1..n /\ pos[k] \in 1..n
    BY <1>0, <1>t, <2>1 DEF Places
  <2> QED BY <2>1, <2>2
<1>e. sub' = [sub EXCEPT !.status[k] = "committed", !.frames = Released(@, c)]
  <2>1. PICK s : s = SetStatus(sub, k, "committed")
    OBVIOUS
  <2>2. s.frames = sub.frames /\ s.st = sub.st
    BY <1>0, <2>1 DEF SubTypeOK, SetStatus
  <2>3. FrameOf(s, k) = c
    BY <1>c, <2>2, FoundInFrames
  <2>4. sub' = [s EXCEPT !.frames = Released(@, c)]
    BY <1>h, <2>1, <2>3 DEF Release
  <2> QED BY <1>0, <2>1, <2>4 DEF SubTypeOK, SetStatus
<1>f. sub'.frames = Released(sub.frames, c)
  BY <1>0, <1>e DEF SubTypeOK
<1>g. sub'.status = [sub.status EXCEPT ![k] = "committed"]
  BY <1>0, <1>e DEF SubTypeOK
<1>s. /\ sub'.life = sub.life /\ sub'.parent = sub.parent /\ sub'.wrote = sub.wrote
      /\ sub'.told = sub.told /\ sub'.st = "block" /\ sub'.durable = sub.durable
  BY <1>0, <1>e DEF SubTypeOK
<1>w. /\ sub'.frames \in Seq(Frame) /\ Len(sub'.frames) = c - 1
      /\ \A i \in 1..(c - 1) : sub'.frames[i].of = sub.frames[i].of
      /\ \A i \in 1..(c - 2) : sub'.frames[i].writes = sub.frames[i].writes
      /\ \A x : x \in sub'.frames[c - 1].writes
                  <=> \E i \in (c - 1)..n : x \in sub.frames[i].writes
  <2>1. PICK fs \in Seq(Frame) : fs = sub.frames
    BY <1>T
  <2>2. Len(fs) = n /\ c \in 2..Len(fs)
    BY <1>t, <2>1
  <2>3. PICK g : g = Released(fs, c)
    OBVIOUS
  <2>4. /\ g \in Seq(Frame) /\ Len(g) = c - 1
        /\ \A i \in 1..(c - 1) : g[i].of = fs[i].of
        /\ \A i \in 1..(c - 2) : g[i].writes = fs[i].writes
        /\ \A x : x \in g[c - 1].writes <=> \E i \in (c - 1)..Len(fs) : x \in fs[i].writes
    BY <2>2, <2>3, ReleasedInto
  <2>5. sub'.frames = g
    BY <1>f, <2>1, <2>3
  <2> QED BY <2>1, <2>2, <2>4, <2>5, Zenon
<1>F. sub'.frames \in Seq(Frame) /\ DOMAIN sub'.frames = 1..(c - 1) /\ c - 1 \in 1..n
  BY <1>w
<1>1. /\ Scopes' /\ Rooted' /\ Active' = Active \ {k} /\ Alive' = Alive
      /\ \A j \in Objects : Unborn(j)' <=> Unborn(j)
      /\ \A j \in Objects : Innermost(j)' =>
           \A b \in Active' \ {j} : j # 0 /\ pos[b] <= pos[sub.parent[j]]
  <2>1. PICK x \in {"aborted", "committed"}, L \in {"live", "dead"} :
          x = "committed" /\ L = "live"
    OBVIOUS
  <2>2. sub.life[k] = "live"
    BY DEF Active, Alive
  <2>3. sub'.life = [sub.life EXCEPT ![k] = L] /\ sub'.status = [sub.status EXCEPT ![k] = x]
    BY <1>g, <1>s, <1>T, <2>1, <2>2
  <2>4. k \in Alive
    BY <1>T
  <2>5. /\ Scopes' /\ Rooted' /\ Active' = Active \ {k}
        /\ Alive' = IF L = "live" THEN Alive ELSE Alive \ {k}
        /\ \A j \in Objects : Unborn(j)' <=> Unborn(j)
        /\ \A j \in Objects : Innermost(j)' =>
             \A b \in Active' \ {j} : j # 0 /\ pos[b] <= pos[sub.parent[j]]
    <3>1. sub'.parent = sub.parent /\ sub'.wrote = sub.wrote
      BY <1>s
    <3> QED BY <2>3, <2>4, <3>1, ScopesAtEnd
  <2> QED BY <2>1, <2>5
<1>2. \A j \in Objects : sub'.status[j] = IF j = k THEN "committed" ELSE sub.status[j]
  BY <1>T, <1>g
<1>p. PICK p \in Active : p = sub.parent[k] /\ p # k /\ p \in Objects
  BY <1>0, <1>T DEF Scopes
<1>3. /\ pos[p] \in 1..(c - 1)
      /\ \A b \in Active' : /\ b \in Active /\ b # k /\ b \in Objects
                            /\ pos[b] \in 1..(c - 1) /\ pos[b] <= pos[p]
  <2>1. pos[p] \in 1..n /\ pos[p] < pos[k]
    BY <1>0, <1>t, <1>p, <1>T DEF Places
  <2> SUFFICES ASSUME NEW b \in Active \ {k} PROVE pos[b] \in 1..(c - 1) /\ pos[b] <= pos[p]
    BY <1>1, <1>T, <1>c, <2>1
  <2>2. pos[b] <= pos[p]
    BY <1>0, <1>p, <1>T DEF Places
  <2>3. pos[b] \in 1..n
    BY <1>0, <1>t DEF Places
  <2> QED BY <1>c, <2>1, <2>2, <2>3
<1>4. SubTypeOK'
  <2>1. sub'.status \in [Objects -> SubStatuses]
    BY <1>T, <1>g DEF SubStatuses
  <2> QED BY <1>0, <1>F, <1>e, <1>s, <2>1 DEF SubTypeOK, Frame
<1>5. Block'
  <2>1. \A j \in Alive' : ~ sub'.told[j]
    <3>1. PICK L \in {"live", "dead"} : L = "live"
      OBVIOUS
    <3>2. L = "live" => ~ sub.told[k]
      OBVIOUS
    <3>3. k \in Alive /\ Alive' = IF L = "live" THEN Alive ELSE Alive \ {k}
      BY <1>1, <1>T, <3>1
    <3> QED BY <1>s, <3>2, <3>3, BlockAtEnd
  <2>2. sub'.status[0] = "active"
    <3>1. sub.status[0] = "active"
      BY <1>0 DEF Block
    <3> QED BY <1>2, <3>1, SubAssumption DEF Objects
  <2>3. \A j \in Objects : Unborn(j)' => ~ sub'.told[j]
    BY <1>0, <1>1, <1>s DEF Block
  <2> QED BY <1>s, <2>1, <2>2, <2>3 DEF Block
<1>6. Places(pos)'
  <2>1. 0 \in Active' => pos[0] = 1
    BY <1>0, <1>3 DEF Places
  <2>2. \A b \in Active' : pos[b] \in 1..(c - 1) /\ sub'.frames[pos[b]].of = b
    BY <1>0, <1>3, <1>w DEF Places
  <2>3. \A i \in 1..(c - 1) : i \in 1..n /\ sub'.frames[i].of = sub.frames[i].of
    BY <1>w
  <2>4. \A i, j \in 1..(c - 1) : sub'.frames[i].of = sub'.frames[j].of => i = j
    <3>1. \A i, j \in 1..n : sub.frames[i].of = sub.frames[j].of => i = j
      BY <1>0, <1>t DEF Places
    <3> QED BY <2>3, <3>1
  <2>5. \A i \in 1..(c - 1) : sub'.life[sub'.frames[i].of] # "unborn"
    BY <1>0, <1>s, <1>t, <2>3 DEF Places, Unborn
  <2>6. \A a \in Active' \ {0} :
          /\ pos[sub'.parent[a]] < pos[a]
          /\ \A b \in Active' : pos[b] <= pos[sub'.parent[a]] \/ pos[a] <= pos[b]
    BY <1>0, <1>3, <1>s DEF Places
  <2> QED BY <1>1, <1>F, <1>s, <2>1, <2>2, <2>4, <2>5, <2>6 DEF Places, Unborn
<1>o. PICK o \in [Objects -> Objects \cup {-1}] :
        o = [j \in Objects |-> IF own[j] = k THEN p ELSE own[j]]
  <2>1. [j \in Objects |-> IF own[j] = k THEN p ELSE own[j]] \in [Objects -> Objects \cup {-1}]
    BY <1>p
  <2> QED BY <2>1
<1>v. \A j \in Objects : o[j] = IF own[j] = k THEN p ELSE own[j]
  BY <1>o
<1>n. -1 \notin Objects
  BY DEF Objects
<1>a. p \in Active' /\ own[k] = k /\ own[p] = p
  BY <1>0, <1>1, <1>p DEF Owners
<1>7. Owners(o)'
  <2>1. \A b \in Active' : o[b] = b
    BY <1>0, <1>3, <1>v DEF Owners
  <2>2. \A j \in Objects : Unborn(j)' \/ sub'.status[j] = "aborted" => o[j] = -1
    BY <1>0, <1>1, <1>2, <1>a, <1>n, <1>T, <1>v, SMTT(30) DEF Owners
  <2>3. \A j \in Objects \ {0} : sub'.status[j] = "committed" => o[j] = o[sub'.parent[j]]
    <3> SUFFICES ASSUME NEW j \in Objects \ {0}, sub'.status[j] = "committed"
                 PROVE  o[j] = o[sub.parent[j]]
      BY <1>s
    <3>1. CASE j = k
      BY <1>a, <1>p, <1>T, <1>v, <3>1
    <3>2. CASE j # k
      <4>1. own[j] = own[sub.parent[j]]
        BY <1>0, <1>2, <3>2 DEF Owners
      <4> QED BY <1>T, <1>v, <4>1
    <3> QED BY <3>1, <3>2
  <2>4. \A j \in Objects : o[j] # -1 =>
          o[j] \in Active' \/ (o[j] = 0 /\ sub'.status[0] = "committed")
    <3>1. sub'.status[0] = sub.status[0]
      BY <1>2, SubAssumption DEF Objects
    <3> QED BY <1>0, <1>1, <1>a, <1>v, <3>1 DEF Owners
  <2>5. sub'.status[0] # "committed"
    <3>1. sub.status[0] = "active"
      BY <1>0 DEF Block
    <3> QED BY <1>2, <3>1, SubAssumption DEF Objects
  <2> QED BY <2>1, <2>2, <2>3, <2>4, <2>5 DEF Owners
<1>8. Between(o, pos)'
  <2> SUFFICES ASSUME NEW i \in 1..(c - 1), NEW x \in sub'.frames[i].writes
               PROVE  /\ x[2] <= sub.wrote[x[1]]
                      /\ o[x[1]] \in Active' /\ pos[o[x[1]]] <= i
                      /\ \A b \in Active' : pos[b] <= i => pos[b] <= pos[o[x[1]]]
    BY <1>F, <1>s DEF Between
  <2>1. PICK h \in 1..n : /\ x \in sub.frames[h].writes
                          /\ IF i = c - 1 THEN h >= i ELSE h = i
    <3>1. CASE i = c - 1
      <4>1. PICK h \in (c - 1)..n : x \in sub.frames[h].writes
        BY <1>w, <3>1
      <4>2. h \in 1..n /\ h >= i
        BY <3>1
      <4> QED BY <3>1, <4>1, <4>2
    <3>2. CASE i # c - 1
      <4>1. i \in 1..(c - 2) /\ i \in 1..n
        BY <3>2
      <4> QED BY <1>w, <3>2, <4>1
    <3> QED BY <3>1, <3>2
  <2>2. /\ x[2] <= sub.wrote[x[1]]
        /\ own[x[1]] \in Active /\ pos[own[x[1]]] <= h
        /\ \A b \in Active : pos[b] <= h => pos[b] <= pos[own[x[1]]]
    BY <1>0, <1>t, <2>1 DEF Between
  <2>3. x[1] \in Objects
    <3>1. sub.frames[h] \in Frame
      BY <1>T, <1>t, <2>1, ElementOfSeq
    <3> QED BY <2>1, <3>1 DEF Frame
  <2>4. CASE own[x[1]] = k
    <3>1. o[x[1]] = p
      BY <1>v, <2>3, <2>4
    <3>2. i = c - 1
      BY <1>c, <2>1, <2>2, <2>4
    <3> QED BY <1>3, <1>a, <2>2, <3>1, <3>2
  <2>5. CASE own[x[1]] # k
    <3>1. o[x[1]] = own[x[1]] /\ own[x[1]] \in Active'
      BY <1>1, <1>v, <2>2, <2>3, <2>5
    <3>2. pos[own[x[1]]] \in 1..(c - 1)
      BY <1>3, <3>1
    <3>3. pos[own[x[1]]] <= i
      BY <2>1, <2>2, <3>2
    <3>4. \A b \in Active' : pos[b] <= i => pos[b] <= pos[own[x[1]]]
      <4> SUFFICES ASSUME NEW b \in Active', pos[b] <= i PROVE pos[b] <= pos[own[x[1]]]
        OBVIOUS
      <4>1. b \in Active /\ pos[b] \in 1..(c - 1)
        BY <1>3
      <4>2. pos[b] <= h
        BY <2>1, <4>1
      <4> QED BY <2>2, <4>1, <4>2
    <3> QED BY <2>2, <3>1, <3>3, <3>4
  <2> QED BY <2>4, <2>5
<1>9. Present(o)'
  <2> SUFFICES ASSUME NEW j \in Objects, o[j] # -1, NEW m \in 1..sub'.wrote[j]
               PROVE  \E i \in DOMAIN sub'.frames : <<j, m>> \in sub'.frames[i].writes
    BY DEF Present
  <2>1. own[j] # -1
    BY <1>a, <1>n, <1>T, <1>v
  <2>2. PICK i \in 1..n : <<j, m>> \in sub.frames[i].writes
    BY <1>0, <1>s, <1>t, <2>1 DEF Present
  <2>3. CASE i \in 1..(c - 2)
    <3>1. i \in DOMAIN sub'.frames
      BY <1>F, <2>3
    <3> QED BY <1>w, <2>2, <2>3, <3>1
  <2>4. CASE i \in (c - 1)..n
    <3>1. c - 1 \in DOMAIN sub'.frames
      BY <1>F
    <3> QED BY <1>w, <2>2, <2>4, <3>1
  <2>5. i \in 1..(c - 2) \/ i \in (c - 1)..n
    OBVIOUS
  <2> QED BY <2>3, <2>4, <2>5
<1>10. Durable(o)'
  <2>1. sub.status[0] = "active"
    BY <1>0 DEF Block
  <2>2. sub'.status[0] # "committed"
    BY <1>2, <2>1, SubAssumption DEF Objects
  <2> QED BY <1>0, <1>s, <2>1, <2>2 DEF Durable
<1>11. Sound(o, pos)'
  BY <1>1, <1>4, <1>5, <1>6, <1>7, <1>8, <1>9, <1>10 DEF Sound
<1> QED BY <1>11 DEF SubInv

\* The end of the work ends the block, and what is kept is what was left to the work.
LEMMA WorkEndKeeps ==
  ASSUME NEW own \in [Objects -> Objects \cup {-1}], NEW pos \in [Objects -> Nat],
         Sound(own, pos), 0 \in Active, Innermost(0), NEW L \in {"live", "dead"},
         L = "live" => ~ sub.told[0], NEW x \in {"aborted", "committed"},
         NEW d, d = IF x = "committed" THEN Kept(own) ELSE {}
  PROVE  sub' = EndBlock(SetStatus([sub EXCEPT !.life[0] = L], 0, x), d) => SubInv'
<1>h. SUFFICES ASSUME sub' = EndBlock(SetStatus([sub EXCEPT !.life[0] = L], 0, x), d)
               PROVE  SubInv'
  OBVIOUS
<1>0. /\ SubTypeOK /\ Scopes /\ Rooted /\ Block /\ Places(pos) /\ Owners(own)
      /\ Between(own, pos) /\ Present(own) /\ Durable(own)
  BY DEF Sound
<1>T. /\ sub.life \in [Objects -> {"unborn", "live", "dead"}]
      /\ sub.status \in [Objects -> SubStatuses]
      /\ Alive \subseteq Objects /\ Active \subseteq Alive /\ 0 \in Objects
  BY <1>0 DEF SubTypeOK, Alive, Active
<1>e. sub' = [sub EXCEPT !.life[0] = L, !.status[0] = x, !.st = "idle", !.frames = <<>>,
                         !.durable = d]
  BY <1>0, <1>h DEF SubTypeOK, EndBlock, SetStatus
<1>g. /\ sub'.life = [sub.life EXCEPT ![0] = L]
      /\ sub'.status = [sub.status EXCEPT ![0] = x]
  BY <1>0, <1>e DEF SubTypeOK
<1>s. /\ sub'.parent = sub.parent /\ sub'.wrote = sub.wrote /\ sub'.told = sub.told
  BY <1>0, <1>e DEF SubTypeOK
<1>i. sub'.st = "idle" /\ sub'.frames = <<>> /\ sub'.durable = d
  BY <1>0, <1>e DEF SubTypeOK
<1>A. Active = {0}
  BY <1>0, <1>T DEF Places
<1>1. /\ Scopes' /\ Rooted' /\ Active' = {}
      /\ Alive' = IF L = "live" THEN Alive ELSE Alive \ {0}
      /\ \A j \in Objects : Unborn(j)' <=> Unborn(j)
      /\ \A j \in Objects : Innermost(j)' =>
           \A b \in Active' \ {j} : j # 0 /\ pos[b] <= pos[sub.parent[j]]
  <2>1. 0 \in Alive
    BY <1>T
  <2>2. /\ Scopes' /\ Rooted' /\ Active' = Active \ {0}
        /\ Alive' = IF L = "live" THEN Alive ELSE Alive \ {0}
        /\ \A j \in Objects : Unborn(j)' <=> Unborn(j)
        /\ \A j \in Objects : Innermost(j)' =>
             \A b \in Active' \ {j} : j # 0 /\ pos[b] <= pos[sub.parent[j]]
    BY <1>g, <1>s, <2>1, ScopesAtEnd
  <2> QED BY <1>A, <2>2
<1>2. \A j \in Objects : sub'.status[j] = IF j = 0 THEN x ELSE sub.status[j]
  BY <1>T, <1>g
<1>3. SubTypeOK'
  <2>1. /\ sub'.life \in [Objects -> {"unborn", "live", "dead"}]
        /\ sub'.status \in [Objects -> SubStatuses]
    BY <1>T, <1>g DEF SubStatuses
  <2>2. d \subseteq Objects \X (1..MaxWrites)
    BY DEF Kept
  <2>3. <<>> \in Seq(Frame)
    OBVIOUS
  <2> QED BY <1>0, <1>e, <1>i, <1>s, <2>1, <2>2, <2>3 DEF SubTypeOK, Frame
<1>4. Block'
  <2>1. \A j \in Alive' : ~ sub'.told[j]
    BY <1>1, <1>s, <1>T, BlockAtEnd
  <2>2. \A j \in Objects : Unborn(j)' => ~ sub'.told[j]
    BY <1>0, <1>1, <1>s DEF Block
  <2> QED BY <1>1, <1>i, <2>1, <2>2 DEF Block
<1>5. DOMAIN sub'.frames = {}
  BY <1>i
<1>6. Places(pos)'
  BY <1>1, <1>5, <1>s DEF Places
<1>a. sub.status[0] = "active" /\ own[0] = 0
  BY <1>0, <1>A DEF Active, Owners
<1>n. -1 \notin Objects
  BY DEF Objects
<1>o. PICK o \in [Objects -> Objects \cup {-1}] :
        \A j \in Objects : o[j] = IF x = "committed" THEN own[j] ELSE -1
  <2>1. [j \in Objects |-> IF x = "committed" THEN own[j] ELSE -1]
          \in [Objects -> Objects \cup {-1}]
    OBVIOUS
  <2> QED BY <2>1
<1>7. Owners(o)'
  <2>1. \A j \in Objects : Unborn(j)' \/ sub'.status[j] = "aborted" => o[j] = -1
    BY <1>0, <1>1, <1>2, <1>o DEF Owners
  <2>2. \A j \in Objects \ {0} : sub'.status[j] = "committed" => o[j] = o[sub'.parent[j]]
    <3>1. sub.parent \in [Objects -> Objects]
      BY <1>0 DEF SubTypeOK
    <3> QED BY <1>0, <1>2, <1>o, <1>s, <3>1 DEF Owners
  <2>3. \A j \in Objects : o[j] # -1 => o[j] = 0 /\ sub'.status[0] = "committed"
    BY <1>0, <1>2, <1>a, <1>A, <1>o, <1>T DEF Owners
  <2>4. sub'.status[0] = "committed" => o[0] = 0
    BY <1>2, <1>a, <1>o, <1>T
  <2> QED BY <1>1, <2>1, <2>2, <2>3, <2>4 DEF Owners
<1>8. Between(o, pos)' /\ Present(o)'
  BY <1>5, <1>i DEF Between, Present
<1>9. Durable(o)'
  <2>1. sub'.status[0] = x
    BY <1>2, <1>T
  <2>2. CASE x = "committed"
    <3>1. Kept(o)' = Kept(own)
      BY <1>o, <1>s, <2>2 DEF Kept
    <3> QED BY <1>i, <2>1, <2>2, <3>1 DEF Durable
  <2>3. CASE x # "committed"
    BY <1>i, <2>1, <2>3 DEF Durable
  <2> QED BY <2>2, <2>3
<1>10. Sound(o, pos)'
  BY <1>1, <1>3, <1>4, <1>6, <1>7, <1>8, <1>9 DEF Sound
<1> QED BY <1>10 DEF SubInv

\* COMMIT makes durable what is in the block: that is what was left to the work.
LEMMA BlockIsKept ==
  ASSUME NEW own, NEW pos, Sound(own, pos), Active = {0}
  PROVE  UNION {sub.frames[i].writes : i \in DOMAIN sub.frames} = Kept(own)
<1>0. /\ SubTypeOK /\ Block /\ Owners(own) /\ Between(own, pos) /\ Present(own)
  BY DEF Sound
<1>T. sub.frames \in Seq(Frame) /\ sub.wrote \in [Objects -> 0..MaxWrites]
  BY <1>0 DEF SubTypeOK, Frame
<1>1. ASSUME NEW i \in DOMAIN sub.frames, NEW x \in sub.frames[i].writes
      PROVE  x \in Kept(own)
  <2>1. sub.frames[i] \in Frame
    BY <1>T, ElementOfSeq
  <2>2. x \in Objects \X (1..MaxWrites)
    BY <2>1 DEF Frame
  <2> QED BY <1>0, <2>2 DEF Between, Kept
<1>2. ASSUME NEW x \in Kept(own)
      PROVE  \E i \in DOMAIN sub.frames : x \in sub.frames[i].writes
  <2>1. PICK j \in Objects, n \in 1..MaxWrites :
          x = <<j, n>> /\ own[j] = 0 /\ n <= sub.wrote[j]
    BY DEF Kept
  <2>2. n \in 1..sub.wrote[j]
    BY <1>T, <2>1
  <2>3. sub.st # "idle"
    BY <1>0 DEF Block
  <2> QED BY <1>0, <2>1, <2>2, <2>3 DEF Present
<1> QED BY <1>1, <1>2

\* The destructor of an object that has ended does nothing to the block.
LEMMA DestroyKeeps ==
  ASSUME NEW own \in [Objects -> Objects \cup {-1}], NEW pos \in [Objects -> Nat],
         Sound(own, pos), NEW k \in Alive, Innermost(k), k \notin Active
  PROVE  sub' = [sub EXCEPT !.life[k] = "dead"] => SubInv'
<1>h. SUFFICES ASSUME sub' = [sub EXCEPT !.life[k] = "dead"] PROVE SubInv'
  OBVIOUS
<1>0. /\ SubTypeOK /\ Scopes /\ Rooted /\ Block /\ Places(pos) /\ Owners(own)
      /\ Between(own, pos) /\ Present(own) /\ Durable(own)
  BY DEF Sound
<1>T. /\ sub.life \in [Objects -> {"unborn", "live", "dead"}]
      /\ sub.status \in [Objects -> SubStatuses] /\ sub.frames \in Seq(Frame)
      /\ Alive \subseteq Objects /\ Active \subseteq Alive
  BY <1>0 DEF SubTypeOK, Frame, Alive, Active
<1>g. sub'.life = [sub.life EXCEPT ![k] = "dead"]
  BY <1>0, <1>h DEF SubTypeOK
<1>s. /\ sub'.status = sub.status /\ sub'.parent = sub.parent /\ sub'.wrote = sub.wrote
      /\ sub'.told = sub.told /\ sub'.st = sub.st /\ sub'.frames = sub.frames
      /\ sub'.durable = sub.durable
  BY <1>0, <1>h DEF SubTypeOK
<1>1. /\ Scopes' /\ Rooted' /\ Active' = Active /\ Alive' = Alive \ {k}
      /\ \A j \in Objects : Unborn(j)' <=> Unborn(j)
      /\ \A j \in Objects : Innermost(j)' =>
           \A b \in Active' \ {j} : j # 0 /\ pos[b] <= pos[sub.parent[j]]
  <2>1. PICK x \in {"aborted", "committed"}, L \in {"live", "dead"} :
          x = sub.status[k] /\ L = "dead"
    BY <1>T DEF Active, SubStatuses
  <2>2. sub'.life = [sub.life EXCEPT ![k] = L] /\ sub'.status = [sub.status EXCEPT ![k] = x]
    BY <1>g, <1>s, <1>T, <2>1
  <2>3. /\ Scopes' /\ Rooted' /\ Active' = Active \ {k}
        /\ Alive' = IF L = "live" THEN Alive ELSE Alive \ {k}
        /\ \A j \in Objects : Unborn(j)' <=> Unborn(j)
        /\ \A j \in Objects : Innermost(j)' =>
             \A b \in Active' \ {j} : j # 0 /\ pos[b] <= pos[sub.parent[j]]
    <3>1. sub'.parent = sub.parent /\ sub'.wrote = sub.wrote
      BY <1>s
    <3> QED BY <2>2, <3>1, ScopesAtEnd
  <2> QED BY <2>1, <2>3
<1>2. SubTypeOK'
  <2>1. sub'.life \in [Objects -> {"unborn", "live", "dead"}]
    BY <1>T, <1>g
  <2> QED BY <1>0, <1>h, <1>s, <2>1 DEF SubTypeOK
<1>3. Block'
  <2>1. \A j \in Alive' : ~ sub'.told[j]
    <3>1. PICK L \in {"live", "dead"} : L = "dead"
      OBVIOUS
    <3>2. Alive' = IF L = "live" THEN Alive ELSE Alive \ {k}
      BY <1>1, <3>1
    <3>3. L = "live" => ~ sub.told[k]
      BY <3>1
    <3> QED BY <1>s, <3>2, <3>3, BlockAtEnd
  <2>2. \A j \in Objects : Unborn(j)' => ~ sub'.told[j]
    BY <1>0, <1>1, <1>s DEF Block
  <2>3. /\ sub'.st = "failed" => \E j \in Active' : sub'.told[j]
        /\ sub'.st = "idle" => Active' = {} /\ sub'.frames = <<>>
        /\ sub'.status[0] # "active" => sub'.st = "idle"
    BY <1>0, <1>1, <1>s DEF Block
  <2> QED BY <2>1, <2>2, <2>3 DEF Block
<1>4. Places(pos)'
  <2>1. \A i \in DOMAIN sub.frames : sub'.life[sub.frames[i].of] # "unborn"
    <3> SUFFICES ASSUME NEW i \in DOMAIN sub.frames
                 PROVE  sub'.life[sub.frames[i].of] # "unborn"
      OBVIOUS
    <3>1. sub.frames[i] \in Frame
      BY <1>T, ElementOfSeq
    <3>2. PICK j \in Objects : j = sub.frames[i].of
      BY <3>1 DEF Frame
    <3> QED BY <1>0, <1>1, <3>2 DEF Places, Unborn
  <2> QED BY <1>0, <1>1, <1>s, <2>1 DEF Places, Unborn
<1>5. Owners(own)'
  BY <1>0, <1>1, <1>s DEF Owners
<1>6. Between(own, pos)' /\ Present(own)' /\ Durable(own)'
  BY <1>0, <1>1, <1>s DEF Between, Present, Durable, Kept
<1>7. Sound(own, pos)'
  BY <1>1, <1>2, <1>3, <1>4, <1>5, <1>6 DEF Sound
<1> QED BY <1>7 DEF SubInv

-----------------------------------------------------------------------------
(* The theorems *)

\* Every step of a program that does not swallow keeps the invariant.
LEMMA StepKeeps ==
  ASSUME "swallow" \notin SubHabits, SubInv, SubNext
  PROVE  SubInv'
<1>1. PICK own \in [Objects -> Objects \cup {-1}], pos \in [Objects -> Nat] : Sound(own, pos)
  BY DEF SubInv
<1>0. SubTypeOK /\ Places(pos) /\ Block /\ Durable(own)
  BY <1>1 DEF Sound
<1>T. Alive \subseteq Objects /\ Active \subseteq Alive
  BY DEF Active, Alive
<1>U. \A k \in Active : InUse(k) => Innermost(k) /\ sub.st = "block" /\ ~ sub.told[k]
  BY <1>1, InUseIsFine
<1>2. PICK k \in Objects :
        \/ Exec(k) \/ Commit(k) \/ Abort(k) \/ DestroyObject(k)
        \/ \E p \in Objects : Construct(k, p)
  BY DEF SubNext
<1>3. ASSUME Exec(k) PROVE SubInv'
  <2>1. k \in Active /\ Innermost(k) /\ sub.st = "block" /\ sub.wrote[k] < MaxWrites
    BY <1>3, <1>U DEF Exec
  <2>2. \/ sub' = Write([sub EXCEPT !.wrote[k] = @ + 1], <<k, sub.wrote[k] + 1>>)
        \/ sub' = Tell(Error(sub), k)
    BY <1>3 DEF Exec
  <2> QED BY <1>1, <2>1, <2>2, WriteKeeps, ThrowKeeps
<1>4. ASSUME NEW L \in {"live", "dead"}, k \in Active, Innermost(k),
             L = "live" => ~ sub.told[k], sub' = DoAbort([sub EXCEPT !.life[k] = L], k)
      PROVE  SubInv'
  <2>1. CASE k # 0
    BY <1>1, <1>4, <2>1, RollbackKeeps
  <2>2. CASE k = 0
    <3>1. PICK x \in {"aborted", "committed"} : x = "aborted"
      OBVIOUS
    <3>2. PICK d : d = {}
      OBVIOUS
    <3>3. d = IF x = "committed" THEN Kept(own) ELSE {}
      BY <3>1, <3>2
    <3>4. sub.durable = {}
      BY <1>0, <1>4, <2>2 DEF Durable, Active
    <3>5. sub' = EndBlock(SetStatus([sub EXCEPT !.life[0] = L], 0, x), d)
      BY <1>0, <1>4, <2>2, <3>1, <3>2, <3>4 DEF DoAbort, RollbackCmd, SetStatus, SubTypeOK
    <3>6. 0 \in Active /\ Innermost(0) /\ (L = "live" => ~ sub.told[0])
      BY <1>4, <2>2
    <3> QED BY <1>1, <3>3, <3>5, <3>6, WorkEndKeeps
  <2> QED BY <2>1, <2>2
<1>5. ASSUME Abort(k) PROVE SubInv'
  <2>1. PICK L \in {"live", "dead"} : L = "live"
    OBVIOUS
  <2>2. k \in Active /\ Innermost(k) /\ ~ sub.told[k]
    BY <1>5, <1>U DEF Abort
  <2>3. sub.life[k] = L
    BY <2>1, <2>2 DEF Active, Alive
  <2>4. [sub EXCEPT !.life[k] = L] = sub
    BY <1>0, <2>3 DEF SubTypeOK
  <2>5. sub' = DoAbort([sub EXCEPT !.life[k] = L], k)
    BY <1>5, <2>4 DEF Abort
  <2> QED BY <1>4, <2>2, <2>5
<1>6. ASSUME DestroyObject(k) PROVE SubInv'
  <2>1. Innermost(k) /\ k \in Alive
    BY <1>6 DEF DestroyObject, Innermost
  <2>2. CASE k \in Active
    <3>1. PICK L \in {"live", "dead"} : L = "dead"
      OBVIOUS
    <3>2. sub' = DoAbort([sub EXCEPT !.life[k] = L], k) /\ (L = "live" => ~ sub.told[k])
      BY <1>6, <2>2, <3>1 DEF DestroyObject
    <3> QED BY <1>4, <2>1, <2>2, <3>2
  <2>3. CASE k \notin Active
    <3>1. sub' = [sub EXCEPT !.life[k] = "dead"]
      BY <1>6, <2>3 DEF DestroyObject
    <3> QED BY <1>1, <2>1, <2>3, <3>1, DestroyKeeps
  <2> QED BY <2>2, <2>3
<1>7. ASSUME Commit(k) PROVE SubInv'
  <2>1. k \in Active /\ Innermost(k) /\ sub.st = "block" /\ ~ sub.told[k]
    BY <1>7, <1>U DEF Commit
  <2>2. CASE k # 0
    <3>1. Knows(sub, k)
      BY <1>1, <2>1, FoundInFrames
    <3>2. sub' = Release(SetStatus(sub, k, "committed"), k)
      BY <1>7, <2>1, <2>2, <3>1 DEF Commit
    <3> QED BY <1>1, <2>1, <2>2, <3>2, ReleaseKeeps
  <2>3. CASE k = 0
    <3>1. Active = {0}
      <4>1. 0 \in Active /\ Innermost(0) /\ 0 \in Objects
        BY <1>T, <2>1, <2>3
      <4> QED BY <1>0, <4>1 DEF Places
    <3>2. PICK x \in {"aborted", "committed"}, L \in {"live", "dead"} :
            x = "committed" /\ L = "live"
      OBVIOUS
    <3>3. [sub EXCEPT !.life[0] = L] = sub
      BY <1>0, <2>1, <2>3, <3>2 DEF SubTypeOK, Active, Alive
    <3>4. PICK d : d = IF x = "committed" THEN Kept(own) ELSE {}
      OBVIOUS
    <3>5. UNION {sub.frames[i].writes : i \in DOMAIN sub.frames} = d
      BY <1>1, <3>1, <3>2, <3>4, BlockIsKept
    <3>6. PICK s : s = SetStatus(sub, 0, "committed")
      OBVIOUS
    <3>7. s.st = "block" /\ s.frames = sub.frames
      BY <1>0, <2>1, <3>6 DEF SetStatus, SubTypeOK
    <3>8. sub' = CommitBlock(s)
      BY <1>7, <2>3, <3>6 DEF Commit
    <3>9. sub' = EndBlock(s, d)
      BY <3>5, <3>7, <3>8 DEF CommitBlock
    <3>10. sub' = EndBlock(SetStatus([sub EXCEPT !.life[0] = L], 0, x), d)
      BY <3>2, <3>3, <3>6, <3>9
    <3>11. 0 \in Active /\ Innermost(0) /\ (L = "live" => ~ sub.told[0])
      BY <2>1, <2>3
    <3> QED BY <1>1, <3>4, <3>10, <3>11, WorkEndKeeps
  <2> QED BY <2>2, <2>3
<1>8. ASSUME NEW p \in Objects, Construct(k, p) PROVE SubInv'
  BY <1>1, <1>8, ConstructKeeps
<1> QED BY <1>2, <1>3, <1>5, <1>6, <1>7, <1>8

\* However many subtransactions there are, and in whatever order they are constructed,
\* written on, fail and end, each active one has its savepoint in its place in the
\* block, and what was written is there, above the savepoint of the one object whose
\* end decides on it (subtransaction.cxx:38-73).
THEOREM SubInvariant ==
  ASSUME "swallow" \notin SubHabits
  PROVE  SubSpec => []SubInv
<1>1. SubInit => SubInv
  BY BegunIsSound
<1>2. SubInv /\ [SubNext]_sub => SubInv'
  <2> SUFFICES ASSUME SubInv, [SubNext]_sub PROVE SubInv'
    OBVIOUS
  <2>1. CASE SubNext
    BY <2>1, StepKeeps
  <2>2. CASE UNCHANGED sub
    <3>1. PICK own \in [Objects -> Objects \cup {-1}], pos \in [Objects -> Nat] : Sound(own, pos)
      BY DEF SubInv
    <3>2. Alive' = Alive /\ Active' = Active /\ \A k : Unborn(k)' <=> Unborn(k)
      BY <2>2 DEF Alive, Active, Unborn
    <3>3. \A k : Innermost(k)' <=> Innermost(k)
      BY <2>2, <3>2 DEF Innermost, Children
    <3>4. SubTypeOK' /\ Scopes' /\ Rooted'
      BY <2>2, <3>1, <3>2, <3>3 DEF Sound, SubTypeOK, Scopes, Rooted
    <3>5. Block'
      BY <2>2, <3>1, <3>2 DEF Sound, Block, Children
    <3>6. Places(pos)' /\ Owners(own)'
      BY <2>2, <3>1, <3>2, <3>3 DEF Sound, Places, Owners
    <3>7. Between(own, pos)' /\ Present(own)' /\ Durable(own)'
      BY <2>2, <3>1, <3>2 DEF Sound, Between, Present, Durable, Kept
    <3> QED BY <3>4, <3>5, <3>6, <3>7 DEF SubInv, Sound
  <2> QED BY <2>1, <2>2
<1> QED BY <1>1, <1>2, PTL DEF SubSpec

\* The work of subtransactions is kept or undone as a whole, and their parents go on:
\* what COMMIT makes durable is what was written on objects that committed with all
\* that they are nested in, an object that was not told of an exception can go on, and
\* no savepoint is released or rolled back to that is not there
\* (subtransaction.hxx:24-60), for a program that lets an exception out of the scope of
\* the object it comes from.
THEOREM SubtransactionsAlwaysKept ==
  ASSUME "swallow" \notin SubHabits
  PROVE  SubSpec => []SubtransactionsKept
<1>1. SubInv => SubtransactionsKept
  BY SoundIsKept DEF SubInv
<1> QED BY <1>1, SubInvariant, PTL

-----------------------------------------------------------------------------
(***************************************************************************)
(* Blobs share no descriptors and lose none, and whole objects are written *)
(* and read as whole objects: BlobsSound, for any number of blobs, objects *)
(* and descriptors, and objects of any length.                             *)
(***************************************************************************)
Handles == {Detached} \cup [conn : {TRUE}, fd : 0..MaxFd]
Descriptor == [of : Ids, pos : Nat, writes : BOOLEAN]

States ==
  [tx : {"block", "failed", "over"}, objs : SUBSET Ids, bytes : [Ids -> Seq(Bytes)],
   fds : [0..MaxFd -> {Free} \cup Descriptor],
   held : [Blobs -> Handles],
   meant : [Blobs -> Ids \cup {0}]]

\* There is nothing in an object that does not exist.
Nothing == <<>>
NoneEmpty(s) == \A id \in Ids \ s.objs : s.bytes[id] = Nothing

\* DescriptorsOwned, in the state s.
Owned(s) ==
  s.tx = "block" =>
    /\ \A fd \in 0..MaxFd : s.fds[fd] # Free => \E b \in Blobs : s.held[b].fd = fd
    /\ \A b \in Blobs : s.held[b].conn => s.fds[s.held[b].fd] # Free
    /\ \A b, c \in Blobs : s.held[b].conn /\ s.held[b].fd = s.held[c].fd => b = c
    /\ \A b \in Blobs : s.held[b].conn => s.fds[s.held[b].fd].of = s.meant[b]

BlobInv == blob \in States /\ NoneEmpty(blob) /\ Owned(blob)

\* What a call on an object leaves of the descriptors: they are open on what they
\* were open on, and nobody has closed or moved a blob.
Follows(s, t) ==
  /\ t \in States /\ NoneEmpty(t) /\ t.held = s.held /\ t.meant = s.meant
  /\ t.tx = "block" => s.tx = "block" /\ \A fd \in 0..MaxFd : t.fds[fd].of = s.fds[fd].of
-----------------------------------------------------------------------------
(* Descriptors and their owners *)

\* 0 is the id of no object: a descriptor that is open on none is free.
LEMMA FreeIsNone ==
  ASSUME NEW s \in States, NEW fd \in 0..MaxFd
  PROVE  /\ s.fds[fd] = Free <=> s.fds[fd].of = 0
         /\ s.fds[fd] # Free => s.fds[fd] \in Descriptor
<1>1. s.fds[fd] = Free \/ s.fds[fd] \in Descriptor
  BY DEF States
<1>2. Free.of = 0
  BY DEF Free
<1>3. \A d \in Descriptor : d.of # 0
  BY BlobAssumption DEF Descriptor
<1> QED BY <1>1, <1>2, <1>3

\* A blob that is attached holds a descriptor.
LEMMA HoldsFd ==
  ASSUME NEW s \in States, NEW b \in Blobs
  PROVE  /\ s.held[b].conn <=> s.held[b].fd # -1
         /\ ~ s.held[b].conn <=> s.held[b] = Detached
         /\ s.held[b].conn => s.held[b].fd \in 0..MaxFd
         /\ s.held[b].fd \in -1..MaxFd /\ s.held[b].conn \in BOOLEAN
<1>1. s.held[b] = Detached \/ s.held[b] \in [conn : {TRUE}, fd : 0..MaxFd]
  BY DEF States, Handles
<1>2. Detached.conn = FALSE /\ Detached.fd = -1
  BY DEF Detached
<1>3. \A h \in [conn : {TRUE}, fd : 0..MaxFd] : h.conn = TRUE /\ h.fd \in 0..MaxFd
  OBVIOUS
<1>4. -1 \notin 0..MaxFd /\ -1 \in -1..MaxFd /\ \A n \in 0..MaxFd : n \in -1..MaxFd
  BY BlobAssumption
<1>5. CASE s.held[b] = Detached
  BY <1>2, <1>4, <1>5, Zenon
<1>6. CASE s.held[b] \in [conn : {TRUE}, fd : 0..MaxFd]
  <2>1. s.held[b].conn = TRUE /\ s.held[b].fd \in 0..MaxFd
    BY <1>3, <1>6
  <2> QED BY <1>2, <1>4, <2>1, Zenon
<1> QED BY <1>1, <1>5, <1>6

\* Owned is what DescriptorsOwned says.
LEMMA OwnedIsOwned ==
  ASSUME blob \in States
  PROVE  Owned(blob) <=> DescriptorsOwned
<1>1. \A b \in Blobs : blob.held[b].conn <=> blob.held[b].fd # -1
  BY HoldsFd
<1>2. \A b \in Blobs : blob.held[b].conn => blob.held[b].fd \in 0..MaxFd
  BY HoldsFd
<1>3. Fds(blob) = (0..MaxFd) \ FreeFds(blob) <=>
        /\ \A fd \in 0..MaxFd : blob.fds[fd] # Free => \E b \in Blobs : blob.held[b].fd = fd
        /\ \A b \in Blobs : blob.held[b].conn => blob.fds[blob.held[b].fd] # Free
  <2>1. \A fd : fd \in Fds(blob) <=> \E b \in Blobs : blob.held[b].conn /\ blob.held[b].fd = fd
    BY <1>1 DEF Fds
  <2>2. \A fd : fd \in (0..MaxFd) \ FreeFds(blob) <=> fd \in 0..MaxFd /\ blob.fds[fd] # Free
    BY DEF FreeFds
  <2>3. \A b \in Blobs, fd \in 0..MaxFd : blob.held[b].fd = fd => blob.held[b].conn
    BY <1>1
  <2> QED BY <1>2, <2>1, <2>2, <2>3
<1> QED BY <1>3 DEF Owned, DescriptorsOwned

\* A call on an object leaves the descriptors to their owners.
LEMMA FollowsOwned ==
  ASSUME NEW s \in States, NEW t, Owned(s), Follows(s, t)
  PROVE  Owned(t)
<1>1. t \in States /\ t.held = s.held /\ t.meant = s.meant
  BY DEF Follows
<1>2. CASE t.tx # "block"
  BY <1>2 DEF Owned
<1>3. CASE t.tx = "block"
  <2>1. s.tx = "block" /\ \A fd \in 0..MaxFd : t.fds[fd].of = s.fds[fd].of
    BY <1>3 DEF Follows
  <2>2. \A fd \in 0..MaxFd : t.fds[fd] = Free <=> s.fds[fd] = Free
    BY <1>1, <2>1, FreeIsNone
  <2>3. \A b \in Blobs : s.held[b].conn => s.held[b].fd \in 0..MaxFd
    BY HoldsFd
  <2> QED BY <1>1, <2>1, <2>2, <2>3 DEF Owned
<1> QED BY <1>2, <1>3

\* A failed call has failed the block.
LEMMA FailureFollows ==
  ASSUME NEW s \in States, NoneEmpty(s)
  PROVE  /\ Follows(s, FailsBlock(s).s) /\ ~ FailsBlock(s).ok
         /\ FailsBlock(s).s.tx = "failed"
BY DEF Follows, FailsBlock, States, NoneEmpty

\* A call that was refused before the server was asked leaves all as it was.
LEMMA NothingFollows ==
  ASSUME NEW s \in States, NoneEmpty(s)
  PROVE  Follows(s, s)
BY DEF Follows

\* What two calls leave of the descriptors.
LEMMA FollowsTwice ==
  ASSUME NEW s, NEW t, NEW u, Follows(s, t), Follows(t, u)
  PROVE  Follows(s, u)
BY DEF Follows
-----------------------------------------------------------------------------
(* What a call on a descriptor makes of it and of its object *)

\* The descriptor at position p of its object, which holds text.
Used(s, fd, p, text) ==
  [s EXCEPT !.fds = [@ EXCEPT ![fd] = [of |-> s.fds[fd].of, pos |-> p, writes |-> s.fds[fd].writes]],
            !.bytes = [@ EXCEPT ![s.fds[fd].of] = text]]

\* What is to be said of a descriptor and its object after a call.
LEMMA UsedFollows ==
  ASSUME NEW s \in States, NoneEmpty(s), NEW fd \in 0..MaxFd, Usable(s, fd),
         NEW p \in Nat, NEW text \in Seq(Bytes)
  PROVE  LET t == Used(s, fd, p, text)
         IN  /\ Follows(s, t) /\ Usable(t, fd) /\ Content(t, fd) = text
             /\ t.fds[fd].pos = p /\ t.fds[fd].writes = s.fds[fd].writes
             /\ t.fds[fd].of = s.fds[fd].of
             /\ t.tx = s.tx /\ t.objs = s.objs
             /\ \A g \in (0..MaxFd) \ {fd} : t.fds[g] = s.fds[g]
             /\ \A id \in Ids \ {s.fds[fd].of} : t.bytes[id] = s.bytes[id]
<1> DEFINE t == Used(s, fd, p, text)
           d == [of |-> s.fds[fd].of, pos |-> p, writes |-> s.fds[fd].writes]
<1>1. s.tx = "block" /\ s.fds[fd].of \in s.objs /\ s.fds[fd].of \in Ids /\ s.fds[fd] # Free
  BY FreeIsNone, BlobAssumption DEF Usable, States
<1>2. d \in Descriptor
  BY <1>1, FreeIsNone DEF Descriptor
<1>3. PICK F : F = [s.fds EXCEPT ![fd] = d]
  OBVIOUS
<1>4. PICK B : B = [s.bytes EXCEPT ![s.fds[fd].of] = text]
  OBVIOUS
<1>5. /\ F \in [0..MaxFd -> {Free} \cup Descriptor] /\ F[fd] = d
      /\ \A g \in (0..MaxFd) \ {fd} : F[g] = s.fds[g]
  BY <1>2, <1>3 DEF States
<1>6. /\ B \in [Ids -> Seq(Bytes)] /\ B[s.fds[fd].of] = text
      /\ \A id \in Ids \ {s.fds[fd].of} : B[id] = s.bytes[id]
  BY <1>1, <1>4 DEF States
<1>7. t = [s EXCEPT !.fds = F, !.bytes = B]
  BY <1>3, <1>4 DEF Used
<1> HIDE DEF t
<1>8. /\ t \in States /\ t.fds = F /\ t.bytes = B /\ t.tx = s.tx /\ t.objs = s.objs
      /\ t.held = s.held /\ t.meant = s.meant
  BY <1>5, <1>6, <1>7 DEF States
<1>9. NoneEmpty(t)
  BY <1>1, <1>6, <1>8 DEF NoneEmpty
<1>10. \A g \in 0..MaxFd : t.fds[g].of = s.fds[g].of
  BY <1>5, <1>8
<1>11. Follows(s, t)
  BY <1>8, <1>9, <1>10, <1>1 DEF Follows
<1>12. Usable(t, fd) /\ Content(t, fd) = text
  BY <1>1, <1>5, <1>6, <1>8 DEF Usable, Content
<1> QED BY <1>5, <1>6, <1>8, <1>11, <1>12 DEF t

\* A part of a sequence.
LEMMA PartOf ==
  ASSUME NEW c \in Seq(Bytes), NEW p \in Nat, NEW e \in 0..Len(c)
  PROVE  LET got == SubSeq(c, p + 1, e)
         IN  /\ got \in Seq(Bytes) /\ Len(got) = IF p <= e THEN e - p ELSE 0
             /\ \A i \in 1..(e - p) : got[i] = c[p + i]
<1> DEFINE got == SubSeq(c, p + 1, e)
<1>1. \A i \in (p + 1)..e : c[i] \in Bytes
  BY ElementOfSeq
<1>2. /\ got \in Seq(Bytes)
      /\ Len(got) = IF p + 1 <= e THEN e - (p + 1) + 1 ELSE 0
      /\ \A i \in 1..(e - (p + 1) + 1) : got[i] = c[(p + 1) + i - 1]
  BY <1>1, SubSeqProperties
<1> HIDE DEF got
<1>3. /\ got \in Seq(Bytes) /\ Len(got) = IF p <= e THEN e - p ELSE 0
      /\ \A i \in 1..(e - p) : got[i] = c[p + i]
  BY <1>2
<1> QED BY <1>3 DEF got

\* Where a read ends.
ReadTo(s, fd, n) ==
  IF s.fds[fd].pos + n < Len(Content(s, fd)) THEN s.fds[fd].pos + n ELSE Len(Content(s, fd))

\* A descriptor that is in use is open on an object that exists.
LEMMA DescriptorUsed ==
  ASSUME NEW s \in States, NEW fd \in 0..MaxFd, Usable(s, fd)
  PROVE  /\ s.tx = "block" /\ s.fds[fd] \in Descriptor /\ s.fds[fd].of \in Ids
         /\ s.fds[fd].pos \in Nat /\ s.fds[fd].writes \in BOOLEAN
         /\ Content(s, fd) \in Seq(Bytes) /\ Content(s, fd) = s.bytes[s.fds[fd].of]
<1>1. s.tx = "block" /\ s.fds[fd].of \in s.objs /\ s.fds[fd].of \in Ids
  BY DEF Usable, States
<1>2. s.fds[fd] \in Descriptor
  BY <1>1, FreeIsNone, BlobAssumption
<1>3. s.bytes[s.fds[fd].of] \in Seq(Bytes)
  BY <1>1 DEF States
<1> QED BY <1>1, <1>2, <1>3 DEF Descriptor, Content

\* A call that only moves a descriptor.
LEMMA OnlyMoved ==
  ASSUME NEW s \in States, NEW fd \in 0..MaxFd, Usable(s, fd), NEW p \in Nat
  PROVE  [s EXCEPT !.fds[fd].pos = p] = Used(s, fd, p, Content(s, fd))
<1>1. s.fds[fd] \in Descriptor /\ s.fds[fd].of \in Ids
  BY DescriptorUsed
<1>2. [s.fds[fd] EXCEPT !.pos = p] = [of |-> s.fds[fd].of, pos |-> p, writes |-> s.fds[fd].writes]
  BY <1>1 DEF Descriptor
<1>3. PICK d : d = [of |-> s.fds[fd].of, pos |-> p, writes |-> s.fds[fd].writes]
  OBVIOUS
<1>4. [s.bytes EXCEPT ![s.fds[fd].of] = Content(s, fd)] = s.bytes
  BY <1>1 DEF Content, States
<1>5. [s EXCEPT !.fds[fd].pos = p] = [s EXCEPT !.fds = [s.fds EXCEPT ![fd] = d]]
  BY <1>2, <1>3 DEF States
<1>6. Used(s, fd, p, Content(s, fd))
        = [s EXCEPT !.fds = [s.fds EXCEPT ![fd] = d], !.bytes = s.bytes]
  BY <1>3, <1>4 DEF Used
<1>7. [s EXCEPT !.fds = [s.fds EXCEPT ![fd] = d], !.bytes = s.bytes]
        = [s EXCEPT !.fds = [s.fds EXCEPT ![fd] = d]]
  BY DEF States
<1> QED BY <1>5, <1>6, <1>7

\* lo_read moves the descriptor by what it returns (blob.cxx:138).
LEMMA ReadUses ==
  ASSUME NEW s \in States, NoneEmpty(s), NEW fd \in 0..MaxFd, NEW n \in Nat
  PROVE  LET r == LoRead(s, fd, n)
             got == SubSeq(Content(s, fd), s.fds[fd].pos + 1, ReadTo(s, fd, n))
         IN  /\ Follows(s, r.s)
             /\ r.ok <=> Usable(s, fd)
             /\ r.ok => r.v = got /\ r.s = Used(s, fd, s.fds[fd].pos + Len(got), Content(s, fd))
<1> DEFINE r == LoRead(s, fd, n)
           got == SubSeq(Content(s, fd), s.fds[fd].pos + 1, ReadTo(s, fd, n))
<1>1. CASE ~ Usable(s, fd)
  <2>1. r = FailsBlock(s)
    BY <1>1 DEF LoRead
  <2> QED BY <1>1, <2>1, FailureFollows
<1>2. CASE Usable(s, fd)
  <2>1. /\ s.fds[fd].pos \in Nat /\ Content(s, fd) \in Seq(Bytes)
        /\ Len(Content(s, fd)) \in Nat
    BY <1>2, DescriptorUsed
  <2>2. ReadTo(s, fd, n) \in 0..Len(Content(s, fd))
    BY <2>1 DEF ReadTo
  <2>3. Len(got) \in Nat
    <3>1. got \in Seq(Bytes)
      BY <2>1, <2>2, PartOf
    <3> QED BY <3>1
  <2>4. r = Ok([s EXCEPT !.fds[fd].pos = @ + Len(got)], got)
    BY <1>2 DEF LoRead, ReadTo
  <2> HIDE DEF got
  <2>5. PICK p \in Nat : p = s.fds[fd].pos + Len(got)
    BY <2>1, <2>3
  <2>6. [s EXCEPT !.fds[fd].pos = @ + Len(got)] = [s EXCEPT !.fds[fd].pos = p]
    BY <2>5
  <2>7. r = Ok(Used(s, fd, p, Content(s, fd)), got)
    BY <1>2, <2>4, <2>6, OnlyMoved
  <2>8. r.ok /\ r.v = got /\ r.s = Used(s, fd, p, Content(s, fd))
    BY <2>7 DEF Ok
  <2>9. Follows(s, r.s)
    BY <1>2, <2>1, <2>8, UsedFollows
  <2> QED BY <1>2, <2>5, <2>8, <2>9 DEF got
<1> QED BY <1>1, <1>2

\* What a write of data at position p makes of old.
Written(old, p, data) ==
  LET end == p + Len(data)
      size == IF end > Len(old) THEN end ELSE Len(old)
  IN  IF data = <<>> THEN old
      ELSE [i \in 1..size |-> IF i \in p + 1..end THEN data[i - p]
                              ELSE IF i \in DOMAIN old THEN old[i] ELSE 0]

\* A write leaves bytes.
LEMMA WrittenIsText ==
  ASSUME NEW old \in Seq(Bytes), NEW p \in Nat, NEW data \in Seq(Bytes)
  PROVE  Written(old, p, data) \in Seq(Bytes)
<1> DEFINE end == p + Len(data)
           size == IF end > Len(old) THEN end ELSE Len(old)
<1>1. CASE data = <<>>
  BY <1>1 DEF Written
<1>2. CASE data # <<>>
  <2>1. size \in Nat /\ Len(data) \in Nat
    OBVIOUS
  <2>2. ASSUME NEW i \in 1..size
        PROVE  (IF i \in p + 1..end THEN data[i - p]
                ELSE IF i \in DOMAIN old THEN old[i] ELSE 0) \in Bytes
    <3>1. CASE i \in p + 1..end
      <4>1. i - p \in 1..Len(data)
        BY <2>1, <3>1
      <4> QED BY <3>1, <4>1, ElementOfSeq
    <3>2. CASE i \notin p + 1..end
      <4>1. DOMAIN old = 1..Len(old)
        OBVIOUS
      <4> QED BY <3>2, <4>1, ElementOfSeq DEF Bytes
    <3> QED BY <3>1, <3>2
  <2>3. Written(old, p, data) = [i \in 1..size |-> IF i \in p + 1..end THEN data[i - p]
                                ELSE IF i \in DOMAIN old THEN old[i] ELSE 0]
    BY <1>2 DEF Written
  <2> HIDE DEF size, end
  <2>4. Written(old, p, data) \in [1..size -> Bytes]
    BY <2>2, <2>3
  <2> QED BY <2>1, <2>4
<1> QED BY <1>1, <1>2

\* A write at the end appends.
LEMMA WrittenAtEnd ==
  ASSUME NEW old \in Seq(Bytes), NEW data \in Seq(Bytes)
  PROVE  Written(old, Len(old), data) = old \o data
<1>1. CASE data = <<>>
  <2>1. old \o <<>> = old
    BY ConcatEmptySeq
  <2> QED BY <1>1, <2>1 DEF Written
<1>2. CASE data # <<>>
  <2>1. Len(data) \in Nat /\ Len(data) # 0 /\ Len(old) \in Nat
    BY <1>2, EmptySeq
  <2>2. Written(old, Len(old), data)
          = [i \in 1..Len(old) + Len(data) |->
               IF i \in Len(old) + 1..Len(old) + Len(data) THEN data[i - Len(old)]
               ELSE IF i \in DOMAIN old THEN old[i] ELSE 0]
    BY <1>2, <2>1 DEF Written
  <2>3. PICK new \in Seq(Bytes) : new = Written(old, Len(old), data)
    BY <2>1, WrittenIsText
  <2>4. Len(new) = Len(old) + Len(data)
    BY <2>1, <2>2, <2>3
  <2>5. PICK both : both = old \o data
    OBVIOUS
  <2>6. /\ both \in Seq(Bytes) /\ Len(both) = Len(old) + Len(data)
        /\ \A i \in 1..Len(old) + Len(data) :
             both[i] = IF i <= Len(old) THEN old[i] ELSE data[i - Len(old)]
    BY <2>5, ConcatProperties, Zenon
  <2>7. \A i \in 1..Len(new) : new[i] = both[i]
    <3> SUFFICES ASSUME NEW i \in 1..Len(old) + Len(data) PROVE new[i] = both[i]
      BY <2>4
    <3>1. new[i] = IF i \in Len(old) + 1..Len(old) + Len(data) THEN data[i - Len(old)]
                   ELSE IF i \in DOMAIN old THEN old[i] ELSE 0
      BY <2>2, <2>3
    <3>2. DOMAIN old = 1..Len(old)
      OBVIOUS
    <3> QED BY <2>1, <2>6, <3>1, <3>2
  <2> QED BY <2>3, <2>4, <2>5, <2>7, <2>6, SeqEqual
<1> QED BY <1>1, <1>2

\* lo_write writes from where the descriptor is and moves it (blob.cxx:163).
LEMMA WriteUses ==
  ASSUME NEW s \in States, NoneEmpty(s), NEW fd \in 0..MaxFd, NEW data \in Seq(Bytes)
  PROVE  LET r == LoWrite(s, fd, data)
         IN  /\ Follows(s, r.s)
             /\ r.ok <=> Usable(s, fd) /\ s.fds[fd].writes
             /\ ~ r.ok => r.s.tx = "failed"
             /\ r.ok => r.s = Used(s, fd, s.fds[fd].pos + Len(data),
                                   Written(Content(s, fd), s.fds[fd].pos, data))
<1> DEFINE r == LoWrite(s, fd, data)
<1>1. CASE ~ (Usable(s, fd) /\ s.fds[fd].writes)
  <2>1. r = FailsBlock(s)
    BY <1>1 DEF LoWrite
  <2> QED BY <1>1, <2>1, FailureFollows
<1>2. CASE Usable(s, fd) /\ s.fds[fd].writes
  <2>1. s.fds[fd].pos \in Nat /\ Content(s, fd) \in Seq(Bytes) /\ Len(data) \in Nat
    BY <1>2, DescriptorUsed
  <2>2. PICK p \in Nat : p = s.fds[fd].pos + Len(data)
    BY <2>1
  <2>3. PICK text \in Seq(Bytes) : text = Written(Content(s, fd), s.fds[fd].pos, data)
    BY <2>1, WrittenIsText
  <2>4. r = Ok([s EXCEPT !.bytes[s.fds[fd].of] = text, !.fds[fd].pos = p], Len(data))
    BY <1>2, <2>2, <2>3 DEF LoWrite, Written
  <2>5. [s EXCEPT !.bytes[s.fds[fd].of] = text, !.fds[fd].pos = p] = Used(s, fd, p, text)
    <3>1. s.fds[fd] \in Descriptor /\ s.fds[fd].of \in Ids
      BY <1>2, DescriptorUsed
    <3>2. [s.fds[fd] EXCEPT !.pos = p]
            = [of |-> s.fds[fd].of, pos |-> p, writes |-> s.fds[fd].writes]
      BY <3>1 DEF Descriptor
    <3>3. PICK d : d = [of |-> s.fds[fd].of, pos |-> p, writes |-> s.fds[fd].writes]
      OBVIOUS
    <3>4. PICK F : F = [s.fds EXCEPT ![fd] = d]
      OBVIOUS
    <3>5. PICK B : B = [s.bytes EXCEPT ![s.fds[fd].of] = text]
      OBVIOUS
    <3>6. [s EXCEPT !.bytes[s.fds[fd].of] = text, !.fds[fd].pos = p]
            = [s EXCEPT !.bytes = B, !.fds = F]
      BY <3>2, <3>3, <3>4, <3>5 DEF States
    <3>7. Used(s, fd, p, text) = [s EXCEPT !.fds = F, !.bytes = B]
      BY <3>3, <3>4, <3>5 DEF Used
    <3>8. [s EXCEPT !.bytes = B, !.fds = F] = [s EXCEPT !.fds = F, !.bytes = B]
      BY DEF States
    <3> QED BY <3>6, <3>7, <3>8
  <2> HIDE DEF r
  <2>6. r.ok /\ r.s = Used(s, fd, p, text)
    BY <2>4, <2>5 DEF Ok
  <2>7. Follows(s, r.s)
    BY <1>2, <2>6, UsedFollows
  <2> QED BY <1>2, <2>2, <2>3, <2>6, <2>7 DEF r
<1> QED BY <1>1, <1>2

\* lo_truncate cuts the object, or fills it up, and moves no descriptor (blob.cxx:178).
LEMMA TruncateFollows ==
  ASSUME NEW s \in States, NoneEmpty(s), NEW fd \in 0..MaxFd, NEW n \in Int
  PROVE  Follows(s, LoTruncate(s, fd, n).s)
<1> DEFINE r == LoTruncate(s, fd, n)
<1>1. CASE ~ (Usable(s, fd) /\ s.fds[fd].writes /\ n >= 0)
  <2>1. r = FailsBlock(s)
    BY <1>1 DEF LoTruncate
  <2> QED BY <2>1, FailureFollows
<1>2. CASE Usable(s, fd) /\ s.fds[fd].writes /\ n >= 0
  <2>1. s.fds[fd].pos \in Nat /\ Content(s, fd) \in Seq(Bytes) /\ s.fds[fd].of \in Ids
    BY <1>2, DescriptorUsed
  <2>2. PICK text : text = [i \in 1..n |-> IF i \in DOMAIN Content(s, fd) THEN Content(s, fd)[i] ELSE 0]
    OBVIOUS
  <2>3. text \in Seq(Bytes)
    <3>1. PICK old \in Seq(Bytes) : old = Content(s, fd)
      BY <2>1
    <3>2. \A i \in DOMAIN old : old[i] \in Bytes
      BY ElementOfSeq
    <3>3. text \in [1..n -> Bytes]
      BY <2>2, <3>1, <3>2 DEF Bytes
    <3> QED BY <1>2, <3>3
  <2>4. r.s = [s EXCEPT !.bytes[s.fds[fd].of] = text]
    BY <1>2, <2>2 DEF LoTruncate, Ok, Content
  <2>5. PICK p \in Nat : p = s.fds[fd].pos
    BY <2>1
  <2>6. [of |-> s.fds[fd].of, pos |-> p, writes |-> s.fds[fd].writes] = s.fds[fd]
    BY <1>2, <2>5, DescriptorUsed DEF Descriptor
  <2>7. [s.fds EXCEPT ![fd] = s.fds[fd]] = s.fds
    BY DEF States
  <2>8. PICK B : B = [s.bytes EXCEPT ![s.fds[fd].of] = text]
    OBVIOUS
  <2>9. Used(s, fd, p, text) = [s EXCEPT !.fds = s.fds, !.bytes = B]
    BY <2>6, <2>7, <2>8 DEF Used
  <2>10. [s EXCEPT !.fds = s.fds, !.bytes = B] = [s EXCEPT !.bytes = B]
    BY DEF States
  <2>11. r.s = Used(s, fd, p, text)
    BY <2>4, <2>8, <2>9, <2>10
  <2> QED BY <1>2, <2>3, <2>11, UsedFollows
<1> QED BY <1>1, <1>2

\* lo_lseek moves the descriptor (blob.cxx:200).
LEMMA SeekUses ==
  ASSUME NEW s \in States, NoneEmpty(s), NEW fd \in 0..MaxFd, NEW n \in Int,
         NEW whence \in {"set", "cur", "end"}
  PROVE  LET r == LoSeek(s, fd, n, whence)
             p == Origin(s, fd, whence) + n
         IN  /\ Follows(s, r.s)
             /\ r.ok <=> Usable(s, fd) /\ p >= 0
             /\ r.ok => p \in Nat /\ r.s = Used(s, fd, p, Content(s, fd))
<1> DEFINE r == LoSeek(s, fd, n, whence)
<1>1. CASE ~ (Usable(s, fd) /\ Origin(s, fd, whence) + n >= 0)
  <2>1. r = FailsBlock(s)
    BY <1>1 DEF LoSeek
  <2> QED BY <1>1, <2>1, FailureFollows
<1>2. CASE Usable(s, fd) /\ Origin(s, fd, whence) + n >= 0
  <2>1. s.fds[fd].pos \in Nat /\ Content(s, fd) \in Seq(Bytes)
    BY <1>2, DescriptorUsed
  <2>2. Origin(s, fd, whence) \in Int
    BY <2>1 DEF Origin
  <2>3. PICK p \in Nat : p = Origin(s, fd, whence) + n
    BY <1>2, <2>2
  <2>4. r = Ok([s EXCEPT !.fds[fd].pos = p], p)
    BY <1>2, <2>3 DEF LoSeek
  <2>5. r = Ok(Used(s, fd, p, Content(s, fd)), p)
    BY <1>2, <2>4, OnlyMoved
  <2>6. r.ok /\ r.s = Used(s, fd, p, Content(s, fd))
    BY <2>5 DEF Ok
  <2>7. Follows(s, r.s)
    <3>1. Usable(s, fd)
      BY <1>2
    <3>2. Follows(s, Used(s, fd, p, Content(s, fd)))
      BY <2>1, <3>1, UsedFollows
    <3> QED BY <2>6, <3>2, Zenon
  <2> QED BY <1>2, <2>3, <2>6, <2>7
<1> QED BY <1>1, <1>2
-----------------------------------------------------------------------------
(* Descriptors are opened and closed *)

\* What the server chooses is one of what it may choose.
LEMMA OneOfThem ==
  ASSUME NEW S, S # {}
  PROVE  OneOf(S) \in S
BY DEF OneOf

\* The state with fd open on id, at its beginning.
OpenAt(s, fd, id, writes) ==
  [s EXCEPT !.fds = [@ EXCEPT ![fd] = [of |-> id, pos |-> 0, writes |-> writes]]]

\* lo_open opens a descriptor that was free (blob.cxx:47).
LEMMA OpenUses ==
  ASSUME NEW s \in States, NoneEmpty(s), FreeFds(s) # {}, NEW id \in Ids, NEW w \in BOOLEAN
  PROVE  LET o == LoOpen(s, id, w)
         IN  /\ o.ok <=> s.tx = "block" /\ id \in s.objs
             /\ ~ o.ok => o = FailsBlock(s)
             /\ o.ok => o.v \in FreeFds(s) /\ o.v \in 0..MaxFd /\ o.s = OpenAt(s, o.v, id, w)
<1> DEFINE o == LoOpen(s, id, w)
<1>1. CASE ~ (s.tx = "block" /\ id \in s.objs)
  <2>1. o = FailsBlock(s)
    BY <1>1 DEF LoOpen
  <2> QED BY <1>1, <2>1, FailureFollows
<1>2. CASE s.tx = "block" /\ id \in s.objs
  <2>1. PICK fd : fd = OneOf(FreeFds(s))
    OBVIOUS
  <2>2. fd \in FreeFds(s) /\ fd \in 0..MaxFd
    BY <2>1, OneOfThem DEF FreeFds
  <2>3. o = Ok(OpenAt(s, fd, id, w), fd)
    BY <1>2, <2>1 DEF LoOpen, OpenAt
  <2> QED BY <1>2, <2>2, <2>3 DEF Ok
<1> QED BY <1>1, <1>2

\* A descriptor that was opened is at the beginning of its object, and the others
\* are as they were.
LEMMA OpenIsOpen ==
  ASSUME NEW s \in States, NoneEmpty(s), s.tx = "block", NEW fd \in 0..MaxFd,
         NEW id \in s.objs, NEW w \in BOOLEAN
  PROVE  LET t == OpenAt(s, fd, id, w)
         IN  /\ t \in States /\ NoneEmpty(t)
             /\ t.tx = "block" /\ t.objs = s.objs /\ t.bytes = s.bytes
             /\ t.held = s.held /\ t.meant = s.meant
             /\ t.fds[fd] = [of |-> id, pos |-> 0, writes |-> w] /\ t.fds[fd] # Free
             /\ \A g \in (0..MaxFd) \ {fd} : t.fds[g] = s.fds[g]
             /\ Usable(t, fd) /\ Content(t, fd) = s.bytes[id]
<1> DEFINE t == OpenAt(s, fd, id, w)
           d == [of |-> id, pos |-> 0, writes |-> w]
<1>1. id \in Ids /\ d \in Descriptor /\ d # Free
  <2>1. id \in Ids
    BY DEF States
  <2>2. id # 0
    BY <2>1, BlobAssumption
  <2> QED BY <2>1, <2>2 DEF Descriptor, Free
<1>2. PICK F : F = [s.fds EXCEPT ![fd] = d]
  OBVIOUS
<1>3. /\ F \in [0..MaxFd -> {Free} \cup Descriptor] /\ F[fd] = d
      /\ \A g \in (0..MaxFd) \ {fd} : F[g] = s.fds[g]
  BY <1>1, <1>2 DEF States
<1>4. t = [s EXCEPT !.fds = F]
  BY <1>2 DEF OpenAt
<1> HIDE DEF t
<1>5. /\ t \in States /\ t.fds = F /\ t.bytes = s.bytes /\ t.tx = s.tx /\ t.objs = s.objs
      /\ t.held = s.held /\ t.meant = s.meant
  BY <1>3, <1>4 DEF States
<1>6. NoneEmpty(t)
  BY <1>5 DEF NoneEmpty
<1>7. Usable(t, fd) /\ Content(t, fd) = s.bytes[id]
  BY <1>3, <1>5 DEF Usable, Content
<1> QED BY <1>1, <1>3, <1>5, <1>6, <1>7 DEF t

\* The state with fd closed.
ClosedAt(s, fd) == [s EXCEPT !.fds = [@ EXCEPT ![fd] = Free]]

\* lo_close frees a descriptor, where there is a block and the descriptor is open.
LEMMA CloseUses ==
  ASSUME NEW s \in States, NoneEmpty(s), NEW fd \in 0..MaxFd
  PROVE  LET t == LoClose(s, fd).s
         IN  /\ t \in States /\ NoneEmpty(t)
             /\ t.held = s.held /\ t.meant = s.meant
             /\ t.tx = "block" => s.tx = "block"
             /\ s.tx = "block" /\ s.fds[fd] # Free => t = ClosedAt(s, fd)
             /\ t.tx = "block" =>
                  /\ t.fds[fd] = Free
                  /\ \A g \in (0..MaxFd) \ {fd} : t.fds[g] = s.fds[g]
<1> DEFINE t == LoClose(s, fd).s
<1>1. CASE ~ (s.tx = "block" /\ s.fds[fd] # Free)
  <2>1. t = FailsBlock(s).s
    BY <1>1 DEF LoClose
  <2>2. Follows(s, t) /\ t.tx = "failed"
    BY <2>1, FailureFollows
  <2> QED BY <1>1, <2>2 DEF Follows
<1>2. CASE s.tx = "block" /\ s.fds[fd] # Free
  <2>1. t = ClosedAt(s, fd)
    BY <1>2 DEF LoClose, Ok, ClosedAt
  <2>2. PICK F : F = [s.fds EXCEPT ![fd] = Free]
    OBVIOUS
  <2>3. /\ F \in [0..MaxFd -> {Free} \cup Descriptor] /\ F[fd] = Free
        /\ \A g \in (0..MaxFd) \ {fd} : F[g] = s.fds[g]
    BY <2>2 DEF States
  <2>4. t = [s EXCEPT !.fds = F]
    BY <2>1, <2>2 DEF ClosedAt
  <2> HIDE DEF t
  <2>5. /\ t \in States /\ t.fds = F /\ t.bytes = s.bytes /\ t.tx = s.tx /\ t.objs = s.objs
        /\ t.held = s.held /\ t.meant = s.meant
    BY <2>3, <2>4 DEF States
  <2>6. NoneEmpty(t)
    BY <2>5 DEF NoneEmpty
  <2> QED BY <1>2, <2>1, <2>3, <2>5, <2>6 DEF t
<1> QED BY <1>1, <1>2

\* A descriptor that is opened, used and closed leaves the others to their owners.
LEMMA UsingFollows ==
  ASSUME NEW s \in States, NoneEmpty(s), s.tx = "block", NEW fd \in FreeFds(s),
         NEW id \in s.objs, NEW w \in BOOLEAN, NEW t, Follows(OpenAt(s, fd, id, w), t)
  PROVE  /\ Follows(s, LoClose(t, fd).s)
         /\ t.tx = "block" => LoClose(t, fd).s = ClosedAt(t, fd)
<1> DEFINE o == OpenAt(s, fd, id, w)
           u == LoClose(t, fd).s
<1>1. fd \in 0..MaxFd /\ s.fds[fd] = Free
  BY DEF FreeFds
<1>2. /\ o.held = s.held /\ o.meant = s.meant
      /\ o.fds[fd] = [of |-> id, pos |-> 0, writes |-> w]
      /\ \A g \in (0..MaxFd) \ {fd} : o.fds[g] = s.fds[g]
  BY <1>1, OpenIsOpen
<1>3. /\ t \in States /\ NoneEmpty(t) /\ t.held = s.held /\ t.meant = s.meant
      /\ t.tx = "block" => \A g \in 0..MaxFd : t.fds[g].of = o.fds[g].of
  BY <1>2 DEF Follows
<1>4. /\ u \in States /\ NoneEmpty(u) /\ u.held = t.held /\ u.meant = t.meant
      /\ u.tx = "block" =>
           /\ t.tx = "block" /\ u.fds[fd] = Free
           /\ \A g \in (0..MaxFd) \ {fd} : u.fds[g] = t.fds[g]
      /\ t.tx = "block" /\ t.fds[fd] # Free => u = ClosedAt(t, fd)
  BY <1>1, <1>3, CloseUses
<1> HIDE DEF o, u
<1>5. ASSUME u.tx = "block"
      PROVE  \A g \in 0..MaxFd : u.fds[g].of = s.fds[g].of
  BY <1>1, <1>2, <1>3, <1>4, <1>5
<1>6. t.tx = "block" => t.fds[fd] # Free
  <2>1. id # 0
    BY BlobAssumption DEF States
  <2> QED BY <1>1, <1>2, <1>3, <2>1, FreeIsNone
<1>7. Follows(s, u)
  BY <1>3, <1>4, <1>5 DEF Follows
<1> QED BY <1>4, <1>6, <1>7 DEF u
-----------------------------------------------------------------------------
(* Objects that are read and written as a whole *)

\* The empty text.
LEMMA NothingIsText ==
  /\ Nothing \in Seq(Bytes) /\ Len(Nothing) = 0
  /\ \A data \in Seq(Bytes) : Nothing \o data = data
BY ConcatEmptySeq DEF Nothing

\* The data the program writes are bytes.
LEMMA TextsAreText ==
  ASSUME NEW n, NEW data \in Texts(n)
  PROVE  data \in Seq(Bytes)
<1>1. PICK m \in 0..n : data \in [1..m -> {1}]
  BY DEF Texts, BoundedSeq, SeqOf
<1>2. data \in [1..m -> Bytes]
  BY <1>1 DEF Bytes
<1>3. m \in Nat
  BY <1>1
<1> QED BY <1>2, <1>3

\* The state with text in an object.
Rewritten(s, id, text) == [s EXCEPT !.bytes = [@ EXCEPT ![id] = text]]

\* A descriptor that was opened, used and closed is as it was: only its object is
\* another.
LEMMA UsingRestores ==
  ASSUME NEW s \in States, NoneEmpty(s), s.tx = "block", NEW fd \in FreeFds(s),
         NEW id \in s.objs, NEW w \in BOOLEAN, NEW p \in Nat, NEW text \in Seq(Bytes)
  PROVE  LET t == Used(OpenAt(s, fd, id, w), fd, p, text)
         IN  LoClose(t, fd).s = Rewritten(s, id, text)
<1> DEFINE o == OpenAt(s, fd, id, w)
           t == Used(o, fd, p, text)
<1>1. fd \in 0..MaxFd /\ s.fds[fd] = Free /\ id \in Ids
  BY DEF FreeFds, States
<1>2. PICK F : F = [s.fds EXCEPT ![fd] = [of |-> id, pos |-> 0, writes |-> w]]
  OBVIOUS
<1>3. o = [s EXCEPT !.fds = F]
  BY <1>2 DEF OpenAt
<1>4. o.fds = F /\ o.bytes = s.bytes
  BY <1>3 DEF States
<1>5. F[fd] = [of |-> id, pos |-> 0, writes |-> w]
  BY <1>1, <1>2 DEF States
<1>6. /\ o \in States /\ NoneEmpty(o) /\ Usable(o, fd) /\ o.tx = "block"
  BY <1>1, OpenIsOpen
<1>7. PICK G : G = [F EXCEPT ![fd] = [of |-> id, pos |-> p, writes |-> w]]
  OBVIOUS
<1>8. PICK B : B = [s.bytes EXCEPT ![id] = text]
  OBVIOUS
<1>9. t = [o EXCEPT !.fds = G, !.bytes = B]
  <2>1. o.fds[fd].of = id /\ o.fds[fd].writes = w
    BY <1>4, <1>5
  <2>2. t = [o EXCEPT !.fds = [F EXCEPT ![fd] = [of |-> id, pos |-> p, writes |-> w]],
                      !.bytes = [s.bytes EXCEPT ![id] = text]]
    BY <1>4, <2>1 DEF Used
  <2> QED BY <1>7, <1>8, <2>2
<1>10. LoClose(t, fd).s = ClosedAt(t, fd)
  <2>1. Follows(o, t) /\ t.tx = "block"
    BY <1>1, <1>6, UsedFollows
  <2> QED BY <2>1, UsingFollows
<1>11. t.fds = G
  BY <1>9, <1>3 DEF States
<1>12. [G EXCEPT ![fd] = Free] = s.fds
  <2>1. s.fds \in [0..MaxFd -> {Free} \cup Descriptor]
    BY DEF States
  <2> QED BY <1>1, <1>2, <1>7, <2>1
<1> HIDE DEF t, o
<1>13. ClosedAt(t, fd) = [t EXCEPT !.fds = s.fds]
  BY <1>11, <1>12 DEF ClosedAt
<1>14. [t EXCEPT !.fds = s.fds] = [s EXCEPT !.bytes = B]
  BY <1>3, <1>9 DEF States
<1> QED BY <1>8, <1>10, <1>13, <1>14 DEF t, o, Rewritten

\* lo_create of an id that is given makes an empty object, or fails the block.
LEMMA CreateUses ==
  ASSUME NEW s \in States, NoneEmpty(s), NEW id \in Ids
  PROVE  LET c == LoCreate(s, id)
         IN  /\ Follows(s, c.s)
             /\ c.ok <=> s.tx = "block" /\ id \notin s.objs
             /\ ~ c.ok => c = FailsBlock(s) /\ c.s.tx = "failed"
             /\ c.ok => /\ c.v = id /\ c.s = [s EXCEPT !.objs = @ \cup {id}]
                        /\ c.s.tx = "block" /\ c.s.bytes = s.bytes /\ s.bytes[id] = Nothing
                        /\ id \in c.s.objs /\ FreeFds(c.s) = FreeFds(s)
<1> DEFINE c == LoCreate(s, id)
<1>1. id # 0
  BY BlobAssumption
<1>2. CASE ~ (s.tx = "block" /\ id \notin s.objs)
  <2>1. c = FailsBlock(s)
    BY <1>1, <1>2 DEF LoCreate
  <2> QED BY <1>2, <2>1, FailureFollows
<1>3. CASE s.tx = "block" /\ id \notin s.objs
  <2>1. {id} \ s.objs = {id} /\ OneOf({id}) = id
    BY <1>3, OneOfThem
  <2>2. c = Ok([s EXCEPT !.objs = @ \cup {id}, !.bytes[id] = Nothing], id)
    BY <1>1, <1>3, <2>1 DEF LoCreate, Nothing
  <2>3. s.bytes[id] = Nothing
    BY <1>3 DEF NoneEmpty
  <2>4. [s.bytes EXCEPT ![id] = Nothing] = s.bytes
    BY <2>3 DEF States
  <2>5. [s EXCEPT !.objs = @ \cup {id}, !.bytes[id] = Nothing] = [s EXCEPT !.objs = @ \cup {id}]
    BY <2>4 DEF States
  <2>6. PICK t : t = [s EXCEPT !.objs = @ \cup {id}]
    OBVIOUS
  <2>7. c = Ok(t, id)
    BY <2>2, <2>5, <2>6
  <2>8. /\ t.tx = "block" /\ t.bytes = s.bytes /\ t.fds = s.fds
        /\ t.objs = s.objs \cup {id} /\ t \in States
        /\ t.held = s.held /\ t.meant = s.meant
    BY <1>3, <2>6 DEF States
  <2>9. Follows(s, t)
    BY <1>3, <2>8 DEF Follows, NoneEmpty
  <2>10. FreeFds(t) = FreeFds(s)
    BY <2>8 DEF FreeFds
  <2>11. c.ok = TRUE /\ c.v = id /\ c.s = t
    BY <2>7 DEF Ok
  <2> QED BY <1>3, <2>3, <2>6, <2>8, <2>9, <2>10, <2>11
<1> QED BY <1>2, <1>3

\* remove (blob.cxx:68): the object is gone, with all that was in it.
LEMMA RemoveUses ==
  ASSUME NEW s \in States, NoneEmpty(s), NEW id \in Ids
  PROVE  LET t == Removed(s, id).s
         IN  /\ Follows(s, t)
             /\ s.tx = "block" /\ id \in s.objs =>
                  t = [s EXCEPT !.objs = @ \ {id}, !.bytes = [@ EXCEPT ![id] = Nothing]]
<1> DEFINE t == Removed(s, id).s
<1>1. id # 0 /\ Removed(s, id) = LoUnlink(s, id)
  BY BlobAssumption DEF Removed
<1>2. CASE ~ (s.tx = "block" /\ id \in s.objs)
  <2>1. t = FailsBlock(s).s
    BY <1>1, <1>2 DEF LoUnlink
  <2> QED BY <1>2, <2>1, FailureFollows
<1>3. CASE s.tx = "block" /\ id \in s.objs
  <2>1. PICK B : B = [s.bytes EXCEPT ![id] = Nothing]
    OBVIOUS
  <2>2. t = [s EXCEPT !.objs = @ \ {id}, !.bytes = B]
    BY <1>1, <1>3, <2>1 DEF LoUnlink, Ok, Nothing
  <2>3. /\ B \in [Ids -> Seq(Bytes)] /\ B[id] = Nothing
        /\ \A i \in Ids \ {id} : B[i] = s.bytes[i]
    BY <2>1, NothingIsText DEF States
  <2> HIDE DEF t
  <2>4. /\ t \in States /\ t.tx = s.tx /\ t.fds = s.fds /\ t.held = s.held
        /\ t.meant = s.meant /\ t.objs = s.objs \ {id} /\ t.bytes = B
    BY <2>2, <2>3 DEF States
  <2>5. NoneEmpty(t)
    BY <2>3, <2>4 DEF NoneEmpty
  <2>6. Follows(s, t)
    BY <2>4, <2>5 DEF Follows
  <2>7. t = [s EXCEPT !.objs = @ \ {id}, !.bytes = [@ EXCEPT ![id] = Nothing]]
    BY <2>1, <2>2
  <2> QED BY <2>6, <2>7 DEF t
<1> QED BY <1>2, <1>3

\* An object that is made and removed again was never there.
LEMMA MadeAndRemoved ==
  ASSUME NEW s \in States, NoneEmpty(s), s.tx = "block", NEW id \in Ids \ s.objs
  PROVE  Removed([s EXCEPT !.objs = @ \cup {id}], id).s = s
<1>1. PICK c : c = [s EXCEPT !.objs = @ \cup {id}]
  OBVIOUS
<1>2. c \in States /\ c.tx = "block" /\ c.objs = s.objs \cup {id} /\ c.bytes = s.bytes
  BY <1>1 DEF States
<1>3. NoneEmpty(c)
  BY <1>2 DEF NoneEmpty
<1>4. Removed(c, id).s = [c EXCEPT !.objs = @ \ {id}, !.bytes = [@ EXCEPT ![id] = Nothing]]
  BY <1>2, <1>3, RemoveUses
<1>5. [c.bytes EXCEPT ![id] = Nothing] = s.bytes
  <2>1. s.bytes[id] = Nothing /\ s.bytes \in [Ids -> Seq(Bytes)]
    BY DEF NoneEmpty, States
  <2> QED BY <1>2, <2>1
<1>6. c.objs \ {id} = s.objs
  BY <1>2
<1>7. Removed(c, id).s = [c EXCEPT !.objs = s.objs, !.bytes = s.bytes]
  BY <1>4, <1>5, <1>6
<1>8. [c EXCEPT !.objs = s.objs, !.bytes = s.bytes] = s
  BY <1>1 DEF States
<1> QED BY <1>1, <1>7, <1>8

\* A descriptor that was opened and closed is as it was.
LEMMA OpenedAndClosed ==
  ASSUME NEW s \in States, NoneEmpty(s), s.tx = "block", NEW fd \in FreeFds(s),
         NEW id \in s.objs, NEW w \in BOOLEAN
  PROVE  LoClose(OpenAt(s, fd, id, w), fd).s = s
<1> DEFINE o == OpenAt(s, fd, id, w)
<1>1. fd \in 0..MaxFd /\ s.fds[fd] = Free
  BY DEF FreeFds
<1>2. o \in States /\ NoneEmpty(o) /\ o.tx = "block" /\ o.fds[fd] # Free
  BY <1>1, OpenIsOpen, ZenonT(40)
<1>3. LoClose(o, fd).s = ClosedAt(o, fd)
  BY <1>1, <1>2, CloseUses
<1>4. PICK F : F = [s.fds EXCEPT ![fd] = [of |-> id, pos |-> 0, writes |-> w]]
  OBVIOUS
<1>5. o = [s EXCEPT !.fds = F]
  BY <1>4 DEF OpenAt
<1>6. o.fds = F
  BY <1>5 DEF States
<1>7. [F EXCEPT ![fd] = Free] = s.fds
  BY <1>1, <1>4 DEF States
<1> HIDE DEF o
<1>8. ClosedAt(o, fd) = [o EXCEPT !.fds = s.fds]
  BY <1>6, <1>7 DEF ClosedAt
<1>9. [o EXCEPT !.fds = s.fds] = s
  BY <1>5 DEF States
<1> QED BY <1>3, <1>8, <1>9 DEF o

\* A blob that writes refuses too much data before the server is asked
\* (blob.cxx:163).
LEMMA RawWriteUses ==
  ASSUME NEW t, NEW fd, NEW data
  PROVE  RawWrite(t, [conn |-> TRUE, fd |-> fd], data)
           = IF Len(data) > ChunkLimit THEN Throws(t) ELSE LoWrite(t, fd, data)
BY DEF RawWrite

\* from_buf (blob.cxx:231): the object holds the data, or is not there.
LEMMA FromBufUses ==
  ASSUME NEW s \in States, NoneEmpty(s), FreeFds(s) # {}, NEW id \in Ids,
         NEW data \in Seq(Bytes)
  PROVE  LET r == FromBuf(s, id, data)
         IN  /\ Follows(s, r.s)
             /\ r.ok => r.s.objs = s.objs \cup {r.v} /\ r.s.bytes[r.v] = data
             /\ ~ r.ok /\ r.s.tx = "block" => r.s = s
<1>1. PICK c : c = LoCreate(s, id)
  OBVIOUS
<1>2. CASE ~ c.ok
  <2>1. FromBuf(s, id, data) = c
    BY <1>1, <1>2 DEF FromBuf
  <2>2. Follows(s, c.s) /\ c.s.tx = "failed"
    BY <1>1, <1>2, CreateUses
  <2>3. c.s.tx # "block"
    BY <2>2
  <2> QED BY <1>2, <2>1, <2>2, <2>3, Zenon
<1>3. CASE c.ok
  <2>1. PICK t : t = c.s
    OBVIOUS
  <2>2. s.tx = "block" /\ id \in Ids \ s.objs /\ c.v = id /\ Follows(s, t)
    BY <1>1, <1>3, <2>1, CreateUses
  <2>3. t = [s EXCEPT !.objs = @ \cup {id}]
    BY <1>1, <1>3, <2>1, CreateUses
  <2>4. /\ t \in States /\ NoneEmpty(t) /\ t.tx = "block" /\ id \in t.objs
        /\ FreeFds(t) # {}
    BY <1>1, <1>3, <2>1, <2>2, CreateUses, ZenonT(40) DEF Follows
  <2>5. t.bytes[id] = Nothing /\ t.objs = s.objs \cup {id}
    <3>1. t.objs = s.objs \cup {id} /\ t.bytes = s.bytes
      BY <2>3 DEF States
    <3>2. s.bytes[id] = Nothing
      BY <2>2 DEF NoneEmpty
    <3> QED BY <3>1, <3>2, Zenon
  <2>6. PICK q : q = LoOpen(t, id, TRUE)
    OBVIOUS
  <2>7. PICK fd : fd = q.v
    OBVIOUS
  <2>8. PICK o : o = OpenAt(t, fd, id, TRUE)
    OBVIOUS
  <2>9. fd \in FreeFds(t) /\ fd \in 0..MaxFd
    BY <2>2, <2>4, <2>6, <2>7, OpenUses
  <2>10. q.ok
    BY <2>2, <2>4, <2>6, OpenUses
  <2>11. q.s = o
    BY <2>2, <2>4, <2>6, <2>7, <2>8, OpenUses
  <2>12. o \in States /\ NoneEmpty(o) /\ Usable(o, fd) /\ Content(o, fd) = t.bytes[id]
    BY <2>2, <2>4, <2>8, <2>9, OpenIsOpen, ZenonT(40)
  <2>13. o.fds[fd] = [of |-> id, pos |-> 0, writes |-> TRUE]
    BY <2>2, <2>4, <2>8, <2>9, OpenIsOpen, ZenonT(40)
  <2>14. PICK r : r = RawWrite(o, [conn |-> TRUE, fd |-> fd], data)
    OBVIOUS
  <2>15. PICK u : u = LoClose(r.s, fd).s
    OBVIOUS
  <2>16. FromBuf(s, id, data)
           = IF [r EXCEPT !.s = u].ok THEN Ok([r EXCEPT !.s = u].s, id)
             ELSE Throws(CleanedUp([r EXCEPT !.s = u].s, id))
    <3>1. q = LoOpen(c.s, c.v, TRUE)
      BY <2>1, <2>2, <2>6, Zenon
    <3>2. r = RawWrite(q.s, [conn |-> TRUE, fd |-> q.v], data)
      BY <2>7, <2>14, <2>11, Zenon
    <3>3. u = LoClose(r.s, q.v).s
      BY <2>7, <2>15, Zenon
    <3>4. FromBuf(s, id, data)
            = IF [r EXCEPT !.s = u].ok THEN Ok([r EXCEPT !.s = u].s, c.v)
              ELSE Throws(CleanedUp([r EXCEPT !.s = u].s, id))
      BY <1>1, <1>3, <2>10, <3>1, <3>2, <3>3 DEF FromBuf, Using, Ignored
    <3> QED BY <2>2, <3>4
  <2>17. CASE Len(data) > ChunkLimit
    <3>1. r = Throws(o)
      BY <2>14, <2>17, RawWriteUses
    <3>2. u = t
      <4>1. r.s = o
        BY <3>1 DEF Throws
      <4>2. LoClose(o, fd).s = t
        BY <2>4, <2>8, <2>9, OpenedAndClosed
      <4> QED BY <2>15, <4>1, <4>2, Zenon
    <3>3. FromBuf(s, id, data) = Throws(CleanedUp(t, id))
      BY <2>16, <3>1, <3>2 DEF Throws
    <3>4. CleanedUp(t, id) = s
      BY <2>2, <2>3, MadeAndRemoved DEF CleanedUp, Ignored
    <3>5. FromBuf(s, id, data).s = s /\ ~ FromBuf(s, id, data).ok
      BY <3>3, <3>4 DEF Throws
    <3> QED BY <3>5, NothingFollows
  <2>18. CASE ~ (Len(data) > ChunkLimit)
    <3>1. r = LoWrite(o, fd, data)
      BY <2>14, <2>18, RawWriteUses
    <3>2. o.fds[fd].writes = TRUE /\ o.fds[fd].pos = 0
      BY <2>13
    <3>3. r.ok /\ Follows(o, r.s)
      BY <2>9, <2>12, <3>1, <3>2, WriteUses
    <3>4. r.s = Used(o, fd, 0 + Len(data), Written(Nothing, 0, data))
      BY <2>5, <2>9, <2>12, <3>1, <3>2, <3>3, WriteUses
    <3>5. Written(Nothing, 0, data) = data
      BY NothingIsText, WrittenAtEnd
    <3>6. PICK n \in Nat : n = 0 + Len(data)
      OBVIOUS
    <3>7. u = Rewritten(t, id, data)
      <4>1. r.s = Used(o, fd, n, data)
        BY <3>4, <3>5, <3>6
      <4>2. LoClose(Used(o, fd, n, data), fd).s = Rewritten(t, id, data)
        BY <2>4, <2>8, <2>9, UsingRestores
      <4> QED BY <2>15, <4>1, <4>2, Zenon
    <3>8. Follows(t, u)
      BY <2>4, <2>8, <2>9, <2>15, <3>3, UsingFollows
    <3>9. FromBuf(s, id, data) = Ok(u, id)
      <4>1. [r EXCEPT !.s = u].ok /\ [r EXCEPT !.s = u].s = u
        BY <2>12, <3>1, <3>2 DEF LoWrite, Ok
      <4> QED BY <2>16, <4>1
    <3>10. u.objs = s.objs \cup {id} /\ u.bytes[id] = data
      BY <2>2, <2>4, <2>5, <3>7 DEF States, Rewritten
    <3>11. /\ FromBuf(s, id, data).ok = TRUE /\ FromBuf(s, id, data).s = u
           /\ FromBuf(s, id, data).v = id
      BY <3>9 DEF Ok
    <3> QED BY <2>2, <3>8, <3>10, <3>11, FollowsTwice
  <2> QED BY <2>17, <2>18
<1> QED BY <1>2, <1>3

\* Of two calls on one descriptor, the second one says where it is.
LEMMA UsedTwice ==
  ASSUME NEW s \in States, NEW fd \in 0..MaxFd, NEW p, NEW x, NEW n, NEW y,
         s.fds[fd].of \in Ids
  PROVE  Used(Used(s, fd, p, x), fd, n, y) = Used(s, fd, n, y)
<1> DEFINE id == s.fds[fd].of
           w == s.fds[fd].writes
<1>1. PICK F : F = [s.fds EXCEPT ![fd] = [of |-> id, pos |-> p, writes |-> w]]
  OBVIOUS
<1>2. PICK B : B = [s.bytes EXCEPT ![id] = x]
  OBVIOUS
<1>3. PICK t : t = [s EXCEPT !.fds = F, !.bytes = B]
  OBVIOUS
<1>4. t = Used(s, fd, p, x)
  BY <1>1, <1>2, <1>3 DEF Used
<1>5. t.fds = F /\ t.bytes = B /\ F[fd] = [of |-> id, pos |-> p, writes |-> w]
  BY <1>1, <1>3 DEF States
<1>6. t.fds[fd].of = id /\ t.fds[fd].writes = w
  BY <1>5
<1>7. PICK G : G = [s.fds EXCEPT ![fd] = [of |-> id, pos |-> n, writes |-> w]]
  OBVIOUS
<1>8. PICK C : C = [s.bytes EXCEPT ![id] = y]
  OBVIOUS
<1>9. [F EXCEPT ![fd] = [of |-> id, pos |-> n, writes |-> w]] = G
  BY <1>1, <1>7 DEF States
<1>10. [B EXCEPT ![id] = y] = C
  BY <1>2, <1>8 DEF States
<1> HIDE DEF id, w
<1>11. Used(t, fd, n, y) = [t EXCEPT !.fds = G, !.bytes = C]
  BY <1>5, <1>6, <1>9, <1>10 DEF Used
<1>12. [t EXCEPT !.fds = G, !.bytes = C] = [s EXCEPT !.fds = G, !.bytes = C]
  BY <1>3 DEF States
<1>13. [s EXCEPT !.fds = G, !.bytes = C] = Used(s, fd, n, y)
  BY <1>7, <1>8 DEF Used, id, w
<1> QED BY <1>4, <1>11, <1>12, <1>13, Zenon

\* append_from_buf (blob.cxx:261): the data comes after what is there.
LEMMA AppendFromBufUses ==
  ASSUME NEW s \in States, NoneEmpty(s), FreeFds(s) # {}, NEW id \in Ids,
         NEW data \in Seq(Bytes)
  PROVE  LET r == AppendFromBuf(s, id, data)
         IN  /\ Follows(s, r.s)
             /\ r.ok => r.s = Rewritten(s, id, s.bytes[id] \o data)
<1>1. CASE Len(data) > ChunkLimit
  <2>1. AppendFromBuf(s, id, data) = Throws(s)
    BY <1>1 DEF AppendFromBuf
  <2>2. Throws(s).ok = FALSE /\ Throws(s).s = s
    BY DEF Throws
  <2> QED BY <2>1, <2>2, NothingFollows
<1>2. CASE ~ (Len(data) > ChunkLimit) /\ ~ LoOpen(s, id, TRUE).ok
  <2>1. AppendFromBuf(s, id, data) = LoOpen(s, id, TRUE)
    BY <1>2 DEF AppendFromBuf, Using
  <2>2. AppendFromBuf(s, id, data) = FailsBlock(s)
    BY <1>2, <2>1, OpenUses
  <2> QED BY <2>2, FailureFollows
<1>3. CASE ~ (Len(data) > ChunkLimit) /\ LoOpen(s, id, TRUE).ok
  <2>1. PICK q : q = LoOpen(s, id, TRUE)
    OBVIOUS
  <2>2. PICK fd : fd = q.v
    OBVIOUS
  <2>3. PICK o : o = OpenAt(s, fd, id, TRUE)
    OBVIOUS
  <2>4. s.tx = "block" /\ id \in s.objs
    BY <1>3, OpenUses
  <2>5. fd \in FreeFds(s) /\ fd \in 0..MaxFd
    BY <1>3, <2>1, <2>2, OpenUses
  <2>6. q.s = o
    BY <1>3, <2>1, <2>2, <2>3, OpenUses
  <2>7. o \in States /\ NoneEmpty(o) /\ Usable(o, fd) /\ Content(o, fd) = s.bytes[id]
    BY <2>3, <2>4, <2>5, OpenIsOpen
  <2>8. o.fds[fd] = [of |-> id, pos |-> 0, writes |-> TRUE]
    BY <2>3, <2>4, <2>5, OpenIsOpen
  <2>9. PICK old \in Seq(Bytes) : old = s.bytes[id]
    BY DEF States
  <2>10. PICK k : k = LoSeek(o, fd, 0, "end")
    OBVIOUS
  <2>11. k.ok
    <3>1. Origin(o, fd, "end") + 0 >= 0
      BY <2>7, <2>9 DEF Origin
    <3> QED BY <2>5, <2>7, <2>10, <3>1, SeekUses
  <2>12. Follows(o, k.s)
    BY <2>5, <2>7, <2>10, SeekUses
  <2>13. k.s = Used(o, fd, Len(old), old)
    <3>1. Origin(o, fd, "end") + 0 = Len(old)
      BY <2>7, <2>9 DEF Origin
    <3>2. k.s = Used(o, fd, Origin(o, fd, "end") + 0, Content(o, fd))
      BY <2>5, <2>7, <2>10, <2>11, SeekUses
    <3> QED BY <2>7, <2>9, <3>1, <3>2
  <2>14. PICK t : t = k.s
    OBVIOUS
  <2>15. /\ t \in States /\ NoneEmpty(t) /\ Usable(t, fd) /\ Content(t, fd) = old
         /\ t.fds[fd].pos = Len(old) /\ t.fds[fd].writes = o.fds[fd].writes
    <3>1. Len(old) \in Nat
      OBVIOUS
    <3>2. Follows(o, t)
      BY <2>12, <2>14
    <3>3. t = Used(o, fd, Len(old), old)
      BY <2>13, <2>14
    <3> QED BY <2>5, <2>7, <3>1, <3>2, <3>3, UsedFollows, SMTT(30) DEF Follows
  <2>16. t.fds[fd].writes = TRUE
    BY <2>8, <2>15
  <2>17. PICK w : w = LoWrite(t, fd, data)
    OBVIOUS
  <2>18. w.ok /\ Follows(t, w.s)
    BY <2>5, <2>15, <2>16, <2>17, WriteUses
  <2>19. PICK n \in Nat : n = Len(old) + Len(data)
    OBVIOUS
  <2>20. w.s = Used(o, fd, n, old \o data)
    <3>1. w.s = Used(t, fd, Len(old) + Len(data), Written(old, Len(old), data))
      BY <2>5, <2>15, <2>16, <2>17, <2>18, WriteUses
    <3>2. w.s = Used(t, fd, n, old \o data)
      BY <2>19, <3>1, WrittenAtEnd
    <3>3. o.fds[fd].of \in Ids
      BY <2>8
    <3>4. Used(t, fd, n, old \o data) = Used(o, fd, n, old \o data)
      BY <2>5, <2>7, <2>13, <2>14, <3>3, UsedTwice
    <3> QED BY <3>2, <3>4, Zenon
  <2>21. PICK u : u = LoClose(w.s, fd).s
    OBVIOUS
  <2>22. u = Rewritten(s, id, old \o data)
    <3>1. old \o data \in Seq(Bytes)
      OBVIOUS
    <3>2. LoClose(Used(o, fd, n, old \o data), fd).s = Rewritten(s, id, old \o data)
      BY <2>3, <2>4, <2>5, <3>1, UsingRestores
    <3> QED BY <2>20, <2>21, <3>2, Zenon
  <2>23. Follows(s, u)
    <3>1. Follows(o, w.s)
      BY <2>12, <2>14, <2>18, FollowsTwice
    <3> QED BY <2>3, <2>4, <2>5, <2>21, <3>1, UsingFollows
  <2>24. AppendFromBuf(s, id, data) = [w EXCEPT !.s = u]
    <3>1. RawWrite(t, [conn |-> TRUE, fd |-> fd], data) = w
      BY <1>3, <2>17, RawWriteUses
    <3>2. Sought(o, [conn |-> TRUE, fd |-> fd], 0, "end") = k
      BY <2>10 DEF Sought
    <3> QED BY <1>3, <2>1, <2>2, <2>6, <2>11, <2>14, <2>21, <3>1, <3>2 DEF AppendFromBuf, Using, Ignored
  <2>25. [w EXCEPT !.s = u].s = u
    BY <2>15, <2>16, <2>17 DEF LoWrite, Ok
  <2> QED BY <2>9, <2>22, <2>23, <2>24, <2>25
<1> QED BY <1>1, <1>2, <1>3

\* What a read of n bytes finds at position p of text.
PartAt(text, p, n) ==
  SubSeq(text, p + 1, IF p + n < Len(text) THEN p + n ELSE Len(text))

\* append_to_buf (blob.cxx:279): the buffer grows by what was read, or is as it was.
LEMMA AppendToBufUses ==
  ASSUME NEW s \in States, NoneEmpty(s), FreeFds(s) # {}, NEW id \in Ids,
         NEW offset \in Int, NEW buf, NEW room \in Nat
  PROVE  LET r == AppendToBuf(s, id, offset, buf, room)
         IN  /\ r.ok => offset >= 0 /\ r.v = buf \o PartAt(s.bytes[id], offset, room)
             /\ ~ r.ok => r.v = buf
<1>1. CASE room > ChunkLimit
  <2>1. AppendToBuf(s, id, offset, buf, room) = [Throws(s) EXCEPT !.v = buf]
    BY <1>1 DEF AppendToBuf
  <2>2. [Throws(s) EXCEPT !.v = buf].v = buf /\ [Throws(s) EXCEPT !.v = buf].ok = FALSE
    BY DEF Throws
  <2> QED BY <2>1, <2>2
<1>2. CASE ~ (room > ChunkLimit) /\ ~ LoOpen(s, id, FALSE).ok
  <2>1. LoOpen(s, id, FALSE) = FailsBlock(s)
    BY <1>2, OpenUses
  <2>2. AppendToBuf(s, id, offset, buf, room) = [FailsBlock(s) EXCEPT !.v = buf]
    BY <1>2, <2>1 DEF AppendToBuf, Using
  <2>3. [FailsBlock(s) EXCEPT !.v = buf].v = buf /\ [FailsBlock(s) EXCEPT !.v = buf].ok = FALSE
    BY DEF FailsBlock
  <2> QED BY <2>2, <2>3
<1>3. CASE ~ (room > ChunkLimit) /\ LoOpen(s, id, FALSE).ok
  <2>1. PICK q : q = LoOpen(s, id, FALSE)
    OBVIOUS
  <2>2. PICK fd : fd = q.v
    OBVIOUS
  <2>3. PICK o : o = OpenAt(s, fd, id, FALSE)
    OBVIOUS
  <2>4. s.tx = "block" /\ id \in s.objs
    BY <1>3, OpenUses
  <2>5. fd \in FreeFds(s) /\ fd \in 0..MaxFd
    BY <1>3, <2>1, <2>2, OpenUses
  <2>6. q.s = o
    BY <1>3, <2>1, <2>2, <2>3, OpenUses
  <2>7. o \in States /\ NoneEmpty(o) /\ Usable(o, fd) /\ Content(o, fd) = s.bytes[id]
    BY <2>3, <2>4, <2>5, OpenIsOpen
  <2>8. PICK old \in Seq(Bytes) : old = s.bytes[id]
    BY DEF States
  <2>9. PICK k : k = LoSeek(o, fd, offset, "set")
    OBVIOUS
  <2>10. k.ok <=> offset >= 0
    <3>1. Origin(o, fd, "set") + offset = offset
      BY DEF Origin
    <3> QED BY <2>5, <2>7, <2>9, <3>1, SeekUses
  <2>11. Sought(o, [conn |-> TRUE, fd |-> fd], offset, "set") = k
    BY <2>9 DEF Sought
  <2>12. PICK w : w = IF k.ok THEN LoRead(k.s, fd, room) ELSE k
    OBVIOUS
  <2>13. PICK u : u = LoClose(w.s, fd).s
    OBVIOUS
  <2>14. PICK r : r = [w EXCEPT !.s = u]
    OBVIOUS
  <2>15. AppendToBuf(s, id, offset, buf, room)
           = [r EXCEPT !.v = IF r.ok THEN buf \o r.v ELSE buf]
    BY <1>3, <2>1, <2>2, <2>6, <2>11, <2>12, <2>13, <2>14, ZenonT(40)
    DEF AppendToBuf, Using, Ignored, Grown
  <2>16. CASE ~ (offset >= 0)
    <3>1. ~ (Usable(o, fd) /\ Origin(o, fd, "set") + offset >= 0)
      BY <2>16 DEF Origin
    <3>2. k = FailsBlock(o)
      BY <2>9, <3>1 DEF LoSeek
    <3>3. w = FailsBlock(o)
      BY <2>10, <2>12, <2>16, <3>2
    <3>4. r = [ok |-> FALSE, s |-> u, v |-> -1]
      BY <2>14, <3>3 DEF FailsBlock
    <3>5. AppendToBuf(s, id, offset, buf, room) = [ok |-> FALSE, s |-> u, v |-> buf]
      BY <2>15, <3>4
    <3> QED BY <3>5
  <2>17. CASE offset >= 0
    <3>1. k.ok /\ Follows(o, k.s)
      BY <2>5, <2>7, <2>9, <2>10, <2>17, SeekUses
    <3>2. k.s = Used(o, fd, offset, old)
      <4>1. Origin(o, fd, "set") + offset = offset
        BY DEF Origin
      <4>2. k.s = Used(o, fd, Origin(o, fd, "set") + offset, Content(o, fd))
        BY <2>5, <2>7, <2>9, <3>1, SeekUses
      <4> QED BY <2>7, <2>8, <4>1, <4>2
    <3>3. PICK t : t = k.s
      OBVIOUS
    <3>4. /\ t \in States /\ NoneEmpty(t) /\ Usable(t, fd) /\ Content(t, fd) = old
          /\ t.fds[fd].pos = offset
      <4>1. Follows(o, t) /\ t = Used(o, fd, offset, old) /\ offset \in Nat
        BY <2>17, <3>1, <3>2, <3>3
      <4> QED BY <2>5, <2>7, <4>1, UsedFollows DEF Follows
    <3>5. PICK got : got = PartAt(old, offset, room)
      OBVIOUS
    <3>6. PICK v : v = [t EXCEPT !.fds[fd].pos = @ + Len(got)]
      OBVIOUS
    <3>7. LoRead(t, fd, room) = Ok(v, got)
      BY <3>4, <3>5, <3>6 DEF LoRead, PartAt
    <3>8. w = [ok |-> TRUE, s |-> v, v |-> got]
      BY <2>12, <3>1, <3>3, <3>7 DEF Ok
    <3>9. r = [ok |-> TRUE, s |-> u, v |-> got]
      BY <2>14, <3>8
    <3>10. AppendToBuf(s, id, offset, buf, room) = [ok |-> TRUE, s |-> u, v |-> buf \o got]
      BY <2>15, <3>9
    <3> QED BY <2>8, <2>17, <3>5, <3>10
  <2> QED BY <2>16, <2>17
<1> QED BY <1>1, <1>2, <1>3

\* What follows position p of text.
RestAt(text, p) == [i \in 1..Len(text) - p |-> text[p + i]]

\* A read takes its part of the rest.
LEMMA RestIsPart ==
  ASSUME NEW text \in Seq(Bytes), NEW p \in Nat, NEW n \in Nat
  PROVE  LET rest == RestAt(text, p)
         IN  (IF Len(rest) > n THEN SubSeq(rest, 1, n) ELSE rest) = PartAt(text, p, n)
<1>1. PICK rest : rest = RestAt(text, p)
  OBVIOUS
<1>2. Len(text) \in Nat
  OBVIOUS
<1>3. (IF Len(text) >= p THEN Len(text) - p ELSE 0) \in Nat
  BY <1>2
<1>4. PICK m \in Nat : m = IF Len(text) >= p THEN Len(text) - p ELSE 0
  BY <1>3
<1>5. \A i \in 1..m : text[p + i] \in Bytes
  BY <1>4, ElementOfSeq
<1>6. 1..Len(text) - p = 1..m
  BY <1>4
<1>7. rest = [i \in 1..m |-> text[p + i]]
  BY <1>1, <1>6 DEF RestAt
<1>8. rest \in Seq(Bytes) /\ Len(rest) = m /\ \A i \in 1..m : rest[i] = text[p + i]
  BY <1>5, <1>7
<1>9. PICK e \in 0..Len(text) : e = IF p + n < Len(text) THEN p + n ELSE Len(text)
  OBVIOUS
<1>10. PICK got : got = PartAt(text, p, n)
  OBVIOUS
<1>11. /\ got \in Seq(Bytes) /\ Len(got) = IF p <= e THEN e - p ELSE 0
      /\ \A i \in 1..(e - p) : got[i] = text[p + i]
  BY <1>9, <1>10, PartOf DEF PartAt
<1>12. CASE Len(rest) > n
  <2>1. PICK some : some = SubSeq(rest, 1, n)
    OBVIOUS
  <2>2. n \in 0..Len(rest)
    BY <1>8, <1>12
  <2>3. some = SubSeq(rest, 0 + 1, n)
    BY <2>1
  <2>4. some \in Seq(Bytes) /\ Len(some) = n /\ \A i \in 1..n : some[i] = rest[0 + i]
    BY <1>8, <2>2, <2>3, PartOf
  <2>5. e - p = n /\ n <= m /\ p <= e
    BY <1>4, <1>8, <1>9, <1>12
  <2>6. Len(got) = n /\ \A i \in 1..n : got[i] = some[i]
    <3>1. Len(got) = n
      BY <1>11, <2>5
    <3>2. ASSUME NEW i \in 1..n
          PROVE  got[i] = some[i]
      <4>1. i \in 1..(e - p) /\ i \in 1..m /\ 0 + i = i
        BY <2>5
      <4> QED BY <1>8, <1>11, <2>4, <4>1
    <3> QED BY <3>1, <3>2
  <2>7. some = got
    BY <1>11, <2>4, <2>6, SeqEqual
  <2> QED BY <1>1, <1>10, <1>12, <2>1, <2>7
<1>13. CASE ~ (Len(rest) > n)
  <2>1. e - p = m \/ m = 0
    BY <1>4, <1>8, <1>9, <1>13
  <2>2. Len(got) = m
    BY <1>4, <1>8, <1>9, <1>11, <1>13
  <2>3. ASSUME NEW i \in 1..m
        PROVE  got[i] = rest[i]
    <3>1. i \in 1..(e - p)
      BY <2>1
    <3> QED BY <1>8, <1>11, <3>1
  <2>4. rest = got
    BY <1>8, <1>11, <2>2, <2>3, SeqEqual
  <2> QED BY <1>1, <1>10, <1>13, <2>4
<1> QED BY <1>12, <1>13

\* Where the invariant holds, the blobs are sound.
LEMMA InvIsSound ==
  ASSUME BlobInv, "anonymous" \notin BlobHabits
  PROVE  BlobsSound
<1>1. blob \in States /\ NoneEmpty(blob) /\ Owned(blob)
  BY DEF BlobInv
<1>2. DescriptorsOwned
  BY <1>1, OwnedIsOwned
<1>3. FromBufLeavesNothing
  <2>1. SUFFICES ASSUME FreeFds(blob) # {}, blob.tx = "block",
                        NEW data \in Texts(ChunkLimit + 1), NEW id \in Ids
                 PROVE  LET r == FromBuf(blob, id, data)
                        IN  IF r.ok THEN r.s.objs = blob.objs \cup {r.v} /\ r.s.bytes[r.v] = data
                            ELSE r.s.tx = "block" => r.s = blob
    BY DEF FromBufLeavesNothing
  <2>2. data \in Seq(Bytes)
    BY TextsAreText
  <2> QED BY <1>1, <2>1, <2>2, FromBufUses
<1>4. AppendsAtTheEnd
  <2>1. SUFFICES ASSUME FreeFds(blob) # {}, NEW id \in Ids, NEW data \in Texts(ChunkLimit),
                        AppendFromBuf(blob, id, data).ok
                 PROVE  AppendFromBuf(blob, id, data).s = [blob EXCEPT !.bytes[id] = @ \o data]
    BY DEF AppendsAtTheEnd
  <2>2. data \in Seq(Bytes)
    BY TextsAreText
  <2>3. AppendFromBuf(blob, id, data).s = Rewritten(blob, id, blob.bytes[id] \o data)
    BY <1>1, <2>1, <2>2, AppendFromBufUses
  <2>4. Rewritten(blob, id, blob.bytes[id] \o data) = [blob EXCEPT !.bytes[id] = @ \o data]
    BY DEF Rewritten
  <2> QED BY <2>3, <2>4, Zenon
<1>5. AppendsWhatIsRead
  <2>1. SUFFICES ASSUME FreeFds(blob) # {}, NEW id \in Ids, NEW offset \in -1..MaxLen + 1,
                        NEW room \in 0..ChunkLimit + 1
                 PROVE  LET r == AppendToBuf(blob, id, offset, <<1>>, room)
                            rest == [i \in 1..Len(blob.bytes[id]) - offset |->
                                       blob.bytes[id][offset + i]]
                        IN  IF r.ok THEN r.v = <<1>> \o (IF Len(rest) > room
                                                         THEN SubSeq(rest, 1, room) ELSE rest)
                            ELSE r.v = <<1>>
    BY DEF AppendsWhatIsRead
  <2>2. PICK r : r = AppendToBuf(blob, id, offset, <<1>>, room)
    OBVIOUS
  <2>3. PICK text \in Seq(Bytes) : text = blob.bytes[id]
    BY <1>1 DEF States
  <2>4. PICK rest : rest = RestAt(text, offset)
    OBVIOUS
  <2>5. PICK buf : buf = <<1>>
    OBVIOUS
  <2>6. offset \in Int /\ room \in Nat
    BY BlobAssumption
  <2>7. /\ r.ok => offset >= 0 /\ r.v = buf \o PartAt(text, offset, room)
        /\ ~ r.ok => r.v = buf
    BY <1>1, <2>1, <2>2, <2>3, <2>5, <2>6, AppendToBufUses
  <2>8. offset >= 0 => (IF Len(rest) > room THEN SubSeq(rest, 1, room) ELSE rest)
                         = PartAt(text, offset, room)
    <3>1. offset >= 0 => offset \in Nat
      BY <2>6
    <3> QED BY <2>4, <2>6, <3>1, RestIsPart
  <2>9. IF r.ok THEN r.v = buf \o (IF Len(rest) > room THEN SubSeq(rest, 1, room) ELSE rest)
        ELSE r.v = buf
    BY <2>7, <2>8, Zenon
  <2> QED BY <2>2, <2>3, <2>4, <2>5, <2>9, Zenon DEF RestAt
<1> QED BY <1>2, <1>3, <1>4, <1>5 DEF BlobsSound
-----------------------------------------------------------------------------
(* The steps *)

\* close (blob.cxx:127): the descriptor is free and the blob detached.
LEMMA ClosedEffect ==
  ASSUME NEW s \in States, NoneEmpty(s), NEW b \in Blobs
  PROVE  LET t == ClosedBlob(s, b)
         IN  /\ t \in States /\ NoneEmpty(t)
             /\ t.held = [s.held EXCEPT ![b] = Detached]
             /\ \A c \in Blobs \ {b} : t.meant[c] = s.meant[c]
             /\ t.tx = "block" =>
                  /\ s.tx = "block"
                  /\ \A g \in 0..MaxFd :
                       t.fds[g] = IF s.held[b].fd = g THEN Free ELSE s.fds[g]
<1> DEFINE t == ClosedBlob(s, b)
<1>1. CASE s.held[b].fd = -1
  <2>1. t = s
    BY <1>1 DEF ClosedBlob
  <2>2. s.held[b] = Detached
    BY <1>1, HoldsFd
  <2>3. [s.held EXCEPT ![b] = Detached] = s.held
    BY <2>2 DEF States
  <2>4. \A g \in 0..MaxFd : g # -1
    BY BlobAssumption
  <2> QED BY <1>1, <2>1, <2>3, <2>4
<1>2. CASE s.held[b].fd # -1
  <2>1. PICK fd : fd = s.held[b].fd
    OBVIOUS
  <2>2. fd \in 0..MaxFd
    BY <1>2, <2>1, HoldsFd
  <2>3. PICK u : u = LoClose(s, fd).s
    OBVIOUS
  <2>4. PICK H : H = [s.held EXCEPT ![b] = Detached]
    OBVIOUS
  <2>5. PICK M : M = [s.meant EXCEPT ![b] = 0]
    OBVIOUS
  <2>6. /\ u \in States /\ NoneEmpty(u) /\ u.held = s.held /\ u.meant = s.meant
        /\ u.tx = "block" =>
             /\ s.tx = "block" /\ u.fds[fd] = Free
             /\ \A g \in (0..MaxFd) \ {fd} : u.fds[g] = s.fds[g]
    BY <2>2, <2>3, CloseUses
  <2>7. t = [u EXCEPT !.held = H, !.meant = M]
    <3>1. t = [u EXCEPT !.held[b] = Detached, !.meant[b] = 0]
      BY <1>2, <2>1, <2>3 DEF ClosedBlob, Ignored
    <3> QED BY <2>4, <2>5, <2>6, <3>1
  <2>8. H \in [Blobs -> Handles]
    BY <2>4 DEF States, Handles
  <2>9. M \in [Blobs -> Ids \cup {0}] /\ \A c \in Blobs \ {b} : M[c] = s.meant[c]
    BY <2>5 DEF States
  <2> HIDE DEF t
  <2>10. /\ t \in States /\ t.held = H /\ t.meant = M /\ t.tx = u.tx /\ t.fds = u.fds
         /\ t.objs = u.objs /\ t.bytes = u.bytes
    BY <2>6, <2>7, <2>8, <2>9 DEF States
  <2>11. NoneEmpty(t)
    BY <2>6, <2>10 DEF NoneEmpty
  <2>12. t.tx = "block" =>
           /\ s.tx = "block"
           /\ \A g \in 0..MaxFd : t.fds[g] = IF fd = g THEN Free ELSE s.fds[g]
    BY <2>6, <2>10
  <2> QED BY <2>1, <2>4, <2>9, <2>10, <2>11, <2>12 DEF t
<1> QED BY <1>1, <1>2

\* The moves (blob.cxx:96): what another blob held is held by this one.
LEMMA TakenEffect ==
  ASSUME NEW s \in States, NoneEmpty(s), NEW b \in Blobs, NEW id \in Ids \cup {0},
         NEW h \in Handles
  PROVE  LET t == TakenOver(s, b, h, id)
         IN  /\ t \in States /\ NoneEmpty(t) /\ t.tx = s.tx /\ t.fds = s.fds
             /\ t.held[b] = h /\ \A d \in Blobs \ {b} : t.held[d] = s.held[d]
             /\ t.meant[b] = id /\ \A d \in Blobs \ {b} : t.meant[d] = s.meant[d]
<1> DEFINE t == TakenOver(s, b, h, id)
<1>1. PICK H : H = [s.held EXCEPT ![b] = h]
  OBVIOUS
<1>2. PICK M : M = [s.meant EXCEPT ![b] = id]
  OBVIOUS
<1>3. t = [s EXCEPT !.held = H, !.meant = M]
  BY <1>1, <1>2 DEF TakenOver
<1>4. /\ H \in [Blobs -> Handles]
      /\ H[b] = h /\ \A d \in Blobs \ {b} : H[d] = s.held[d]
  BY <1>1 DEF States
<1>5. /\ M \in [Blobs -> Ids \cup {0}]
      /\ M[b] = id /\ \A d \in Blobs \ {b} : M[d] = s.meant[d]
  BY <1>2 DEF States
<1> HIDE DEF t
<1>6. /\ t \in States /\ t.held = H /\ t.meant = M /\ t.tx = s.tx /\ t.fds = s.fds
      /\ t.objs = s.objs /\ t.bytes = s.bytes
  BY <1>3, <1>4, <1>5 DEF States
<1>7. NoneEmpty(t)
  BY <1>6 DEF NoneEmpty
<1> QED BY <1>4, <1>5, <1>6, <1>7 DEF t

\* A call that leaves the descriptors to their owners keeps the invariant.
LEMMA FollowsInv ==
  ASSUME BlobInv, Follows(blob, blob')
  PROVE  BlobInv'
<1>1. blob \in States /\ Owned(blob)
  BY DEF BlobInv
<1>2. Owned(blob')
  BY <1>1, FollowsOwned
<1>3. blob' \in States /\ NoneEmpty(blob')
  BY DEF Follows
<1> QED BY <1>2, <1>3 DEF BlobInv, NoneEmpty, Owned

\* In the beginning no blob is attached, and no descriptor is open.
LEMMA InitInv ==
  BlobInit => BlobInv
<1> SUFFICES ASSUME NEW id \in Ids, blob = Holding(id)
             PROVE  BlobInv
  BY DEF BlobInit
<1>1. /\ blob.objs = {id} /\ blob.tx = "block"
      /\ blob.bytes = [i \in Ids |-> Nothing]
      /\ blob.fds = [fd \in 0..MaxFd |-> Free]
      /\ blob.held = [b \in Blobs |-> Detached]
      /\ blob.meant = [b \in Blobs |-> 0]
  BY DEF Holding, Nothing
<1>2. blob \in States
  <2>1. blob.bytes \in [Ids -> Seq(Bytes)]
    BY <1>1, NothingIsText
  <2>2. blob.fds \in [0..MaxFd -> {Free} \cup Descriptor]
    BY <1>1
  <2>3. blob.held \in [Blobs -> Handles]
    BY <1>1 DEF Handles
  <2>4. blob.meant \in [Blobs -> Ids \cup {0}]
    BY <1>1
  <2>5. blob = [tx |-> blob.tx, objs |-> blob.objs, bytes |-> blob.bytes, fds |-> blob.fds,
                held |-> blob.held, meant |-> blob.meant]
    BY DEF Holding
  <2> QED BY <1>1, <2>1, <2>2, <2>3, <2>4, <2>5 DEF States
<1>3. NoneEmpty(blob)
  BY <1>1 DEF NoneEmpty
<1>4. \A b \in Blobs : ~ blob.held[b].conn
  BY <1>1 DEF Detached
<1>5. \A fd \in 0..MaxFd : blob.fds[fd] = Free
  BY <1>1
<1>6. Owned(blob)
  BY <1>4, <1>5 DEF Owned
<1> QED BY <1>2, <1>3, <1>6 DEF BlobInv

\* A blob is opened, and what it held before is closed.
LEMMA OpenBlobKeeps ==
  ASSUME BlobInv, NEW b \in Blobs, NEW id \in Ids, NEW w \in BOOLEAN, OpenBlob(b, id, w)
  PROVE  BlobInv'
<1>1. /\ blob \in States /\ NoneEmpty(blob) /\ Owned(blob)
      /\ FreeFds(blob) # {} /\ blob.tx = "block"
  BY DEF BlobInv, OpenBlob
<1>2. blob' = Opened(blob, b, id, w).s
  BY DEF OpenBlob
<1>3. CASE ~ LoOpen(blob, id, w).ok
  <2>1. LoOpen(blob, id, w) = FailsBlock(blob)
    BY <1>1, <1>3, OpenUses
  <2>2. blob' = FailsBlock(blob).s
    BY <1>2, <1>3, <2>1 DEF Opened
  <2> QED BY <1>1, <2>2, FailureFollows, FollowsInv
<1>4. CASE LoOpen(blob, id, w).ok
  <2>1. PICK r : r = LoOpen(blob, id, w)
    OBVIOUS
  <2>2. PICK fd : fd = r.v
    OBVIOUS
  <2>3. PICK o : o = OpenAt(blob, fd, id, w)
    OBVIOUS
  <2>4. id \in blob.objs
    BY <1>1, <1>4, OpenUses
  <2>5. fd \in FreeFds(blob) /\ fd \in 0..MaxFd
    BY <1>1, <1>4, <2>1, <2>2, OpenUses
  <2>6. r.s = o
    BY <1>1, <1>4, <2>1, <2>2, <2>3, OpenUses
  <2>7. /\ o \in States /\ NoneEmpty(o) /\ o.held = blob.held /\ o.meant = blob.meant
        /\ \A g \in (0..MaxFd) \ {fd} : o.fds[g] = blob.fds[g]
    <3>1. o \in States /\ NoneEmpty(o)
      BY <1>1, <2>3, <2>4, <2>5, OpenIsOpen
    <3>2. o.held = blob.held /\ o.meant = blob.meant
      BY <1>1, <2>3, <2>4, <2>5, OpenIsOpen
    <3>3. \A g \in (0..MaxFd) \ {fd} : o.fds[g] = blob.fds[g]
      BY <1>1, <2>3, <2>5 DEF OpenAt, States
    <3> QED BY <3>1, <3>2, <3>3
  <2>8. o.fds[fd] = [of |-> id, pos |-> 0, writes |-> w] /\ o.fds[fd] # Free
    BY <1>1, <2>3, <2>4, <2>5, OpenIsOpen
  <2>9. o.fds[fd] # Free /\ o.fds[fd].of = id
    BY <2>8
  <2>10. PICK c : c = ClosedBlob(o, b)
    OBVIOUS
  <2>11. /\ c \in States /\ NoneEmpty(c) /\ c.held = [blob.held EXCEPT ![b] = Detached]
         /\ \A d \in Blobs \ {b} : c.meant[d] = blob.meant[d]
         /\ c.tx = "block" =>
              \A g \in 0..MaxFd : c.fds[g] = IF blob.held[b].fd = g THEN Free ELSE o.fds[g]
    BY <2>7, <2>10, ClosedEffect
  <2>12. PICK h : h = [conn |-> TRUE, fd |-> fd]
    OBVIOUS
  <2>13. h \in [conn : {TRUE}, fd : 0..MaxFd] /\ h.conn = TRUE /\ h.fd = fd
    BY <2>5, <2>12
  <2>14. PICK t : t = TakenOver(c, b, h, id)
    OBVIOUS
  <2>15. blob' = t
    <3>1. Opened(blob, b, id, w).s = Assigned(r.s, b, [conn |-> TRUE, fd |-> r.v], id)
      BY <1>4, <2>1 DEF Opened, Ok
    <3>2. Assigned(o, b, h, id) = t
      BY <2>10, <2>14 DEF Assigned
    <3> QED BY <1>2, <2>2, <2>6, <2>12, <3>1, <3>2, Zenon
  <2>16. /\ t \in States /\ NoneEmpty(t) /\ t.tx = c.tx /\ t.fds = c.fds
         /\ t.held[b] = h /\ \A d \in Blobs \ {b} : t.held[d] = c.held[d]
         /\ t.meant[b] = id /\ \A d \in Blobs \ {b} : t.meant[d] = c.meant[d]
    <3>1. h \in Handles /\ id \in Ids \cup {0}
      BY <2>13 DEF Handles
    <3>2. c \in States /\ NoneEmpty(c)
      BY <2>11
    <3> QED BY <2>14, <3>1, <3>2, TakenEffect
  <2>17. /\ t.held[b] = h /\ \A d \in Blobs \ {b} : t.held[d] = blob.held[d]
         /\ t.meant[b] = id /\ \A d \in Blobs \ {b} : t.meant[d] = blob.meant[d]
    <3>1. \A d \in Blobs \ {b} : c.held[d] = blob.held[d]
      BY <1>1, <2>11 DEF States
    <3> QED BY <2>11, <2>16, <3>1
  <2>18. Owned(t)
    <3> SUFFICES ASSUME t.tx = "block" PROVE Owned(t)
      BY DEF Owned
    <3>1. \A g \in 0..MaxFd : t.fds[g] = IF blob.held[b].fd = g THEN Free ELSE o.fds[g]
      BY <2>11, <2>16
    <3>2. blob.fds[fd] = Free
      BY <2>5 DEF FreeFds
    <3>3. /\ \A g \in 0..MaxFd : blob.fds[g] # Free => \E d \in Blobs : blob.held[d].fd = g
          /\ \A d \in Blobs : blob.held[d].conn => blob.fds[blob.held[d].fd] # Free
          /\ \A d, e \in Blobs : blob.held[d].conn /\ blob.held[d].fd = blob.held[e].fd => d = e
          /\ \A d \in Blobs : blob.held[d].conn => blob.fds[blob.held[d].fd].of = blob.meant[d]
      BY <1>1 DEF Owned
    <3>4. \A d \in Blobs : /\ blob.held[d].conn => blob.held[d].fd \in 0..MaxFd
                           /\ ~ blob.held[d].conn => blob.held[d].fd = -1
                           /\ blob.held[d].conn \in BOOLEAN
      BY <1>1, HoldsFd
    <3>5. \A d \in Blobs : blob.held[d].fd # fd
      <4>1. fd # -1
        BY <2>5, BlobAssumption
      <4> QED BY <3>2, <3>3, <3>4, <4>1
    <3>6. t.fds[fd] = o.fds[fd]
      BY <2>5, <3>1, <3>5
    <3>7. \A g \in 0..MaxFd : t.fds[g] # Free => \E d \in Blobs : t.held[d].fd = g
      BY <2>7, <2>13, <2>17, <3>1, <3>3
    <3>8. \A d \in Blobs \ {b} : blob.held[d].conn =>
            blob.held[d].fd \in (0..MaxFd) \ {fd} /\ t.fds[blob.held[d].fd] = blob.fds[blob.held[d].fd]
      BY <2>7, <3>1, <3>3, <3>4, <3>5
    <3>9. \A d \in Blobs : t.held[d].conn => t.fds[t.held[d].fd] # Free
      BY <2>9, <2>13, <2>17, <3>3, <3>6, <3>8
    <3>10. \A d \in Blobs : t.held[d].conn => t.fds[t.held[d].fd].of = t.meant[d]
      BY <2>9, <2>13, <2>17, <3>3, <3>6, <3>8
    <3>11. \A d, e \in Blobs : t.held[d].conn /\ t.held[d].fd = t.held[e].fd => d = e
      BY <2>13, <2>17, <3>3, <3>5
    <3> QED BY <3>7, <3>9, <3>10, <3>11 DEF Owned
  <2> QED BY <2>15, <2>16, <2>18 DEF BlobInv, NoneEmpty, Owned
<1> QED BY <1>3, <1>4

\* A blob takes over what another one holds.
LEMMA TakeKeeps ==
  ASSUME BlobInv, NEW b \in Blobs, NEW c \in Blobs, Take(b, c)
  PROVE  BlobInv'
<1>1. blob \in States /\ NoneEmpty(blob) /\ Owned(blob) /\ b # c
  BY DEF BlobInv, Take
<1>2. PICK u : u = ClosedBlob(blob, b)
  OBVIOUS
<1>3. /\ u \in States /\ NoneEmpty(u)
      /\ \A d \in Blobs \ {b} : u.held[d] = blob.held[d] /\ u.meant[d] = blob.meant[d]
      /\ u.tx = "block" =>
           /\ blob.tx = "block"
           /\ \A g \in 0..MaxFd : u.fds[g] = IF blob.held[b].fd = g THEN Free ELSE blob.fds[g]
  <2>1. /\ u \in States /\ NoneEmpty(u) /\ u.held = [blob.held EXCEPT ![b] = Detached]
        /\ \A d \in Blobs \ {b} : u.meant[d] = blob.meant[d]
        /\ u.tx = "block" =>
             /\ blob.tx = "block"
             /\ \A g \in 0..MaxFd : u.fds[g] = IF blob.held[b].fd = g THEN Free ELSE blob.fds[g]
    BY <1>1, <1>2, ClosedEffect
  <2>2. \A d \in Blobs \ {b} : u.held[d] = blob.held[d]
    BY <1>1, <2>1 DEF States
  <2> QED BY <2>1, <2>2
<1>4. blob.held[c] \in Handles /\ blob.meant[c] \in Ids \cup {0} /\ Detached \in Handles
  BY <1>1 DEF States, Handles
<1>5. PICK w : w = TakenOver(u, b, blob.held[c], blob.meant[c])
  OBVIOUS
<1>6. /\ w \in States /\ NoneEmpty(w) /\ w.tx = u.tx /\ w.fds = u.fds
      /\ w.held[b] = blob.held[c] /\ \A d \in Blobs \ {b} : w.held[d] = u.held[d]
      /\ w.meant[b] = blob.meant[c] /\ \A d \in Blobs \ {b} : w.meant[d] = u.meant[d]
  BY <1>3, <1>4, <1>5, TakenEffect
<1>7. PICK t : t = TakenOver(w, c, Detached, 0)
  OBVIOUS
<1>8. /\ t \in States /\ NoneEmpty(t) /\ t.tx = w.tx /\ t.fds = w.fds
      /\ t.held[c] = Detached /\ \A d \in Blobs \ {c} : t.held[d] = w.held[d]
      /\ t.meant[c] = 0 /\ \A d \in Blobs \ {c} : t.meant[d] = w.meant[d]
  <2>1. PICK none \in Ids \cup {0} : none = 0
    OBVIOUS
  <2>2. w \in States /\ NoneEmpty(w) /\ Detached \in Handles
    BY <1>4, <1>6
  <2>3. t = TakenOver(w, c, Detached, none)
    BY <1>7, <2>1
  <2>4. /\ t \in States /\ NoneEmpty(t) /\ t.tx = w.tx /\ t.fds = w.fds
        /\ t.held[c] = Detached /\ \A d \in Blobs \ {c} : t.held[d] = w.held[d]
        /\ t.meant[c] = none /\ \A d \in Blobs \ {c} : t.meant[d] = w.meant[d]
    BY <2>2, <2>3, TakenEffect
  <2> QED BY <2>1, <2>4
<1>9. blob' = t
  <2>1. w = Assigned(blob, b, blob.held[c], blob.meant[c])
    BY <1>2, <1>5 DEF Assigned
  <2>2. blob' = [w EXCEPT !.held[c] = Detached, !.meant[c] = 0]
    BY <2>1 DEF Take
  <2> QED BY <1>7, <2>2 DEF TakenOver
<1>10. Owned(t)
  <2> SUFFICES ASSUME t.tx = "block" PROVE Owned(t)
    BY DEF Owned
  <2>1. /\ blob.tx = "block"
        /\ \A g \in 0..MaxFd : t.fds[g] = IF blob.held[b].fd = g THEN Free ELSE blob.fds[g]
    BY <1>3, <1>6, <1>8
  <2>2. /\ \A g \in 0..MaxFd : blob.fds[g] # Free => \E d \in Blobs : blob.held[d].fd = g
        /\ \A d \in Blobs : blob.held[d].conn => blob.fds[blob.held[d].fd] # Free
        /\ \A d, e \in Blobs : blob.held[d].conn /\ blob.held[d].fd = blob.held[e].fd => d = e
        /\ \A d \in Blobs : blob.held[d].conn => blob.fds[blob.held[d].fd].of = blob.meant[d]
    BY <1>1, <2>1 DEF Owned
  <2>3. \A d \in Blobs : /\ blob.held[d].conn => blob.held[d].fd \in 0..MaxFd
                         /\ blob.held[d].conn <=> blob.held[d].fd # -1
    BY <1>1, HoldsFd
  <2>4. ~ Detached.conn /\ Detached.fd = -1 /\ -1 \notin 0..MaxFd
    BY BlobAssumption DEF Detached
  <2>5. /\ t.held[b] = blob.held[c] /\ t.held[c] = Detached /\ t.meant[b] = blob.meant[c]
        /\ \A d \in Blobs \ {b, c} : t.held[d] = blob.held[d] /\ t.meant[d] = blob.meant[d]
    BY <1>1, <1>3, <1>6, <1>8
  <2>6. \A g \in 0..MaxFd : t.fds[g] # Free => \E d \in Blobs : t.held[d].fd = g
    <3> SUFFICES ASSUME NEW g \in 0..MaxFd, t.fds[g] # Free
                 PROVE  \E d \in Blobs : t.held[d].fd = g
      OBVIOUS
    <3>1. blob.fds[g] # Free /\ blob.held[b].fd # g
      BY <2>1
    <3>2. PICK d \in Blobs : blob.held[d].fd = g
      BY <2>2, <3>1
    <3>3. CASE d = c
      BY <2>5, <3>2, <3>3
    <3>4. CASE d # c
      BY <2>5, <3>1, <3>2, <3>4
    <3> QED BY <3>3, <3>4
  <2>7. \A d \in Blobs \ {b} : blob.held[d].conn =>
          /\ blob.held[d].fd \in 0..MaxFd
          /\ t.fds[blob.held[d].fd] = blob.fds[blob.held[d].fd]
    BY <2>1, <2>2, <2>3
  <2>8. \A d \in Blobs : t.held[d].conn => t.fds[t.held[d].fd] # Free
    BY <1>1, <2>2, <2>4, <2>5, <2>7
  <2>9. \A d \in Blobs : t.held[d].conn => t.fds[t.held[d].fd].of = t.meant[d]
    BY <1>1, <2>2, <2>4, <2>5, <2>7
  <2>10. \A d, e \in Blobs : t.held[d].conn /\ t.held[d].fd = t.held[e].fd => d = e
    <3> SUFFICES ASSUME NEW d \in Blobs, NEW e \in Blobs, t.held[d].conn,
                        t.held[d].fd = t.held[e].fd
                 PROVE  d = e
      OBVIOUS
    <3> DEFINE from(x) == IF x = b THEN c ELSE x
    <3>1. d # c /\ t.held[d] = blob.held[from(d)]
      BY <2>4, <2>5
    <3>2. e # c
      BY <2>3, <2>4, <2>5, <3>1
    <3>3. t.held[e] = blob.held[from(e)]
      BY <2>5, <3>2
    <3>4. from(d) = from(e)
      BY <2>2, <3>1, <3>3
    <3> QED BY <3>1, <3>2, <3>4
  <2> QED BY <2>6, <2>8, <2>9, <2>10 DEF Owned
<1> QED BY <1>8, <1>9, <1>10 DEF BlobInv, NoneEmpty, Owned

\* A blob is closed, or closed again.
LEMMA CloseBlobKeeps ==
  ASSUME BlobInv, NEW b \in Blobs, CloseBlob(b)
  PROVE  BlobInv'
<1>1. blob \in States /\ NoneEmpty(blob) /\ Owned(blob)
  BY DEF BlobInv
<1>2. PICK t : t = ClosedBlob(blob, b)
  OBVIOUS
<1>3. /\ t \in States /\ NoneEmpty(t) /\ t.held = [blob.held EXCEPT ![b] = Detached]
      /\ \A d \in Blobs \ {b} : t.meant[d] = blob.meant[d]
      /\ t.tx = "block" =>
           /\ blob.tx = "block"
           /\ \A g \in 0..MaxFd : t.fds[g] = IF blob.held[b].fd = g THEN Free ELSE blob.fds[g]
  BY <1>1, <1>2, ClosedEffect
<1>4. t.held[b] = Detached /\ \A d \in Blobs \ {b} : t.held[d] = blob.held[d]
  BY <1>1, <1>3 DEF States
<1>5. Owned(t)
  <2> SUFFICES ASSUME t.tx = "block" PROVE Owned(t)
    BY DEF Owned
  <2>1. /\ blob.tx = "block"
        /\ \A g \in 0..MaxFd : t.fds[g] = IF blob.held[b].fd = g THEN Free ELSE blob.fds[g]
    BY <1>3
  <2>2. /\ \A g \in 0..MaxFd : blob.fds[g] # Free => \E d \in Blobs : blob.held[d].fd = g
        /\ \A d \in Blobs : blob.held[d].conn => blob.fds[blob.held[d].fd] # Free
        /\ \A d, e \in Blobs : blob.held[d].conn /\ blob.held[d].fd = blob.held[e].fd => d = e
        /\ \A d \in Blobs : blob.held[d].conn => blob.fds[blob.held[d].fd].of = blob.meant[d]
    BY <1>1, <2>1 DEF Owned
  <2>3. \A d \in Blobs : blob.held[d].conn => blob.held[d].fd \in 0..MaxFd
    BY <1>1, HoldsFd
  <2>4. ~ Detached.conn /\ Detached.fd = -1 /\ -1 \notin 0..MaxFd
    BY BlobAssumption DEF Detached
  <2>5. \A g \in 0..MaxFd : t.fds[g] # Free => \E d \in Blobs : t.held[d].fd = g
    BY <1>4, <2>1, <2>2
  <2>6. \A d \in Blobs \ {b} : blob.held[d].conn =>
          /\ blob.held[d].fd \in 0..MaxFd
          /\ t.fds[blob.held[d].fd] = blob.fds[blob.held[d].fd]
    BY <2>1, <2>2, <2>3
  <2>7. \A d \in Blobs : t.held[d].conn => t.fds[t.held[d].fd] # Free
    BY <1>4, <2>2, <2>4, <2>6
  <2>8. \A d \in Blobs : t.held[d].conn => t.fds[t.held[d].fd].of = t.meant[d]
    BY <1>3, <1>4, <2>2, <2>4, <2>6
  <2>9. \A d, e \in Blobs : t.held[d].conn /\ t.held[d].fd = t.held[e].fd => d = e
    BY <1>4, <2>2, <2>3, <2>4
  <2> QED BY <2>5, <2>7, <2>8, <2>9 DEF Owned
<1>6. blob' = t
  BY <1>2 DEF CloseBlob
<1> QED BY <1>3, <1>5, <1>6 DEF BlobInv, NoneEmpty, Owned

\* The calls on a blob's object.
LEMMA AccessKeeps ==
  ASSUME BlobInv, NEW b \in Blobs, Access(b)
  PROVE  BlobInv'
<1>1. blob \in States /\ NoneEmpty(blob) /\ Owned(blob)
  BY DEF BlobInv
<1>2. PICK h : h = blob.held[b]
  OBVIOUS
<1>3. Throws(blob).s = blob
  BY DEF Throws
<1>4. h.conn => h.fd \in 0..MaxFd
  BY <1>1, <1>2, HoldsFd
<1>5. ChunkLimit + 1 \in Nat /\ 0..ChunkLimit + 1 \subseteq Nat /\ -1..MaxLen \subseteq Int
  BY BlobAssumption
<1>6. ASSUME NEW n \in 0..ChunkLimit + 1
      PROVE  Follows(blob, RawRead(blob, h, n).s)
  <2>1. n \in Nat
    BY <1>5
  <2>2. CASE ~ h.conn \/ n > ChunkLimit
    <3>1. RawRead(blob, h, n) = Throws(blob)
      BY <2>2 DEF RawRead
    <3> QED BY <1>1, <1>3, <3>1, NothingFollows
  <2>3. CASE ~ (~ h.conn \/ n > ChunkLimit)
    <3>1. RawRead(blob, h, n) = LoRead(blob, h.fd, n) /\ h.fd \in 0..MaxFd
      BY <1>4, <2>3 DEF RawRead
    <3> QED BY <1>1, <2>1, <3>1, ReadUses
  <2> QED BY <2>2, <2>3
<1>7. ASSUME NEW data \in Texts(ChunkLimit + 1)
      PROVE  Follows(blob, RawWrite(blob, h, data).s)
  <2>1. data \in Seq(Bytes)
    BY TextsAreText
  <2>2. CASE ~ h.conn \/ Len(data) > ChunkLimit
    <3>1. RawWrite(blob, h, data) = Throws(blob)
      BY <2>2 DEF RawWrite
    <3> QED BY <1>1, <1>3, <3>1, NothingFollows
  <2>3. CASE ~ (~ h.conn \/ Len(data) > ChunkLimit)
    <3>1. RawWrite(blob, h, data) = LoWrite(blob, h.fd, data) /\ h.fd \in 0..MaxFd
      BY <1>4, <2>3 DEF RawWrite
    <3> QED BY <1>1, <2>1, <3>1, WriteUses
  <2> QED BY <2>2, <2>3
<1>8. ASSUME NEW n \in -1..MaxLen
      PROVE  Follows(blob, Resized(blob, h, n).s)
  <2>1. n \in Int
    BY <1>5
  <2>2. CASE ~ h.conn
    <3>1. Resized(blob, h, n) = Throws(blob)
      BY <2>2 DEF Resized
    <3> QED BY <1>1, <1>3, <3>1, NothingFollows
  <2>3. CASE h.conn
    <3>1. Resized(blob, h, n) = LoTruncate(blob, h.fd, n) /\ h.fd \in 0..MaxFd
      BY <1>4, <2>3 DEF Resized
    <3> QED BY <1>1, <2>1, <3>1, TruncateFollows
  <2> QED BY <2>2, <2>3
<1>9. ASSUME NEW n \in Int, NEW whence \in {"set", "cur", "end"}
      PROVE  Follows(blob, Sought(blob, h, n, whence).s)
  <2>1. CASE ~ h.conn
    <3>1. Sought(blob, h, n, whence) = Throws(blob)
      BY <2>1 DEF Sought
    <3> QED BY <1>1, <1>3, <3>1, NothingFollows
  <2>2. CASE h.conn
    <3>1. Sought(blob, h, n, whence) = LoSeek(blob, h.fd, n, whence) /\ h.fd \in 0..MaxFd
      BY <1>4, <2>2 DEF Sought
    <3> QED BY <1>1, <3>1, SeekUses
  <2> QED BY <2>1, <2>2
<1>10. \/ \E n \in 0..ChunkLimit + 1 : blob' = RawRead(blob, h, n).s
       \/ \E data \in Texts(ChunkLimit + 1) : blob' = RawWrite(blob, h, data).s
       \/ \E n \in -1..MaxLen : blob' = Resized(blob, h, n).s
       \/ \E n \in Int, whence \in {"set", "cur", "end"} : blob' = Sought(blob, h, n, whence).s
  BY <1>2, <1>5 DEF Access
<1>11. Follows(blob, blob')
  BY <1>6, <1>7, <1>8, <1>9, <1>10
<1> QED BY <1>11, FollowsInv

\* The calls on objects as a whole.
LEMMA WholeKeeps ==
  ASSUME BlobInv, NEW id \in Ids, Whole(id)
  PROVE  BlobInv'
<1>1. blob \in States /\ NoneEmpty(blob) /\ FreeFds(blob) # {}
  BY DEF BlobInv, Whole
<1>2. \/ \E data \in Texts(ChunkLimit) : blob' = FromBuf(blob, id, data).s
      \/ \E data \in Texts(ChunkLimit + 1) : blob' = AppendFromBuf(blob, id, data).s
      \/ blob' = LoCreate(blob, id).s
      \/ blob' = Removed(blob, id).s
  BY DEF Whole
<1>3. ASSUME NEW data \in Texts(ChunkLimit), blob' = FromBuf(blob, id, data).s
      PROVE  Follows(blob, blob')
  <2>1. data \in Seq(Bytes)
    BY TextsAreText
  <2> QED BY <1>1, <1>3, <2>1, FromBufUses
<1>4. ASSUME NEW data \in Texts(ChunkLimit + 1), blob' = AppendFromBuf(blob, id, data).s
      PROVE  Follows(blob, blob')
  <2>1. data \in Seq(Bytes)
    BY TextsAreText
  <2> QED BY <1>1, <1>4, <2>1, AppendFromBufUses
<1>5. CASE blob' = LoCreate(blob, id).s
  BY <1>1, <1>5, CreateUses, FollowsInv
<1>6. CASE blob' = Removed(blob, id).s
  BY <1>1, <1>6, RemoveUses, FollowsInv
<1> QED BY <1>2, <1>3, <1>4, <1>5, <1>6, FollowsInv

\* The transaction ends.
LEMMA EndKeeps ==
  ASSUME BlobInv, End
  PROVE  BlobInv'
<1>1. blob \in States /\ NoneEmpty(blob)
  BY DEF BlobInv
<1>2. PICK F : F = [fd \in 0..MaxFd |-> Free]
  OBVIOUS
<1>3. F \in [0..MaxFd -> {Free} \cup Descriptor]
  BY <1>2
<1>4. PICK t : t = [blob EXCEPT !.tx = "over", !.fds = F]
  OBVIOUS
<1>5. t \in States /\ t.objs = blob.objs /\ t.bytes = blob.bytes /\ t.tx = "over"
  BY <1>1, <1>3, <1>4 DEF States
<1>6. NoneEmpty(t) /\ Owned(t)
  BY <1>1, <1>5 DEF NoneEmpty, Owned
<1>7. blob' = t
  BY <1>2, <1>4 DEF End
<1> QED BY <1>5, <1>6, <1>7 DEF BlobInv, NoneEmpty, Owned
-----------------------------------------------------------------------------
(* The theorem *)

\* Every step keeps the invariant.
LEMMA BlobInvInductive ==
  ASSUME BlobInv, [BlobNext]_blob
  PROVE  BlobInv'
<1>1. CASE UNCHANGED blob
  BY <1>1 DEF BlobInv, NoneEmpty, Owned
<1>2. ASSUME NEW b \in Blobs, NEW id \in Ids, NEW w \in BOOLEAN, OpenBlob(b, id, w)
      PROVE  BlobInv'
  BY <1>2, OpenBlobKeeps
<1>3. ASSUME NEW b \in Blobs, NEW c \in Blobs, Take(b, c)
      PROVE  BlobInv'
  BY <1>3, TakeKeeps
<1>4. ASSUME NEW b \in Blobs, CloseBlob(b)
      PROVE  BlobInv'
  BY <1>4, CloseBlobKeeps
<1>5. ASSUME NEW b \in Blobs, Access(b)
      PROVE  BlobInv'
  BY <1>5, AccessKeeps
<1>6. ASSUME NEW id \in Ids, Whole(id)
      PROVE  BlobInv'
  BY <1>6, WholeKeeps
<1>7. CASE End
  BY <1>7, EndKeeps
<1> QED BY <1>1, <1>2, <1>3, <1>4, <1>5, <1>6, <1>7 DEF BlobNext

\* No descriptor is shared or lost, and from_buf, append_from_buf and append_to_buf do
\* what they promise in every state, for any number of blobs, objects and descriptors.
\* The program must not ask from_buf for an anonymous object: see BlobHabits.
THEOREM BlobsAlwaysSound ==
  ASSUME "anonymous" \notin BlobHabits
  PROVE  BlobSpec => []BlobsSound
<1>1. BlobInit => BlobInv
  BY InitInv
<1>2. BlobInv /\ [BlobNext]_blob => BlobInv'
  BY BlobInvInductive
<1>3. BlobInv => BlobsSound
  BY InvIsSound
<1> QED BY <1>1, <1>2, <1>3, PTL DEF BlobSpec
=============================================================================
