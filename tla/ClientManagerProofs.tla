------------------------- MODULE ClientManagerProofs -------------------------
(***************************************************************************)
(* Proofs about ClientManager, for any number of Managers, any calls and   *)
(* any rows left by earlier runs: emails stay unique, only UpdateClient    *)
(* can be in a deadlock, after CreateTable there is a table, and           *)
(* ClientManager implements ClientDirectory.                               *)
(***************************************************************************)
EXTENDS ClientManager, Induction, TLAPS

\* A session that waits waits for someone who has changed a row or made the
\* table: in a cycle everybody waits for a key he needs for an UPDATE.
LEMMA DeadlockOfRenames ==
  ASSUME KeyWaiters
  PROVE  OnlyRenamesDeadlock
<1> SUFFICES ASSUME NEW S \in SUBSET Managers, Deadlocked(S), NEW s \in S
             PROVE  Op(s) = "UpdateClient"
  BY DEF OnlyRenamesDeadlock
<1>1. ASSUME NEW u \in S
      PROVE  pc[u] = "key" /\ target[u] # 0
  <2>1. PICK x \in S : u \in WaitsFor(x)
    BY DEF Deadlocked
  <2>2. WaitsFor(u) # {}
    BY DEF Deadlocked
  <2>3. pc[u] \in {"lock", "key"}
    BY <2>2 DEF WaitsFor
  <2> QED BY <2>1, <2>3 DEF WaitsFor, RowHolders, KeyHolders, TableHolders, HasChanged
<1>2. PICK x \in S : s \in WaitsFor(x)
  BY DEF Deadlocked
<1>3. \E r \in rows : r.id = target[s]
  BY <1>1, <1>2 DEF WaitsFor, KeyHolders, TableHolders
<1> QED BY <1>1, <1>3 DEF KeyWaiters, HasChanged

\* The transaction of m comes to hold nothing in the table: it has found no
\* row, has failed or has been rolled back, or its session has ended.
LEMMA Withdrawn ==
  ASSUME IInv, NEW m \in Managers, NEW p \in Pcs,
         pc' = [pc EXCEPT ![m] = p],
         target' = [target EXCEPT ![m] = 0], new' = [new EXCEPT ![m] = {}],
         UNCHANGED <<table, rows, nextId>>,
         \/ UNCHANGED call /\ p # "lock"
         \/ call' = [call EXCEPT ![m] = NoCall] /\ p = "idle",
         p \in {"failed", "ended"} /\ Op(m) = "CreateTable" => table
  PROVE  IInv'
<1>1. Shape'
  BY DEF IInv, Shape
<1>2. IdsUsed'
  BY DEF IInv, Shape, IdsUsed
<1>3. Versions'
  BY DEF IInv, Shape, Versions
<1>4. OneChanger'
  BY DEF IInv, Shape, OneChanger, HasChanged
<1>5. KeysReserved'
  BY DEF IInv, Shape, KeysReserved, Entered
<1>6. KeyWaiters'
  BY DEF IInv, Shape, KeyWaiters, HasChanged, Op
<1>7. TableFailures'
  BY DEF IInv, Shape, TableFailures, Op
<1>8. UniqueEmail'
  BY DEF IInv, UniqueEmail
<1> QED BY <1>1, <1>2, <1>3, <1>4, <1>5, <1>6, <1>7, <1>8 DEF IInv

\* A call begins: nothing changes but where m is.
LEMMA Called ==
  ASSUME IInv, NEW m \in Managers, NEW c \in Calls, Call(m, c)
  PROVE  IInv'
<1> USE DEF Call, Set
<1>1. Shape'
  BY DEF IInv, Shape, Pcs
<1>2. IdsUsed'
  BY DEF IInv, Shape, IdsUsed
<1>3. Versions'
  BY DEF IInv, Shape, Versions
<1>4. OneChanger'
  BY DEF IInv, Shape, OneChanger, HasChanged
<1>5. KeysReserved'
  BY DEF IInv, Shape, KeysReserved, Entered
<1>6. KeyWaiters'
  BY DEF IInv, Shape, KeyWaiters, HasChanged, Op
<1>7. TableFailures'
  BY DEF IInv, Shape, TableFailures, Op
<1>8. UniqueEmail'
  BY DEF IInv, UniqueEmail
<1> QED BY <1>1, <1>2, <1>3, <1>4, <1>5, <1>6, <1>7, <1>8 DEF IInv

\* INSERT takes an id that no row and no transaction has.
LEMMA Inserted ==
  ASSUME IInv, NEW m \in Managers, AddClient(m)
  PROVE  IInv'
<1> USE DEF AddClient, Server, Set
<1>0. nextId' \in Nat \ {0} /\ nextId \in Nat
  BY SMT DEF IInv, Shape
<1>1. Shape'
  BY <1>0 DEF IInv, Shape, Pcs
<1>2. IdsUsed'
  BY <1>1 DEF IInv, Shape, IdsUsed
<1>3. Versions'
  BY IdAssumption DEF IInv, Shape, Versions, NewRow
<1>4. OneChanger'
  BY DEF IInv, Shape, IdsUsed, OneChanger, HasChanged
<1>5. KeysReserved'
  BY DEF IInv, Shape, KeysReserved, Entered
<1>6. KeyWaiters'
  BY DEF IInv, Shape, IdsUsed, KeyWaiters, HasChanged, Op
<1>7. TableFailures'
  BY DEF IInv, Shape, TableFailures, Op
<1>8. UniqueEmail'
  BY DEF IInv, UniqueEmail
<1> QED BY <1>1, <1>2, <1>3, <1>4, <1>5, <1>6, <1>7, <1>8 DEF IInv

\* The statement has found its row and waits for the lock of it.
LEMMA Found ==
  ASSUME IInv, NEW m \in Managers, NEW r \in rows,
         Op(m) # "AddClient", Server(m, "lock", r.id, {}), UNCHANGED nextId
  PROVE  IInv'
<1> USE DEF Server, Set
<1>1. Shape'
  BY DEF IInv, Shape, IdsUsed, Pcs
<1>2. IdsUsed'
  BY DEF IInv, Shape, IdsUsed
<1>3. Versions'
  BY DEF IInv, Shape, Versions
<1>4. OneChanger'
  BY DEF IInv, Shape, OneChanger, HasChanged
<1>5. KeysReserved'
  BY DEF IInv, Shape, KeysReserved, Entered
<1>6. KeyWaiters'
  BY DEF IInv, Shape, KeyWaiters, HasChanged, Op
<1>7. TableFailures'
  BY DEF IInv, Shape, TableFailures, Op
<1>8. UniqueEmail'
  BY DEF IInv, UniqueEmail
<1> QED BY <1>1, <1>2, <1>3, <1>4, <1>5, <1>6, <1>7, <1>8 DEF IInv

\* The row is locked: nobody else has changed it, so its key is reserved by
\* nobody else, and only an UPDATE that changes the email waits for a new one.
LEMMA Locked ==
  ASSUME IInv, NEW m \in Managers, Lock(m)
  PROVE  IInv'
<1>1. pc[m] = "lock" /\ RowHolders(m) = {}
  BY DEF Lock
<1>2. CASE Server(m, "done", 0, {}) /\ UNCHANGED nextId
  BY <1>2, Withdrawn DEF Server, Set, Pcs
<1>3. CASE /\ \E r \in rows : r.id = target[m]
           /\ Server(m, "done", target[m], {}) /\ UNCHANGED nextId
  <2> USE <1>1, <1>3 DEF Server, Set
  <2>1. Shape'
    BY DEF IInv, Shape, Pcs
  <2>2. IdsUsed'
    BY DEF IInv, Shape, IdsUsed
  <2>3. Versions'
    BY DEF IInv, Shape, Versions
  <2>4. OneChanger'
    BY DEF IInv, Shape, OneChanger, HasChanged, RowHolders
  <2>5. KeysReserved'
    BY DEF IInv, Shape, KeysReserved, Entered
  <2>6. KeyWaiters'
    BY DEF IInv, Shape, KeyWaiters, HasChanged, Op
  <2>7. TableFailures'
    BY DEF IInv, Shape, TableFailures, Op
  <2>8. UniqueEmail'
    BY DEF IInv, UniqueEmail
  <2> QED BY <2>1, <2>2, <2>3, <2>4, <2>5, <2>6, <2>7, <2>8 DEF IInv
<1>4. CASE \E r \in rows :
             /\ r.id = target[m]
             /\ Server(m, IF ChangedRow(call[m], r).email = r.email THEN "done" ELSE "key",
                       target[m], {ChangedRow(call[m], r)})
             /\ UNCHANGED nextId
  <2> PICK r \in rows :
             /\ r.id = target[m]
             /\ Server(m, IF ChangedRow(call[m], r).email = r.email THEN "done" ELSE "key",
                       target[m], {ChangedRow(call[m], r)})
             /\ UNCHANGED nextId
    BY <1>4
  <2> DEFINE k == ChangedRow(call[m], r)
  <2>0. /\ k.id = target[m]
        /\ k.email # r.email => Op(m) = "UpdateClient"
    BY DEF ChangedRow, Op
  <2> HIDE DEF k
  <2>a. Server(m, IF k.email = r.email THEN "done" ELSE "key", target[m], {k})
    BY DEF k
  <2> USE <1>1, <2>0, <2>a DEF Server, Set
  <2>1. Shape'
    BY DEF IInv, Shape, Pcs
  <2>2. IdsUsed'
    BY DEF IInv, Shape, IdsUsed
  <2>3. Versions'
    BY DEF IInv, Shape, Versions, IdsUsed
  <2>4. OneChanger'
    BY DEF IInv, Shape, OneChanger, HasChanged, RowHolders
  <2>5. KeysReserved'
    BY DEF IInv, Shape, IdsUsed, KeysReserved, Entered, HasChanged, RowHolders, UniqueEmail
  <2>6. KeyWaiters'
    BY DEF IInv, Shape, KeyWaiters, HasChanged, Op
  <2>7. TableFailures'
    BY DEF IInv, Shape, TableFailures, Op
  <2>8. UniqueEmail'
    BY DEF IInv, UniqueEmail
  <2> QED BY <2>1, <2>2, <2>3, <2>4, <2>5, <2>6, <2>7, <2>8 DEF IInv
<1> QED BY <1>2, <1>3, <1>4 DEF Lock, WithEmail

\* The unique index lets m in: no committed row has the key, and no other
\* transaction has entered it or has changed the row that holds it.
LEMMA KeyEntered ==
  ASSUME IInv, NEW m \in Managers, EnterKey(m)
  PROVE  IInv'
<1>1. CASE KeyTaken(m) /\ Fail(m)
  BY <1>1, Withdrawn DEF EnterKey, Fail, Server, Set, Pcs
<1>2. CASE ~KeyTaken(m) /\ Server(m, "done", target[m], new[m]) /\ UNCHANGED <<nextId, answer>>
  <2> USE <1>2 DEF EnterKey, Server, Set
  <2>1. Shape'
    BY DEF IInv, Shape, Pcs
  <2>2. IdsUsed'
    BY DEF IInv, Shape, IdsUsed
  <2>3. Versions'
    BY DEF IInv, Shape, Versions
  <2>4. OneChanger'
    BY DEF IInv, Shape, OneChanger, HasChanged
  <2>5. KeysReserved'
    BY DEF IInv, Shape, KeysReserved, Entered, HasChanged, KeyHolders, KeyTaken
  <2>6. KeyWaiters'
    BY DEF IInv, Shape, KeyWaiters, HasChanged, Op
  <2>7. TableFailures'
    BY DEF IInv, Shape, TableFailures, Op
  <2>8. UniqueEmail'
    BY DEF IInv, UniqueEmail
  <2> QED BY <2>1, <2>2, <2>3, <2>4, <2>5, <2>6, <2>7, <2>8 DEF IInv
<1> QED BY <1>1, <1>2 DEF EnterKey

\* COMMIT replaces the row of m by its new version.  The version's key is that
\* of no other row, and what others have entered stays theirs.
LEMMA Committed ==
  ASSUME IInv, NEW m \in Managers, Commit(m)
  PROVE  IInv'
<1> USE DEF Commit, RowsAfter, Set
<1>1. Shape'
  BY DEF IInv, Shape, Pcs
<1>2. /\ \A s \in Managers \ {m} : pc'[s] = pc[s] /\ target'[s] = target[s] /\ new'[s] = new[s]
      /\ pc'[m] = "ended" /\ target'[m] = 0 /\ new'[m] = {}
  BY DEF IInv, Shape
<1>3. \A r \in rows' : \/ r \in rows /\ (target[m] # 0 => r.id # target[m])
                       \/ target[m] # 0 /\ r \in new[m] /\ r.id = target[m] /\ new[m] = {r}
  BY DEF IInv, Versions
<1>4. IdsUsed'
  BY <1>2, <1>3 DEF IInv, Shape, IdsUsed
<1>5. Versions'
  BY <1>2 DEF IInv, Versions
<1>6. OneChanger'
  BY <1>2 DEF IInv, OneChanger, HasChanged
<1>7. KeysReserved'
  BY <1>2, <1>3 DEF IInv, KeysReserved, Entered
<1>8. KeyWaiters'
  BY <1>2, <1>3 DEF IInv, KeyWaiters, OneChanger, HasChanged, Op
<1>9. TableFailures'
  BY <1>2 DEF IInv, TableFailures, Op
<1>10. UniqueEmail'
  BY <1>2, <1>3 DEF IInv, KeysReserved, Entered, UniqueEmail
<1> QED BY <1>1, <1>4, <1>5, <1>6, <1>7, <1>8, <1>9, <1>10 DEF IInv

\* m goes on with what it holds: COMMIT is sent, or the method returns.
LEMMA GoesOn ==
  ASSUME IInv, NEW m \in Managers, SendCommit(m) \/ Return(m)
  PROVE  IInv'
<1> USE DEF SendCommit, Return, Set
<1>1. Shape'
  BY DEF IInv, Shape, Pcs
<1>2. IdsUsed'
  BY DEF IInv, Shape, IdsUsed
<1>3. Versions'
  BY DEF IInv, Shape, Versions
<1>4. OneChanger'
  BY DEF IInv, Shape, OneChanger, HasChanged
<1>5. KeysReserved'
  BY DEF IInv, Shape, KeysReserved, Entered
<1>6. KeyWaiters'
  BY DEF IInv, Shape, KeyWaiters, HasChanged, Op
<1>7. TableFailures'
  BY DEF IInv, Shape, TableFailures, Op
<1>8. UniqueEmail'
  BY DEF IInv, UniqueEmail
<1> QED BY <1>1, <1>2, <1>3, <1>4, <1>5, <1>6, <1>7, <1>8 DEF IInv

\* A statement that fails does so for a CreateTable only when there is a table.
LEMMA Failing ==
  ASSUME IInv, NEW m \in Managers, Fail(m), Op(m) = "CreateTable" => table
  PROVE  IInv'
BY Withdrawn DEF Fail, Server, Set, Pcs

\* Nothing the invariant speaks of has changed.
LEMMA Unmoved ==
  ASSUME IInv, UNCHANGED <<table, rows, nextId, call, pc, target, new>>
  PROVE  IInv'
BY DEF IInv, Shape, IdsUsed, Versions, OneChanger, KeysReserved, KeyWaiters,
       TableFailures, UniqueEmail, Entered, HasChanged, Op

\* Whatever m does keeps the invariant.
LEMMA StepKept ==
  ASSUME IInv, NEW m \in Managers, Progress(m)
  PROVE  IInv'
<1>1. CASE NoTable(m)
  BY <1>1, Failing DEF NoTable
<1>2. CASE CreateTable(m)
  <2>1. CASE table
    BY <1>2, <2>1, Withdrawn DEF CreateTable, Server, Set, Pcs
  <2>2. CASE ~table
    BY <1>2, <2>2, Withdrawn DEF CreateTable, Server, Set, Pcs
  <2> QED BY <2>1, <2>2
<1>3. CASE AddClient(m)
  BY <1>3, Inserted
<1>4. CASE FindTarget(m)
  <2>1. CASE \E r \in rows : Server(m, "lock", r.id, {})
    BY <1>4, <2>1, Found DEF FindTarget
  <2>2. CASE Server(m, "done", 0, {})
    BY <1>4, <2>2, Withdrawn DEF FindTarget, Server, Set, Pcs
  <2> QED BY <1>4, <2>1, <2>2 DEF FindTarget, WithEmail
<1>5. CASE FindClients(m)
  BY <1>5, Withdrawn DEF FindClients, Server, Set, Pcs
<1>6. CASE Lock(m)
  BY <1>6, Locked
<1>7. CASE EnterKey(m)
  BY <1>7, KeyEntered
<1>8. CASE EnterTable(m)
  <2>1. CASE table /\ Fail(m)
    BY <2>1, Failing
  <2>2. CASE Server(m, "done", 0, {}) /\ UNCHANGED nextId
    BY <2>2, Withdrawn DEF Server, Set, Pcs
  <2> QED BY <1>8, <2>1, <2>2 DEF EnterTable
<1>9. CASE Victim(m)
  <2>1. Op(m) = "UpdateClient"
    BY <1>9, DeadlockOfRenames DEF Victim, OnlyRenamesDeadlock, IInv
  <2> QED BY <1>9, <2>1, Failing DEF Victim
<1>10. CASE SendCommit(m) \/ Return(m)
  BY <1>10, GoesOn
<1>11. CASE Commit(m)
  BY <1>11, Committed
<1>12. CASE Rollback(m)
  BY <1>12, Withdrawn DEF Rollback, Server, Set, Pcs, IInv, TableFailures
<1>13. CASE Exit(m)
  BY <1>13, Withdrawn DEF Exit, Set, Pcs
<1> QED BY <1>1, <1>2, <1>3, <1>4, <1>5, <1>6, <1>7, <1>8, <1>9, <1>10, <1>11,
           <1>12, <1>13 DEF Progress

\* The invariant holds in every reachable state.
THEOREM Invariant == Spec => []IInv
<1>1. ASSUME Init
      PROVE  IInv
  <2> USE <1>1 DEF Init
  <2>1. Shape
    BY StartAssumption DEF Shape, Pcs
  <2>2. \A r \in Start : r.id \in Nat \ {0}
    BY StartAssumption, IdAssumption DEF Rows
  <2>3. IdsUsed
    BY <2>2, StartAssumption DEF IdsUsed
  <2>4. UniqueEmail
    BY StartAssumption DEF UniqueEmail
  <2> QED
    BY <2>1, <2>3, <2>4 DEF IInv, Versions, OneChanger, KeysReserved, KeyWaiters,
       TableFailures, Entered, HasChanged
<1>2. ASSUME IInv, [Next]_vars
      PROVE  IInv'
  <2>1. ASSUME NEW m \in Managers, NEW c \in Calls, Call(m, c)
        PROVE  IInv'
    BY <1>2, <2>1, Called
  <2>2. ASSUME NEW m \in Managers, Progress(m)
        PROVE  IInv'
    BY <1>2, <2>2, StepKept
  <2>3. ASSUME NEW m \in Managers, LoseConnection(m)
        PROVE  IInv'
    BY <1>2, <2>3, Unmoved DEF LoseConnection
  <2>4. CASE UNCHANGED vars
    BY <1>2, <2>4, Unmoved DEF vars
  <2> QED BY <1>2, <2>1, <2>2, <2>3, <2>4 DEF Next
<1> QED BY <1>1, <1>2, PTL DEF Spec

\* email TEXT UNIQUE (Client_Manager.cpp:16): whatever INSERTs, UPDATEs and
\* DELETEs of however many programs run at once, no two clients share an email.
THEOREM EmailsUnique == Spec => []UniqueEmail
<1>1. IInv => UniqueEmail
  BY DEF IInv
<1> QED BY <1>1, Invariant, PTL

\* However many Managers wait for each other, a cycle consists of
\* UpdateClient calls (Client_Manager.cpp:114): the others never fail with a
\* deadlock.
THEOREM DeadlocksAreRenames == Spec => []OnlyRenamesDeadlock
<1>1. IInv => OnlyRenamesDeadlock
  BY DeadlockOfRenames DEF IInv
<1> QED BY <1>1, Invariant, PTL

\* A CreateTable that has been answered leaves a table behind, also when its
\* own CREATE TABLE failed (Client_Manager.cpp:8).
THEOREM TableIsThere == Spec => []TableAfterCreate
<1>1. IInv => TableAfterCreate
  BY DEF IInv, TableFailures, TableAfterCreate
<1> QED BY <1>1, Invariant, PTL
-----------------------------------------------------------------------------
(* ClientManager implements ClientDirectory: each Manager call is one atomic *)
(* step on the table, whatever the others do meanwhile, for any number of    *)
(* managers and any calls.  First what a call in progress still owes         *)
(* (PromiseInv), then the simulation, an action at a time.                   *)

\* The part of PromiseInv that IInv does not have.
Asked == InCall /\ Work /\ OneCreator /\ Excused

(* Asked is inductive, on top of IInv. *)

\* What s is about stays what it was asked while others work on other rows.
LEMMA OthersWork ==
  ASSUME Shape, InCall, Work, NEW s \in Managers,
         pc'[s] = pc[s] \/ (pc[s] = "done" /\ pc'[s] = "commit"),
         target'[s] = target[s], new'[s] = new[s], call'[s] = call[s],
         UNCHANGED <<table, rows>>
  PROVE  WorkOf(s)'
BY DEF Work, WorkOf, HasChanged, IsAsked, Op

\* m holds nothing any more, and what it was asked is decided.
LEMMA LetGo ==
  ASSUME IInv, Asked, NEW m \in Managers, NEW p \in {"done", "failed", "ended", "idle"},
         pc' = [pc EXCEPT ![m] = p],
         target' = [target EXCEPT ![m] = 0], new' = [new EXCEPT ![m] = {}],
         UNCHANGED <<table, rows, excuse>>,
         \/ UNCHANGED call /\ p # "idle" /\ pc[m] # "idle"
         \/ call' = [call EXCEPT ![m] = NoCall] /\ p = "idle",
         p = "done" /\ Op(m) = "CreateTable" => table
  PROVE  Asked'
<1> USE DEF Asked, IInv, Shape
<1>1. InCall'
  BY CallAssumption DEF InCall
<1>2. Work'
  <2>1. WorkOf(m)'
    BY DEF InCall, Work, WorkOf, HasChanged, IsAsked, Op
  <2>2. ASSUME NEW s \in Managers \ {m}
        PROVE  WorkOf(s)'
    BY OthersWork DEF InCall
  <2> QED BY <2>1, <2>2 DEF Work
<1>3. OneCreator'
  BY DEF InCall, OneCreator, Op
<1>4. Excused'
  BY DEF InCall, Excused, Undecided, Op
<1> QED BY <1>1, <1>2, <1>3, <1>4

\* A call that begins owes everything, unless it could already have no effect.
LEMMA AskedOnCall ==
  ASSUME IInv, Asked, NEW m \in Managers, NEW c \in Calls, Call(m, c)
  PROVE  Asked'
<1> USE DEF Asked, IInv, Shape, Call, Set
<1>0. NoEffect(c, rows, table) \in BOOLEAN
  BY DEF NoEffect, InCall
<1>1. InCall'
  BY <1>0, CallAssumption DEF InCall
<1>2. Work'
  <2>1. WorkOf(m)'
    BY DEF InCall, Work, WorkOf, HasChanged, IsAsked, Op
  <2>2. ASSUME NEW s \in Managers \ {m}
        PROVE  WorkOf(s)'
    BY OthersWork DEF InCall
  <2> QED BY <2>1, <2>2 DEF Work
<1>3. OneCreator'
  BY DEF InCall, OneCreator, Op
<1>4. Excused'
  BY DEF InCall, Excused, Undecided, Op
<1> QED BY <1>1, <1>2, <1>3, <1>4

\* The statement goes on, and its call stays undecided.
LEMMA Advanced ==
  ASSUME IInv, Asked, NEW m \in Managers, NEW p \in {"lock", "key", "done"},
         NEW id \in Nat, NEW row,
         Server(m, p, id, row), pc[m] # "idle", Undecided(m),
         p = "done" /\ Op(m) = "CreateTable" => TableHolders(m) = {},
         p # "lock" /\ id # 0 => table /\ IsAsked(m, id, row),
         p = "lock" =>
           /\ Op(m) \in ByEmail /\ table /\ id # 0
           /\ \E r \in rows : r.id = id /\ r.email = call[m].email,
         p = "key" =>
           \/ Op(m) = "CreateTable"
           \/ id # 0 /\ (Op(m) = "UpdateClient" => call[m].to # call[m].email)
  PROVE  Asked'
<1> USE DEF Asked, IInv, Shape, Server, Set
<1>1. InCall'
  BY DEF InCall
<1>2. Work'
  <2>1. WorkOf(m)'
    BY DEF InCall, Work, WorkOf, HasChanged, IsAsked, Op
  <2>2. ASSUME NEW s \in Managers \ {m}
        PROVE  WorkOf(s)'
    BY OthersWork DEF InCall
  <2> QED BY <2>1, <2>2 DEF Work
<1>3. OneCreator'
  BY DEF InCall, OneCreator, Op, TableHolders
<1>4. Excused'
  BY DEF InCall, Excused, Undecided, Op
<1> QED BY <1>1, <1>2, <1>3, <1>4

\* Nothing the invariant speaks of has changed but that COMMIT was sent, or the
\* method returned.
LEMMA AskedGoesOn ==
  ASSUME IInv, Asked, NEW m \in Managers, SendCommit(m) \/ Return(m)
  PROVE  Asked'
<1> USE DEF Asked, IInv, Shape, SendCommit, Return, Set
<1>1. InCall'
  BY CallAssumption DEF InCall
<1>2. Work'
  <2>1. WorkOf(m)'
    <3>1. CASE SendCommit(m)
      BY <3>1, OthersWork DEF InCall
    <3>2. CASE Return(m)
      BY <3>2 DEF WorkOf, HasChanged
    <3> QED BY <3>1, <3>2
  <2>2. ASSUME NEW s \in Managers \ {m}
        PROVE  WorkOf(s)'
    BY OthersWork DEF InCall
  <2> QED BY <2>1, <2>2 DEF Work
<1>3. OneCreator'
  BY DEF InCall, OneCreator, Op
<1>4. Excused'
  BY DEF InCall, Excused, Undecided, Op
<1> QED BY <1>1, <1>2, <1>3, <1>4

\* UPDATE and DELETE, once they have the row's lock: the row they read anew has
\* the email still, or has lost it to a commit that excuses the call.
LEMMA AskedOnLock ==
  ASSUME IInv, Asked, NEW m \in Managers, Lock(m)
  PROVE  Asked'
<1>0. /\ pc[m] = "lock" /\ Op(m) \in ByEmail /\ table /\ target[m] # 0 /\ target[m] \in Nat
      /\ Undecided(m) /\ Op(m) # "CreateTable" /\ Op(m) # "AddClient"
  BY DEF Asked, IInv, Lock, Work, WorkOf, Undecided, Shape, ByEmail
<1>i. PICK id \in Nat : id = target[m]
  BY <1>0
<1>1. CASE Server(m, "done", 0, {})
  BY <1>0, <1>1, LetGo DEF Server, Set
<1>2. ASSUME NEW r \in rows, r.id = target[m], r.email = call[m].email,
             Op(m) = "DeleteClient", Server(m, "done", target[m], {})
      PROVE  Asked'
  <2>1. IsAsked(m, id, {}) /\ Server(m, "done", id, {})
    BY <1>0, <1>i, <1>2 DEF IsAsked, Server, Set
  <2> QED BY <1>0, <1>i, <1>2, <2>1, Advanced
<1>3. ASSUME NEW r \in rows, r.id = target[m], r.email = call[m].email, Op(m) # "DeleteClient",
             Server(m, IF ChangedRow(call[m], r).email = r.email THEN "done" ELSE "key",
                    target[m], {ChangedRow(call[m], r)})
      PROVE  Asked'
  <2>1. PICK row : row = {ChangedRow(call[m], r)}
    OBVIOUS
  <2>2. IsAsked(m, id, row)
    BY <1>0, <1>i, <1>3, <2>1 DEF IsAsked
  <2>3. CASE ChangedRow(call[m], r).email = r.email
    <3>1. Server(m, "done", id, row)
      BY <1>i, <1>3, <2>1, <2>3 DEF Server, Set
    <3> QED BY <1>0, <1>i, <2>2, <3>1, Advanced
  <2>4. CASE ChangedRow(call[m], r).email # r.email
    <3>1. Server(m, "key", id, row)
      BY <1>i, <1>3, <2>1, <2>4 DEF Server, Set
    <3>2. call[m].to # call[m].email
      BY <1>3, <2>4 DEF ChangedRow
    <3> QED BY <1>0, <1>i, <2>2, <3>1, <3>2, Advanced
  <2> QED BY <2>3, <2>4
<1> QED BY <1>1, <1>2, <1>3 DEF Lock, WithEmail

\* The key of a row that was changed is free, or the call fails.
LEMMA AskedOnKey ==
  ASSUME IInv, Asked, NEW m \in Managers, EnterKey(m)
  PROVE  Asked'
<1>0. pc[m] = "key" /\ Op(m) # "CreateTable" /\ target[m] \in Nat /\ Undecided(m)
  BY DEF IInv, EnterKey, Undecided, Shape
<1>1. CASE Fail(m)
  BY <1>0, <1>1, LetGo DEF Fail, Server, Set
<1>2. CASE Server(m, "done", target[m], new[m])
  <2>1. PICK id, row : id = target[m] /\ row = new[m] /\ id \in Nat
    BY <1>0
  <2>2. table /\ IsAsked(m, id, row)
    BY <1>0, <2>1 DEF Asked, Work, WorkOf, HasChanged
  <2>3. Server(m, "done", id, row)
    BY <1>2, <2>1 DEF Server, Set
  <2> QED BY <1>0, <2>1, <2>2, <2>3, Advanced
<1> QED BY <1>1, <1>2 DEF EnterKey

\* INSERT makes the row the call asks for, with an id nobody has.
LEMMA AskedOnAdd ==
  ASSUME IInv, Asked, NEW m \in Managers, AddClient(m)
  PROVE  Asked'
<1>1. nextId \in Nat /\ nextId # 0 /\ nextId \in Ids /\ Undecided(m) /\ pc[m] = "begun"
  BY DEF IInv, AddClient, Undecided, Shape
<1>2. PICK id, row : id = nextId /\ row = {NewRow(call[m], nextId)} /\ id \in Nat
  BY <1>1
<1>3. Server(m, "key", id, row) /\ table /\ Op(m) = "AddClient"
  BY <1>2 DEF AddClient, Server, Set
<1>4. IsAsked(m, id, row)
  BY <1>1, <1>2, <1>3 DEF IsAsked
<1> QED BY <1>1, <1>2, <1>3, <1>4, Advanced

\* A row that goes away with its email gives an excuse to who waits for it.
LEMMA AskedOnCommit ==
  ASSUME IInv, Asked, NEW m \in Managers, Commit(m)
  PROVE  Asked'
<1> USE DEF Asked, IInv, Shape
<1>1. /\ pc'[m] = "ended" /\ target'[m] = 0
      /\ UNCHANGED call
      /\ \A s \in Managers \ {m} :
           pc'[s] = pc[s] /\ target'[s] = target[s] /\ new'[s] = new[s]
      /\ \A s \in Managers :
           excuse'[s] = (excuse[s] \/ (Undecided(s)' /\ NoEffect(call[s], rows', table')))
      /\ table => table'
  BY DEF Commit, Set
<1>2. InCall'
  <2>1. excuse' \in [Managers -> BOOLEAN]
    BY DEF Commit, InCall, Undecided, NoEffect
  <2> QED BY <1>1, <2>1, CallAssumption DEF Commit, Set, InCall
<1>3. ASSUME NEW s \in Managers \ {m}, NEW r \in rows, r.id = target[s],
             target[m] # 0 => target[m] # target[s]
      PROVE  r \in rows'
  BY <1>3 DEF Commit, RowsAfter
<1>4. Work'
  <2>1. WorkOf(m)'
    BY <1>1 DEF WorkOf, HasChanged
  <2>2. ASSUME NEW s \in Managers \ {m}
        PROVE  WorkOf(s)'
    <3>1. HasChanged(s) => (target[m] # 0 => target[m] # target[s])
      BY DEF OneChanger, HasChanged, Commit
    <3>2. ASSUME HasChanged(s)
          PROVE  IsAsked(s, target[s], new[s])'
      <4>1. IsAsked(s, target[s], new[s])
        BY <3>2 DEF Work, WorkOf
      <4>2. CASE Op(s) = "AddClient"
        BY <1>1, <4>1, <4>2 DEF IsAsked, Op
      <4>3. CASE Op(s) # "AddClient"
        BY <1>1, <1>3, <3>1, <3>2, <4>1, <4>3 DEF IsAsked, Op
      <4> QED BY <4>2, <4>3
    <3> QED BY <1>1, <3>2 DEF Work, WorkOf, HasChanged, Op
  <2> QED BY <2>1, <2>2 DEF Work
<1>5. OneCreator'
  BY <1>1 DEF OneCreator, Op
<1>6. ASSUME NEW s \in Managers, pc'[s] = "lock"
      PROVE  excuse'[s] \/ \E r \in rows' : r.id = target'[s] /\ r.email = call'[s].email
  <2>0. s # m /\ pc[s] = "lock" /\ Op(s) \in ByEmail /\ UNCHANGED <<pc[s], target[s], call[s]>>
    BY <1>1, <1>6 DEF Work, WorkOf
  <2>1. CASE excuse[s]
    BY <1>1, <2>1
  <2>2. ASSUME NEW r \in rows, r.id = target[s], r.email = call[s].email
        PROVE  excuse'[s] \/ \E k \in rows' : k.id = target'[s] /\ k.email = call'[s].email
    <3>1. CASE target[m] # 0 => target[m] # target[s]
      BY <2>0, <2>2, <3>1, <1>3
    <3>2. CASE target[m] # 0 /\ target[m] = target[s]
      <4>1. rows' = {x \in rows : x.id # target[m]} \cup new[m]
        BY <3>2 DEF Commit, RowsAfter
      <4>2. \A x \in rows : x.email = call[s].email => x.id = target[m]
        BY <2>2, <3>2 DEF UniqueEmail
      <4>3. \A x \in new[m] : x.id = target[m]
        BY DEF Versions
      <4>4. (\E x \in new[m] : x.email = call[s].email)
               \/ WithEmail(rows', call[s].email) = {}
        BY <4>1, <4>2 DEF WithEmail
      <4>5. CASE WithEmail(rows', call[s].email) = {}
        <5>1. NoEffect(call[s], rows', table')
          BY <4>5, <2>0 DEF NoEffect, Op, ByEmail
        <5>2. Undecided(s)'
          BY <2>0 DEF Undecided
        <5> QED BY <1>1, <5>1, <5>2
      <4> QED BY <2>0, <3>2, <4>1, <4>3, <4>4, <4>5
    <3> QED BY <3>1, <3>2
  <2> QED BY <2>0, <2>1, <2>2 DEF Excused
<1>7. Excused'
  BY <1>1, <1>6 DEF Excused
<1> QED BY <1>2, <1>4, <1>5, <1>7

\* Every step keeps Asked.
LEMMA AskedKept ==
  ASSUME IInv, Asked, [Next]_vars
  PROVE  Asked'
<1>1. ASSUME NEW m \in Managers, Progress(m)
      PROVE  Asked'
  <2> USE DEF Server, Set, Fail
  <2>1. CASE NoTable(m) \/ Rollback(m)
    BY <2>1, LetGo DEF NoTable, Rollback
  <2>2. CASE CreateTable(m)
    <3>1. CASE table
      BY <2>2, <3>1, LetGo DEF CreateTable
    <3>2. CASE ~table
      BY <2>2, <3>2, Advanced DEF CreateTable, Undecided
    <3> QED BY <3>1, <3>2
  <2>3. CASE AddClient(m)
    BY <2>3, AskedOnAdd
  <2>4. CASE FindTarget(m)
    <3>1. ASSUME NEW r \in rows, r.email = call[m].email, Server(m, "lock", r.id, {})
          PROVE  Asked'
      <4>1. r.id \in Nat \ {0} /\ Undecided(m) /\ pc[m] # "idle" /\ Op(m) \in ByEmail /\ table
        BY <2>4 DEF FindTarget, Undecided, IInv, IdsUsed, ByEmail
      <4> QED BY <3>1, <4>1, Advanced
    <3>2. CASE Server(m, "done", 0, {})
      BY <2>4, <3>2, LetGo DEF FindTarget
    <3> QED BY <2>4, <3>1, <3>2 DEF FindTarget, WithEmail
  <2>5. CASE FindClients(m)
    BY <2>5, LetGo DEF FindClients
  <2>6. CASE Lock(m)
    BY <2>6, AskedOnLock
  <2>7. CASE EnterKey(m)
    BY <2>7, AskedOnKey
  <2>8. CASE EnterTable(m)
    <3>1. CASE Fail(m)
      BY <2>8, <3>1, LetGo DEF EnterTable
    <3>2. CASE Server(m, "done", 0, {})
      BY <2>8, <3>2, Advanced DEF EnterTable, Undecided
    <3> QED BY <2>8, <3>1, <3>2 DEF EnterTable
  <2>9. CASE Victim(m)
    <3>1. pc[m] # "idle"
      BY <2>9 DEF Victim, Deadlocked, WaitsFor
    <3> QED BY <2>9, <3>1, LetGo DEF Victim
  <2>10. CASE SendCommit(m) \/ Return(m)
    BY <2>10, AskedGoesOn
  <2>11. CASE Commit(m)
    BY <2>11, AskedOnCommit
  <2>12. CASE Exit(m)
    BY <2>12, LetGo DEF Exit
  <2> QED
    BY <1>1, <2>1, <2>2, <2>3, <2>4, <2>5, <2>6, <2>7, <2>8, <2>9, <2>10, <2>11, <2>12
    DEF Progress
<1>2. ASSUME UNCHANGED <<table, rows, call, pc, target, new, excuse>>
      PROVE  Asked'
  BY <1>2 DEF Asked, InCall, Work, WorkOf, OneCreator, Excused, Undecided, HasChanged,
              IsAsked, Op
<1> QED BY <1>1, <1>2, AskedOnCall DEF Next, LoseConnection, vars

\* In every reachable state, what a call has still to do is what it was asked, on a row
\* it has found, or it has an excuse: another call has committed that leaves it with
\* nothing to do (Client_Manager.cpp:58).
THEOREM PromiseInvariant == Spec => []PromiseInv
<1>1. Init => Asked
  BY DEF Init, Asked, InCall, Work, WorkOf, OneCreator, Excused, Undecided, HasChanged
<1>2. IInv /\ Asked /\ [Next]_vars => Asked'
  BY AskedKept
<1>3. IInv /\ Asked => PromiseInv
  BY DEF Asked, PromiseInv
<1> QED BY <1>1, <1>2, <1>3, Invariant, PTL DEF Spec
-----------------------------------------------------------------------------
(* Every step is one of ClientDirectory, or none. *)

\* A step of m that leaves the data alone shows at most in the call of m.
LEMMA OnlyItsCall ==
  ASSUME IInv, Asked, NEW m \in Managers, UNCHANGED <<table, call>>, pc[m] # "idle",
         \A s \in Managers \ {m} : pc'[s] = pc[s] /\ target'[s] = target[s],
         pc'[m] # "idle"
  PROVE  /\ Undecided(m) => AbstractCall[m] = call[m] /\ call[m] \notin {NoCall, Done}
         /\ ~Undecided(m) => AbstractCall[m] = Done
         /\ (Undecided(m) <=> Undecided(m)') => AbstractCall' = AbstractCall
         /\ Undecided(m) /\ ~Undecided(m)' => AbstractCall' = [AbstractCall EXCEPT ![m] = Done]
<1> USE DEF AbstractCall
<1>1. \A s \in Managers \ {m} : Undecided(s)' = Undecided(s)
  BY DEF Undecided, Op
<1>2. call[m] \in Calls
  BY DEF Asked, InCall
<1>3. call[m] \notin {NoCall, Done}
  BY <1>2, CallAssumption
<1> QED BY <1>1, <1>3

\* The statement goes on.
LEMMA Stays ==
  ASSUME IInv, Asked, NEW m \in Managers,
         UNCHANGED <<table, rows, up, call, excuse, answer>>, pc[m] # "idle",
         \A s \in Managers \ {m} : pc'[s] = pc[s] /\ target'[s] = target[s],
         pc'[m] # "idle", Undecided(m) <=> Undecided(m)'
  PROVE  UNCHANGED Promise!vars
BY OnlyItsCall DEF Promise!vars

\* The call is decided without an effect.
LEMMA Skips ==
  ASSUME IInv, Asked, NEW m \in Managers,
         UNCHANGED <<table, rows, up, call, excuse, answer>>, pc[m] # "idle",
         \A s \in Managers \ {m} : pc'[s] = pc[s] /\ target'[s] = target[s],
         pc'[m] # "idle", Undecided(m), ~Undecided(m)', excuse[m]
  PROVE  Promise!Skip(m)
BY OnlyItsCall DEF Promise!Skip

\* A call begins there when it begins here.
LEMMA Invokes ==
  ASSUME IInv, Asked, NEW m \in Managers, NEW c \in Calls, Call(m, c)
  PROVE  Promise!Invoke(m, c)
<1> USE DEF Call, Set, IInv, Asked, Shape
<1>1. \A s \in Managers \ {m} : Undecided(s)' = Undecided(s) /\ pc'[s] = pc[s] /\ call'[s] = call[s]
  BY DEF Undecided, Op, InCall
<1>2. Undecided(m)' /\ pc'[m] = "begun" /\ call'[m] = c
  BY DEF Undecided, InCall
<1>3. AbstractCall' = [AbstractCall EXCEPT ![m] = c]
  BY <1>1, <1>2 DEF AbstractCall
<1>4. AbstractCall[m] = NoCall
  BY DEF AbstractCall
<1> QED
  BY <1>3, <1>4 DEF Promise!Invoke, NoEffect, WithEmail, Promise!NoEffect, Promise!WithEmail

\* A call that returns has had its effect, or has been excused or abandoned.
LEMMA Returns ==
  ASSUME IInv, Asked, NEW m \in Managers, Return(m) \/ Exit(m)
  PROVE  Promise!Return(m) \/ Promise!Abandon(m)
<1> USE DEF Return, Exit, Set, IInv, Asked, Shape
<1>1. \A s \in Managers \ {m} : Undecided(s)' = Undecided(s) /\ pc'[s] = pc[s] /\ call'[s] = call[s]
  BY DEF Undecided, Op, InCall
<1>2. pc'[m] = "idle"
  OBVIOUS
<1>3. AbstractCall' = [AbstractCall EXCEPT ![m] = NoCall]
  BY <1>1, <1>2 DEF AbstractCall
<1>4. call[m] \in Calls
  BY DEF InCall
<1>5. AbstractCall[m] # NoCall
  BY <1>4, CallAssumption DEF AbstractCall
<1>6. Return(m) => AbstractCall[m] = Done
  BY DEF AbstractCall, Undecided
<1> QED BY <1>3, <1>5, <1>6 DEF Promise!Return, Promise!Abandon

\* A connection that is lost is lost at once.
LEMMA Loses ==
  ASSUME IInv, Asked, NEW m \in Managers, LoseConnection(m)
  PROVE  Promise!Lose(m)
<1>1. AbstractCall' = AbstractCall
  BY DEF LoseConnection, AbstractCall, Undecided, Op
<1>2. AbstractCall[m] = NoCall <=> pc[m] = "idle"
  <2>1. pc[m] # "idle" => call[m] \in Calls
    BY DEF Asked, InCall
  <2> QED BY <2>1, CallAssumption DEF AbstractCall
<1> QED BY <1>1, <1>2 DEF LoseConnection, Set, Promise!Lose

\* The two modules agree on what can have no effect.
LEMMA SameEffects ==
  ASSUME NEW c, NEW r, NEW t
  PROVE  NoEffect(c, r, t) = Promise!NoEffect(c, r, t)
BY DEF NoEffect, WithEmail, Promise!NoEffect, Promise!WithEmail

\* A call that ends without an effect has an excuse.
LEMMA NothingToDo ==
  ASSUME IInv, Asked, NEW m \in Managers, Undecided(m), NoEffect(call[m], rows, table)
  PROVE  excuse[m]
BY DEF Asked, Excused

\* A statement that finds nothing to do ends its call without an effect.
LEMMA StartsImplemented ==
  ASSUME IInv, Asked, NEW m \in Managers,
         NoTable(m) \/ CreateTable(m) \/ AddClient(m) \/ FindTarget(m)
  PROVE  Promise!Skip(m) \/ UNCHANGED Promise!vars
<1> USE DEF Server, Set, IInv, Shape, Fail
<1>0. pc[m] = "begun" /\ Undecided(m)
  BY DEF NoTable, CreateTable, AddClient, FindTarget, Undecided
<1>1. CASE NoTable(m)
  <2>1. NoEffect(call[m], rows, table)
    BY <1>1 DEF NoTable, NoEffect, Op
  <2> QED BY <1>0, <1>1, <2>1, NothingToDo, Skips DEF NoTable, Undecided
<1>2. CASE CreateTable(m)
  <2>1. CASE table
    <3>1. NoEffect(call[m], rows, table)
      BY <1>2, <2>1 DEF CreateTable, NoEffect, Op
    <3> QED BY <1>0, <1>2, <2>1, <3>1, NothingToDo, Skips DEF CreateTable, Undecided
  <2>2. CASE ~table
    BY <1>0, <1>2, <2>2, Stays DEF CreateTable, Undecided
  <2> QED BY <2>1, <2>2
<1>3. CASE AddClient(m)
  BY <1>0, <1>3, Stays DEF AddClient, Undecided
<1>4. CASE FindTarget(m)
  <2>1. CASE \E r \in rows : Server(m, "lock", r.id, {})
    BY <1>0, <1>4, <2>1, Stays DEF FindTarget, Undecided
  <2>2. CASE WithEmail(rows, call[m].email) = {} /\ Server(m, "done", 0, {})
    <3>1. NoEffect(call[m], rows, table)
      BY <1>4, <2>2 DEF FindTarget, NoEffect, Op
    <3>2. ~Undecided(m)'
      BY <1>4, <2>2 DEF FindTarget, Undecided, Op
    <3> QED BY <1>0, <1>4, <2>2, <3>1, <3>2, NothingToDo, Skips DEF FindTarget
  <2> QED BY <1>4, <2>1, <2>2 DEF FindTarget, WithEmail
<1> QED BY <1>1, <1>2, <1>3, <1>4

\* FindClients answers with the clients that match when its query runs.
LEMMA FindImplemented ==
  ASSUME IInv, Asked, NEW m \in Managers, FindClients(m)
  PROVE  Promise!Find(m)
<1> USE DEF FindClients, Server, Set, IInv, Shape
<1>1. Undecided(m) /\ ~Undecided(m)'
  BY DEF Undecided, Op
<1>2. /\ AbstractCall[m] = call[m] /\ call[m] \notin {NoCall, Done}
      /\ AbstractCall' = [AbstractCall EXCEPT ![m] = Done]
  BY <1>1, OnlyItsCall
<1> QED BY <1>2 DEF Promise!Find, Op, Matching, Promise!Matching

\* A row that is gone, or renamed, when its lock is got: the call does nothing.
LEMMA LockImplemented ==
  ASSUME IInv, Asked, NEW m \in Managers, Lock(m)
  PROVE  Promise!Skip(m) \/ UNCHANGED Promise!vars
<1> USE DEF Server, Set, IInv, Shape
<1>0. pc[m] = "lock" /\ Undecided(m) /\ target[m] # 0 /\ Op(m) \in ByEmail
  BY DEF Lock, Undecided, Asked, Work, WorkOf
<1>1. CASE /\ {r \in WithEmail(rows, call[m].email) : r.id = target[m]} = {}
           /\ Server(m, "done", 0, {})
  <2>1. excuse[m]
    BY <1>0, <1>1 DEF Asked, Excused, WithEmail
  <2>2. ~Undecided(m)'
    BY <1>0, <1>1 DEF Undecided, Op, ByEmail
  <2> QED BY <1>0, <1>1, <2>1, <2>2, Skips DEF Lock
<1>2. CASE \/ Server(m, "done", target[m], {})
           \/ \E r \in rows :
                 Server(m, IF ChangedRow(call[m], r).email = r.email THEN "done" ELSE "key",
                        target[m], {ChangedRow(call[m], r)})
  BY <1>0, <1>2, Stays DEF Lock, Undecided
<1> QED BY <1>1, <1>2 DEF Lock, WithEmail

\* The key an INSERT or UPDATE needs is another row's: it could have no effect.
LEMMA TakenKeyExcuses ==
  ASSUME IInv, Asked, NEW m \in Managers, pc[m] = "key", Op(m) # "CreateTable", KeyTaken(m)
  PROVE  NoEffect(call[m], rows, table)
<1>1. target[m] # 0 /\ IsAsked(m, target[m], new[m])
      /\ (Op(m) = "UpdateClient" => call[m].to # call[m].email)
  BY DEF Asked, Work, WorkOf, HasChanged
<1>2. PICK k \in new[m], r \in rows : r.email = k.email /\ r.id # target[m]
  BY DEF KeyTaken
<1>3. Op(m) \in {"AddClient", "UpdateClient"}
  BY <1>1 DEF IInv, KeyWaiters
<1>4. CASE Op(m) = "AddClient"
  BY <1>1, <1>2, <1>4 DEF IsAsked, NewRow, NoEffect, Op, WithEmail
<1>5. CASE Op(m) = "UpdateClient"
  <2>1. k.email = call[m].to
    BY <1>1, <1>2, <1>5 DEF IsAsked, ChangedRow, Op
  <2> QED BY <1>1, <1>2, <1>5, <2>1 DEF NoEffect, Op, WithEmail
<1> QED BY <1>3, <1>4, <1>5

\* A key that is taken, or a table that has come: the call fails, with an excuse.
LEMMA EnterImplemented ==
  ASSUME IInv, Asked, NEW m \in Managers, EnterKey(m) \/ EnterTable(m)
  PROVE  Promise!Skip(m) \/ UNCHANGED Promise!vars
<1> USE DEF Server, Set, IInv, Shape, Fail
<1>0. pc[m] = "key" /\ Undecided(m)
  BY DEF EnterKey, EnterTable, Undecided
<1>1. CASE KeyTaken(m) /\ Fail(m) /\ EnterKey(m)
  <2>1. excuse[m]
    BY <1>0, <1>1, TakenKeyExcuses, NothingToDo DEF EnterKey
  <2> QED BY <1>0, <1>1, <2>1, Skips DEF Undecided
<1>2. CASE Server(m, "done", target[m], new[m]) /\ EnterKey(m)
  <2>1. target[m] # 0
    BY <1>0, <1>2 DEF EnterKey, Asked, Work, WorkOf
  <2> QED BY <1>0, <1>2, <2>1, Stays DEF EnterKey, Undecided
<1>3. CASE table /\ Fail(m) /\ EnterTable(m)
  <2>1. NoEffect(call[m], rows, table)
    BY <1>3 DEF EnterTable, NoEffect, Op
  <2> QED BY <1>0, <1>3, <2>1, NothingToDo, Skips DEF Undecided
<1>4. CASE ~table /\ Server(m, "done", 0, {}) /\ EnterTable(m)
  BY <1>0, <1>4, Stays DEF EnterTable, Undecided, Op
<1> QED BY <1>1, <1>2, <1>3, <1>4 DEF EnterKey, EnterTable

\* Whoever is sacrificed waits in a cycle of updates.
LEMMA VictimImplemented ==
  ASSUME IInv, Asked, NEW m \in Managers, Victim(m)
  PROVE  Promise!Victim(m)
<1> USE DEF Server, Set, IInv, Shape, Fail
<1>1. PICK S \in SUBSET Managers : m \in S /\ Deadlocked(S)
  BY DEF Victim
<1>2. \A s \in S : pc[s] \in {"lock", "key"}
  BY <1>1 DEF Deadlocked, WaitsFor
<1>3. PICK s \in S : s \in WaitsFor(m)
  BY <1>1 DEF Deadlocked
<1>4. s # m
  BY <1>1, <1>2, <1>3 DEF WaitsFor, RowHolders, KeyHolders, TableHolders
<1>5. Op(m) = "UpdateClient" /\ Op(s) = "UpdateClient"
  BY <1>1, DeadlockOfRenames DEF OnlyRenamesDeadlock
<1>6. ASSUME NEW u \in S
      PROVE  AbstractCall[u] = call[u] /\ call[u] \notin {NoCall, Done}
  <2>1. Undecided(u) /\ pc[u] # "idle" /\ u \in Managers
    BY <1>2 DEF Undecided
  <2>2. call[u] \in Calls
    BY <2>1 DEF Asked, InCall
  <2> QED BY <2>1, <2>2, CallAssumption DEF AbstractCall
<1>7. AbstractCall' = [AbstractCall EXCEPT ![m] = Done]
  BY <1>1, <1>2, OnlyItsCall DEF Victim, Undecided
<1> QED BY <1>1, <1>4, <1>5, <1>6, <1>7 DEF Victim, Promise!Victim, Promise!Renaming, Op

\* What COMMIT does to the table is the effect of the call, which has one.
LEMMA CommitHasEffect ==
  ASSUME IInv, Asked, NEW m \in Managers, Commit(m), Undecided(m)
  PROVE  ~NoEffect(call[m], rows, table) /\ Promise!Effect(call[m])
<1>0. /\ pc[m] = "commit" /\ rows' = RowsAfter(m)
      /\ table' = (table \/ Op(m) = "CreateTable") /\ table \in BOOLEAN
  BY DEF Commit, Asked, InCall
<1>1. CASE target[m] = 0
  <2>1. Op(m) = "CreateTable" /\ ~table /\ table' = TRUE /\ rows' = rows
    BY <1>0, <1>1 DEF Undecided, RowsAfter
  <2> QED BY <2>1 DEF NoEffect, Op, Promise!Effect
<1>2. CASE target[m] # 0
  <2>1. table /\ IsAsked(m, target[m], new[m]) /\ Entered(m) /\ HasChanged(m)
    BY <1>0, <1>2 DEF Asked, Work, WorkOf, HasChanged, Entered
  <2>2. Op(m) # "CreateTable" /\ Op(m) # "FindClients" /\ table' = table
    BY <1>0, <2>1 DEF IsAsked, ByEmail
  <2>3. rows' = {r \in rows : r.id # target[m]} \cup new[m]
    BY <1>0, <1>2 DEF RowsAfter
  <2>4. \A k \in new[m], r \in rows : r.email = k.email => r.id = target[m]
    BY <2>1 DEF IInv, KeysReserved
  <2>5. CASE Op(m) = "AddClient"
    <3>1. target[m] \in Ids /\ new[m] = {NewRow(call[m], target[m])}
      BY <2>1, <2>5 DEF IsAsked
    <3>2. \A r \in rows : r.id # target[m]
      BY <2>1, <2>5 DEF IInv, KeyWaiters
    <3>3. rows' = rows \cup {NewRow(call[m], target[m])}
      BY <2>3, <3>1, <3>2
    <3>4. WithEmail(rows, call[m].email) = {}
      BY <2>4, <3>1, <3>2 DEF WithEmail, NewRow
    <3> QED
      BY <2>1, <2>2, <2>5, <3>1, <3>2, <3>3, <3>4
      DEF NoEffect, Op, Promise!Effect, NewRow, Promise!NewRow
  <2>6. CASE Op(m) # "AddClient"
    <3>1. PICK r \in rows :
            /\ r.id = target[m] /\ r.email = call[m].email
            /\ new[m] = IF Op(m) = "DeleteClient" THEN {} ELSE {ChangedRow(call[m], r)}
      BY <2>1, <2>6 DEF IsAsked
    <3>2. WithEmail(rows, call[m].email) = {r}
      BY <3>1 DEF WithEmail, IInv, UniqueEmail
    <3>3. {x \in rows : x.id # target[m]} = rows \ {r}
      BY <3>1 DEF IInv, IdsUsed
    <3>4. CASE Op(m) = "DeleteClient"
      <4>1. rows' = rows \ WithEmail(rows, call[m].email)
        BY <2>3, <3>1, <3>2, <3>3, <3>4
      <4> QED
        BY <2>1, <2>2, <3>2, <3>4, <4>1
        DEF NoEffect, Op, Promise!Effect, WithEmail, Promise!WithEmail
    <3>5. CASE Op(m) # "DeleteClient"
      <4>1. rows' = (rows \ WithEmail(rows, call[m].email))
                      \cup {ChangedRow(call[m], x) : x \in WithEmail(rows, call[m].email)}
        BY <2>3, <3>1, <3>2, <3>3, <3>5
      <4>2. Op(m) \in {"AddPhone", "DeletePhone", "UpdateClient"}
        BY <2>1, <2>6, <3>5 DEF IsAsked, ByEmail
      <4>3. Op(m) = "UpdateClient" /\ call[m].to # call[m].email
              => WithEmail(rows, call[m].to) = {}
        <5>1. Op(m) = "UpdateClient" => ChangedRow(call[m], r).email = call[m].to
          BY DEF ChangedRow, Op
        <5>2. \A x \in rows : x.id = target[m] => x = r
          BY <3>1 DEF IInv, IdsUsed
        <5> QED BY <2>4, <3>1, <3>5, <5>1, <5>2 DEF WithEmail
      <4>4. ~NoEffect(call[m], rows, table)
        BY <2>1, <3>2, <4>2, <4>3 DEF NoEffect, Op
      <4>5. Promise!Effect(call[m])
        BY <2>2, <4>1, <4>2 DEF Op, Promise!Effect, WithEmail, Promise!WithEmail,
           ChangedRow, Promise!ChangedRow
      <4> QED BY <4>4, <4>5
    <3> QED BY <3>4, <3>5
  <2> QED BY <2>5, <2>6
<1> QED BY <1>1, <1>2, <1>0 DEF IInv, Shape

\* COMMIT is where the call takes effect, all of it.
LEMMA CommitImplemented ==
  ASSUME IInv, Asked, NEW m \in Managers, Commit(m)
  PROVE  Promise!Apply(m) \/ UNCHANGED Promise!vars
<1>1. /\ pc[m] = "commit" /\ pc'[m] = "ended" /\ target'[m] = 0
      /\ UNCHANGED <<call, up, answer>>
      /\ table' = (table \/ Op(m) = "CreateTable") /\ table \in BOOLEAN
      /\ \A s \in Managers \ {m} : pc'[s] = pc[s] /\ target'[s] = target[s]
  BY DEF Commit, Set, IInv, Shape, Asked, InCall
<1>2. \A s \in Managers \ {m} : Undecided(s)' = Undecided(s)
  BY <1>1 DEF Undecided, Op, Asked, OneCreator
<1>3. ~Undecided(m)'
  BY <1>1 DEF Undecided
<1>4. call \in [Managers -> Calls \cup {NoCall}] /\ excuse \in [Managers -> BOOLEAN]
      /\ \A s \in Managers : pc[s] = "idle" <=> call[s] = NoCall
  BY DEF Asked, InCall
<1>5. AbstractCall' = [AbstractCall EXCEPT ![m] = Done]
  BY <1>1, <1>2, <1>3 DEF AbstractCall
<1>6. excuse' = [x \in Managers |-> excuse[x] \/ (Undecided(x)' /\ NoEffect(call[x], rows', table'))]
  BY DEF Commit
<1>7. CASE Undecided(m)
  <2>1. ~NoEffect(call[m], rows, table) /\ Promise!Effect(call[m])
    BY <1>7, CommitHasEffect
  <2>2. AbstractCall[m] = call[m] /\ call[m] \notin {NoCall, Done}
    BY <1>1, <1>4, <1>7, CallAssumption DEF AbstractCall
  <2>3. \A x \in Managers :
          /\ Undecided(x)' <=> AbstractCall'[x] \notin {NoCall, Done}
          /\ Undecided(x)' => AbstractCall'[x] = call[x]
    <3>1. ASSUME NEW x \in Managers, Undecided(x)'
          PROVE  AbstractCall'[x] = call[x] /\ call[x] \notin {NoCall, Done}
      BY <1>1, <1>4, <3>1, CallAssumption DEF AbstractCall, Undecided
    <3>2. ASSUME NEW x \in Managers, ~Undecided(x)'
          PROVE  AbstractCall'[x] \in {NoCall, Done}
      BY <3>2 DEF AbstractCall
    <3> QED BY <3>1, <3>2
  <2>4. excuse' = [x \in Managers |-> excuse[x] \/
          (AbstractCall'[x] \notin {NoCall, Done} /\ Promise!NoEffect(AbstractCall'[x], rows', table'))]
    BY <1>6, <2>3, SameEffects
  <2> QED BY <1>1, <1>5, <2>1, <2>2, <2>4, SameEffects DEF Promise!Apply
<1>8. CASE ~Undecided(m)
  <2>1. table' = table /\ rows' = rows
    BY <1>1, <1>8 DEF Undecided, Commit, RowsAfter
  <2>2. AbstractCall' = AbstractCall
    BY <1>1, <1>5, <1>8 DEF AbstractCall
  <2>3. excuse' = excuse
    <3>1. \A x \in Managers : excuse'[x] = excuse[x]
      BY <1>2, <1>3, <1>4, <1>6, <2>1 DEF Asked, Excused
    <3> QED BY <1>4, <1>6, <3>1
  <2> QED BY <1>1, <2>1, <2>2, <2>3 DEF Promise!vars
<1> QED BY <1>7, <1>8

\* Whatever a Manager does is a step of ClientDirectory, or none.
LEMMA StepImplemented ==
  ASSUME IInv, Asked, [Next]_vars
  PROVE  [Promise!Next]_(Promise!vars)
<1> USE DEF Promise!Next
<1>1. ASSUME NEW m \in Managers, Progress(m)
      PROVE  [Promise!Next]_(Promise!vars)
  <2>1. CASE NoTable(m) \/ CreateTable(m) \/ AddClient(m) \/ FindTarget(m)
    BY <2>1, StartsImplemented
  <2>2. CASE FindClients(m)
    BY <2>2, FindImplemented
  <2>3. CASE Lock(m)
    BY <2>3, LockImplemented
  <2>4. CASE EnterKey(m) \/ EnterTable(m)
    BY <2>4, EnterImplemented
  <2>5. CASE Victim(m)
    BY <2>5, VictimImplemented
  <2>6. CASE SendCommit(m) \/ Rollback(m)
    BY <2>6, Stays DEF SendCommit, Rollback, Server, Set, IInv, Shape, Undecided, Op
  <2>7. CASE Commit(m)
    BY <2>7, CommitImplemented
  <2>8. CASE Return(m) \/ Exit(m)
    BY <2>8, Returns
  <2> QED BY <1>1, <2>1, <2>2, <2>3, <2>4, <2>5, <2>6, <2>7, <2>8 DEF Progress
<1>2. CASE UNCHANGED vars
  BY <1>2 DEF vars, Promise!vars, AbstractCall, Undecided, Op
<1> QED BY <1>1, <1>2, Invokes, Loses DEF Next

\* However the statements of concurrent Manager calls interleave, wait for each other,
\* deadlock and lose their connections, each call has its whole effect in one atomic
\* step between call and return, or none with an excuse (Client_Manager.cpp:30).
THEOREM PromiseKept == Spec => KeepsPromise
<1>1. Init => Promise!Init
  BY DEF Init, Promise!Init, AbstractCall
<1>2. PromiseInv /\ [Next]_vars => [Promise!Next]_(Promise!vars)
  BY StepImplemented DEF PromiseInv, Asked
<1> QED BY <1>1, <1>2, PromiseInvariant, PTL DEF Spec, KeepsPromise, Promise!Spec
-----------------------------------------------------------------------------
(* Types                                                                     *)

\* What array_remove leaves is made of what was there.
LEMMA WithoutIsSeq ==
  ASSUME NEW S, NEW s \in Seq(S), NEW x
  PROVE  Without(s, x) \in Seq(S)
<1> DEFINE Kept(n, t) == IF s[n] = x THEN t ELSE Append(t, s[n])
           kept[n \in 0..Len(s)] ==
             IF n = 0 THEN <<>>
             ELSE IF s[n] = x THEN kept[n - 1] ELSE Append(kept[n - 1], s[n])
<1>1. PICK last, none : last = Len(s) /\ none = <<>>
  OBVIOUS
<1>2. last \in Nat /\ none \in Seq(S) /\ \A n \in 1..last, t \in Seq(S) : Kept(n, t) \in Seq(S)
  BY <1>1
<1>3. PICK step : step = [n \in 1..last |-> [t \in Seq(S) |-> Kept(n, t)]]
  OBVIOUS
<1>4. step \in [1..last -> [Seq(S) -> Seq(S)]]
  <2> HIDE DEF Kept
  <2> QED BY <1>2, <1>3
<1>5. PICK f \in [0..last -> Seq(S)] :
        Passes(f, last, none, step)
  <2>1. PICK X : X = Seq(S)
    OBVIOUS
  <2>2. last \in Nat /\ none \in X /\ step \in [1..last -> [X -> X]]
    BY <1>2, <1>4, <2>1
  <2> HIDE DEF kept, Kept
  <2>3. \E f \in [0..last -> X] : Passes(f, last, none, step)
    BY <2>2, Passing
  <2> QED BY <2>1, <2>3
<1>6. f = [n \in 0..last |->
             IF n = 0 THEN none
             ELSE IF s[n] = x THEN f[n - 1] ELSE Append(f[n - 1], s[n])]
  <2>1. \A n \in 0..last : n # 0 => n \in 1..last /\ n - 1 \in 0..last /\ f[n - 1] \in Seq(S)
    BY <1>2
  <2>2. \A n \in 0..last : n # 0 => step[n][f[n - 1]] = Kept(n, f[n - 1])
    <3> HIDE DEF Kept
    <3> QED BY <2>1, <1>3
  <2>3. \A n \in 0..last : f[n] = IF n = 0 THEN none ELSE Kept(n, f[n - 1])
    <3> HIDE DEF Kept
    <3> QED BY <2>1, <2>2, <1>5 DEF Passes
  <2> QED BY <2>3
<1>7. kept = [n \in 0..last |->
                IF n = 0 THEN none
                ELSE IF s[n] = x THEN kept[n - 1] ELSE Append(kept[n - 1], s[n])]
  BY <1>1, <1>6
<1> HIDE DEF kept
<1>8. kept[0] = none /\ \A n \in 1..last : kept[n] = Kept(n, kept[n - 1])
  <2>1. \A n \in 0..last :
          kept[n] = IF n = 0 THEN none
                    ELSE IF s[n] = x THEN kept[n - 1] ELSE Append(kept[n - 1], s[n])
    BY <1>7
  <2>2. 0 \in 0..last /\ \A n \in 1..last : n \in 0..last /\ n # 0
    BY <1>2
  <2> QED BY <2>1, <2>2
<1> HIDE DEF Kept
<1>9. PICK T : T = {n \in 0..last : kept[n] \in Seq(S)}
  OBVIOUS
<1>10. 0 \in T
  BY <1>2, <1>8, <1>9
<1>11. ASSUME NEW n \in 1..last, n - 1 \in T
       PROVE  n \in T
  <2>1. n \in 0..last /\ kept[n - 1] \in Seq(S)
    BY <1>2, <1>9, <1>11
  <2> QED BY <2>1, <1>2, <1>8, <1>9
<1>12. 0..last \subseteq T
  BY <1>2, <1>10, <1>11, ByPositions
<1>13. kept[last] \in Seq(S)
  BY <1>2, <1>9, <1>12
<1> QED BY <1>1, <1>13 DEF Without, kept

\* A statement makes rows of the table out of rows of the table.
LEMMA RowsAreRows ==
  ASSUME NEW c \in CallSet
  PROVE  /\ \A id \in Ids : c.op = "AddClient" => NewRow(c, id) \in Rows
         /\ \A r \in Rows : ChangedRow(c, r) \in Rows
<1>1. ASSUME NEW id \in Ids, c.op = "AddClient"
      PROVE  NewRow(c, id) \in Rows
  BY <1>1 DEF CallSet, NewRow, Rows
<1>2. ASSUME NEW r \in Rows
      PROVE  ChangedRow(c, r) \in Rows
  <2>1. PICK phones : phones = ChangedRow(c, r).phones
    OBVIOUS
  <2>2. phones \in Seq(Phones)
    <3>1. r.phones \in Seq(Phones)
      BY DEF Rows
    <3>2. CASE c.op = "AddPhone"
      <4>1. phones = Append(r.phones, c.phone)
        BY <2>1, <3>2 DEF ChangedRow
      <4>2. c.phone \in Phones
        BY <3>2 DEF CallSet
      <4> QED BY <3>1, <4>1, <4>2
    <3>3. CASE c.op = "DeletePhone"
      <4>1. phones = Without(r.phones, c.phone)
        BY <2>1, <3>3 DEF ChangedRow
      <4> QED BY <3>1, <4>1, WithoutIsSeq
    <3>4. CASE c.op # "AddPhone" /\ c.op # "DeletePhone"
      BY <2>1, <3>1, <3>4 DEF ChangedRow
    <3> QED BY <3>2, <3>3, <3>4
  <2>3. r.id \in Ids /\ r.email \in Emails /\ r.first \in Names /\ r.last \in Names
    BY DEF Rows
  <2>4. c.op = "UpdateClient" => c.to \in Emails /\ c.first \in Names /\ c.last \in Names
    BY DEF CallSet
  <2>5. ChangedRow(c, r) =
          [id |-> r.id,
           email |-> IF c.op = "UpdateClient" THEN c.to ELSE r.email,
           first |-> IF c.op = "UpdateClient" THEN c.first ELSE r.first,
           last |-> IF c.op = "UpdateClient" THEN c.last ELSE r.last,
           phones |-> phones]
    BY <2>1 DEF ChangedRow
  <2> QED BY <2>2, <2>3, <2>4, <2>5 DEF Rows
<1> QED BY <1>1, <1>2

\* What the statements of m put into the table, and what they read from it, are rows.
LEMMA StepMakesRows ==
  ASSUME TypeOK, InCall, NEW m \in Managers, Progress(m)
  PROVE  rows' \subseteq Rows /\ new' \in [Managers -> SUBSET Rows]
           /\ answer' \in [Managers -> SUBSET Rows]
<1> USE DEF Server, Set
<1>1. rows \subseteq Rows /\ new \in [Managers -> SUBSET Rows]
        /\ answer \in [Managers -> SUBSET Rows]
  BY DEF TypeOK
<1>2. pc[m] # "idle" => call[m] \in CallSet
  BY CallAssumption DEF InCall
<1>3. ASSUME UNCHANGED rows, UNCHANGED answer, NEW v \in SUBSET Rows, Set(new, m, v)
      PROVE  rows' \subseteq Rows /\ new' \in [Managers -> SUBSET Rows]
               /\ answer' \in [Managers -> SUBSET Rows]
  BY <1>1, <1>3
<1>4. CASE AddClient(m)
  <2>1. NewRow(call[m], nextId) \in Rows
    BY <1>2, <1>4, RowsAreRows DEF AddClient, Op
  <2>2. UNCHANGED rows /\ UNCHANGED answer /\ Set(new, m, {NewRow(call[m], nextId)})
    BY <1>4 DEF AddClient
  <2> QED BY <2>1, <2>2, <1>3
<1>5. CASE FindClients(m)
  <2>1. Matching(rows, call[m].query) \subseteq Rows
    BY <1>1 DEF Matching
  <2>2. UNCHANGED rows /\ new' = [new EXCEPT ![m] = {}]
    BY <1>5 DEF FindClients
  <2>3. answer' = [answer EXCEPT ![m] = Matching(rows, call[m].query)]
    BY <1>5 DEF FindClients
  <2> QED BY <1>1, <2>1, <2>2, <2>3
<1>6. CASE Lock(m)
  <2>1. \A r \in rows : ChangedRow(call[m], r) \in Rows
    BY <1>1, <1>2, <1>6, RowsAreRows DEF Lock
  <2>2. UNCHANGED rows /\ UNCHANGED answer
    BY <1>6 DEF Lock
  <2>3. \/ new' = [new EXCEPT ![m] = {}]
        \/ \E r \in rows : new' = [new EXCEPT ![m] = {ChangedRow(call[m], r)}]
    BY <1>6 DEF Lock, WithEmail
  <2> QED BY <1>1, <2>1, <2>2, <2>3
<1>7. CASE EnterKey(m)
  <2>1. UNCHANGED rows /\ UNCHANGED answer
    BY <1>7 DEF EnterKey, Fail
  <2>2. new' = [new EXCEPT ![m] = {}] \/ new' = [new EXCEPT ![m] = new[m]]
    BY <1>7 DEF EnterKey, Fail
  <2> QED BY <1>1, <2>1, <2>2
<1>8. CASE Commit(m)
  <2>1. RowsAfter(m) \subseteq Rows
    BY <1>1 DEF RowsAfter
  <2>2. rows' = RowsAfter(m) /\ UNCHANGED answer /\ Set(new, m, {})
    BY <1>8 DEF Commit
  <2> QED BY <1>1, <2>1, <2>2
<1>9. CASE NoTable(m) \/ CreateTable(m) \/ FindTarget(m) \/ EnterTable(m) \/ Victim(m)
             \/ Rollback(m)
  <2>1. UNCHANGED rows /\ UNCHANGED answer
    BY <1>9 DEF NoTable, CreateTable, FindTarget, EnterTable, Victim, Rollback, Fail
  <2>2. Set(new, m, {})
    BY <1>9 DEF NoTable, CreateTable, FindTarget, EnterTable, Victim, Rollback, Fail
  <2> QED BY <1>1, <2>1, <2>2
<1>10. CASE SendCommit(m) \/ Return(m)
  BY <1>1, <1>10 DEF SendCommit, Return
<1>11. CASE Exit(m)
  BY <1>1, <1>11 DEF Exit
<1> QED BY <1>4, <1>5, <1>6, <1>7, <1>8, <1>9, <1>10, <1>11 DEF Progress

\* The table holds rows, and every transaction and every answer too: what a call
\* leaves is made of its arguments and of the row it has found.
THEOREM AlwaysTyped == Spec => []TypeOK
<1>1. Init => TypeOK
  <2> SUFFICES ASSUME Init PROVE TypeOK
    OBVIOUS
  <2>1. table \in BOOLEAN /\ rows \subseteq Rows /\ nextId \in Nat \ {0}
    <3>1. table \in BOOLEAN
      BY Zenon DEF Init
    <3>2. (rows = {} /\ nextId = 1) \/ (rows = Start /\ nextId = FirstId)
      BY Zenon DEF Init
    <3>3. Start \subseteq Rows /\ FirstId \in Nat \ {0}
      BY StartAssumption
    <3> QED BY <3>1, <3>2, <3>3
  <2>2. /\ up \in [Managers -> BOOLEAN] /\ calls \in [Managers -> Nat]
        /\ target \in [Managers -> Nat] /\ excuse \in [Managers -> BOOLEAN]
    BY DEF Init
  <2>3. call \in [Managers -> Calls \cup {NoCall}] /\ pc \in [Managers -> Pcs]
    BY DEF Init, Pcs
  <2>4. new \in [Managers -> SUBSET Rows] /\ answer \in [Managers -> SUBSET Rows]
    BY DEF Init
  <2> QED BY <2>1, <2>2, <2>3, <2>4 DEF TypeOK
<1>2. TypeOK /\ PromiseInv /\ PromiseInv' /\ [Next]_vars => TypeOK'
  <2> SUFFICES ASSUME TypeOK, PromiseInv, PromiseInv', [Next]_vars
               PROVE  TypeOK'
    OBVIOUS
  <2>1. /\ nextId' \in Nat \ {0} /\ pc' \in [Managers -> Pcs] /\ target' \in [Managers -> Nat]
        /\ table' \in BOOLEAN /\ excuse' \in [Managers -> BOOLEAN]
        /\ call' \in [Managers -> Calls \cup {NoCall}]
    BY DEF PromiseInv, IInv, Shape, InCall
  <2>2. ASSUME NEW m \in Managers, Progress(m)
        PROVE  UNCHANGED <<up, calls>>
    BY <2>2 DEF Progress, NoTable, CreateTable, AddClient, FindTarget, FindClients, Lock,
                EnterKey, EnterTable, Victim, SendCommit, Commit, Rollback, Return, Exit,
                Fail, Server
  <2>3. up' \in [Managers -> BOOLEAN] /\ calls' \in [Managers -> Nat]
    <3>1. up \in [Managers -> BOOLEAN] /\ calls \in [Managers -> Nat]
      BY DEF TypeOK
    <3>2. CASE \E m \in Managers : Progress(m)
      BY <2>2, <3>1, <3>2
    <3>3. CASE \E m \in Managers, c \in Calls : Call(m, c)
      BY <3>1, <3>3 DEF Call, Set
    <3>4. CASE \E m \in Managers : LoseConnection(m)
      BY <3>1, <3>4 DEF LoseConnection, Set
    <3>5. CASE UNCHANGED vars
      BY <3>1, <3>5 DEF vars
    <3> QED BY <3>2, <3>3, <3>4, <3>5 DEF Next
  <2>4. rows' \subseteq Rows /\ new' \in [Managers -> SUBSET Rows]
          /\ answer' \in [Managers -> SUBSET Rows]
    <3>1. rows \subseteq Rows /\ new \in [Managers -> SUBSET Rows]
            /\ answer \in [Managers -> SUBSET Rows]
      BY DEF TypeOK
    <3>2. CASE \E m \in Managers : Progress(m)
      BY <3>2, StepMakesRows DEF PromiseInv
    <3>3. CASE \E m \in Managers, c \in Calls : Call(m, c)
      BY <3>1, <3>3 DEF Call, Set
    <3>4. CASE \E m \in Managers : LoseConnection(m)
      BY <3>1, <3>4 DEF LoseConnection, Set
    <3>5. CASE UNCHANGED vars
      BY <3>1, <3>5 DEF vars
    <3> QED BY <3>2, <3>3, <3>4, <3>5 DEF Next
  <2> QED BY <2>1, <2>3, <2>4 DEF TypeOK
<1> QED BY <1>1, <1>2, PromiseInvariant, PTL DEF Spec
=============================================================================
