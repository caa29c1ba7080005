---------------------------- MODULE ClientManager ----------------------------
(***************************************************************************)
(* Class Manager (src/05/Task#1/Client_Manager.cpp) as run by several      *)
(* programs on one database.  Every method but the constructor is the same *)
(* control: a `work` on the Manager's own connection (BEGIN, READ          *)
(* COMMITTED), one statement, commit(), every exception caught and         *)
(* printed.  The statement meets the other sessions in the server: it      *)
(* waits for row locks, for the unique index on email and for a concurrent *)
(* CREATE TABLE.  The connection is never opened again once it is lost.    *)
(* The server (external) is modelled as these statements drive it.         *)
(***************************************************************************)
EXTENDS Directory

CONSTANTS
  Calls,     \* the calls the programs make
  NoCall,    \* no call in progress
  Done,      \* used only by the abstract specification
  Start,     \* the rows an earlier run may have left in the table,
  FirstId,   \* and where the sequence stands then
  MaxCalls,  \* bound: calls of one Manager
  Losses     \* Managers whose connection may be lost

ASSUME CallAssumption ==
  /\ Calls \subseteq CallSet
  /\ NoCall \notin CallSet /\ Done \notin CallSet /\ NoCall # Done
ASSUME StartAssumption ==
  /\ Start \subseteq Rows /\ FirstId \in Nat \ {0}
  /\ \A r \in Start : r.id < FirstId
  /\ \A r, s \in Start : r.id = s.id \/ r.email = s.email => r = s

VARIABLES
  table, rows,   \* the committed state of the database
  nextId,        \* the SERIAL column's sequence; nothing rolls it back
  up,            \* Manager's connection: is_open()
  call,          \* the method call whose transaction the session runs
  pc,            \* where that transaction is, see TypeOK
  target,        \* id of the row the transaction changes; 0 for none
  new,           \* {} or the version of that row it will commit
  calls,         \* history: calls made
  excuse,        \* history: see ClientDirectory
  answer         \* the rows FindClients has read

vars == <<table, rows, nextId, up, call, pc, target, new, calls, excuse, answer>>

Pcs == {"idle",    \* no transaction
        "begun",   \* BEGIN done, the statement is sent
        "lock",    \* the statement waits for the lock of row `target`
        "key",     \* row changed, the statement waits to enter its index key
        "done",    \* statement answered
        "commit",  \* COMMIT sent
        "failed",  \* the statement, and so the block, has failed
        "ended"}   \* COMMIT or ROLLBACK carried out, not yet answered

TypeOK ==
  /\ table \in BOOLEAN
  /\ rows \subseteq Rows
  /\ nextId \in Nat \ {0}
  /\ up \in [Managers -> BOOLEAN]
  /\ call \in [Managers -> Calls \cup {NoCall}]
  /\ pc \in [Managers -> Pcs]
  /\ target \in [Managers -> Nat]
  /\ new \in [Managers -> SUBSET Rows]
  /\ calls \in [Managers -> Nat]
  /\ excuse \in [Managers -> BOOLEAN]
  /\ answer \in [Managers -> SUBSET Rows]

Init ==
  /\ \/ table = FALSE /\ rows = {} /\ nextId = 1
     \/ table = TRUE /\ rows = Start /\ nextId = FirstId
  /\ up = [m \in Managers |-> TRUE]
  /\ call = [m \in Managers |-> NoCall]
  /\ pc = [m \in Managers |-> "idle"]
  /\ target = [m \in Managers |-> 0]
  /\ new = [m \in Managers |-> {}]
  /\ calls = [m \in Managers |-> 0]
  /\ excuse = [m \in Managers |-> FALSE]
  /\ answer = [m \in Managers |-> {}]

Op(m) == call[m].op
Set(f, m, v) == f' = [f EXCEPT ![m] = v]

\* The transaction of m may still have an effect.
Undecided(m) ==
  \/ pc[m] \in {"begun", "lock", "key"}
  \/ pc[m] \in {"done", "commit"} /\ (target[m] # 0 \/ (Op(m) = "CreateTable" /\ ~table))
-----------------------------------------------------------------------------
(* Locks and waiting *)

\* The transaction of s has changed row target[s] (or inserted it) and not ended.
HasChanged(s) == pc[s] \in {"key", "done", "commit"} /\ target[s] # 0

\* (mutant) nobody waits for a row
NoRowHolders(m) == {}

\* Whom the lock of its row makes m wait for.
RowHolders(m) == {s \in Managers \ {m} : HasChanged(s) /\ target[s] = target[m]}

\* (mutant) waiting for a key reserves it
KeyClaimers(m) ==
  {s \in Managers \ {m} : HasChanged(s) /\ \E k \in new[m], n \in new[s] : n.email = k.email}

\* Whom the unique index makes a new key wait for: a transaction that has entered
\* the same key, or has changed the row that holds it.
KeyHolders(m) ==
  {s \in Managers \ {m} :
     /\ HasChanged(s)
     /\ \E k \in new[m] :
          \/ pc[s] # "key" /\ \E n \in new[s] : n.email = k.email
          \/ \E r \in rows : r.id = target[s] /\ r.email = k.email}

\* CREATE TABLE has entered its names into unique catalog indexes.
TableHolders(m) ==
  {s \in Managers \ {m} : pc[s] \in {"done", "commit"} /\ Op(s) = "CreateTable" /\ ~table}

WaitsFor(m) ==
  CASE pc[m] = "lock" -> RowHolders(m)
    [] pc[m] = "key"  -> IF Op(m) = "CreateTable" THEN TableHolders(m) ELSE KeyHolders(m)
    [] OTHER          -> {}

\* (mutant) email is not declared UNIQUE
KeyNeverTaken(m) == FALSE

\* A committed row that no open transaction is changing has the key.
KeyTaken(m) ==
  \E k \in new[m], r \in rows : r.email = k.email /\ r.id # target[m]

\* Each session waits for at most one other, so such a set is made of cycles.
Deadlocked(S) ==
  S # {} /\ \A s \in S : WaitsFor(s) \cap S # {} /\ \E u \in S : s \in WaitsFor(u)
-----------------------------------------------------------------------------
(* The methods *)

\* pqxx::work txn(conn) and the statement that follows it.  On a connection
\* known to be lost the constructor throws and the method returns.
Call(m, c) ==
  /\ up[m] /\ pc[m] = "idle" /\ calls[m] < MaxCalls
  /\ Set(pc, m, "begun") /\ Set(call, m, c)
  /\ Set(calls, m, calls[m] + 1)
  /\ Set(excuse, m, NoEffect(c, rows, table))
  /\ Set(answer, m, {})
  /\ UNCHANGED <<table, rows, nextId, up, target, new>>

Server(m, p, id, row) ==
  /\ Set(pc, m, p) /\ Set(target, m, id) /\ Set(new, m, row)
  /\ UNCHANGED <<table, rows, up, call, calls, excuse>>

\* The server aborts the transaction of a failing statement at once.
Fail(m) == Server(m, "failed", 0, {}) /\ UNCHANGED <<nextId, answer>>

NoTable(m) == pc[m] = "begun" /\ ~table /\ Op(m) # "CreateTable" /\ Fail(m)

\* CreateTable: IF NOT EXISTS looks at committed tables only.
CreateTable(m) ==
  /\ pc[m] = "begun" /\ Op(m) = "CreateTable"
  /\ Server(m, IF table THEN "done" ELSE "key", 0, {})
  /\ UNCHANGED <<nextId, answer>>

AddClient(m) ==
  /\ pc[m] = "begun" /\ table /\ Op(m) = "AddClient" /\ nextId \in Ids
  /\ Server(m, "key", nextId, {NewRow(call[m], nextId)})
  /\ nextId' = nextId + 1
  /\ UNCHANGED answer

\* WHERE email = ... of AddPhone, DeletePhone, DeleteClient and UpdateClient
\* selects from what was committed when the statement started.
FindTarget(m) ==
  /\ pc[m] = "begun" /\ table
  /\ Op(m) \in {"AddPhone", "DeletePhone", "DeleteClient", "UpdateClient"}
  /\ \/ \E r \in WithEmail(rows, call[m].email) : Server(m, "lock", r.id, {})
     \/ WithEmail(rows, call[m].email) = {} /\ Server(m, "done", 0, {})
  /\ UNCHANGED <<nextId, answer>>

FindClients(m) ==
  /\ pc[m] = "begun" /\ table /\ Op(m) = "FindClients"
  /\ Server(m, "done", 0, {})
  /\ Set(answer, m, Matching(rows, call[m].query))
  /\ UNCHANGED nextId

\* (mutant) the row found is changed without a second look at its email
LockBlindly(m) ==
  /\ pc[m] = "lock" /\ RowHolders(m) = {}
  /\ \/ ~(\E r \in rows : r.id = target[m]) /\ Server(m, "done", 0, {})
     \/ \E r \in rows :
          /\ r.id = target[m]
          /\ Server(m, "done", target[m],
                    IF Op(m) = "DeleteClient" THEN {} ELSE {ChangedRow(call[m], r)})
  /\ UNCHANGED <<nextId, answer>>

\* Once no other transaction has changed the row, the WHERE clause is evaluated
\* again on its current version, and that version is what is changed.
Lock(m) ==
  /\ pc[m] = "lock" /\ RowHolders(m) = {}
  /\ LET current == {r \in WithEmail(rows, call[m].email) : r.id = target[m]} IN
     \/ current = {} /\ Server(m, "done", 0, {})
     \/ /\ current # {} /\ Op(m) = "DeleteClient"
        /\ Server(m, "done", target[m], {})
     \/ \E r \in current :
          /\ Op(m) # "DeleteClient"
          /\ Server(m, IF ChangedRow(call[m], r).email = r.email THEN "done" ELSE "key",
                    target[m], {ChangedRow(call[m], r)})
  /\ UNCHANGED <<nextId, answer>>

\* The unique index on email, for INSERT and for an UPDATE that changes it.
EnterKey(m) ==
  /\ pc[m] = "key" /\ Op(m) # "CreateTable" /\ KeyHolders(m) = {}
  /\ \/ KeyTaken(m) /\ Fail(m)
     \/ ~KeyTaken(m) /\ Server(m, "done", target[m], new[m]) /\ UNCHANGED <<nextId, answer>>

\* Two CREATE TABLE IF NOT EXISTS at once: the second waits for the first, and
\* if that commits it fails with a unique violation in the catalog.
EnterTable(m) ==
  /\ pc[m] = "key" /\ Op(m) = "CreateTable" /\ TableHolders(m) = {}
  /\ \/ table /\ Fail(m)
     \/ ~table /\ Server(m, "done", 0, {}) /\ UNCHANGED <<nextId, answer>>

\* (mutant) nobody breaks a deadlock
VictimNever(m) == FALSE

\* The deadlock detector fails one of the sessions that wait for each other.
Victim(m) ==
  /\ \E S \in SUBSET Managers : m \in S /\ Deadlocked(S)
  /\ Fail(m)

\* txn.commit() sends COMMIT.
SendCommit(m) ==
  /\ up[m] /\ pc[m] = "done" /\ Set(pc, m, "commit")
  /\ UNCHANGED <<table, rows, nextId, up, call, target, new, calls, excuse, answer>>

\* (mutant) the old version of a changed row stays
RowsWithOld(m) == rows \cup new[m]

\* The table without the old version of the row m has changed and with its new one.
RowsAfter(m) == IF target[m] = 0 THEN rows ELSE {r \in rows : r.id # target[m]} \cup new[m]

\* (mutant) the method forgets commit(): the destructor rolls back
CommitForgotten(m) ==
  /\ pc[m] = "commit" /\ Set(pc, m, "ended") /\ Set(target, m, 0) /\ Set(new, m, {})
  /\ UNCHANGED <<table, rows, nextId, up, call, calls, excuse, answer>>

\* The server carries it out.
Commit(m) ==
  /\ pc[m] = "commit"
  /\ rows' = RowsAfter(m)
  /\ table' = (table \/ Op(m) = "CreateTable")
  /\ Set(pc, m, "ended") /\ Set(target, m, 0) /\ Set(new, m, {})
  /\ UNCHANGED <<nextId, up, call, calls, answer>>
  /\ excuse' = [x \in Managers |-> excuse[x] \/ (Undecided(x)' /\ NoEffect(call[x], rows', table'))]

\* The statement threw: ~transaction sends ROLLBACK while the exception leaves
\* the try block.
Rollback(m) ==
  /\ up[m] /\ pc[m] = "failed"
  /\ Server(m, "ended", 0, {}) /\ UNCHANGED <<nextId, answer>>

Return(m) ==
  /\ up[m] /\ pc[m] = "ended"
  /\ Set(pc, m, "idle") /\ Set(call, m, NoCall)
  /\ UNCHANGED <<table, rows, nextId, up, target, new, calls, excuse, answer>>

\* broken_connection (or in_doubt_error from commit()) ends the method; the
\* session goes on with what it has received and then exits.
LoseConnection(m) ==
  /\ up[m] /\ m \in Losses /\ Set(up, m, FALSE)
  /\ Set(answer, m, IF pc[m] = "idle" THEN answer[m] ELSE {})
  /\ UNCHANGED <<table, rows, nextId, call, pc, target, new, calls, excuse>>

Exit(m) ==
  /\ ~up[m] /\ pc[m] # "idle"
  /\ Set(pc, m, "idle") /\ Set(call, m, NoCall) /\ Set(target, m, 0) /\ Set(new, m, {})
  /\ UNCHANGED <<table, rows, nextId, up, calls, excuse, answer>>

\* What goes on by itself once a method is called.
Progress(m) ==
  \/ NoTable(m) \/ CreateTable(m) \/ AddClient(m) \/ FindTarget(m) \/ FindClients(m)
  \/ Lock(m) \/ EnterKey(m) \/ EnterTable(m) \/ Victim(m)
  \/ SendCommit(m) \/ Commit(m) \/ Rollback(m) \/ Return(m) \/ Exit(m)

Next ==
  \E m \in Managers :
    \/ \E c \in Calls : Call(m, c)
    \/ Progress(m) \/ LoseConnection(m)

Spec == Init /\ [][Next]_vars
FairSpec == Spec /\ \A m \in Managers : WF_vars(Progress(m))
-----------------------------------------------------------------------------
(* Properties *)

\* email TEXT UNIQUE (Client_Manager.cpp:16): two clients never share an email,
\* whatever INSERTs and UPDATEs run at once.
UniqueEmail == \A r, s \in rows : r.email = s.email => r = s

\* A Manager whose CreateTable has been answered finds the table, also when its
\* own CREATE TABLE lost the race and failed (Client_Manager.cpp:8).
TableAfterCreate ==
  \A m \in Managers : up[m] /\ pc[m] = "ended" /\ Op(m) = "CreateTable" => table

\* Sessions wait for each other in a cycle only when all of them run
\* UpdateClient: no other method changes a row and then waits for a key.
OnlyRenamesDeadlock ==
  \A S \in SUBSET Managers : Deadlocked(S) => \A m \in S : Op(m) = "UpdateClient"

\* Every method call comes back: each transaction ends, committed or not.
EveryCallEnds == \A m \in Managers : pc[m] # "idle" ~> pc[m] = "idle"

\* The call as the abstract specification sees it.
AbstractCall ==
  [m \in Managers |-> IF pc[m] = "idle" THEN NoCall
                      ELSE IF Undecided(m) THEN call[m] ELSE Done]

\* The methods implement the atomic calls of ClientDirectory.
Promise == INSTANCE ClientDirectory WITH call <- AbstractCall
KeepsPromise == Promise!Spec
-----------------------------------------------------------------------------
(* What makes UniqueEmail, OnlyRenamesDeadlock and TableAfterCreate inductive *)

Shape ==
  /\ nextId \in Nat \ {0}
  /\ pc \in [Managers -> Pcs] /\ target \in [Managers -> Nat]
  /\ call = [m \in Managers |-> call[m]] /\ new = [m \in Managers |-> new[m]]

\* The transaction has changed a row and its key, if any, is in the index.
Entered(m) == pc[m] \in {"done", "commit"} /\ target[m] # 0

\* Ids come from the sequence: each names one row and the sequence is past it.
IdsUsed ==
  /\ \A r \in rows : r.id \in Nat \ {0} /\ r.id < nextId
  /\ \A r, s \in rows : r.id = s.id => r = s
  /\ \A m \in Managers : target[m] < nextId

Versions ==
  \A m \in Managers : \A k \in new[m] : k.id = target[m] /\ target[m] # 0 /\ new[m] = {k}

\* The row lock: one transaction changes a row at a time.
OneChanger ==
  \A m, s \in Managers : HasChanged(m) /\ HasChanged(s) /\ target[m] = target[s] => m = s

\* The unique index: a key that has been entered is that of no other committed
\* row and of no other open transaction.
KeysReserved ==
  /\ \A m \in Managers : Entered(m) =>
       \A k \in new[m], r \in rows : r.email = k.email => r.id = target[m]
  /\ \A m, s \in Managers : Entered(m) /\ Entered(s) =>
       \A k \in new[m], l \in new[s] : k.email = l.email => m = s

\* Only an INSERT and an UPDATE of the email wait for a key, and the row of an
\* INSERT is not there before it commits.
KeyWaiters ==
  \A m \in Managers :
    /\ pc[m] = "lock" => Op(m) # "AddClient"
    /\ pc[m] = "key" /\ target[m] # 0 => Op(m) \in {"AddClient", "UpdateClient"}
    /\ HasChanged(m) /\ Op(m) = "AddClient" => \A r \in rows : r.id # target[m]

\* CREATE TABLE fails only when another one has committed.
TableFailures ==
  \A m \in Managers : pc[m] \in {"failed", "ended"} /\ Op(m) = "CreateTable" => table

IInv ==
  /\ Shape /\ IdsUsed /\ Versions /\ OneChanger /\ KeysReserved
  /\ KeyWaiters /\ TableFailures /\ UniqueEmail
-----------------------------------------------------------------------------
(* What makes KeepsPromise provable: each transaction holds what its call asks *)
(* for, and a call that could have no effect is known to have an excuse.       *)

ByEmail == {"AddPhone", "DeletePhone", "DeleteClient", "UpdateClient"}

InCall ==
  /\ table \in BOOLEAN /\ excuse \in [Managers -> BOOLEAN]
  /\ call \in [Managers -> Calls \cup {NoCall}]
  /\ \A m \in Managers : pc[m] = "idle" <=> call[m] = NoCall

\* What the call of m asks for: a new row, or the version it makes of a committed
\* row with its email.
IsAsked(m, id, versions) ==
  IF Op(m) = "AddClient"
  THEN id \in Ids /\ versions = {NewRow(call[m], id)}
  ELSE /\ Op(m) \in ByEmail
       /\ \E r \in rows :
            /\ r.id = id /\ r.email = call[m].email
            /\ versions = IF Op(m) = "DeleteClient" THEN {} ELSE {ChangedRow(call[m], r)}

WorkOf(m) ==
  /\ pc[m] = "lock" => Op(m) \in ByEmail /\ table /\ target[m] # 0
  /\ pc[m] = "key" =>
       \/ Op(m) = "CreateTable"
       \/ target[m] # 0 /\ (Op(m) = "UpdateClient" => call[m].to # call[m].email)
  /\ HasChanged(m) => table /\ IsAsked(m, target[m], new[m])

Work == \A m \in Managers : WorkOf(m)

\* One transaction at a time is about to make the table.
OneCreator ==
  \A m, s \in Managers :
    /\ ~table /\ pc[m] \in {"done", "commit"} /\ pc[s] \in {"done", "commit"}
    /\ Op(m) = "CreateTable" /\ Op(s) = "CreateTable"
    => m = s

\* Wherever a call is decided without an effect, ClientDirectory has seen the
\* moment: also for a row that is no longer the one its email had selected.
Excused ==
  \A m \in Managers :
    /\ Undecided(m) /\ NoEffect(call[m], rows, table) => excuse[m]
    /\ pc[m] = "lock" =>
         excuse[m] \/ \E r \in rows : r.id = target[m] /\ r.email = call[m].email

PromiseInv == IInv /\ InCall /\ Work /\ OneCreator /\ Excused
=============================================================================
