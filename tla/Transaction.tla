----------------------------- MODULE Transaction -----------------------------
(***************************************************************************)
(* The transaction layer of libpqxx 7.9.0 that every operation of          *)
(* src/05/Task#1 stands on: one connection, the transaction objects a      *)
(* program opens on it (work = transaction<>, and nontransaction), a COPY  *)
(* stream as the focus of a transaction, and the session behind it.        *)
(* A connection is used by one thread, so a call is one step; what is not  *)
(* up to the program is the reply of the server, and when the server dies. *)
(***************************************************************************)
EXTENDS Backend

CONSTANTS
  Txns,      \* transaction objects, each constructed and destroyed at most once
  NoTxn,     \* connection::m_trans == nullptr
  Nums,      \* each object sends at most the writes <<t, n>>, n \in Nums
  Habits     \* what the program does beyond strict RAII:
             \*   "abort"  calls abort() itself
             \*   "nested" calls abort() while a stream on it is still open
             \*   "late"   calls exec_params() on a closed transaction
             \*   "ignore" catches an error of the transaction and goes on with it

ASSUME TxnAssumption == NoTxn \notin Txns
ASSUME WritesAssumption == Writes = Txns \X Nums

VARIABLES
  m_trans,   \* connection::m_trans
  life,      \* "unborn", "live" or "dead": the C++ object
  kind,      \* "work" or "non"
  status,    \* transaction_base::m_status
  registered,\* transaction_base::m_registered
  focus,     \* transaction_base::m_focus: a stream_to that is still open
  pending,   \* transaction_base::m_pending_error is not empty
  told,      \* history: a call on the object has thrown
  sent,      \* history: writes accepted from the caller while active
  late       \* history: writes sent through the object after it was closed

txVars == <<life, kind, status, registered, focus, pending, told, sent, late>>
vars == <<beVars, m_trans, txVars>>

Statuses == {"active", "aborted", "committed", "in_doubt"}

TxTypeOK ==
  /\ m_trans \in Txns \cup {NoTxn}
  /\ life \in [Txns -> {"unborn", "live", "dead"}]
  /\ kind \in [Txns -> {"work", "non"}]
  /\ status \in [Txns -> Statuses]
  /\ registered \in [Txns -> BOOLEAN]
  /\ focus \in [Txns -> BOOLEAN]
  /\ pending \in [Txns -> BOOLEAN]
  /\ told \in [Txns -> BOOLEAN]
  /\ sent \in [Txns -> SUBSET Writes]
  /\ late \in [Txns -> SUBSET Writes]

TypeOK == BeTypeOK /\ TxTypeOK

Init ==
  /\ BeInit
  /\ m_trans = NoTxn
  /\ life = [t \in Txns |-> "unborn"]
  /\ kind = [t \in Txns |-> "work"]
  /\ status = [t \in Txns |-> "active"]
  /\ registered = [t \in Txns |-> FALSE]
  /\ focus = [t \in Txns |-> FALSE]
  /\ pending = [t \in Txns |-> FALSE]
  /\ told = [t \in Txns |-> FALSE]
  /\ sent = [t \in Txns |-> {}]
  /\ late = [t \in Txns |-> {}]

Set(f, t, v) == f' = [f EXCEPT ![t] = v]

\* The program still works with t: strict RAII code lets the exception of a
\* call leave the scope of t, so nothing but the destructor follows it.
InUse(t) == life[t] = "live" /\ (told[t] => "ignore" \in Habits)

Fresh(t, w) == w \in {t} \X Nums /\ w \notin sent[t] \cup late[t]
-----------------------------------------------------------------------------
\* (mutant) a second transaction is let in
MayRegisterAlways == TRUE

\* connection::register_transaction: check_unique_register refuses a second one.
MayRegister == m_trans = NoTxn

\* (mutant) the constructor does not send BEGIN
ConstructWorkUnbegun(t) ==
  /\ life[t] = "unborn" /\ MayRegister
  /\ m_trans' = t /\ Set(registered, t, TRUE) /\ Set(life, t, "live")
  /\ Set(kind, t, "work")
  /\ UNCHANGED <<beVars, status, focus, pending, told, sent, late>>

\* basic_transaction's constructor; when BEGIN throws, ~transaction_base
\* unregisters the half-made object.
ConstructWork(t) ==
  /\ life[t] = "unborn" /\ MayRegister
  /\ \E r \in Replies :
       /\ SrvBegin(r)
       /\ IF r = "ok"
          THEN /\ m_trans' = t /\ Set(registered, t, TRUE) /\ Set(life, t, "live")
          ELSE UNCHANGED <<m_trans, registered, life>>
  /\ Set(kind, t, "work")
  /\ UNCHANGED <<status, focus, pending, told, sent, late>>

ConstructNon(t) ==
  /\ life[t] = "unborn" /\ MayRegister
  /\ m_trans' = t /\ Set(registered, t, TRUE) /\ Set(life, t, "live")
  /\ Set(kind, t, "non")
  /\ UNCHANGED <<beVars, status, focus, pending, told, sent, late>>

\* (mutant) the stored error is dropped and not thrown
SwallowPending(t) ==
  /\ pending[t] /\ Set(pending, t, FALSE)
  /\ UNCHANGED <<beVars, m_trans, life, kind, status, registered, focus, told, sent, late>>

\* check_pending_error throws the stored error once and forgets it.
ThrowPending(t) ==
  /\ pending[t]
  /\ Set(pending, t, FALSE) /\ Set(told, t, TRUE)
  /\ UNCHANGED <<beVars, m_trans, life, kind, status, registered, focus, sent, late>>

\* A call refused before it reaches the connection.
Refuse(t) ==
  /\ Set(told, t, TRUE)
  /\ UNCHANGED <<beVars, m_trans, life, kind, status, registered, focus, pending, sent, late>>

\* Send w for t and note what the caller learns.  A write answered "ok" counts
\* as sent; one the caller sent through a closed object is late whatever the
\* answer.
Send(t, w) ==
  /\ \E r \in Replies :
       /\ SrvWrite(r, w)
       /\ IF status[t] = "active" /\ r = "ok"
          THEN Set(sent, t, sent[t] \cup {w}) ELSE UNCHANGED sent
       /\ Set(told, t, told[t] \/ r # "ok")
  /\ Set(late, t, IF status[t] = "active" THEN late[t] ELSE late[t] \cup {w})
  /\ UNCHANGED <<m_trans, life, kind, status, registered, focus, pending>>

\* transaction_base::exec: the pending error, the focus and the status are
\* checked before `command` goes to the server.
Guarded(t, command) ==
  \/ ThrowPending(t)
  \/ ~pending[t] /\ (focus[t] \/ status[t] # "active") /\ Refuse(t)
  \/ ~pending[t] /\ ~focus[t] /\ status[t] = "active" /\ command

Exec(t, w) == InUse(t) /\ Fresh(t, w) /\ Guarded(t, Send(t, w))

\* internal_exec_params and internal_exec_prepared check the focus only.
ExecParams(t, w) ==
  /\ InUse(t) /\ Fresh(t, w)
  /\ status[t] # "active" => "late" \in Habits
  /\ \/ focus[t] /\ Refuse(t)
     \/ ~focus[t] /\ Send(t, w)
-----------------------------------------------------------------------------
\* stream_to: the constructor runs COPY through exec() and becomes the focus.
StartCopy(t) ==
  /\ \E r \in Replies :
       /\ SrvCopyStart(r)
       /\ Set(focus, t, r = "ok") /\ Set(told, t, told[t] \/ r # "ok")
  /\ UNCHANGED <<m_trans, life, kind, status, registered, pending, sent, late>>

OpenStream(t) == InUse(t) /\ Guarded(t, StartCopy(t))

\* stream_to::write_raw_line
StreamRow(t, w) ==
  /\ InUse(t) /\ focus[t] /\ Fresh(t, w)
  /\ \E r \in Replies :
       /\ SrvCopyData(r, w)
       /\ IF r = "ok" /\ status[t] = "active"
          THEN Set(sent, t, sent[t] \cup {w}) ELSE UNCHANGED sent
       /\ IF r = "ok" /\ status[t] # "active"
          THEN Set(late, t, late[t] \cup {w}) ELSE UNCHANGED late
       /\ Set(told, t, told[t] \/ r # "ok")
  /\ UNCHANGED <<m_trans, life, kind, status, registered, pending, focus>>

\* stream_to::complete(): the focus is given up before the COPY is ended.  Its
\* error reaches the caller of complete(); the destructor keeps it as the
\* transaction's pending error unless there is one already.
CloseStream(t, byDestructor) ==
  /\ IF byDestructor THEN life[t] = "live" ELSE InUse(t)
  /\ focus[t] /\ Set(focus, t, FALSE)
  /\ \E r \in Replies :
       /\ SrvCopyEnd(r)
       /\ IF byDestructor
          THEN Set(pending, t, pending[t] \/ r # "ok") /\ UNCHANGED told
          ELSE Set(told, t, told[t] \/ r # "ok") /\ UNCHANGED pending
  /\ UNCHANGED <<m_trans, life, kind, status, registered, sent, late>>
-----------------------------------------------------------------------------
\* (mutant) the pending error is kept
ClosedWithError(t) ==
  /\ UNCHANGED pending
  /\ Set(registered, t, FALSE)
  /\ m_trans' = IF registered[t] THEN NoTxn ELSE m_trans

\* transaction_base::close() for a transaction that is no longer active: the
\* pending error becomes a notice, the registration is given up.
Closed(t) ==
  /\ Set(pending, t, FALSE)
  /\ Set(registered, t, FALSE)
  /\ m_trans' = IF registered[t] THEN NoTxn ELSE m_trans

\* (mutant) an unknown outcome is taken for a failure
OutcomeNeverUnknown(r) ==
  CASE r = "ok" -> "committed" [] r = "broken" -> "in_doubt" [] OTHER -> "aborted"

\* The status transaction_base::commit() takes from what COMMIT came to:
\* in_doubt_error too if the connection is no longer open afterwards.
Outcome(r) ==
  CASE r = "ok" -> "committed" [] r = "error" -> "aborted" [] OTHER -> "in_doubt"

\* basic_transaction::do_commit, and nontransaction's, which does nothing.
DoCommit(t, s) ==
  IF kind[t] = "non" THEN s = "committed" /\ UNCHANGED beVars
  ELSE \E r \in Replies : SrvCommit(r) /\ s = Outcome(r)

\* transaction_base::commit() closes the transaction only when do_commit
\* returns; after an exception the object stays registered until destroyed.
CommitActive(t) ==
  /\ \E s \in Statuses :
       /\ DoCommit(t, s)
       /\ Set(status, t, s)
       /\ Set(told, t, told[t] \/ s # "committed")
       /\ IF s = "committed" THEN Closed(t) ELSE UNCHANGED <<m_trans, registered, pending>>
  /\ UNCHANGED <<life, kind, focus, sent, late>>

\* (mutant) a lost connection is not noticed
RefusedByFocus(t) == focus[t]

\* commit() throws before it sends anything.
CommitRefused(t) == focus[t] \/ ~open

Commit(t) ==
  /\ InUse(t)
  /\ \/ ThrowPending(t)
     \/ ~pending[t] /\ status[t] = "committed" /\ UNCHANGED vars
     \/ ~pending[t] /\ status[t] \in {"aborted", "in_doubt"} /\ Refuse(t)
     \/ ~pending[t] /\ status[t] = "active" /\ CommitRefused(t) /\ Refuse(t)
     \/ ~pending[t] /\ status[t] = "active" /\ ~CommitRefused(t) /\ CommitActive(t)

\* (mutant) nothing is sent
RollbackSkipped(t) == UNCHANGED beVars

\* direct_exec(ROLLBACK); every exception ends as a notice.
Rollback(t) ==
  IF kind[t] = "non" THEN UNCHANGED beVars ELSE \E r \in Replies : SrvRollback(r)

\* do_abort: direct_exec checks the pending error first, so with one the
\* command is never sent.
DoAbort(t) == IF pending[t] THEN UNCHANGED beVars ELSE Rollback(t)

AbortActive(t) ==
  /\ DoAbort(t)
  /\ Set(status, t, "aborted") /\ Closed(t)
  /\ UNCHANGED <<life, kind, focus, told, sent, late>>

\* transaction_base::abort()
Abort(t) ==
  /\ life[t] = "live" /\ "abort" \in Habits
  /\ focus[t] => "nested" \in Habits
  /\ \/ status[t] = "active" /\ AbortActive(t)
     \/ status[t] \in {"aborted", "in_doubt"} /\ UNCHANGED vars
     \/ status[t] = "committed" /\ Refuse(t)

\* (mutant) an outcome in doubt is taken for an open transaction
NotCommitted(t) == status[t] # "committed"

\* close() in the destructor aborts only what is still active.
StillActive(t) == status[t] = "active"

\* ~transaction: close(), which clears the pending error before it aborts an
\* active transaction, then ~transaction_base.  A stream is declared inside the
\* scope of its transaction and is destroyed before it.
Destroy(t) ==
  /\ life[t] = "live" /\ ~focus[t]
  /\ IF StillActive(t) THEN Rollback(t) /\ Set(status, t, "aborted")
     ELSE UNCHANGED <<beVars, status>>
  /\ Closed(t)
  /\ Set(life, t, "dead")
  /\ UNCHANGED <<kind, focus, told, sent, late>>

Dies == SrvDies /\ UNCHANGED <<m_trans, txVars>>

Next ==
  \/ \E t \in Txns :
       \/ ConstructWork(t) \/ ConstructNon(t)
       \/ OpenStream(t) \/ Commit(t) \/ Abort(t) \/ Destroy(t)
       \/ \E d \in BOOLEAN : CloseStream(t, d)
       \/ \E w \in Writes : Exec(t, w) \/ ExecParams(t, w) \/ StreamRow(t, w)
  \/ Dies

Spec == Init /\ [][Next]_vars
-----------------------------------------------------------------------------
(* Properties *)

\* The connection and its transactions agree on who is registered, and a live
\* active object is the registered one: two objects never share the session as
\* active transactions (connection.cxx:799, transaction_base.cxx:349).
OneActive ==
  \A t \in Txns :
    /\ registered[t] <=> m_trans = t
    /\ life[t] = "live" /\ status[t] = "active" => m_trans = t

\* While it is active, nothing a work has sent is durable; afterwards all of it
\* is, or none (dbtransaction.hxx:28), whatever else the program does on the
\* connection and wherever the connection breaks.
AllOrNothing ==
  \A t \in Txns : kind[t] = "work" =>
    sent[t] \cap durable \in (IF status[t] = "active" THEN {{}} ELSE {{}, sent[t]})

\* What a work sent before it was aborted, by abort(), by its destructor or by
\* a COMMIT the server refused, is never durable.
AbortedLeavesNothing ==
  \A t \in Txns : kind[t] = "work" /\ status[t] = "aborted" => sent[t] \cap durable = {}

\* When commit() returned normally, everything the caller handed over is
\* durable: rows given to a stream whose COPY failed in its destructor too,
\* since the pending error makes commit() throw.
CommitMeansDurable ==
  \A t \in Txns : status[t] = "committed" => sent[t] \subseteq durable

\* With no transaction registered, the session of a usable connection is not
\* inside a transaction block: "In no case will it leave half-finished work
\* behind in the database" (dbtransaction.hxx:31).
NothingHalfFinished == m_trans = NoTxn /\ Up => st = "idle"

\* Nothing a program does through a closed object reaches the database:
\* "the transaction will roll back its effects" (transaction_base.hxx:75).
AbortedWritesNothing ==
  \A t \in Txns : kind[t] = "work" /\ status[t] = "aborted" =>
    (sent[t] \cup late[t]) \cap durable = {}

\* An outcome is final: no later call changes the status of a closed
\* transaction, nor how much of its work is durable.
OutcomeIsFinal ==
  [][\A t \in Txns : kind[t] = "work" /\ status[t] # "active" =>
       /\ status'[t] = status[t]
       /\ sent'[t] \cap durable' = sent[t] \cap durable]_vars

\* A commit is reported in doubt only when COMMIT went out on a connection not
\* yet known to be broken, and then the session really ended with it.
InDoubtOnlyIfSent ==
  [][\A t \in Txns : status[t] = "active" /\ status'[t] = "in_doubt" =>
       open /\ kind[t] = "work" /\ st' = "idle" /\ ~copying']_vars
-----------------------------------------------------------------------------
(* What makes AllOrNothing inductive, for programs without "nested".          *)

\* The life of an object: only a live active object has a focus or a pending
\* error, and only a live one is registered.
Lifecycle ==
  \A t \in Txns :
    /\ registered[t] => life[t] = "live"
    /\ focus[t] \/ pending[t] => life[t] = "live" /\ status[t] = "active"
    /\ life[t] = "unborn" => status[t] = "active" /\ sent[t] = {} /\ late[t] = {}
    /\ life[t] = "dead" => status[t] # "active"

\* Each object sends writes of its own, each once.
OwnWrites ==
  \A t \in Txns :
    /\ sent[t] \subseteq {t} \X Nums /\ late[t] \subseteq {t} \X Nums
    /\ sent[t] \cap late[t] = {}

Session ==
  /\ alive => open
  /\ ~alive => st = "idle"
  /\ st # "block" => block = {}
  /\ ~copying => copied = {}

ActiveWork(t) == life[t] = "live" /\ kind[t] = "work" /\ status[t] = "active"

\* A COPY in progress belongs to a stream that is still open.
CopyHasStream == copying => \E t \in Txns : focus[t]

\* A block that can still take effect is that of an active work, which stands
\* in no other state of a living session than its block, failed or not; an
\* error of its stream has failed the block.
BlockOfWork ==
  /\ st = "block" => \E t \in Txns : ActiveWork(t)
  /\ \A t \in Txns : ActiveWork(t) =>
       /\ alive => st # "idle"
       /\ pending[t] => st # "block"
       /\ focus[t] /\ st = "block" => copying
       /\ st = "block" => sent[t] \subseteq block \cup copied

\* What waits in the session to become durable was not sent by a closed object.
WaitingIsOpen ==
  \A t \in Txns : status[t] # "active" => sent[t] \cap (block \cup copied) = {}

\* Every write of a work that can be or become durable is one it knows of.
KnownWrites ==
  \A t \in Txns : kind[t] = "work" \/ life[t] = "unborn" =>
    (durable \cup block \cup copied) \cap ({t} \X Nums) \subseteq sent[t] \cup late[t]

IInv ==
  /\ TypeOK /\ OneActive /\ Lifecycle /\ OwnWrites /\ Session
  /\ CopyHasStream /\ BlockOfWork /\ WaitingIsOpen /\ KnownWrites
  /\ AllOrNothing /\ AbortedLeavesNothing
-----------------------------------------------------------------------------
(* What makes NothingHalfFinished and CommitMeansDurable inductive, on top of *)
(* IInv, for strict RAII programs.                                            *)

\* Only an active work keeps a living session in a block, failed or not.
NoLeak == alive /\ st # "idle" => \E t \in Txns : ActiveWork(t)

\* The program has no reason yet to doubt what it has handed over.
Trusted(t) == life[t] = "live" /\ status[t] = "active" /\ ~told[t] /\ ~pending[t]

\* What a trusted object has sent waits in a sound block of the session, or is
\* durable or on its way with a COPY when there is no block.
WorkStands ==
  \A t \in Txns : Trusted(t) =>
    IF kind[t] = "work" THEN alive => st = "block" ELSE sent[t] \subseteq durable \cup copied

RaiiInv == NoLeak /\ WorkStands /\ CommitMeansDurable
=============================================================================
