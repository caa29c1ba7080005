-------------------------- MODULE TransactionProofs --------------------------
(***************************************************************************)
(* Theorems about Transaction for any number of objects and writes: first  *)
(* those about any program but one that aborts under an open stream, then  *)
(* those about programs that are strict RAII.                              *)
(***************************************************************************)
EXTENDS Transaction, TLAPS

\* The session's own well-formedness survives every command.
LEMMA SessionStep ==
  ASSUME BeTypeOK, Session, NEW r \in Replies,
         \/ SrvBegin(r) \/ SrvCommit(r) \/ SrvRollback(r) \/ SrvCopyStart(r)
         \/ SrvCopyEnd(r) \/ SrvDies \/ UNCHANGED beVars
         \/ \E w \in Writes : SrvWrite(r, w) \/ SrvCopyData(r, w)
  PROVE  BeTypeOK' /\ Session'
<1> USE DEF BeTypeOK, Session, StNow, BlockNow, Failed, Up, Answer, Lost, Gone
<1>1. CASE SrvBegin(r) BY <1>1 DEF SrvBegin
<1>2. CASE SrvCommit(r) BY <1>2 DEF SrvCommit
<1>3. CASE SrvRollback(r) BY <1>3 DEF SrvRollback
<1>4. CASE SrvCopyStart(r) BY <1>4 DEF SrvCopyStart
<1>5. CASE SrvCopyEnd(r)
  <2>1. CASE r = "ok" BY <1>5, <2>1 DEF SrvCopyEnd
  <2>2. CASE r = "error"
    <3>1. CASE copying BY <1>5, <2>2, <3>1 DEF SrvCopyEnd
    <3>2. CASE ~copying
      <4>1. UNCHANGED beVars BY <1>5, <2>2, <3>2 DEF SrvCopyEnd
      <4> QED BY <4>1 DEF beVars
    <3> QED BY <3>1, <3>2
  <2>3. CASE r = "broken" BY <1>5, <2>3 DEF SrvCopyEnd
  <2>4. CASE r = "unknown" BY <1>5, <2>4 DEF SrvCopyEnd
  <2> QED BY <2>1, <2>2, <2>3, <2>4 DEF Replies
<1>6. CASE SrvDies BY <1>6 DEF SrvDies
<1>7. CASE UNCHANGED beVars BY <1>7 DEF beVars
<1>8. CASE \E w \in Writes : SrvWrite(r, w)
  <2>1. PICK w \in Writes : SrvWrite(r, w) BY <1>8
  <2>2. CASE r = "broken" BY <2>1, <2>2 DEF SrvWrite
  <2>3. CASE r # "broken" BY <2>1, <2>3 DEF SrvWrite
  <2> QED BY <2>2, <2>3
<1>9. CASE \E w \in Writes : SrvCopyData(r, w)
  BY <1>9 DEF SrvCopyData, beVars
<1> QED BY <1>1, <1>2, <1>3, <1>4, <1>5, <1>6, <1>7, <1>8, <1>9

\* Every step is a change of nothing, of the session, or of one object.
Change(t) ==
  \/ ConstructWork(t) \/ ConstructNon(t)
  \/ ThrowPending(t) \/ Refuse(t)
  \/ ~focus[t] /\ \E w \in Writes : Fresh(t, w) /\ life[t] = "live" /\ Send(t, w)
  \/ life[t] = "live" /\ status[t] = "active" /\ ~pending[t] /\ ~focus[t] /\ StartCopy(t)
  \/ \E w \in Writes : StreamRow(t, w)
  \/ \E d \in BOOLEAN : CloseStream(t, d)
  \/ life[t] = "live" /\ status[t] = "active" /\ ~pending[t] /\ ~focus[t] /\ open /\ CommitActive(t)
  \/ life[t] = "live" /\ status[t] = "active" /\ ~focus[t] /\ AbortActive(t)
  \/ Destroy(t)

\* Next seen as these changes: the guards that several calls share are read once.
LEMMA Steps ==
  ASSUME "nested" \notin Habits, [Next]_vars
  PROVE  UNCHANGED vars \/ Dies \/ \E t \in Txns : Change(t)
<1>1. CASE UNCHANGED vars BY <1>1
<1>2. CASE Dies BY <1>2
<1>3. ASSUME NEW t \in Txns,
             \/ ConstructWork(t) \/ ConstructNon(t) \/ Destroy(t)
             \/ \E d \in BOOLEAN : CloseStream(t, d)
             \/ \E w \in Writes : StreamRow(t, w)
      PROVE  Change(t)
  BY <1>3 DEF Change
<1>4. ASSUME NEW t \in Txns, NEW w \in Writes, Exec(t, w) \/ ExecParams(t, w)
      PROVE  Change(t)
  BY <1>4 DEF Change, Exec, ExecParams, Guarded, InUse
<1>5. ASSUME NEW t \in Txns, OpenStream(t)
      PROVE  Change(t)
  BY <1>5 DEF Change, OpenStream, Guarded, InUse
<1>6. ASSUME NEW t \in Txns, Commit(t)
      PROVE  UNCHANGED vars \/ Change(t)
  BY <1>6 DEF Change, Commit, CommitRefused, InUse
<1>7. ASSUME NEW t \in Txns, Abort(t)
      PROVE  UNCHANGED vars \/ Change(t)
  BY <1>7 DEF Change, Abort
<1> QED BY <1>1, <1>2, <1>3, <1>4, <1>5, <1>6, <1>7 DEF Next

\* The session is well-formed after every step, whatever the object does.
LEMMA SessionKept ==
  ASSUME "nested" \notin Habits, BeTypeOK, Session, [Next]_vars
  PROVE  BeTypeOK' /\ Session'
<1>1. CASE UNCHANGED vars
  <2>1. UNCHANGED beVars BY <1>1 DEF vars
  <2> QED BY <2>1, SessionStep DEF Replies
<1>2. CASE Dies
  BY <1>2, SessionStep DEF Dies, Replies
<1>3. ASSUME NEW t \in Txns, Change(t) PROVE BeTypeOK' /\ Session'
  <2> DEFINE Same == UNCHANGED beVars
  <2>0. Same => BeTypeOK' /\ Session' BY SessionStep DEF Replies
  <2>1. CASE ConstructWork(t) BY <2>1, SessionStep DEF ConstructWork
  <2>2. CASE ConstructNon(t) BY <2>0, <2>2 DEF ConstructNon
  <2>3. CASE ThrowPending(t) BY <2>0, <2>3 DEF ThrowPending
  <2>4. CASE Refuse(t) BY <2>0, <2>4 DEF Refuse
  <2>5. CASE \E w \in Writes : Send(t, w) BY <2>5, SessionStep DEF Send
  <2>6. CASE StartCopy(t) BY <2>6, SessionStep DEF StartCopy
  <2>7. CASE \E w \in Writes : StreamRow(t, w) BY <2>7, SessionStep DEF StreamRow
  <2>8. CASE \E d \in BOOLEAN : CloseStream(t, d) BY <2>8, SessionStep DEF CloseStream
  <2>9. CASE CommitActive(t)
    BY <2>0, <2>9, SessionStep DEF CommitActive, DoCommit
  <2>10. CASE AbortActive(t)
    BY <2>0, <2>10, SessionStep DEF AbortActive, DoAbort, Rollback
  <2>11. CASE Destroy(t)
    BY <2>0, <2>11, SessionStep DEF Destroy, Rollback, beVars
  <2> QED
    BY <1>3, <2>1, <2>2, <2>3, <2>4, <2>5, <2>6, <2>7, <2>8, <2>9, <2>10, <2>11 DEF Change
<1> QED BY <1>1, <1>2, <1>3, Steps

\* What concerns the objects and their registration only.
Objects == TxTypeOK /\ OneActive /\ Lifecycle /\ OwnWrites

\* Registration and life of the objects stay consistent whatever the server says.
LEMMA ObjectsKept ==
  ASSUME "nested" \notin Habits, Objects, [Next]_vars
  PROVE  Objects'
<1> USE DEF Objects, TxTypeOK, OneActive, Lifecycle, OwnWrites, Statuses
<1>1. CASE UNCHANGED vars \/ Dies
  BY <1>1 DEF vars, txVars, Dies
<1>2. ASSUME NEW t \in Txns, Change(t) PROVE Objects'
  <2> USE TxnAssumption, WritesAssumption DEF Set
  <2>1. CASE ConstructWork(t)
    <3>1. CASE m_trans' = t /\ Set(registered, t, TRUE) /\ Set(life, t, "live")
      BY <2>1, <3>1 DEF ConstructWork, MayRegister
    <3>2. CASE UNCHANGED <<m_trans, registered, life>>
      BY <2>1, <3>2 DEF ConstructWork
    <3> QED BY <2>1, <3>1, <3>2 DEF ConstructWork
  <2>2. CASE ConstructNon(t) BY <2>2 DEF ConstructNon, MayRegister
  <2>3. CASE ThrowPending(t) BY <2>3 DEF ThrowPending
  <2>4. CASE Refuse(t) BY <2>4 DEF Refuse
  <2>5. CASE ~focus[t] /\ \E w \in Writes : Fresh(t, w) /\ life[t] = "live" /\ Send(t, w)
    BY <2>5 DEF Send, Fresh
  <2>6. CASE life[t] = "live" /\ status[t] = "active" /\ StartCopy(t)
    BY <2>6 DEF StartCopy
  <2>7. CASE \E w \in Writes : StreamRow(t, w)
    BY <2>7 DEF StreamRow, Fresh
  <2>8. CASE \E d \in BOOLEAN : CloseStream(t, d)
    BY <2>8 DEF CloseStream
  <2>9. CASE life[t] = "live" /\ status[t] = "active" /\ ~pending[t] /\ ~focus[t] /\ CommitActive(t)
    <3>1. PICK s \in Statuses :
            /\ Set(status, t, s)
            /\ Set(told, t, told[t] \/ s # "committed")
            /\ IF s = "committed" THEN Closed(t) ELSE UNCHANGED <<m_trans, registered, pending>>
      BY <2>9 DEF CommitActive
    <3>2. UNCHANGED <<life, kind, focus, sent, late>> BY <2>9 DEF CommitActive
    <3>3. CASE s = "committed"
      <4>1. m_trans = t /\ registered[t] /\ m_trans' = NoTxn
        BY <2>9, <3>1, <3>3 DEF Closed
      <4>2. Set(pending, t, FALSE) /\ Set(registered, t, FALSE)
        BY <3>1, <3>3 DEF Closed
      <4>3. TxTypeOK' BY <3>1, <3>2, <4>1, <4>2
      <4>4. OneActive' BY <3>1, <3>2, <3>3, <4>1, <4>2
      <4>5. Lifecycle' BY <2>9, <3>1, <3>2, <3>3, <4>2
      <4>6. OwnWrites' BY <3>2
      <4> QED BY <4>3, <4>4, <4>5, <4>6
    <3>4. CASE s # "committed" BY <2>9, <3>1, <3>2, <3>4
    <3> QED BY <3>3, <3>4
  <2>10. CASE life[t] = "live" /\ ~focus[t] /\ AbortActive(t)
    BY <2>10 DEF AbortActive, Closed
  <2>11. CASE Destroy(t)
    BY <2>11 DEF Destroy, StillActive, Closed
  <2> QED
    BY <1>2, <2>1, <2>2, <2>3, <2>4, <2>5, <2>6, <2>7, <2>8, <2>9, <2>10, <2>11 DEF Change
<1> QED BY <1>1, <1>2, Steps

\* What ties the objects to the session, and the two properties themselves.
Tied ==
  /\ CopyHasStream /\ BlockOfWork /\ WaitingIsOpen /\ KnownWrites
  /\ AllOrNothing /\ AbortedLeavesNothing

\* What waits in the session stays tied to the active work that sent it, and
\* becomes durable with all of it or not at all.
LEMMA TiedKept ==
  ASSUME "nested" \notin Habits, IInv, [Next]_vars
  PROVE  Tied'
<1> USE TxnAssumption, WritesAssumption
    DEF IInv, TypeOK, BeTypeOK, TxTypeOK, OneActive, Lifecycle, OwnWrites, Session,
        Tied, CopyHasStream, BlockOfWork, ActiveWork, WaitingIsOpen, KnownWrites,
        AllOrNothing, AbortedLeavesNothing, Statuses, Set
<1>1. CASE UNCHANGED vars BY <1>1 DEF vars, txVars, beVars
<1>2. CASE Dies BY <1>2 DEF Dies, SrvDies, txVars
<1>3. ASSUME NEW t \in Txns, Change(t) PROVE Tied'
  <2> USE DEF StNow, BlockNow, Failed, Up, Answer, Lost, Gone
  <2>1. CASE ConstructWork(t)
    <3>1. PICK r \in Replies : SrvBegin(r) /\ (r # "ok" => life' = life)
          /\ (r = "ok" => Set(life, t, "live"))
      BY <2>1 DEF ConstructWork
    <3>2. st # "block" /\ ~copying /\ block = {} /\ copied = {}
      BY <2>1 DEF ConstructWork, MayRegister
    <3>3. durable' = durable /\ block' = {} /\ copied' = {} /\ copying' = FALSE
      BY <3>1, <3>2 DEF SrvBegin
    <3>4. IF r = "ok" THEN st' = "block" ELSE st' # "block"
      BY <3>1, <3>2 DEF SrvBegin
    <3>5. ~\E u \in Txns : ActiveWork(u) BY <2>1 DEF ConstructWork, MayRegister
    <3> QED BY <2>1, <3>1, <3>3, <3>4, <3>5 DEF ConstructWork
  <2>2. CASE ConstructNon(t)
    BY <2>2 DEF ConstructNon, MayRegister, beVars
  <2>3. CASE ThrowPending(t) BY <2>3 DEF ThrowPending, beVars
  <2>4. CASE Refuse(t) BY <2>4 DEF Refuse, beVars
  <2>5. CASE ~focus[t] /\ \E w \in Writes : Fresh(t, w) /\ life[t] = "live" /\ Send(t, w)
    <3>1. PICK w \in Writes : Fresh(t, w) /\ life[t] = "live" /\ Send(t, w) BY <2>5
    <3>2. PICK r \in Replies :
            /\ SrvWrite(r, w)
            /\ IF status[t] = "active" /\ r = "ok"
               THEN Set(sent, t, sent[t] \cup {w}) ELSE UNCHANGED sent
      BY <3>1 DEF Send
    <3>3. /\ Set(late, t, IF status[t] = "active" THEN late[t] ELSE late[t] \cup {w})
          /\ UNCHANGED <<m_trans, life, kind, status, registered, focus, pending>>
      BY <3>1 DEF Send
    <3>4. w \in {t} \X Nums /\ \A u \in Txns : w \notin sent[u]
      BY <3>1 DEF Fresh
    <3>5. CASE r = "broken"
      <4>1. /\ st' = "idle" /\ block' = {} /\ copied' = {} /\ ~copying' /\ ~alive'
            /\ durable' = durable \/ (durable' = durable \cup {w} /\ Up /\ st = "idle")
        BY <3>2, <3>5 DEF SrvWrite
      <4>2. UNCHANGED sent BY <3>2, <3>5
      <4> QED BY <3>1, <3>3, <3>4, <4>1, <4>2
    <3>6. CASE r = "error"
      <4>1. /\ st' = Failed(StNow) /\ block' = {} /\ copied' = {} /\ ~copying'
            /\ UNCHANGED <<durable, alive, open>>
        BY <3>2, <3>6 DEF SrvWrite
      <4>2. UNCHANGED sent BY <3>2, <3>6
      <4> QED BY <3>1, <3>3, <3>4, <4>1, <4>2
    <3>7. CASE r = "ok" /\ st = "idle"
      <4>1. /\ st' = "idle" /\ block' = {} /\ copied' = {} /\ ~copying' /\ Up
            /\ durable' = durable \cup {w}
        BY <3>2, <3>7 DEF SrvWrite
      <4>2. ~\E u \in Txns : ActiveWork(u) BY <3>7, <4>1
      <4> QED BY <3>1, <3>2, <3>3, <3>4, <4>1, <4>2
    <3>8. CASE r = "ok" /\ st = "block" /\ ~copying
      <4>1. /\ st' = "block" /\ block' = block \cup {w} /\ copied' = {} /\ ~copying'
            /\ UNCHANGED <<durable, alive, open>>
        BY <3>2, <3>8 DEF SrvWrite
      <4>2. copied = {} /\ (kind[t] = "work" => w \notin durable)
        BY <3>1, <3>8 DEF Fresh
      <4>3. CASE status[t] = "active"
        <5>1. Set(sent, t, sent[t] \cup {w}) /\ late' = late BY <3>2, <3>3, <3>8, <4>3
        <5>2. BlockOfWork' BY <3>1, <3>3, <3>8, <4>1, <4>3, <5>1
        <5>3. CopyHasStream' /\ WaitingIsOpen' BY <3>1, <3>3, <3>4, <4>1, <4>2, <4>3, <5>1
        <5>4. KnownWrites' BY <3>1, <3>3, <3>4, <4>1, <4>2, <4>3, <5>1
        <5>5. AllOrNothing' /\ AbortedLeavesNothing'
          BY <3>1, <3>3, <3>4, <4>1, <4>2, <4>3, <5>1
        <5> QED BY <5>2, <5>3, <5>4, <5>5
      <4>4. CASE status[t] # "active"
        BY <3>1, <3>2, <3>3, <3>4, <3>8, <4>1, <4>2, <4>4
      <4> QED BY <4>3, <4>4
    <3> QED BY <3>2, <3>5, <3>6, <3>7, <3>8 DEF SrvWrite
  <2>6. CASE life[t] = "live" /\ status[t] = "active" /\ ~pending[t] /\ ~focus[t] /\ StartCopy(t)
    <3>1. PICK r \in Replies : SrvCopyStart(r) /\ Set(focus, t, r = "ok")
      BY <2>6 DEF StartCopy
    <3>2. UNCHANGED <<m_trans, life, kind, status, registered, pending, sent, late>>
      BY <2>6 DEF StartCopy
    <3>3. ~copying /\ copied = {} BY <2>6
    <3>4. CASE r = "ok"
      <4>1. copying' = TRUE /\ copied' = {} /\ UNCHANGED <<open, alive, st, block, durable>>
        BY <3>1, <3>4 DEF SrvCopyStart
      <4> QED BY <2>6, <3>1, <3>2, <3>3, <3>4, <4>1
    <3>5. CASE r # "ok"
      <4>1. /\ ~copying' /\ copied' = {} /\ block' = {} /\ durable' = durable
            /\ st' # "block" /\ (alive' => alive /\ st' = Failed(st))
        BY <3>1, <3>3, <3>5 DEF SrvCopyStart
      <4> QED BY <2>6, <3>1, <3>2, <3>3, <3>5, <4>1
    <3> QED BY <3>4, <3>5
  <2>7. CASE \E w \in Writes : StreamRow(t, w)
    <3>1. PICK w \in Writes : StreamRow(t, w) BY <2>7
    <3>2. PICK r \in Replies :
            /\ SrvCopyData(r, w)
            /\ IF r = "ok" /\ status[t] = "active"
               THEN Set(sent, t, sent[t] \cup {w}) ELSE UNCHANGED sent
            /\ IF r = "ok" /\ status[t] # "active"
               THEN Set(late, t, late[t] \cup {w}) ELSE UNCHANGED late
      BY <3>1 DEF StreamRow
    <3>3. UNCHANGED <<m_trans, life, kind, status, registered, pending, focus>>
      BY <3>1 DEF StreamRow
    <3>4. /\ w \in {t} \X Nums /\ \A u \in Txns : w \notin sent[u]
          /\ status[t] = "active" /\ focus[t]
          /\ kind[t] = "work" => w \notin durable
      BY <3>1 DEF StreamRow, Fresh
    <3>5. CASE r = "ok"
      <4>1. /\ copying /\ copied' = copied \cup {w}
            /\ UNCHANGED <<open, alive, st, block, copying, durable>>
        BY <3>2, <3>5 DEF SrvCopyData
      <4>2. Set(sent, t, sent[t] \cup {w}) /\ late' = late BY <3>2, <3>4, <3>5
      <4>3. BlockOfWork' BY <3>3, <4>1, <4>2
      <4>4. CopyHasStream' /\ WaitingIsOpen' BY <3>3, <3>4, <4>1, <4>2
      <4>5. KnownWrites' BY <3>3, <3>4, <4>1, <4>2
      <4>6. AllOrNothing' /\ AbortedLeavesNothing' BY <3>3, <3>4, <4>1, <4>2
      <4> QED BY <4>3, <4>4, <4>5, <4>6
    <3>6. CASE r # "ok"
      <4>1. UNCHANGED beVars /\ UNCHANGED <<sent, late>>
        BY <3>2, <3>6 DEF SrvCopyData
      <4> QED BY <3>3, <4>1 DEF beVars
    <3> QED BY <3>5, <3>6
  <2>8. CASE \E d \in BOOLEAN : CloseStream(t, d)
    <3>1. PICK d \in BOOLEAN : CloseStream(t, d) BY <2>8
    <3>2. PICK r \in Replies :
            /\ SrvCopyEnd(r)
            /\ IF d THEN Set(pending, t, pending[t] \/ r # "ok") ELSE UNCHANGED pending
      BY <3>1 DEF CloseStream
    <3>3. /\ Set(focus, t, FALSE)
          /\ UNCHANGED <<m_trans, life, kind, status, registered, sent, late>>
      BY <3>1 DEF CloseStream
    <3>4. /\ life[t] = "live" /\ status[t] = "active" /\ m_trans = t
          /\ \A u \in Txns \ {t} : ~ActiveWork(u)
      BY <3>1 DEF CloseStream
    <3>5. CASE r = "ok"
      <4>1. pending' = pending BY <3>2, <3>5
      <4>2. CASE st = "block"
        <5>1. /\ st' = "block" /\ block' = block \cup copied /\ copied' = {} /\ ~copying'
              /\ UNCHANGED <<durable, alive>>
          BY <3>2, <3>5, <4>2 DEF SrvCopyEnd
        <5> QED BY <3>3, <3>4, <4>1, <4>2, <5>1
      <4>3. CASE st = "idle"
        <5>1. /\ st' = "idle" /\ block' = {} /\ copied' = {} /\ ~copying' /\ alive
              /\ durable' = durable \cup copied
          BY <3>2, <3>5, <4>3 DEF SrvCopyEnd
        <5>2. ~\E u \in Txns : ActiveWork(u) BY <4>3, <5>1
        <5> QED BY <3>3, <3>4, <4>1, <5>1, <5>2
      <4> QED BY <3>2, <3>5, <4>2, <4>3 DEF SrvCopyEnd
    <3>6. CASE r = "error" /\ copying
      <4>1. /\ st' = Failed(st) /\ block' = {} /\ copied' = {} /\ ~copying'
            /\ UNCHANGED <<durable, alive>>
        BY <3>2, <3>6 DEF SrvCopyEnd
      <4> QED BY <3>2, <3>3, <3>4, <4>1
    <3>7. CASE r = "error" /\ ~copying
      <4>1. UNCHANGED <<open, alive, st, block, copying, copied, durable>>
        BY <3>2, <3>7 DEF SrvCopyEnd, beVars
      <4>2. ActiveWork(t) => st # "block" BY <3>1, <3>7 DEF CloseStream
      <4> QED BY <3>2, <3>3, <3>4, <3>7, <4>1, <4>2
    <3>8. CASE r = "broken"
      <4>1. /\ st' = "idle" /\ block' = {} /\ copied' = {} /\ ~copying' /\ ~alive'
            /\ \/ durable' = durable
               \/ durable' = durable \cup copied /\ alive /\ st = "idle"
        BY <3>2, <3>8 DEF SrvCopyEnd
      <4> QED BY <3>2, <3>3, <3>4, <4>1
    <3> QED BY <3>2, <3>5, <3>6, <3>7, <3>8 DEF SrvCopyEnd
  <2>9. CASE life[t] = "live" /\ status[t] = "active" /\ ~pending[t] /\ ~focus[t] /\ open /\ CommitActive(t)
    <3>1. PICK s \in Statuses :
            /\ DoCommit(t, s)
            /\ Set(status, t, s)
            /\ IF s = "committed" THEN Closed(t) ELSE UNCHANGED <<m_trans, registered, pending>>
      BY <2>9, ZenonT(40) DEF CommitActive
    <3>2. UNCHANGED <<life, kind, focus, sent, late>> BY <2>9 DEF CommitActive
    <3>3. Set(pending, t, FALSE) BY <2>9, <3>1 DEF Closed
    <3>4. /\ m_trans = t /\ ~copying /\ copied = {}
          /\ \A u \in Txns \ {t} : ~ActiveWork(u) /\ ~focus[u]
      BY <2>9
    <3>5. CASE kind[t] = "non"
      <4>1. s = "committed" /\ UNCHANGED <<open, alive, st, block, copying, copied, durable>>
        BY <3>1, <3>5 DEF DoCommit, Outcome, beVars
      <4>2. st # "block" /\ block = {} BY <3>4, <3>5
      <4> QED BY <2>9, <3>1, <3>2, <3>3, <3>4, <3>5, <4>1, <4>2
    <3>6. CASE kind[t] = "work"
      <4>1. /\ st' = "idle" /\ block' = {} /\ copied' = {} /\ ~copying'
            /\ durable' \in {durable, durable \cup block}
            /\ s \in {"committed", "in_doubt", "aborted"}
            /\ s = "aborted" => durable' = durable
        BY <3>1, <3>4, <3>6 DEF DoCommit, Outcome, SrvCommit, Replies
      <4>2. sent[t] \subseteq block \/ block = {}
        BY <2>9, <3>4, <3>6
      <4>3. sent[t] \cap durable = {} BY <2>9, <3>6
      <4>4. CopyHasStream' /\ BlockOfWork' /\ WaitingIsOpen'
        BY <2>9, <3>1, <3>2, <3>3, <3>4, <4>1
      <4>5. KnownWrites' BY <3>2, <4>1
      <4>6. AllOrNothing' /\ AbortedLeavesNothing'
        BY <2>9, <3>1, <3>2, <3>4, <4>1, <4>2, <4>3
      <4> QED BY <4>4, <4>5, <4>6
    <3> QED BY <3>5, <3>6
  <2>10. CASE life[t] = "live" /\ status[t] = "active" /\ ~focus[t] /\ AbortActive(t)
    <3>1. /\ Set(status, t, "aborted") /\ Set(pending, t, FALSE)
          /\ UNCHANGED <<life, kind, focus, sent, late>>
      BY <2>10 DEF AbortActive, Closed
    <3>2. /\ ~copying /\ copied = {}
          /\ \A u \in Txns \ {t} : ~ActiveWork(u) /\ ~focus[u]
      BY <2>10
    <3>3. /\ st' # "block" /\ block' = {} /\ copied' = {} /\ ~copying' /\ durable' = durable
      <4>1. CASE kind[t] = "non" \/ pending[t]
        <5>1. st # "block" /\ block = {} BY <2>10, <3>2, <4>1
        <5>2. UNCHANGED <<st, block, copying, copied, durable>>
          BY <2>10, <4>1 DEF AbortActive, DoAbort, Rollback, beVars
        <5> QED BY <3>2, <5>1, <5>2
      <4>2. CASE ~(kind[t] = "non" \/ pending[t])
        BY <2>10, <3>2, <4>2 DEF AbortActive, DoAbort, Rollback, SrvRollback
      <4> QED BY <4>1, <4>2
    <3> QED BY <2>10, <3>1, <3>2, <3>3
  <2>11. CASE Destroy(t)
    <3>1. /\ ~focus[t] /\ Set(pending, t, FALSE) /\ Set(life, t, "dead") /\ life[t] = "live"
          /\ UNCHANGED <<kind, focus, sent, late>>
      BY <2>11 DEF Destroy, Closed
    <3>2. CASE status[t] = "active"
      <4>1. /\ ~copying /\ copied = {}
            /\ \A u \in Txns \ {t} : ~ActiveWork(u) /\ ~focus[u]
        BY <3>1, <3>2
      <4>2. Set(status, t, "aborted") BY <2>11, <3>2 DEF Destroy, StillActive
      <4>3. /\ st' # "block" /\ block' = {} /\ copied' = {} /\ ~copying' /\ durable' = durable
        <5>1. CASE kind[t] = "non"
          <6>1. st # "block" /\ block = {} BY <4>1, <5>1
          <6>2. UNCHANGED <<st, block, copying, copied, durable>>
            BY <2>11, <3>2, <5>1 DEF Destroy, Rollback, StillActive, beVars
          <6> QED BY <4>1, <6>1, <6>2
        <5>2. CASE kind[t] # "non"
          BY <2>11, <3>2, <4>1, <5>2 DEF Destroy, Rollback, StillActive, SrvRollback
        <5> QED BY <5>1, <5>2
      <4> QED BY <3>1, <3>2, <4>1, <4>2, <4>3
    <3>3. CASE status[t] # "active"
      <4>1. UNCHANGED <<open, alive, st, block, copying, copied, durable, status>>
        BY <2>11, <3>3 DEF Destroy, StillActive, beVars
      <4> QED BY <3>1, <3>3, <4>1
    <3> QED BY <3>2, <3>3
  <2> QED
    BY <1>3, <2>1, <2>2, <2>3, <2>4, <2>5, <2>6, <2>7, <2>8, <2>9, <2>10, <2>11 DEF Change
<1> QED BY <1>1, <1>2, <1>3, Steps
-----------------------------------------------------------------------------
\* A new connection with no transaction object on it satisfies the invariant.
LEMMA Initially == Init => IInv
<1> SUFFICES ASSUME Init PROVE IInv
  OBVIOUS
<1> USE TxnAssumption
    DEF Init, BeInit, IInv, TypeOK, BeTypeOK, TxTypeOK, OneActive, Lifecycle, OwnWrites,
        Session, CopyHasStream, BlockOfWork, ActiveWork, WaitingIsOpen, KnownWrites,
        AllOrNothing, AbortedLeavesNothing, Statuses
<1>1. TypeOK /\ OneActive /\ Lifecycle /\ OwnWrites /\ Session
  OBVIOUS
<1>2. CopyHasStream /\ BlockOfWork /\ WaitingIsOpen /\ KnownWrites
  OBVIOUS
<1>3. AllOrNothing /\ AbortedLeavesNothing
  OBVIOUS
<1> QED BY <1>1, <1>2, <1>3

\* The invariant behind the theorems below: as long as no program aborts a
\* transaction under an open stream, it holds in every reachable state.
THEOREM Invariant ==
  ASSUME "nested" \notin Habits
  PROVE  Spec => []IInv
<1>1. IInv /\ [Next]_vars => IInv'
  BY SessionKept, ObjectsKept, TiedKept DEF IInv, TypeOK, Objects, Tied
<1> QED BY Initially, <1>1, PTL DEF Spec

\* One active transaction per connection, for any number of objects, whatever
\* errors, losses and misuse but "nested" the program meets.
THEOREM OneActiveAlways ==
  ASSUME "nested" \notin Habits
  PROVE  Spec => []OneActive
<1>1. IInv => OneActive BY DEF IInv
<1> QED BY Invariant, <1>1, PTL

\* The work of a transaction is durable as a whole or not at all, and not
\* before it ends (dbtransaction.hxx:28).
THEOREM AllOrNothingAlways ==
  ASSUME "nested" \notin Habits
  PROVE  Spec => []AllOrNothing
<1>1. IInv => AllOrNothing BY DEF IInv
<1> QED BY Invariant, <1>1, PTL

\* What was sent before an abort is never durable.
THEOREM AbortedLeavesNothingAlways ==
  ASSUME "nested" \notin Habits
  PROVE  Spec => []AbortedLeavesNothing
<1>1. IInv => AbortedLeavesNothing BY DEF IInv
<1> QED BY Invariant, <1>1, PTL

\* Every variable of the objects (transaction_base.hxx) and of the session keeps
\* its type, so a status is one of the four of transaction_base::status.
THEOREM TypeCorrect ==
  ASSUME "nested" \notin Habits
  PROVE  Spec => []TypeOK
<1>1. IInv => TypeOK BY DEF IInv
<1> QED BY Invariant, <1>1, PTL
-----------------------------------------------------------------------------
(* An outcome is final; what strict RAII programs (Habits = {}) can rely on.   *)

\* What is durable stays so; a write becomes durable out of the block or the COPY
\* of the session, or, outside a block, at once.
LEMMA DurableGrows ==
  ASSUME NEW r \in Replies
  PROVE  /\ \A w : SrvWrite(r, w) => durable' \in {durable, durable \cup {w}}
         /\ \A w : SrvCopyData(r, w) => durable' = durable
         /\ SrvBegin(r) \/ SrvRollback(r) \/ SrvCopyStart(r) => durable' = durable
         /\ SrvCommit(r) => durable' \in {durable, durable \cup block}
         /\ SrvCopyEnd(r) => durable' \in {durable, durable \cup copied}
<1> USE DEF Answer, Lost, Gone, Up, StNow, BlockNow, Failed
<1>1. ASSUME NEW w, SrvWrite(r, w)
      PROVE  durable' \in {durable, durable \cup {w}}
  BY <1>1 DEF SrvWrite
<1>2. ASSUME NEW w, SrvCopyData(r, w)
      PROVE  durable' = durable
  BY <1>2 DEF SrvCopyData, beVars
<1>3. SrvBegin(r) \/ SrvRollback(r) \/ SrvCopyStart(r) => durable' = durable
  BY DEF SrvBegin, SrvRollback, SrvCopyStart
<1>4. SrvCommit(r) => durable' \in {durable, durable \cup block}
  BY DEF SrvCommit
<1>5. SrvCopyEnd(r) => durable' \in {durable, durable \cup copied}
  BY DEF SrvCopyEnd, beVars
<1> QED BY <1>1, <1>2, <1>3, <1>4, <1>5

\* No step touches the outcome of a closed transaction.
LEMMA OutcomeKept ==
  ASSUME "nested" \notin Habits, IInv, [Next]_vars,
         NEW u \in Txns, status[u] # "active"
  PROVE  /\ status'[u] = status[u]
         /\ sent'[u] \cap durable' = sent[u] \cap durable
<1> USE DEF IInv, TypeOK, TxTypeOK, Statuses, Set
<1>0. sent[u] \cap (block \cup copied) = {}
  BY DEF WaitingIsOpen
<1>1. CASE UNCHANGED vars
  BY <1>1 DEF vars, txVars, beVars
<1>2. CASE Dies
  BY <1>2 DEF Dies, txVars, SrvDies
<1>3. ASSUME NEW t \in Txns, Change(t)
      PROVE  /\ status'[u] = status[u]
             /\ sent'[u] \cap durable' = sent[u] \cap durable
  <2>1. CASE ConstructWork(t)
    BY <2>1, DurableGrows DEF ConstructWork
  <2>2. CASE ConstructNon(t) \/ ThrowPending(t) \/ Refuse(t)
    BY <2>2 DEF ConstructNon, ThrowPending, Refuse, beVars
  <2>3. CASE \E w \in Writes : Fresh(t, w) /\ Send(t, w)
    <3>1. PICK w \in Writes : Fresh(t, w) /\ Send(t, w)
      BY <2>3
    <3>2. w \notin sent[u]
      BY <3>1, WritesAssumption DEF Fresh, OwnWrites
    <3>3. durable' \in {durable, durable \cup {w}}
      BY <3>1, DurableGrows DEF Send
    <3>4. status'[u] = status[u] /\ sent'[u] = sent[u]
      BY <3>1 DEF Send
    <3> QED BY <3>2, <3>3, <3>4
  <2>4. CASE StartCopy(t)
    BY <2>4, DurableGrows DEF StartCopy
  <2>5. CASE \E w \in Writes : StreamRow(t, w)
    BY <2>5, DurableGrows DEF StreamRow
  <2>6. CASE \E d \in BOOLEAN : CloseStream(t, d)
    <3>1. durable' \in {durable, durable \cup copied}
      BY <2>6, DurableGrows DEF CloseStream
    <3>2. UNCHANGED <<status, sent>>
      BY <2>6 DEF CloseStream
    <3> QED BY <1>0, <3>1, <3>2
  <2>7. CASE status[t] = "active" /\ CommitActive(t)
    <3>1. durable' \in {durable, durable \cup block}
      BY <2>7, DurableGrows DEF CommitActive, DoCommit, beVars
    <3>2. status'[u] = status[u] /\ sent' = sent
      BY <2>7 DEF CommitActive
    <3> QED BY <1>0, <3>1, <3>2
  <2>8. CASE status[t] = "active" /\ AbortActive(t)
    <3>1. durable' = durable
      BY <2>8, DurableGrows DEF AbortActive, DoAbort, Rollback, beVars
    <3> QED BY <2>8, <3>1 DEF AbortActive
  <2>9. CASE Destroy(t)
    <3>1. durable' = durable
      BY <2>9, DurableGrows DEF Destroy, Rollback, beVars
    <3> QED BY <2>9, <3>1 DEF Destroy, StillActive
  <2> QED
    BY <1>3, <2>1, <2>2, <2>3, <2>4, <2>5, <2>6, <2>7, <2>8, <2>9 DEF Change
<1> QED BY <1>1, <1>2, <1>3, Steps

\* Once a transaction is closed, nothing that is done through it or through any
\* other object changes its status (transaction_base.cxx:98, :176) or makes
\* more or less of its work durable.
THEOREM OutcomesAreFinal ==
  ASSUME "nested" \notin Habits
  PROVE  Spec => OutcomeIsFinal
<1>1. IInv /\ [Next]_vars =>
        [\A t \in Txns : kind[t] = "work" /\ status[t] # "active" =>
           /\ status'[t] = status[t]
           /\ sent'[t] \cap durable' = sent[t] \cap durable]_vars
  BY OutcomeKept
<1> QED BY <1>1, Invariant, PTL DEF Spec, OutcomeIsFinal

\* A COMMIT that ends in doubt was sent by a work, and its session is over, or at
\* least in no block.
LEMMA DoubtEndsBlock ==
  ASSUME NEW t \in Txns, NEW s \in Statuses, DoCommit(t, s), s = "in_doubt",
         kind[t] \in {"work", "non"}
  PROVE  kind[t] = "work" /\ st' = "idle" /\ ~copying'
<1>1. kind[t] = "work"
  BY DEF DoCommit
<1>2. PICK r \in Replies : SrvCommit(r)
  BY <1>1 DEF DoCommit
<1>3. st' = "idle" /\ copying' = FALSE
  BY <1>2 DEF SrvCommit, Answer, Lost, Gone
<1> QED BY <1>1, <1>3

\* A transaction is in doubt only if its COMMIT was sent.
LEMMA DoubtIsOfCommit ==
  ASSUME "nested" \notin Habits, TypeOK, [Next]_vars,
         NEW u \in Txns, status[u] = "active", status'[u] = "in_doubt"
  PROVE  open /\ kind[u] = "work" /\ st' = "idle" /\ ~copying'
<1> USE DEF TypeOK, TxTypeOK, Statuses, Set
<1>1. CASE UNCHANGED vars
  BY <1>1 DEF vars, txVars
<1>2. CASE Dies
  BY <1>2 DEF Dies, txVars
<1>3. ASSUME NEW t \in Txns, Change(t)
      PROVE  open /\ kind[u] = "work" /\ st' = "idle" /\ ~copying'
  <2>1. CASE ConstructWork(t) \/ ConstructNon(t) \/ ThrowPending(t) \/ Refuse(t)
    BY <2>1 DEF ConstructWork, ConstructNon, ThrowPending, Refuse
  <2>2. CASE \E w \in Writes : Send(t, w)
    BY <2>2 DEF Send
  <2>3. CASE StartCopy(t) \/ (\E w \in Writes : StreamRow(t, w))
             \/ \E d \in BOOLEAN : CloseStream(t, d)
    BY <2>3 DEF StartCopy, StreamRow, CloseStream
  <2>4. CASE open /\ CommitActive(t)
    <3>1. PICK s \in Statuses : DoCommit(t, s) /\ Set(status, t, s)
      BY <2>4 DEF CommitActive
    <3>2. t = u /\ s = "in_doubt"
      BY <3>1
    <3> QED BY <2>4, <3>1, <3>2, DoubtEndsBlock
  <2>5. CASE AbortActive(t) \/ Destroy(t)
    BY <2>5 DEF AbortActive, Destroy
  <2> QED BY <1>3, <2>1, <2>2, <2>3, <2>4, <2>5 DEF Change
<1> QED BY <1>1, <1>2, <1>3, Steps

\* A transaction whose outcome nobody knows is one that sent its COMMIT on a
\* connection that seemed sound, and has left no block behind (transaction.cxx:60).
THEOREM DoubtOnlyIfSent ==
  ASSUME "nested" \notin Habits
  PROVE  Spec => InDoubtOnlyIfSent
<1>1. IInv /\ [Next]_vars =>
        [\A t \in Txns : status[t] = "active" /\ status'[t] = "in_doubt" =>
           open /\ kind[t] = "work" /\ st' = "idle" /\ ~copying']_vars
  BY DoubtIsOfCommit DEF IInv
<1> QED BY <1>1, Invariant, PTL DEF Spec, InDoubtOnlyIfSent
-----------------------------------------------------------------------------
(* Strict RAII *)

\* What a strict RAII program does with an object: it calls it only while no
\* call on it has thrown, and leaves aborting to the destructor.
Strict(t) ==
  \/ ConstructWork(t) \/ ConstructNon(t)
  \/ ThrowPending(t) \/ Refuse(t)
  \/ ~focus[t] /\ ~told[t] /\ \E w \in Writes : Send(t, w)
  \/ ~focus[t] /\ StartCopy(t)
  \/ focus[t] /\ \E w \in Writes : StreamRow(t, w)
  \/ focus[t] /\ \E d \in BOOLEAN : CloseStream(t, d)
  \/ ~focus[t] /\ ~told[t] /\ ~pending[t] /\ CommitActive(t)

\* The program may still use t.
LiveAndActive(t) == life[t] = "live" /\ status[t] = "active"

\* Next of such a program: everything but construction, refusals and the
\* destructor is done to a live and active object.
LEMMA StrictSteps ==
  ASSUME Habits = {}, Lifecycle, [Next]_vars
  PROVE  \/ UNCHANGED vars \/ Dies
         \/ \E t \in Txns :
              \/ ConstructWork(t) \/ ConstructNon(t) \/ ThrowPending(t) \/ Refuse(t)
              \/ LiveAndActive(t) /\ Strict(t)
              \/ Destroy(t)
<1> DEFINE Good(t) == \/ ConstructWork(t) \/ ConstructNon(t) \/ ThrowPending(t) \/ Refuse(t)
                      \/ LiveAndActive(t) /\ Strict(t)
                      \/ Destroy(t)
<1>1. ASSUME NEW t \in Txns, \E w \in Writes : Exec(t, w)
      PROVE  Good(t)
  BY <1>1 DEF Exec, Guarded, InUse, LiveAndActive, Strict
<1>2. ASSUME NEW t \in Txns, \E w \in Writes : ExecParams(t, w)
      PROVE  Good(t)
  BY <1>2 DEF ExecParams, InUse, LiveAndActive, Strict
<1>3. ASSUME NEW t \in Txns, \E w \in Writes : StreamRow(t, w)
      PROVE  Good(t)
  BY <1>3 DEF StreamRow, Lifecycle, LiveAndActive, Strict
<1>4. ASSUME NEW t \in Txns, \E d \in BOOLEAN : CloseStream(t, d)
      PROVE  Good(t)
  BY <1>4 DEF CloseStream, Lifecycle, LiveAndActive, Strict
<1>5. ASSUME NEW t \in Txns, OpenStream(t)
      PROVE  Good(t)
  BY <1>5 DEF OpenStream, Guarded, InUse, LiveAndActive, Strict
<1>6. ASSUME NEW t \in Txns, Commit(t)
      PROVE  UNCHANGED vars \/ Good(t)
  BY <1>6 DEF Commit, CommitRefused, InUse, LiveAndActive, Strict
<1>7. ASSUME NEW t \in Txns, Abort(t)
      PROVE  FALSE
  BY <1>7 DEF Abort
<1> QED BY <1>1, <1>2, <1>3, <1>4, <1>5, <1>6, <1>7 DEF Next

\* Every step of a strict RAII program keeps its session free of leaks and what
\* it may rely on.
LEMMA RaiiKept ==
  ASSUME Habits = {}, IInv, RaiiInv, [Next]_vars
  PROVE  RaiiInv'
<1> USE TxnAssumption
    DEF IInv, TypeOK, TxTypeOK, BeTypeOK, Session, Lifecycle, Statuses, Set,
        RaiiInv, NoLeak, WorkStands, Trusted, CommitMeansDurable, ActiveWork
<1>1. CASE UNCHANGED vars
  BY <1>1 DEF vars, txVars, beVars
<1>2. CASE Dies
  BY <1>2 DEF Dies, txVars, SrvDies
<1>3. ASSUME NEW t \in Txns, ConstructWork(t) \/ ConstructNon(t) PROVE RaiiInv'
  <2>1. /\ m_trans = NoTxn /\ life[t] = "unborn"
        /\ UNCHANGED <<status, focus, pending, told, sent, late>>
    BY <1>3 DEF ConstructWork, ConstructNon, MayRegister
  <2>2. /\ \A u \in Txns : ~(life[u] = "live" /\ status[u] = "active")
        /\ alive => st = "idle"
    BY <2>1 DEF OneActive
  <2>3. CASE ConstructNon(t)
    BY <2>1, <2>2, <2>3 DEF ConstructNon, beVars
  <2>4. CASE ConstructWork(t)
    <3>1. PICK r \in Replies :
            /\ SrvBegin(r)
            /\ IF r = "ok"
               THEN /\ m_trans' = t /\ Set(registered, t, TRUE) /\ Set(life, t, "live")
               ELSE UNCHANGED <<m_trans, registered, life>>
      BY <2>4 DEF ConstructWork
    <3>2. Set(kind, t, "work")
      BY <2>4 DEF ConstructWork
    <3>3. CASE r = "ok"
      <4>1. st' = "block" /\ durable' = durable
        BY <3>1, <3>3 DEF SrvBegin, Answer
      <4> QED BY <2>1, <2>2, <3>1, <3>2, <3>3, <4>1
    <3>4. CASE r # "ok"
      <4>1. (alive' => st' = "idle") /\ durable' = durable
        BY <2>2, <3>1, <3>4 DEF SrvBegin, Answer, StNow, Failed, Lost, Gone, Up
      <4> QED BY <2>1, <2>2, <3>1, <3>2, <3>4, <4>1
    <3> QED BY <3>3, <3>4
  <2> QED BY <1>3, <2>3, <2>4
<1>4. ASSUME NEW t \in Txns, ThrowPending(t) \/ Refuse(t) PROVE RaiiInv'
  BY <1>4 DEF ThrowPending, Refuse, beVars
<1>5. ASSUME NEW t \in Txns, LiveAndActive(t), Strict(t),
             ~(ConstructWork(t) \/ ConstructNon(t) \/ ThrowPending(t) \/ Refuse(t))
      PROVE  RaiiInv'
  <2>1. /\ life[t] = "live" /\ status[t] = "active"
        /\ \A u \in Txns \ {t} : ~(life[u] = "live" /\ status[u] = "active")
    BY <1>5 DEF LiveAndActive, OneActive
  <2>2. kind[t] = "non" => (alive => st = "idle")
    BY <2>1
  <2>3. ~focus[t] => ~copying /\ copied = {}
    BY <2>1 DEF CopyHasStream
  <2>4. CASE ~focus[t] /\ ~told[t] /\ \E w \in Writes : Send(t, w)
    <3>1. PICK w \in Writes, r \in Replies :
            /\ SrvWrite(r, w)
            /\ IF status[t] = "active" /\ r = "ok"
               THEN Set(sent, t, sent[t] \cup {w}) ELSE UNCHANGED sent
            /\ Set(told, t, told[t] \/ r # "ok")
      BY <2>4 DEF Send
    <3>2. UNCHANGED <<m_trans, life, kind, status, registered, focus, pending>>
      BY <2>4 DEF Send
    <3>3. CASE r = "ok"
      <4>1. /\ alive /\ st' = st /\ copied' = {} /\ st \in {"idle", "block"}
            /\ st = "idle" => durable' = durable \cup {w}
            /\ st = "block" => durable' = durable
        BY <2>3, <2>4, <3>1, <3>3 DEF SrvWrite, Answer, StNow, Up
      <4> QED BY <2>1, <2>2, <2>3, <2>4, <3>1, <3>2, <3>3, <4>1
    <3>4. CASE r # "ok"
      <4>1. /\ alive' /\ st = "idle" => st' = "idle"
            /\ alive' => alive
            /\ durable \subseteq durable'
        BY <2>3, <2>4, <3>1, <3>4 DEF SrvWrite, Answer, StNow, Up, Failed, Lost, Gone
      <4> QED BY <2>1, <2>2, <3>1, <3>2, <3>4, <4>1
    <3> QED BY <3>3, <3>4
  <2>5. CASE ~focus[t] /\ StartCopy(t)
    <3>1. PICK r \in Replies :
            SrvCopyStart(r) /\ Set(focus, t, r = "ok") /\ Set(told, t, told[t] \/ r # "ok")
      BY <2>5 DEF StartCopy
    <3>2. UNCHANGED <<m_trans, life, kind, status, registered, pending, sent, late>>
      BY <2>5 DEF StartCopy
    <3>3. CASE r = "ok"
      <4>1. UNCHANGED <<alive, st, durable>> /\ copied' = {}
        BY <3>1, <3>3 DEF SrvCopyStart
      <4> QED BY <2>1, <2>3, <2>5, <3>1, <3>2, <3>3, <4>1
    <3>4. CASE r # "ok"
      <4>1. /\ alive' /\ st = "idle" => st' = "idle"
            /\ alive' => alive
            /\ durable' = durable
        BY <2>3, <2>5, <3>1, <3>4 DEF SrvCopyStart, Answer, StNow, Up, Failed, Lost, Gone
      <4> QED BY <2>1, <2>2, <3>1, <3>2, <3>4, <4>1
    <3> QED BY <3>3, <3>4
  <2>6. CASE \E w \in Writes : StreamRow(t, w)
    <3>1. PICK w \in Writes, r \in Replies :
            /\ SrvCopyData(r, w)
            /\ IF r = "ok" /\ status[t] = "active"
               THEN Set(sent, t, sent[t] \cup {w}) ELSE UNCHANGED sent
            /\ Set(told, t, told[t] \/ r # "ok")
      BY <2>6 DEF StreamRow
    <3>2. UNCHANGED <<m_trans, life, kind, status, registered, pending, focus>>
      BY <2>6 DEF StreamRow
    <3>3. CASE r = "ok"
      <4>1. UNCHANGED <<alive, st, durable>> /\ copied' = copied \cup {w}
        BY <3>1, <3>3 DEF SrvCopyData
      <4> QED BY <2>1, <3>1, <3>2, <3>3, <4>1
    <3>4. CASE r # "ok"
      <4>1. UNCHANGED <<alive, st, durable, copied>>
        BY <3>1, <3>4 DEF SrvCopyData, beVars
      <4> QED BY <2>1, <3>1, <3>2, <3>4, <4>1
    <3> QED BY <3>3, <3>4
  <2>7. CASE \E d \in BOOLEAN : CloseStream(t, d)
    <3>1. PICK r \in Replies :
            /\ SrvCopyEnd(r)
            /\ \/ Set(pending, t, pending[t] \/ r # "ok") /\ UNCHANGED told
               \/ Set(told, t, told[t] \/ r # "ok") /\ UNCHANGED pending
      BY <2>7 DEF CloseStream
    <3>2. UNCHANGED <<m_trans, life, kind, status, registered, sent, late>>
      BY <2>7 DEF CloseStream
    <3>3. CASE r = "ok"
      <4>1. /\ alive /\ st' = st /\ copied' = {} /\ st \in {"idle", "block"}
            /\ st = "idle" => durable' = durable \cup copied
            /\ st = "block" => durable' = durable
        BY <3>1, <3>3 DEF SrvCopyEnd, Answer, Up
      <4> QED BY <2>1, <2>2, <3>1, <3>2, <3>3, <4>1
    <3>4. CASE r # "ok"
      <4>1. /\ alive' /\ st = "idle" => st' = "idle"
            /\ alive' => alive
            /\ durable \subseteq durable'
        BY <3>1, <3>4 DEF SrvCopyEnd, Answer, Up, Failed, Lost, Gone, beVars
      <4>2. ~Trusted(t)'
        BY <3>1, <3>4
      <4> QED BY <2>1, <2>2, <3>1, <3>2, <4>1, <4>2
    <3> QED BY <3>3, <3>4
  <2>8. CASE ~focus[t] /\ ~told[t] /\ ~pending[t] /\ CommitActive(t)
    <3>1. PICK s \in Statuses : DoCommit(t, s) /\ Set(status, t, s)
      BY <2>8 DEF CommitActive
    <3>2. UNCHANGED <<life, kind, focus, sent, late>>
      BY <2>8 DEF CommitActive
    <3>3. CASE kind[t] = "non"
      <4>1. s = "committed" /\ UNCHANGED <<alive, st, copied, durable>>
        BY <3>1, <3>3 DEF DoCommit, beVars
      <4> QED BY <2>1, <2>2, <2>3, <2>8, <3>1, <3>2, <3>3, <4>1
    <3>4. CASE kind[t] = "work"
      <4>1. PICK r \in Replies : SrvCommit(r) /\ s = Outcome(r)
        BY <3>1, <3>4 DEF DoCommit
      <4>2. s # "active" /\ (s = "committed" => r = "ok")
        BY <4>1 DEF Outcome, Replies
      <4>3. (alive' => st' = "idle") /\ durable \subseteq durable'
        BY <4>1 DEF SrvCommit, Answer, Lost, Gone, Up
      <4>4. s = "committed" => sent[t] \subseteq durable'
        <5> SUFFICES ASSUME s = "committed" PROVE sent[t] \subseteq durable'
          OBVIOUS
        <5>1. alive /\ durable' = durable \cup BlockNow
          BY <4>1, <4>2 DEF SrvCommit, Answer, Up
        <5>2. st = "block"
          BY <2>1, <2>8, <3>4, <5>1
        <5>3. BlockNow = block
          BY <2>3, <2>8, <5>2 DEF BlockNow, StNow
        <5>4. sent[t] \subseteq block
          BY <2>1, <2>3, <2>8, <3>4, <5>2 DEF BlockOfWork
        <5> QED BY <5>1, <5>3, <5>4
      <4> QED BY <2>1, <3>1, <3>2, <4>2, <4>3, <4>4
    <3> QED BY <3>3, <3>4
  <2> QED BY <1>5, <2>4, <2>5, <2>6, <2>7, <2>8 DEF Strict
<1>6. ASSUME NEW t \in Txns, Destroy(t) PROVE RaiiInv'
  <2>1. /\ life[t] = "live" /\ Set(life, t, "dead")
        /\ UNCHANGED <<kind, focus, told, sent, late>>
        /\ \A u \in Txns \ {t} : pending'[u] = pending[u]
    BY <1>6 DEF Destroy, Closed
  <2>2. CASE status[t] = "active"
    <3>1. Rollback(t) /\ Set(status, t, "aborted")
      BY <1>6, <2>2 DEF Destroy, StillActive
    <3>2. \A u \in Txns \ {t} : ~(life[u] = "live" /\ status[u] = "active")
      BY <2>1, <2>2 DEF OneActive
    <3>3. (alive' => st' = "idle") /\ durable' = durable
      <4>1. CASE kind[t] = "non"
        BY <2>1, <2>2, <3>1, <3>2, <4>1 DEF Rollback, beVars
      <4>2. CASE kind[t] # "non"
        BY <3>1, <4>2 DEF Rollback, SrvRollback, Answer, Lost, Gone, Up
      <4> QED BY <4>1, <4>2
    <3> QED BY <2>1, <3>1, <3>2, <3>3
  <2>3. CASE status[t] # "active"
    <3>1. UNCHANGED <<open, alive, st, block, copying, copied, durable, status>>
      BY <1>6, <2>3 DEF Destroy, StillActive, beVars
    <3> QED BY <2>1, <2>3, <3>1
  <2> QED BY <2>2, <2>3
<1> QED BY <1>1, <1>2, <1>3, <1>4, <1>5, <1>6, StrictSteps

\* Of a strict RAII program both invariants hold in every reachable state.
THEOREM RaiiInvariant ==
  ASSUME Habits = {}
  PROVE  Spec => [](IInv /\ RaiiInv)
<1>1. Init => IInv /\ RaiiInv
  BY Initially DEF Init, BeInit, RaiiInv, NoLeak, WorkStands, Trusted, CommitMeansDurable
<1>2. IInv /\ [Next]_vars => IInv'
  BY SessionKept, ObjectsKept, TiedKept DEF IInv, TypeOK, Objects, Tied
<1>3. (IInv /\ RaiiInv) /\ [Next]_vars => (IInv /\ RaiiInv)'
  BY <1>2, RaiiKept
<1> QED BY <1>1, <1>3, PTL DEF Spec

\* In a program that leaves abort() to the destructor and stops using an object
\* that has thrown, no transaction leaves the session in a block
\* (dbtransaction.hxx:31).
THEOREM NothingHalfFinishedByRaii ==
  ASSUME Habits = {}
  PROVE  Spec => []NothingHalfFinished
<1>1. IInv /\ RaiiInv => NothingHalfFinished
  BY TxnAssumption
     DEF IInv, OneActive, RaiiInv, NoLeak, ActiveWork, NothingHalfFinished, Up
<1> QED BY <1>1, RaiiInvariant, PTL

\* In such a program a commit() that returns (transaction_base.cxx:98) has made
\* everything durable that the object was handed, streamed rows included.
THEOREM CommitMeansDurableByRaii ==
  ASSUME Habits = {}
  PROVE  Spec => []CommitMeansDurable
<1>1. RaiiInv => CommitMeansDurable
  BY DEF RaiiInv
<1> QED BY <1>1, RaiiInvariant, PTL
=============================================================================
