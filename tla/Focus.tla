-------------------------------- MODULE Focus --------------------------------
(***************************************************************************)
(* transaction_focus: what monopolises a transaction, and how stream_to    *)
(* objects, which are such foci, are opened, moved, completed and destroyed *)
(* over several transactions, each on a connection of its own.             *)
(***************************************************************************)
EXTENDS Naturals, FiniteSets

CONSTANTS
  Streams,       \* stream_to objects, each constructed once
  Transactions,
  Nobody         \* a null m_focus

VARIABLE foc     \* focus: m_focus of each transaction; copying: its session is in a
                 \* COPY FROM; of each stream, life, m_trans, m_registered, m_finished;
                 \* notices: a destructor found something else registered

FocusTypeOK ==
  foc \in [focus : [Transactions -> Streams \cup {Nobody}],
           copying : [Transactions -> BOOLEAN],
           life : [Streams -> {"unborn", "live", "dead"}],
           trans : [Streams -> Transactions],
           registered : [Streams -> BOOLEAN],
           finished : [Streams -> BOOLEAN],
           notices : BOOLEAN]

FocusInit ==
  \E t \in Transactions :
    foc = [focus |-> [u \in Transactions |-> Nobody],
           copying |-> [u \in Transactions |-> FALSE],
           life |-> [f \in Streams |-> "unborn"], trans |-> [f \in Streams |-> t],
           registered |-> [f \in Streams |-> FALSE],
           finished |-> [f \in Streams |-> FALSE], notices |-> FALSE]

LiveStream(f) == foc.life[f] = "live"
-----------------------------------------------------------------------------
\* register_me, register_focus, check_unique_register: refuses, by an exception,
\* while the transaction has another focus.
MayRegister(s, f) == s.focus[s.trans[f]] = Nobody
RegisterMe(s, f) ==
  IF MayRegister(s, f)
  THEN [s EXCEPT !.focus[s.trans[f]] = f, !.registered[f] = TRUE] ELSE s

\* unregister_me: a notice if the focus is another, and m_registered is reset
\* whatever it was.
UnregisterMe(s, f) ==
  IF s.focus[s.trans[f]] = f
  THEN [s EXCEPT !.focus[s.trans[f]] = Nobody, !.registered[f] = FALSE]
  ELSE [s EXCEPT !.notices = TRUE, !.registered[f] = FALSE]

\* transaction_focus(transaction_focus &&): g takes m_trans and m_registered, then
\* the registration itself.
MovedBare(s, g, f) ==        \* (mutant) the transaction's back pointer stays
  [s EXCEPT !.life[g] = "live", !.trans[g] = s.trans[f], !.registered[g] = s.registered[f]]
MoveFocus(s, g, f) ==
  LET copied == [s EXCEPT !.life[g] = "live", !.trans[g] = s.trans[f],
                          !.registered[g] = s.registered[f]]
  IN  IF s.registered[f] THEN RegisterMe(UnregisterMe(copied, f), g) ELSE copied

\* stream_to(stream_to &&): what was moved from has nothing left to complete.
MoveStream(s, g, f) ==
  [MoveFocus(s, g, f) EXCEPT !.finished[g] = s.finished[f], !.finished[f] = TRUE]

\* stream_to::complete: the COPY ends, well or badly.
Completed(s, f) ==
  IF s.finished[f] THEN s
  ELSE [UnregisterMe([s EXCEPT !.finished[f] = TRUE], f)
          EXCEPT !.copying[s.trans[f]] = FALSE]
-----------------------------------------------------------------------------
\* The constructor: COPY is a statement, which a transaction with a focus refuses,
\* and the server may refuse; it throws then, and there is no stream.
Open(f, t) ==
  /\ foc.life[f] = "unborn"
  /\ \/ foc.focus[t] # Nobody /\ UNCHANGED foc
     \/ /\ foc.focus[t] = Nobody
        /\ foc' = RegisterMe([foc EXCEPT !.life[f] = "live", !.trans[f] = t,
                                         !.copying[t] = TRUE], f)

Move(g, f) ==
  /\ foc.life[g] = "unborn" /\ LiveStream(f)
  /\ foc' = MoveStream(foc, g, f)

Complete(f) == LiveStream(f) /\ foc' = Completed(foc, f)

DestroyStream(f) == LiveStream(f) /\ foc' = [Completed(foc, f) EXCEPT !.life[f] = "dead"]

FocusNext ==
  \E f \in Streams :
    \/ \E t \in Transactions : Open(f, t)
    \/ \E g \in Streams : Move(g, f)
    \/ Complete(f) \/ DestroyStream(f)

FocusSpec == FocusInit /\ [][FocusNext]_foc
-----------------------------------------------------------------------------
(* Properties *)

\* A transaction's focus is the live object that believes to be registered with
\* it, through any moves: its pointer never dangles, and no destructor complains
\* (transaction_focus.hxx:103).
FocusIsRegistered ==
  /\ \A t \in Transactions, f \in Streams :
       foc.focus[t] = f <=> LiveStream(f) /\ foc.registered[f] /\ foc.trans[f] = t
  /\ ~ foc.notices

\* A session is in a COPY exactly while one live stream over its transaction has
\* yet to complete it, and that is the focus: nothing else gets at the
\* connection, and no COPY is left without a stream to end it
\* (stream_to.hxx:162).
CopyHasOneStream ==
  \A t \in Transactions :
    LET open == {f \in Streams : LiveStream(f) /\ ~ foc.finished[f] /\ foc.trans[f] = t}
    IN  IF foc.copying[t] THEN open = {foc.focus[t]} ELSE open = {}

\* A transaction and the stream that has it refer to each other, and a COPY has
\* that stream to end it.
FocusSound == FocusIsRegistered /\ CopyHasOneStream
=============================================================================
