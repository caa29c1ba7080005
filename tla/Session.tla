------------------------------- MODULE Session -------------------------------
(***************************************************************************)
(* pqxx::connection as the holder of a session (connection.cxx): opening,  *)
(* moving, closing, and what is registered with it meanwhile, namely error *)
(* handlers, notification receivers and a transaction.                     *)
(***************************************************************************)
EXTENDS Naturals, FiniteSets

CONSTANTS
  Conns,          \* connection objects, each constructed once
  Sessions,       \* libpq's PGconn structures, each allocated once
  Handlers,       \* error handlers, each constructed once
  Receivers,      \* notification receivers, each constructed once
  Channels,
  NoOne,          \* a null pointer
  SessionHabits   \* "intx": receivers made in a transaction; "closed": error
                  \* handlers for a connection that is closed

VARIABLE ses
(* life, m_conn, m_trans of each connection, and its m_errorhandlers, in whatever   *)
(* order; home of each handler; at and channel of each receiver; of each session:   *)
(* whether it is allocated, the connection its notice processor calls, the channels *)
(* it listens on (and will once its transaction commits)                            *)

SessionTypeOK ==
  ses \in [life : [Conns -> {"unborn", "live", "dead"}],
           conn : [Conns -> Sessions \cup {NoOne}],
           trans : [Conns -> {"none", "open", "failed"}],
           handlers : [Conns -> SUBSET Handlers],
           home : [Handlers -> Conns \cup {NoOne}],
           made : SUBSET (Handlers \cup Receivers),
           at : [Receivers -> Conns \cup {NoOne}],
           channel : [Receivers -> Channels],
           open : [Sessions -> {"unused", "open", "freed"}],
           notices : [Sessions -> Conns \cup {NoOne}],
           listens : [Sessions -> SUBSET Channels],
           will : [Sessions -> SUBSET Channels]]

SessionInit ==
  \E ch \in [Receivers -> Channels] :
    ses = [life |-> [c \in Conns |-> "unborn"], conn |-> [c \in Conns |-> NoOne],
           trans |-> [c \in Conns |-> "none"], handlers |-> [c \in Conns |-> {}],
           home |-> [h \in Handlers |-> NoOne], made |-> {},
           at |-> [r \in Receivers |-> NoOne], channel |-> ch,
           open |-> [s \in Sessions |-> "unused"], notices |-> [s \in Sessions |-> NoOne],
           listens |-> [s \in Sessions |-> {}], will |-> [s \in Sessions |-> {}]]

LiveConn(c) == ses.life[c] = "live"
\* m_receivers: those of a channel, and all of them.
On(s, c, ch) == {r \in Receivers : s.at[r] = c /\ s.channel[r] = ch}
Registered(s, c) == {r \in Receivers : s.at[r] = c}
-----------------------------------------------------------------------------
(* Opening and closing *)

\* connection(options), connecting::produce: complete_init frees what it cannot use.
Connect(c, p) ==
  /\ ses.life[c] = "unborn" /\ ses.open[p] = "unused"
  /\ \/ ses' = [ses EXCEPT !.life[c] = "live", !.conn[c] = p, !.open[p] = "open"]
     \/ ses' = [ses EXCEPT !.open[p] = "freed"]

\* close: receivers and handlers are let go of, then the session.
ClosedOver(s, c) ==        \* (mutant) the handlers keep their home
  IF s.conn[c] = NoOne THEN s
  ELSE [s EXCEPT !.at = [r \in Receivers |-> IF s.at[r] = c THEN NoOne ELSE s.at[r]],
                 !.handlers[c] = {}, !.open[s.conn[c]] = "freed", !.conn[c] = NoOne]
Closed(s, c) ==
  IF s.conn[c] = NoOne THEN s
  ELSE [s EXCEPT !.at = [r \in Receivers |-> IF s.at[r] = c THEN NoOne ELSE s.at[r]],
                 !.handlers[c] = {},
                 !.home = [h \in Handlers |-> IF s.home[h] = c THEN NoOne ELSE s.home[h]],
                 !.open[s.conn[c]] = "freed", !.conn[c] = NoOne]

CloseConnection(c) == LiveConn(c) /\ ses' = Closed(ses, c)

\* A connection outlives the transaction on it, which refers to it.
DestroyConnection(c) ==
  /\ LiveConn(c) /\ ses.trans[c] = "none"
  /\ ses' = [Closed(ses, c) EXCEPT !.life[c] = "dead"]
-----------------------------------------------------------------------------
(* Moving *)

\* check_movable, check_overwritable: both ask the same.
Unattached(s, c) ==
  s.trans[c] = "none" /\ s.handlers[c] = {} /\ Registered(s, c) = {}

MoveConstruct(d, c) ==
  /\ ses.life[d] = "unborn" /\ LiveConn(c)
  /\ IF Unattached(ses, c)
     THEN ses' = [ses EXCEPT !.life[d] = "live", !.conn[d] = ses.conn[c],
                             !.conn[c] = NoOne]
     ELSE UNCHANGED ses

\* operator=: what was there is closed first.
Taken(s, d, c) ==
  LET closed == Closed(s, d)
  IN  [[closed EXCEPT !.conn[d] = closed.conn[c]] EXCEPT !.conn[c] = NoOne]

MoveAssign(d, c) ==
  /\ LiveConn(d) /\ LiveConn(c)
  /\ IF Unattached(ses, d) /\ Unattached(ses, c)
     THEN ses' = Taken(ses, d, c)
     ELSE UNCHANGED ses

\* release_raw_connection and seize_raw_connection, one right after the other.
Reseat(d, c) ==
  /\ ses.life[d] = "unborn" /\ LiveConn(c) /\ Unattached(ses, c)
  /\ ses' = [ses EXCEPT !.life[d] = "live", !.conn[d] = ses.conn[c], !.conn[c] = NoOne]
-----------------------------------------------------------------------------
(* Error handlers *)

\* errorhandler(connection &), register_errorhandler: the notice processor is set
\* with the first.
SetWhenEmpty(s, c) ==
  IF s.handlers[c] = {} /\ s.conn[c] # NoOne
  THEN [s EXCEPT !.notices[s.conn[c]] = c] ELSE s
Handle(h, c) ==
  /\ h \notin ses.made /\ LiveConn(c)
  /\ ses.conn[c] # NoOne \/ "closed" \in SessionHabits
  /\ ses' = [SetWhenEmpty(ses, c)
               EXCEPT !.handlers[c] = @ \cup {h}, !.home[h] = c, !.made = @ \cup {h}]

\* ~errorhandler, unregister, unregister_errorhandler: the last one takes the notice
\* processor with it.
LetGo(s, h, c) ==
  LET rest == s.handlers[c] \ {h}
      kept == [s EXCEPT !.home[h] = NoOne, !.handlers[c] = rest]
  IN  IF rest = {} /\ s.conn[c] # NoOne
      THEN [kept EXCEPT !.notices[s.conn[c]] = NoOne] ELSE kept
Unhandle(h) ==
  /\ ses.home[h] # NoOne
  /\ ses' = LetGo(ses, h, ses.home[h])
-----------------------------------------------------------------------------
(* Receivers.  What get_notifs hands to them, outside of transactions, changes   *)
(* nothing here.                                                                 *)

\* A statement on the connection, outside a transaction or in one: what it sets for
\* the session takes effect at once or with COMMIT (external: the server).
Listening(s, c, f(_)) ==
  LET p == s.conn[c]
      new == [s EXCEPT !.will[p] = f(@)]
  IN  IF s.trans[c] = "none" THEN [new EXCEPT !.listens[p] = new.will[p]] ELSE new
Works(s, c) == s.conn[c] # NoOne /\ s.trans[c] # "failed"

\* notification_receiver(connection &, channel), add_receiver: the first of a channel
\* has the session listen, and is not registered if that throws.
AddReceiver(r, c) ==
  LET ch == ses.channel[r]
  IN  /\ r \notin ses.made /\ LiveConn(c)
      /\ ses.trans[c] = "none" \/ "intx" \in SessionHabits
      /\ \/ /\ On(ses, c, ch) # {}
            /\ ses' = [ses EXCEPT !.at[r] = c, !.made = @ \cup {r}]
         \/ /\ On(ses, c, ch) = {} /\ Works(ses, c)
            /\ ses' = [Listening(ses, c, LAMBDA S : S \cup {ch})
                         EXCEPT !.at[r] = c, !.made = @ \cup {r}]
         \/ /\ On(ses, c, ch) = {} /\ ~ Works(ses, c)
            /\ ses' = [ses EXCEPT !.trans[c] = IF @ = "none" THEN @ ELSE "failed"]

\* ~notification_receiver, remove_receiver: erased first, and the session stops
\* listening with the last of the channel.  When that throws, a notice is all that
\* comes of it.
GoneAtOnce(s, c, r) ==     \* (mutant) the channel goes with any of its receivers
  On(s, c, s.channel[r]) # {}
Gone(s, c, r) == On(s, c, s.channel[r]) = {r}
RemoveReceiver(r) ==
  LET c == ses.at[r]
      erased == [ses EXCEPT !.at[r] = NoOne]
  IN  /\ c # NoOne
      /\ ses' = IF ~ Gone(ses, c, r) THEN erased
                ELSE IF Works(erased, c)
                THEN Listening(erased, c, LAMBDA S : S \ {ses.channel[r]})
                ELSE erased
-----------------------------------------------------------------------------
(* Transactions: register_transaction, unregister_transaction *)

BeginTransaction(c) ==
  /\ LiveConn(c) /\ ses.conn[c] # NoOne /\ ses.trans[c] = "none"
  /\ ses' = [ses EXCEPT !.trans[c] = "open"]
FailIn(c) == ses.trans[c] = "open" /\ ses' = [ses EXCEPT !.trans[c] = "failed"]

\* The transaction's COMMIT or ROLLBACK, then its object's end.
EndTransaction(c) ==
  LET p == ses.conn[c]
      over == [ses EXCEPT !.trans[c] = "none"]
  IN  /\ ses.trans[c] # "none"
      /\ \/ p = NoOne /\ ses' = over
         \/ p # NoOne /\ ses.trans[c] = "open"
            /\ ses' = [over EXCEPT !.listens[p] = ses.will[p]]
         \/ p # NoOne /\ ses' = [over EXCEPT !.will[p] = ses.listens[p]]

SessionNext ==
  \/ \E c \in Conns, p \in Sessions : Connect(c, p)
  \/ \E c \in Conns : \/ CloseConnection(c) \/ DestroyConnection(c)
                      \/ BeginTransaction(c) \/ FailIn(c) \/ EndTransaction(c)
  \/ \E c, d \in Conns : MoveConstruct(d, c) \/ MoveAssign(d, c) \/ Reseat(d, c)
  \/ \E h \in Handlers : Unhandle(h) \/ \E c \in Conns : Handle(h, c)
  \/ \E r \in Receivers : RemoveReceiver(r) \/ \E c \in Conns : AddReceiver(r, c)

SessionSpec == SessionInit /\ [][SessionNext]_ses
-----------------------------------------------------------------------------
(* Properties *)

\* Every session that libpq allocated is held by exactly one connection object,
\* through moves, assignments over an open connection, closes and the construction
\* that fails and closes what it has: none leaks and none is closed twice
\* (connection.cxx:102, 204, 744).  The constructor for non-blocking connecting, which
\* leaks its session when it throws (connection.cxx:110), is not modelled.
HeldByOne ==
  \A p \in Sessions :
    IF ses.open[p] = "open"
    THEN Cardinality({c \in Conns : LiveConn(c) /\ ses.conn[c] = p}) = 1
    ELSE \A c \in Conns : ses.conn[c] # p

\* An open session's notice processor is the library's exactly while error handlers
\* are registered with the connection that holds it, and then refers to that one
\* and no other (connection.cxx:645).
NoticesReachTheHolder ==
  \A c \in Conns : ses.conn[c] # NoOne =>
    ses.notices[ses.conn[c]] = IF ses.handlers[c] = {} THEN NoOne ELSE c

\* A handler whose home is set is in the list of that connection, which is alive:
\* its destructor does not touch a connection that is no more
\* (errorhandler.cxx:34).
HandlersKnowTheirHome ==
  \A h \in Handlers, c \in Conns :
    /\ ses.home[h] = c <=> h \in ses.handlers[c]
    /\ ses.home[h] = c => LiveConn(c)

\* A session, the object that holds it and the handlers registered with that one
\* refer to each other and to nothing that is no more.
SessionHeld == HeldByOne /\ NoticesReachTheHolder /\ HandlersKnowTheirHome

\* A connection's session listens, outside of a transaction, on the channel of every
\* receiver registered with it, whatever other receivers come and go
\* (connection.cxx:398, 422).
ReceiversAreListening ==
  \A r \in Receivers : LET c == ses.at[r] IN
    c # NoOne /\ ses.conn[c] # NoOne /\ ses.trans[c] = "none"
      => ses.channel[r] \in ses.listens[ses.conn[c]]
=============================================================================
