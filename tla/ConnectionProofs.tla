--------------------------- MODULE ConnectionProofs ---------------------------
(***************************************************************************)
(* What happens to a connection, whatever it is used for: connection       *)
(* objects and the sessions they hold, the streams that take a session in  *)
(* COPY mode, the callbacks that perform() tries over it, and the cursors  *)
(* that read through it.  For any number of connections, sessions,         *)
(* handlers, receivers, streams, transactions and attempts; of rows, any   *)
(* distances moved, and any number of iterators over any stride.           *)
(***************************************************************************)
EXTENDS Session, Focus, Outcomes, CursorStream, Induction, TLAPS, FiniteSetTheorems

-----------------------------------------------------------------------------
(* Connection objects and their sessions: receivers are heard, and each session*)
(* is held by one connection, which its notices and handlers refer to.       *)

\* The fields of ses, and the values of those that the theorem is about.
Shape ==
  /\ ses = [life |-> ses.life, conn |-> ses.conn, trans |-> ses.trans,
            handlers |-> ses.handlers, home |-> ses.home, made |-> ses.made,
            at |-> ses.at, channel |-> ses.channel, open |-> ses.open,
            notices |-> ses.notices, listens |-> ses.listens, will |-> ses.will]
  /\ ses.life \in [Conns -> {"unborn", "live", "dead"}]
  /\ ses.conn \in [Conns -> Sessions \cup {NoOne}]
  /\ ses.at \in [Receivers -> Conns \cup {NoOne}]
  /\ ses.channel \in [Receivers -> Channels]
  /\ ses.open \in [Sessions -> {"unused", "open", "freed"}]
  /\ ses.listens \in [Sessions -> SUBSET Channels]
  /\ ses.will \in [Sessions -> SUBSET Channels]

\* A session is held by one live connection at most.
HeldOnce ==
  /\ \A c \in Conns : ses.conn[c] # NoOne => LiveConn(c) /\ ses.open[ses.conn[c]] = "open"
  /\ \A c, d \in Conns : ses.conn[c] # NoOne /\ ses.conn[c] = ses.conn[d] => c = d

\* Nothing is registered with a connection that is yet to be.
NoneUnborn == \A r \in Receivers : ses.at[r] # NoOne => ses.life[ses.at[r]] # "unborn"

\* The session of a receiver listens now, and will go on however its transaction ends.
ListensOn ==
  \A r \in Receivers :
    ses.at[r] # NoOne /\ ses.conn[ses.at[r]] # NoOne =>
      /\ ses.channel[r] \in ses.listens[ses.conn[ses.at[r]]]
      /\ ses.channel[r] \in ses.will[ses.conn[ses.at[r]]]

\* What makes ReceiversAreListening inductive.
HeardInv == Shape /\ HeldOnce /\ NoneUnborn /\ ListensOn

\* The null pointer is no connection and no session.
NullSession == NoOne \notin Conns \cup Sessions

\* HeardInv holds of what the program starts with.
LEMMA HeardInitInv ==
  ASSUME NullSession, SessionInit
  PROVE  HeardInv
<1>1. PICK ch \in [Receivers -> Channels] :
        ses = [life |-> [c \in Conns |-> "unborn"], conn |-> [c \in Conns |-> NoOne],
           trans |-> [c \in Conns |-> "none"], handlers |-> [c \in Conns |-> {}],
           home |-> [h \in Handlers |-> NoOne], made |-> {},
           at |-> [r \in Receivers |-> NoOne], channel |-> ch,
           open |-> [s \in Sessions |-> "unused"], notices |-> [s \in Sessions |-> NoOne],
           listens |-> [s \in Sessions |-> {}], will |-> [s \in Sessions |-> {}]]
  BY DEF SessionInit
<1>2. Shape
  BY <1>1 DEF Shape
<1>3. HeldOnce /\ NoneUnborn /\ ListensOn
  BY <1>1 DEF HeldOnce, NoneUnborn, ListensOn
<1> QED BY <1>2, <1>3 DEF HeardInv

\* What changes nothing that the invariant speaks of.
Kept ==
  /\ ses'.life = ses.life /\ ses'.conn = ses.conn /\ ses'.at = ses.at
  /\ ses'.channel = ses.channel /\ ses'.open = ses.open

\* A step that changes none of the fields HeardInv is about keeps it.
LEMMA KeptInv ==
  ASSUME HeardInv, Shape', Kept, ses'.listens = ses.listens, ses'.will = ses.will
  PROVE  HeardInv'
BY DEF HeardInv, Kept, HeldOnce, NoneUnborn, ListensOn, LiveConn

\* A constructor that opens a session keeps HeardInv.
LEMMA ConnectKeeps ==
  ASSUME NullSession, HeardInv, NEW c \in Conns, NEW p \in Sessions, Connect(c, p)
  PROVE  HeardInv'
<1> USE DEF HeardInv
<1>1. CASE ses' = [ses EXCEPT !.life[c] = "live", !.conn[c] = p, !.open[p] = "open"]
  <2>1. Shape'
    BY <1>1 DEF Shape
  <2>2. /\ ses'.life = [ses.life EXCEPT ![c] = "live"]
        /\ ses'.conn = [ses.conn EXCEPT ![c] = p]
        /\ ses'.open = [ses.open EXCEPT ![p] = "open"]
        /\ ses'.at = ses.at /\ ses'.channel = ses.channel
        /\ ses'.listens = ses.listens /\ ses'.will = ses.will
    BY <1>1 DEF Shape
  <2>3. \A d \in Conns : ses.conn[d] # p
    BY DEF Connect, HeldOnce, Shape, NullSession
  <2>4. \A r \in Receivers : ses.at[r] # c
    BY DEF Connect, NoneUnborn, NullSession
  <2>5. HeldOnce'
    BY <2>2, <2>3 DEF HeldOnce, Shape, LiveConn
  <2>6. NoneUnborn'
    BY <2>2, <2>4 DEF NoneUnborn, Shape
  <2>7. ListensOn'
    BY <2>2, <2>4 DEF ListensOn, Shape
  <2> QED BY <2>1, <2>5, <2>6, <2>7
<1>2. CASE ses' = [ses EXCEPT !.open[p] = "freed"]
  <2>1. Shape'
    BY <1>2 DEF Shape
  <2>2. /\ ses'.life = ses.life /\ ses'.conn = ses.conn /\ ses'.at = ses.at
        /\ ses'.open = [ses.open EXCEPT ![p] = "freed"] /\ ses'.channel = ses.channel
        /\ ses'.listens = ses.listens /\ ses'.will = ses.will
    BY <1>2 DEF Shape
  <2>3. \A d \in Conns : ses.conn[d] # p
    BY DEF Connect, HeldOnce, Shape, NullSession
  <2>4. HeldOnce'
    BY <2>2, <2>3 DEF HeldOnce, Shape, LiveConn
  <2>5. NoneUnborn' /\ ListensOn'
    BY <2>2 DEF NoneUnborn, ListensOn
  <2> QED BY <2>1, <2>4, <2>5
<1> QED BY <1>1, <1>2 DEF Connect

\* close(), and what follows it in an object that goes.
LEMMA CloseKeeps ==
  ASSUME NullSession, HeardInv, NEW c \in Conns, CloseConnection(c) \/ DestroyConnection(c)
  PROVE  HeardInv'
<1> USE DEF HeardInv
<1>1. CASE ses.conn[c] = NoOne
  <2>1. ses' = ses \/ ses' = [ses EXCEPT !.life[c] = "dead"]
    BY <1>1 DEF CloseConnection, DestroyConnection, Closed
  <2>2. CASE ses' = ses
    BY <2>2 DEF Shape, HeldOnce, NoneUnborn, ListensOn, LiveConn
  <2>3. CASE ses' = [ses EXCEPT !.life[c] = "dead"]
    <3>1. Shape'
      BY <2>3 DEF Shape
    <3>2. /\ ses'.life = [ses.life EXCEPT ![c] = "dead"] /\ ses'.conn = ses.conn
          /\ ses'.at = ses.at /\ ses'.channel = ses.channel /\ ses'.open = ses.open
          /\ ses'.listens = ses.listens /\ ses'.will = ses.will
      BY <2>3 DEF Shape
    <3>3. HeldOnce'
      BY <1>1, <3>2 DEF HeldOnce, Shape, LiveConn
    <3>4. NoneUnborn' /\ ListensOn'
      BY <3>2 DEF NoneUnborn, ListensOn, Shape
    <3> QED BY <3>1, <3>3, <3>4
  <2> QED BY <2>1, <2>2, <2>3
<1>2. CASE ses.conn[c] # NoOne
  <2>1. PICK closed : closed = Closed(ses, c)
    OBVIOUS
  <2>2. closed = [ses EXCEPT
          !.at = [r \in Receivers |-> IF ses.at[r] = c THEN NoOne ELSE ses.at[r]],
          !.handlers[c] = {},
          !.home = [h \in Handlers |-> IF ses.home[h] = c THEN NoOne ELSE ses.home[h]],
          !.open[ses.conn[c]] = "freed", !.conn[c] = NoOne]
    BY <1>2, <2>1 DEF Closed
  <2>3. ses' = closed \/ ses' = [closed EXCEPT !.life[c] = "dead"]
    BY <2>1 DEF CloseConnection, DestroyConnection
  <2>4. ses.conn[c] \in Sessions
    BY <1>2 DEF Shape
  <2>5. ses' = [life |-> ses'.life, conn |-> ses'.conn, trans |-> ses'.trans,
                handlers |-> ses'.handlers, home |-> ses'.home, made |-> ses'.made,
                at |-> ses'.at, channel |-> ses'.channel, open |-> ses'.open,
                notices |-> ses'.notices, listens |-> ses'.listens, will |-> ses'.will]
    BY <2>2, <2>3 DEF Shape
  <2>6. /\ ses'.life \in {ses.life, [ses.life EXCEPT ![c] = "dead"]}
        /\ ses'.conn = [ses.conn EXCEPT ![c] = NoOne]
        /\ ses'.at = [r \in Receivers |-> IF ses.at[r] = c THEN NoOne ELSE ses.at[r]]
        /\ ses'.channel = ses.channel
        /\ ses'.open = [ses.open EXCEPT ![ses.conn[c]] = "freed"]
        /\ ses'.listens = ses.listens /\ ses'.will = ses.will
    BY <2>2, <2>3 DEF Shape
  <2>7. Shape'
    BY <2>4, <2>5, <2>6 DEF Shape
  <2>8. HeldOnce'
    BY <1>2, <2>4, <2>6 DEF HeldOnce, Shape, LiveConn
  <2>9. NoneUnborn'
    BY <2>6 DEF NoneUnborn, Shape
  <2>10. ListensOn'
    BY <2>6 DEF ListensOn, Shape
  <2> QED BY <2>7, <2>8, <2>9, <2>10
<1> QED BY <1>1, <1>2

\* The session of c goes over to d, which has none and nothing registered with it.
LEMMA HandedOver ==
  ASSUME NullSession, HeardInv, NEW c \in Conns, NEW d \in Conns, c # d, LiveConn(c),
         Registered(ses, c) = {}, Registered(ses, d) = {}, ses.conn[d] = NoOne,
         ses' = [ses EXCEPT !.life[d] = "live", !.conn[d] = ses.conn[c], !.conn[c] = NoOne]
  PROVE  HeardInv'
<1> USE DEF HeardInv
<1>1. Shape'
  BY DEF Shape
<1>2. /\ ses'.life = [ses.life EXCEPT ![d] = "live"]
      /\ ses'.conn = [ses.conn EXCEPT ![d] = ses.conn[c], ![c] = NoOne]
      /\ ses'.at = ses.at /\ ses'.channel = ses.channel /\ ses'.open = ses.open
      /\ ses'.listens = ses.listens /\ ses'.will = ses.will
  BY DEF Shape
<1>3. \A r \in Receivers : ses.at[r] # c /\ ses.at[r] # d
  BY DEF Registered
<1>4. HeldOnce'
  BY <1>2 DEF HeldOnce, Shape, LiveConn
<1>5. NoneUnborn' /\ ListensOn'
  BY <1>2, <1>3 DEF NoneUnborn, ListensOn, Shape
<1> QED BY <1>1, <1>4, <1>5

\* A move keeps it: the receivers must have gone.
LEMMA MoveKeeps ==
  ASSUME NullSession, HeardInv, NEW c \in Conns, NEW d \in Conns, MoveConstruct(d, c) \/ Reseat(d, c)
  PROVE  HeardInv'
<1>1. CASE ses' = ses
  BY <1>1 DEF HeardInv, Shape, HeldOnce, NoneUnborn, ListensOn, LiveConn
<1>2. CASE ses' # ses
  <2>1. /\ ses.life[d] = "unborn" /\ LiveConn(c) /\ Registered(ses, c) = {}
        /\ ses' = [ses EXCEPT !.life[d] = "live", !.conn[d] = ses.conn[c], !.conn[c] = NoOne]
    BY <1>2 DEF MoveConstruct, Reseat, Unattached
  <2>2. c # d /\ ses.conn[d] = NoOne
    BY <2>1 DEF HeardInv, HeldOnce, LiveConn
  <2>3. Registered(ses, d) = {}
    BY <2>1 DEF HeardInv, NoneUnborn, Registered, NullSession
  <2> QED BY <2>1, <2>2, <2>3, HandedOver
<1> QED BY <1>1, <1>2

\* An assignment over an open connection closes that first; one over itself does
\* nothing else.
LEMMA AssignKeeps ==
  ASSUME NullSession, HeardInv, NEW c \in Conns, NEW d \in Conns, MoveAssign(d, c)
  PROVE  HeardInv'
<1> USE DEF HeardInv
<1>1. CASE ses' = ses
  BY <1>1 DEF Shape, HeldOnce, NoneUnborn, ListensOn, LiveConn
<1>2. CASE ses' # ses
  <2>1. /\ LiveConn(d) /\ LiveConn(c) /\ ses' = Taken(ses, d, c)
        /\ Registered(ses, c) = {} /\ Registered(ses, d) = {}
    BY <1>2 DEF MoveAssign, Unattached
  <2>2. \A r \in Receivers : ses.at[r] # c /\ ses.at[r] # d
    BY <2>1 DEF Registered
  <2>3. PICK closed : closed = Closed(ses, d)
    OBVIOUS
  <2>4. /\ closed = [life |-> ses.life, conn |-> closed.conn, trans |-> ses.trans,
                     handlers |-> closed.handlers, home |-> closed.home, made |-> ses.made,
                     at |-> ses.at, channel |-> ses.channel, open |-> closed.open,
                     notices |-> ses.notices, listens |-> ses.listens, will |-> ses.will]
        /\ closed.conn = [ses.conn EXCEPT ![d] = NoOne]
        /\ closed.open = IF ses.conn[d] = NoOne THEN ses.open
                         ELSE [ses.open EXCEPT ![ses.conn[d]] = "freed"]
    <3>1. CASE ses.conn[d] = NoOne
      BY <2>3, <3>1 DEF Closed, Shape
    <3>2. CASE ses.conn[d] # NoOne
      <4>1. closed = [ses EXCEPT
              !.at = [r \in Receivers |-> IF ses.at[r] = d THEN NoOne ELSE ses.at[r]],
              !.handlers[d] = {},
              !.home = [h \in Handlers |-> IF ses.home[h] = d THEN NoOne ELSE ses.home[h]],
              !.open[ses.conn[d]] = "freed", !.conn[d] = NoOne]
        BY <2>3, <3>2 DEF Closed
      <4>2. [r \in Receivers |-> IF ses.at[r] = d THEN NoOne ELSE ses.at[r]] = ses.at
        BY <2>2 DEF Shape
      <4> QED BY <3>2, <4>1, <4>2 DEF Shape
    <3> QED BY <3>1, <3>2
  <2>5. ses' = [[closed EXCEPT !.conn[d] = closed.conn[c]] EXCEPT !.conn[c] = NoOne]
    BY <2>1, <2>3 DEF Taken
  <2>6. /\ ses' = [life |-> ses.life, conn |-> ses'.conn, trans |-> ses.trans,
                   handlers |-> closed.handlers, home |-> closed.home, made |-> ses.made,
                   at |-> ses.at, channel |-> ses.channel, open |-> closed.open,
                   notices |-> ses.notices, listens |-> ses.listens, will |-> ses.will]
        /\ ses'.conn = [ses.conn EXCEPT ![d] = IF c = d THEN NoOne ELSE ses.conn[c],
                                        ![c] = NoOne]
    <3>1. closed.conn[c] = IF c = d THEN NoOne ELSE ses.conn[c]
      BY <2>4 DEF Shape
    <3>2. ses' = [closed EXCEPT !.conn = [closed.conn EXCEPT ![d] = closed.conn[c],
                                                             ![c] = NoOne]]
      BY <2>4, <2>5
    <3>3. [closed.conn EXCEPT ![d] = closed.conn[c], ![c] = NoOne]
            = [ses.conn EXCEPT ![d] = IF c = d THEN NoOne ELSE ses.conn[c], ![c] = NoOne]
      BY <2>4, <3>1 DEF Shape
    <3> QED BY <2>4, <3>2, <3>3
  <2>7. Shape'
    BY <2>4, <2>6 DEF Shape
  <2>8. HeldOnce'
    BY <2>1, <2>4, <2>6 DEF HeldOnce, Shape, LiveConn
  <2>9. NoneUnborn' /\ ListensOn'
    BY <2>2, <2>6 DEF NoneUnborn, ListensOn, Shape
  <2> QED BY <2>7, <2>8, <2>9
<1> QED BY <1>1, <1>2

\* Error handlers and the beginnings of transactions are none of its business.
LEMMA HandlersKeep ==
  ASSUME HeardInv, NEW h \in Handlers, Unhandle(h) \/ \E c \in Conns : Handle(h, c)
  PROVE  HeardInv'
<1> USE DEF HeardInv
<1>1. CASE Unhandle(h)
  <2>1. PICK rest : ses' \in
          {[ses EXCEPT !.home[h] = NoOne, !.handlers[ses.home[h]] = rest],
           [[ses EXCEPT !.home[h] = NoOne, !.handlers[ses.home[h]] = rest]
              EXCEPT !.notices[ses.conn[ses.home[h]]] = NoOne]}
    BY <1>1 DEF Unhandle, LetGo
  <2>2. Shape' /\ Kept /\ ses'.listens = ses.listens /\ ses'.will = ses.will
    BY <2>1 DEF Shape, Kept
  <2> QED BY <2>2, KeptInv
<1>2. ASSUME NEW c \in Conns, Handle(h, c)
      PROVE  HeardInv'
  <2>1. PICK set : /\ set \in {ses, [ses EXCEPT !.notices[ses.conn[c]] = c]}
                   /\ ses' = [set EXCEPT !.handlers[c] = @ \cup {h}, !.home[h] = c,
                                         !.made = @ \cup {h}]
    BY <1>2 DEF Handle, SetWhenEmpty
  <2>2. PICK notices :
          set = [life |-> ses.life, conn |-> ses.conn, trans |-> ses.trans,
                 handlers |-> ses.handlers, home |-> ses.home, made |-> ses.made,
                 at |-> ses.at, channel |-> ses.channel, open |-> ses.open,
                 notices |-> notices, listens |-> ses.listens, will |-> ses.will]
    BY <2>1 DEF Shape
  <2>3. PICK list, home, made :
          ses' = [set EXCEPT !.handlers = list, !.home = home, !.made = made]
    <3>1. ses' = [set EXCEPT
            !.handlers = [set.handlers EXCEPT ![c] = set.handlers[c] \cup {h}],
            !.home = [set.home EXCEPT ![h] = c], !.made = set.made \cup {h}]
      BY <2>1 DEF Shape
    <3> QED BY <3>1
  <2>4. ses' = [life |-> ses.life, conn |-> ses.conn, trans |-> ses.trans,
                handlers |-> list, home |-> home, made |-> made,
                at |-> ses.at, channel |-> ses.channel, open |-> ses.open,
                notices |-> notices, listens |-> ses.listens, will |-> ses.will]
    BY <2>2, <2>3
  <2>5. Shape' /\ Kept /\ ses'.listens = ses.listens /\ ses'.will = ses.will
    BY <2>4 DEF Shape, Kept
  <2> QED BY <2>5, KeptInv
<1> QED BY <1>1, <1>2

\* What a transaction does keeps it.
LEMMA TransactionKeeps ==
  ASSUME NullSession, HeardInv, NEW c \in Conns, BeginTransaction(c) \/ FailIn(c) \/ EndTransaction(c)
  PROVE  HeardInv'
<1> USE DEF HeardInv
<1>1. CASE \E s \in {"none", "open", "failed"} : ses' = [ses EXCEPT !.trans[c] = s]
  <2>1. Shape' /\ Kept /\ ses'.listens = ses.listens /\ ses'.will = ses.will
    BY <1>1 DEF Shape, Kept
  <2> QED BY <2>1, KeptInv
<1>2. CASE /\ EndTransaction(c) /\ ses.conn[c] # NoOne
  <2>1. PICK p \in Sessions : p = ses.conn[c]
    BY <1>2 DEF Shape
  <2>2. \/ ses' = [[ses EXCEPT !.trans[c] = "none"] EXCEPT !.listens[p] = ses.will[p]]
        \/ ses' = [[ses EXCEPT !.trans[c] = "none"] EXCEPT !.will[p] = ses.listens[p]]
    BY <1>2, <2>1 DEF EndTransaction
  <2>3. Shape' /\ Kept
    <3>1. CASE ses' = [[ses EXCEPT !.trans[c] = "none"] EXCEPT !.listens[p] = ses.will[p]]
      BY <3>1 DEF Shape, Kept
    <3>2. CASE ses' = [[ses EXCEPT !.trans[c] = "none"] EXCEPT !.will[p] = ses.listens[p]]
      BY <3>2 DEF Shape, Kept
    <3> QED BY <2>2, <3>1, <3>2
  <2>4. \/ /\ ses'.listens = [ses.listens EXCEPT ![p] = ses.will[p]] /\ ses'.will = ses.will
        \/ /\ ses'.will = [ses.will EXCEPT ![p] = ses.listens[p]]
           /\ ses'.listens = ses.listens
    BY <2>2 DEF Shape
  <2>5. HeldOnce' /\ NoneUnborn'
    BY <2>3 DEF Kept, HeldOnce, NoneUnborn, LiveConn
  <2>6. ListensOn'
    BY <2>3, <2>4 DEF Kept, ListensOn, Shape
  <2> QED BY <2>3, <2>5, <2>6
<1> QED BY <1>1, <1>2 DEF BeginTransaction, FailIn, EndTransaction

\* A receiver made outside of transactions: the session listens at once, and goes on.
LEMMA AddReceiverKeeps ==
  ASSUME NullSession, "intx" \notin SessionHabits, HeardInv,
         NEW r \in Receivers, NEW c \in Conns, AddReceiver(r, c)
  PROVE  HeardInv'
<1> USE DEF HeardInv
<1>1. PICK ch \in Channels : ch = ses.channel[r]
  BY DEF Shape
<1>2. LiveConn(c) /\ ses.trans[c] = "none" /\ c # NoOne
  BY DEF AddReceiver, NullSession
<1>3. CASE On(ses, c, ch) # {} /\ ses' = [ses EXCEPT !.at[r] = c, !.made = @ \cup {r}]
  <2>1. PICK q \in Receivers : ses.at[q] = c /\ ses.channel[q] = ch
    BY <1>3 DEF On
  <2>2. Shape'
    BY <1>3 DEF Shape
  <2>3. /\ ses'.at = [ses.at EXCEPT ![r] = c]
        /\ ses'.life = ses.life /\ ses'.conn = ses.conn
        /\ ses'.channel = ses.channel /\ ses'.open = ses.open
        /\ ses'.listens = ses.listens /\ ses'.will = ses.will
    BY <1>3 DEF Shape
  <2>4. HeldOnce' /\ NoneUnborn'
    BY <1>2, <2>3 DEF HeldOnce, NoneUnborn, LiveConn, Shape
  <2>5. ListensOn'
    BY <1>1, <1>2, <2>1, <2>3 DEF ListensOn, Shape
  <2> QED BY <2>2, <2>4, <2>5
<1>4. CASE /\ ses.conn[c] # NoOne
           /\ ses' = [Listening(ses, c, LAMBDA S : S \cup {ses.channel[r]})
                        EXCEPT !.at[r] = c, !.made = @ \cup {r}]
  <2>1. PICK p \in Sessions : p = ses.conn[c]
    BY <1>4 DEF Shape
  <2>2. PICK set : set = Listening(ses, c, LAMBDA S : S \cup {ses.channel[r]})
    OBVIOUS
  <2>3. set = [ses EXCEPT !.will = [ses.will EXCEPT ![p] = @ \cup {ch}],
                          !.listens = [ses.listens EXCEPT ![p] = ses.will[p] \cup {ch}]]
    BY <1>1, <1>2, <2>1, <2>2 DEF Listening, Shape
  <2>4. ses' = [set EXCEPT !.at[r] = c, !.made = @ \cup {r}]
    BY <1>4, <2>2
  <2>5. Shape'
    BY <2>3, <2>4 DEF Shape
  <2>6. /\ ses'.at = [ses.at EXCEPT ![r] = c]
        /\ ses'.life = ses.life /\ ses'.conn = ses.conn
        /\ ses'.channel = ses.channel /\ ses'.open = ses.open
        /\ ses'.will = [ses.will EXCEPT ![p] = @ \cup {ch}]
        /\ ses'.listens = [ses.listens EXCEPT ![p] = ses.will[p] \cup {ch}]
    BY <2>3, <2>4 DEF Shape
  <2>7. HeldOnce' /\ NoneUnborn'
    BY <1>2, <2>6 DEF HeldOnce, NoneUnborn, LiveConn, Shape
  <2>8. ListensOn'
    BY <1>1, <1>2, <2>1, <2>6 DEF ListensOn, HeldOnce, Shape
  <2> QED BY <2>5, <2>7, <2>8
<1>5. CASE ses' = [ses EXCEPT !.trans[c] = IF @ = "none" THEN @ ELSE "failed"]
  <2>1. Shape' /\ Kept /\ ses'.listens = ses.listens /\ ses'.will = ses.will
    BY <1>5 DEF Shape, Kept
  <2> QED BY <2>1, KeptInv
<1> QED BY <1>1, <1>3, <1>4, <1>5 DEF AddReceiver, Works

\* The session stops listening only when no receiver of the channel is left.
LEMMA RemoveReceiverKeeps ==
  ASSUME NullSession, HeardInv, NEW r \in Receivers, RemoveReceiver(r)
  PROVE  HeardInv'
<1> USE DEF HeardInv
<1>1. PICK c \in Conns : c = ses.at[r]
  BY DEF RemoveReceiver, Shape
<1>2. PICK ch \in Channels : ch = ses.channel[r]
  BY DEF Shape
<1>3. PICK erased : erased = [ses EXCEPT !.at[r] = NoOne]
  OBVIOUS
<1>4. erased = [life |-> ses.life, conn |-> ses.conn, trans |-> ses.trans,
                handlers |-> ses.handlers, home |-> ses.home, made |-> ses.made,
                at |-> [ses.at EXCEPT ![r] = NoOne], channel |-> ses.channel,
                open |-> ses.open, notices |-> ses.notices,
                listens |-> ses.listens, will |-> ses.will]
  BY <1>3 DEF Shape
<1>5. CASE ses' = erased
  <2>1. Shape'
    BY <1>4, <1>5 DEF Shape
  <2>2. HeldOnce' /\ NoneUnborn'
    BY <1>4, <1>5 DEF HeldOnce, NoneUnborn, LiveConn, Shape
  <2>3. ListensOn'
    BY <1>4, <1>5 DEF ListensOn, Shape
  <2> QED BY <2>1, <2>2, <2>3
<1>6. CASE /\ Gone(ses, c, r) /\ Works(erased, c)
           /\ ses' = Listening(erased, c, LAMBDA S : S \ {ses.channel[r]})
  <2>1. PICK p \in Sessions : p = ses.conn[c]
    BY <1>4, <1>6 DEF Works, Shape
  <2>2. ses' \in
            {[erased EXCEPT !.will = [ses.will EXCEPT ![p] = @ \ {ch}]],
             [erased EXCEPT !.will = [ses.will EXCEPT ![p] = @ \ {ch}],
                            !.listens = [ses.listens EXCEPT ![p] = ses.will[p] \ {ch}]]}
    <3>1. erased.conn[c] = p /\ erased.will = ses.will
      BY <1>4, <2>1
    <3>2. CASE erased.trans[c] = "none"
      BY <1>2, <1>4, <1>6, <3>1, <3>2 DEF Listening, Shape
    <3>3. CASE erased.trans[c] # "none"
      BY <1>2, <1>4, <1>6, <3>1, <3>3 DEF Listening, Shape
    <3> QED BY <3>2, <3>3
  <2>3. Shape'
    <3>1. CASE ses' = [erased EXCEPT !.will = [ses.will EXCEPT ![p] = @ \ {ch}]]
      BY <1>4, <3>1 DEF Shape
    <3>2. CASE ses' = [erased EXCEPT !.will = [ses.will EXCEPT ![p] = @ \ {ch}],
                                     !.listens = [ses.listens EXCEPT ![p] =
                                                    ses.will[p] \ {ch}]]
      BY <1>4, <3>2 DEF Shape
    <3> QED BY <2>2, <3>1, <3>2
  <2>4. /\ ses'.at = [ses.at EXCEPT ![r] = NoOne]
        /\ ses'.life = ses.life /\ ses'.conn = ses.conn
        /\ ses'.channel = ses.channel /\ ses'.open = ses.open
        /\ ses'.will = [ses.will EXCEPT ![p] = @ \ {ch}]
        /\ ses'.listens \in {ses.listens,
                             [ses.listens EXCEPT ![p] = ses.will[p] \ {ch}]}
    BY <1>4, <2>2 DEF Shape
  <2>5. \A q \in Receivers : ses.at[q] = c /\ ses.channel[q] = ch => q = r
    BY <1>2, <1>6 DEF Gone, On
  <2>6. HeldOnce' /\ NoneUnborn'
    BY <2>4 DEF HeldOnce, NoneUnborn, LiveConn, Shape
  <2>7. ListensOn'
    BY <1>1, <1>2, <2>1, <2>4, <2>5 DEF ListensOn, HeldOnce, Shape
  <2> QED BY <2>3, <2>6, <2>7
<1> QED BY <1>1, <1>2, <1>3, <1>5, <1>6 DEF RemoveReceiver

\* Every step keeps it.
LEMMA HeardStepInv ==
  ASSUME NullSession, "intx" \notin SessionHabits, HeardInv, [SessionNext]_ses
  PROVE  HeardInv'
<1>1. CASE UNCHANGED ses
  BY <1>1 DEF HeardInv, Shape, HeldOnce, NoneUnborn, ListensOn, LiveConn
<1>2. CASE SessionNext
  BY <1>2, ConnectKeeps, CloseKeeps, TransactionKeeps, MoveKeeps, AssignKeeps,
     HandlersKeep, AddReceiverKeeps, RemoveReceiverKeeps DEF SessionNext
<1> QED BY <1>1, <1>2

\* It is enough.
LEMMA InvListens ==
  ASSUME HeardInv
  PROVE  ReceiversAreListening
BY DEF HeardInv, ListensOn, ReceiversAreListening

\* Receivers come and go, connections are moved, assigned and closed, transactions
\* commit and fail: outside of transactions a session listens on the channels of all
\* receivers of its connection, if those are made outside of transactions
\* (connection.cxx:398, :422).
THEOREM ListeningAlways ==
  ASSUME NullSession, "intx" \notin SessionHabits
  PROVE  SessionSpec => []ReceiversAreListening
<1>1. SessionInit => HeardInv
  BY HeardInitInv
<1>2. HeardInv /\ [SessionNext]_ses => HeardInv'
  BY HeardStepInv
<1>3. HeardInv => ReceiversAreListening
  BY InvListens
<1> QED BY <1>1, <1>2, <1>3, PTL DEF SessionSpec
-----------------------------------------------------------------------------
(* A session, the connection object that holds it and its error handlers      *)
(* refer to each other.                                                        *)

\* No session that is open is forgotten.
HeldAtAll == \A p \in Sessions : ses.open[p] = "open" => \E c \in Conns : ses.conn[c] = p

\* Handlers and connections know each other; a connection that has lost its session has
\* no handlers, and a handler that is yet to be made has no home.
Homes ==
  /\ \A h \in Handlers, c \in Conns : ses.home[h] = c <=> h \in ses.handlers[c]
  /\ \A c \in Conns : ses.handlers[c] # {} => ses.conn[c] # NoOne
  /\ \A h \in Handlers : h \notin ses.made => ses.home[h] = NoOne

\* A session that is new calls nobody.
NewIsSilent == \A p \in Sessions : ses.open[p] = "unused" => ses.notices[p] = NoOne

\* What makes SessionHeld inductive.
HeldInv ==
  /\ SessionTypeOK /\ HeldOnce /\ HeldAtAll /\ Homes
  /\ NoticesReachTheHolder /\ NewIsSilent

\* HeldInv holds of what the program starts with.
LEMMA HeldInitInv ==
  ASSUME NullSession, SessionInit
  PROVE  HeldInv
<1>1. PICK ch \in [Receivers -> Channels] :
        ses = [life |-> [c \in Conns |-> "unborn"], conn |-> [c \in Conns |-> NoOne],
           trans |-> [c \in Conns |-> "none"], handlers |-> [c \in Conns |-> {}],
           home |-> [h \in Handlers |-> NoOne], made |-> {},
           at |-> [r \in Receivers |-> NoOne], channel |-> ch,
           open |-> [s \in Sessions |-> "unused"], notices |-> [s \in Sessions |-> NoOne],
           listens |-> [s \in Sessions |-> {}], will |-> [s \in Sessions |-> {}]]
  BY DEF SessionInit
<1>2. SessionTypeOK
  BY <1>1 DEF SessionTypeOK
<1>3. HeldOnce /\ HeldAtAll /\ NoticesReachTheHolder /\ NewIsSilent
  BY <1>1 DEF HeldOnce, HeldAtAll, NoticesReachTheHolder, NewIsSilent
<1>4. Homes
  BY <1>1 DEF Homes, NullSession
<1> QED BY <1>2, <1>3, <1>4 DEF HeldInv

\* What transactions and receivers do is of no concern to the holder.
LEMMA Untouched ==
  ASSUME HeldInv, SessionTypeOK',
         ses'.life = ses.life, ses'.conn = ses.conn, ses'.handlers = ses.handlers,
         ses'.home = ses.home, ses'.open = ses.open, ses'.notices = ses.notices,
         ses.made \subseteq ses'.made
  PROVE  HeldInv'
BY DEF HeldInv, HeldOnce, HeldAtAll, Homes, NoticesReachTheHolder, NewIsSilent, LiveConn

\* A constructor that opens a session keeps HeldInv.
LEMMA ConnectHolds ==
  ASSUME NullSession, HeldInv, NEW c \in Conns, NEW p \in Sessions, Connect(c, p)
  PROVE  HeldInv'
<1> USE DEF HeldInv
<1>1. ses.conn[c] = NoOne /\ \A d \in Conns : ses.conn[d] # p
  BY DEF Connect, HeldOnce, LiveConn, NullSession
<1>2. ses.notices[p] = NoOne /\ ses.handlers[c] = {}
  BY <1>1 DEF Connect, NewIsSilent, Homes
<1>3. CASE ses' = [ses EXCEPT !.life[c] = "live", !.conn[c] = p, !.open[p] = "open"]
  <2>1. /\ ses'.life = [ses.life EXCEPT ![c] = "live"]
        /\ ses'.conn = [ses.conn EXCEPT ![c] = p]
        /\ ses'.open = [ses.open EXCEPT ![p] = "open"]
        /\ ses'.handlers = ses.handlers /\ ses'.home = ses.home
        /\ ses'.notices = ses.notices /\ ses'.made = ses.made
    BY <1>3 DEF SessionTypeOK
  <2>2. SessionTypeOK'
    BY <1>3 DEF SessionTypeOK
  <2>3. HeldOnce'
    BY <1>1, <2>1 DEF HeldOnce, SessionTypeOK, LiveConn
  <2>4. HeldAtAll'
    BY <1>1, <2>1 DEF HeldAtAll, SessionTypeOK, NullSession
  <2>5. Homes'
    BY <1>2, <2>1 DEF Homes, SessionTypeOK
  <2>6. NoticesReachTheHolder' /\ NewIsSilent'
    BY <1>2, <2>1 DEF NoticesReachTheHolder, NewIsSilent, SessionTypeOK
  <2> QED BY <2>2, <2>3, <2>4, <2>5, <2>6
<1>4. CASE ses' = [ses EXCEPT !.open[p] = "freed"]
  <2>1. /\ ses'.life = ses.life /\ ses'.conn = ses.conn
        /\ ses'.open = [ses.open EXCEPT ![p] = "freed"]
        /\ ses'.handlers = ses.handlers /\ ses'.home = ses.home
        /\ ses'.notices = ses.notices /\ ses'.made = ses.made
    BY <1>4 DEF SessionTypeOK
  <2>2. SessionTypeOK'
    BY <1>4 DEF SessionTypeOK
  <2>3. HeldOnce'
    BY <1>1, <2>1 DEF HeldOnce, SessionTypeOK, LiveConn
  <2>4. HeldAtAll' /\ Homes' /\ NoticesReachTheHolder' /\ NewIsSilent'
    BY <2>1 DEF HeldAtAll, Homes, NoticesReachTheHolder, NewIsSilent, SessionTypeOK
  <2> QED BY <2>2, <2>3, <2>4
<1> QED BY <1>3, <1>4 DEF Connect

\* close() lets go of the session and of the handlers together.
LEMMA ClosedEffect ==
  ASSUME SessionTypeOK, NEW c \in Conns, ses.conn[c] # NoOne,
         NEW closed, closed = Closed(ses, c)
  PROVE  closed = [life |-> ses.life, conn |-> [ses.conn EXCEPT ![c] = NoOne],
             trans |-> ses.trans, handlers |-> [ses.handlers EXCEPT ![c] = {}],
             home |-> [h \in Handlers |-> IF ses.home[h] = c THEN NoOne ELSE ses.home[h]],
             made |-> ses.made,
             at |-> [r \in Receivers |-> IF ses.at[r] = c THEN NoOne ELSE ses.at[r]],
             channel |-> ses.channel,
             open |-> [ses.open EXCEPT ![ses.conn[c]] = "freed"],
             notices |-> ses.notices, listens |-> ses.listens, will |-> ses.will]
<1>1. closed = [ses EXCEPT
        !.at = [r \in Receivers |-> IF ses.at[r] = c THEN NoOne ELSE ses.at[r]],
        !.handlers[c] = {},
        !.home = [h \in Handlers |-> IF ses.home[h] = c THEN NoOne ELSE ses.home[h]],
        !.open[ses.conn[c]] = "freed", !.conn[c] = NoOne]
  BY DEF Closed
<1> QED BY <1>1 DEF SessionTypeOK

\* close() and the destructor keep it: handlers go first.
LEMMA CloseHolds ==
  ASSUME NullSession, HeldInv, NEW c \in Conns, CloseConnection(c) \/ DestroyConnection(c)
  PROVE  HeldInv'
<1> USE DEF HeldInv
<1>1. CASE ses.conn[c] = NoOne
  <2>1. ses' = ses \/ ses' = [ses EXCEPT !.life[c] = "dead"]
    BY <1>1 DEF CloseConnection, DestroyConnection, Closed
  <2>2. CASE ses' = ses
    BY <2>2, Untouched DEF SessionTypeOK
  <2>3. CASE ses' = [ses EXCEPT !.life[c] = "dead"]
    <3>1. SessionTypeOK'
      BY <2>3 DEF SessionTypeOK
    <3>2. /\ ses'.life = [ses.life EXCEPT ![c] = "dead"] /\ ses'.conn = ses.conn
          /\ ses'.open = ses.open /\ ses'.handlers = ses.handlers
          /\ ses'.home = ses.home /\ ses'.notices = ses.notices /\ ses'.made = ses.made
      BY <2>3 DEF SessionTypeOK
    <3>3. HeldOnce'
      BY <1>1, <3>2 DEF HeldOnce, SessionTypeOK, LiveConn
    <3>4. HeldAtAll' /\ Homes' /\ NoticesReachTheHolder' /\ NewIsSilent'
      BY <3>2 DEF HeldAtAll, Homes, NoticesReachTheHolder, NewIsSilent
    <3> QED BY <3>1, <3>3, <3>4
  <2> QED BY <2>1, <2>2, <2>3
<1>2. CASE ses.conn[c] # NoOne
  <2>1. PICK closed : closed = Closed(ses, c)
    OBVIOUS
  <2>2. closed = [life |-> ses.life, conn |-> [ses.conn EXCEPT ![c] = NoOne],
             trans |-> ses.trans, handlers |-> [ses.handlers EXCEPT ![c] = {}],
             home |-> [h \in Handlers |-> IF ses.home[h] = c THEN NoOne ELSE ses.home[h]],
             made |-> ses.made,
             at |-> [r \in Receivers |-> IF ses.at[r] = c THEN NoOne ELSE ses.at[r]],
             channel |-> ses.channel,
             open |-> [ses.open EXCEPT ![ses.conn[c]] = "freed"],
             notices |-> ses.notices, listens |-> ses.listens, will |-> ses.will]
    BY <1>2, <2>1, ClosedEffect
  <2>3. PICK life \in {ses.life, [ses.life EXCEPT ![c] = "dead"]} :
          ses' = [closed EXCEPT !.life = life]
    <3>1. ses' = closed \/ ses' = [closed EXCEPT !.life[c] = "dead"]
      BY <2>1 DEF CloseConnection, DestroyConnection
    <3>2. closed = [closed EXCEPT !.life = ses.life]
      BY <2>2
    <3>3. [closed EXCEPT !.life[c] = "dead"]
            = [closed EXCEPT !.life = [ses.life EXCEPT ![c] = "dead"]]
      BY <2>2
    <3> QED BY <3>1, <3>2, <3>3
  <2>4. ses.conn[c] \in Sessions
    BY <1>2 DEF SessionTypeOK
  <2>5. SessionTypeOK'
    <3>1. /\ life \in [Conns -> {"unborn", "live", "dead"}]
          /\ [ses.conn EXCEPT ![c] = NoOne] \in [Conns -> Sessions \cup {NoOne}]
          /\ [ses.handlers EXCEPT ![c] = {}] \in [Conns -> SUBSET Handlers]
          /\ [h \in Handlers |-> IF ses.home[h] = c THEN NoOne ELSE ses.home[h]]
               \in [Handlers -> Conns \cup {NoOne}]
      BY DEF SessionTypeOK
    <3>2. /\ [r \in Receivers |-> IF ses.at[r] = c THEN NoOne ELSE ses.at[r]]
               \in [Receivers -> Conns \cup {NoOne}]
          /\ [ses.open EXCEPT ![ses.conn[c]] = "freed"]
               \in [Sessions -> {"unused", "open", "freed"}]
      BY DEF SessionTypeOK
    <3> QED BY <2>2, <2>3, <3>1, <3>2 DEF SessionTypeOK
  <2>6. /\ ses'.life = life /\ ses'.conn = [ses.conn EXCEPT ![c] = NoOne]
        /\ ses'.handlers = [ses.handlers EXCEPT ![c] = {}]
        /\ ses'.home = [h \in Handlers |-> IF ses.home[h] = c THEN NoOne ELSE ses.home[h]]
        /\ ses'.open = [ses.open EXCEPT ![ses.conn[c]] = "freed"]
        /\ ses'.notices = ses.notices /\ ses'.made = ses.made
    BY <2>2, <2>3
  <2>7. HeldOnce'
    BY <1>2, <2>3, <2>4, <2>6 DEF HeldOnce, SessionTypeOK, LiveConn
  <2>8. HeldAtAll'
    BY <2>4, <2>6 DEF HeldAtAll, SessionTypeOK
  <2>9. Homes'
    BY <2>6 DEF Homes, SessionTypeOK, NullSession
  <2>10. NoticesReachTheHolder' /\ NewIsSilent'
    BY <2>4, <2>6 DEF NoticesReachTheHolder, NewIsSilent, SessionTypeOK
  <2> QED BY <2>5, <2>7, <2>8, <2>9, <2>10
<1> QED BY <1>1, <1>2

\* The session of c goes over to d, which has none and no handlers, as c has none.
LEMMA HandsOver ==
  ASSUME NullSession, HeldInv, NEW c \in Conns, NEW d \in Conns, c # d, LiveConn(c),
         ses.conn[d] = NoOne, ses.handlers[c] = {},
         ses' = [ses EXCEPT !.life[d] = "live", !.conn[d] = ses.conn[c], !.conn[c] = NoOne]
  PROVE  HeldInv'
<1> USE DEF HeldInv
<1>1. SessionTypeOK'
  BY DEF SessionTypeOK
<1>2. /\ ses'.life = [ses.life EXCEPT ![d] = "live"]
      /\ ses'.conn = [ses.conn EXCEPT ![d] = ses.conn[c], ![c] = NoOne]
      /\ ses'.open = ses.open /\ ses'.handlers = ses.handlers
      /\ ses'.home = ses.home /\ ses'.notices = ses.notices /\ ses'.made = ses.made
  BY DEF SessionTypeOK
<1>3. ses.handlers[d] = {}
  BY DEF Homes
<1>4. HeldOnce'
  BY <1>2 DEF HeldOnce, SessionTypeOK, LiveConn
<1>5. HeldAtAll'
  BY <1>2 DEF HeldAtAll, SessionTypeOK, NullSession
<1>6. Homes' /\ NewIsSilent'
  BY <1>2, <1>3 DEF Homes, NewIsSilent, SessionTypeOK
<1>7. NoticesReachTheHolder'
  BY <1>2, <1>3 DEF NoticesReachTheHolder, SessionTypeOK
<1> QED BY <1>1, <1>4, <1>5, <1>6, <1>7

\* A move keeps it: nothing is registered with the connection that is moved.
LEMMA MoveHolds ==
  ASSUME NullSession, HeldInv, NEW c \in Conns, NEW d \in Conns, MoveConstruct(d, c) \/ Reseat(d, c)
  PROVE  HeldInv'
<1>1. CASE ses' = ses
  BY <1>1, Untouched DEF HeldInv, SessionTypeOK
<1>2. CASE ses' # ses
  <2>1. /\ ses.life[d] = "unborn" /\ LiveConn(c) /\ ses.handlers[c] = {}
        /\ ses' = [ses EXCEPT !.life[d] = "live", !.conn[d] = ses.conn[c], !.conn[c] = NoOne]
    BY <1>2 DEF MoveConstruct, Reseat, Unattached
  <2>2. c # d /\ ses.conn[d] = NoOne
    BY <2>1 DEF HeldInv, HeldOnce, LiveConn
  <2> QED BY <2>1, <2>2, HandsOver
<1> QED BY <1>1, <1>2

\* The two assignments to m_conn in operator= as one.
LEMMA BothPointers ==
  ASSUME NEW s, NEW c, NEW d,
         s = [life |-> s.life, conn |-> s.conn, trans |-> s.trans,
              handlers |-> s.handlers, home |-> s.home, made |-> s.made,
              at |-> s.at, channel |-> s.channel, open |-> s.open,
              notices |-> s.notices, listens |-> s.listens, will |-> s.will]
  PROVE  [[s EXCEPT !.conn[d] = s.conn[c]] EXCEPT !.conn[c] = NoOne]
           = [s EXCEPT !.conn = [s.conn EXCEPT ![d] = s.conn[c], ![c] = NoOne]]
OBVIOUS

\* An assignment over an open connection frees its session before it takes the other.
LEMMA AssignHolds ==
  ASSUME NullSession, HeldInv, NEW c \in Conns, NEW d \in Conns, MoveAssign(d, c)
  PROVE  HeldInv'
<1> USE DEF HeldInv
<1>1. CASE ses' = ses
  BY <1>1, Untouched DEF SessionTypeOK
<1>2. CASE ses' # ses
  <2>1. /\ LiveConn(d) /\ LiveConn(c) /\ ses' = Taken(ses, d, c)
        /\ ses.handlers[c] = {} /\ ses.handlers[d] = {}
    BY <1>2 DEF MoveAssign, Unattached
  <2>2. PICK closed : closed = Closed(ses, d)
    OBVIOUS
  <2>3. ses' = [[closed EXCEPT !.conn[d] = closed.conn[c]] EXCEPT !.conn[c] = NoOne]
    BY <2>1, <2>2 DEF Taken
  <2>4. CASE ses.conn[d] = NoOne
    <3>1. closed = ses
      BY <2>2, <2>4 DEF Closed
    <3>2. ses' = [ses EXCEPT !.conn = [ses.conn EXCEPT ![d] = ses.conn[c], ![c] = NoOne]]
      BY <2>3, <3>1, BothPointers DEF SessionTypeOK
    <3>3. c # d
      <4>1. SUFFICES ASSUME c = d
                     PROVE  FALSE
        OBVIOUS
      <4>2. [ses.conn EXCEPT ![d] = ses.conn[c], ![c] = NoOne] = ses.conn
        BY <2>4, <4>1 DEF SessionTypeOK
      <4> QED BY <1>2, <3>2, <4>2 DEF SessionTypeOK
    <3>4. ses' = [ses EXCEPT !.life[d] = "live", !.conn[d] = ses.conn[c], !.conn[c] = NoOne]
      <4>1. [ses.life EXCEPT ![d] = "live"] = ses.life
        BY <2>1 DEF SessionTypeOK, LiveConn
      <4>2. [ses EXCEPT !.life[d] = "live", !.conn[d] = ses.conn[c], !.conn[c] = NoOne]
              = [ses EXCEPT !.life = [ses.life EXCEPT ![d] = "live"],
                            !.conn = [ses.conn EXCEPT ![d] = ses.conn[c], ![c] = NoOne]]
        BY DEF SessionTypeOK
      <4> QED BY <3>2, <4>1, <4>2 DEF SessionTypeOK
    <3> QED BY <2>1, <2>4, <3>3, <3>4, HandsOver
  <2>5. CASE ses.conn[d] # NoOne
    <3>1. ses.conn[d] \in Sessions
      BY <2>5 DEF SessionTypeOK
    <3>2. closed = [life |-> ses.life, conn |-> [ses.conn EXCEPT ![d] = NoOne],
             trans |-> ses.trans, handlers |-> [ses.handlers EXCEPT ![d] = {}],
             home |-> [h \in Handlers |-> IF ses.home[h] = d THEN NoOne ELSE ses.home[h]],
             made |-> ses.made,
             at |-> [r \in Receivers |-> IF ses.at[r] = d THEN NoOne ELSE ses.at[r]],
             channel |-> ses.channel,
             open |-> [ses.open EXCEPT ![ses.conn[d]] = "freed"],
             notices |-> ses.notices, listens |-> ses.listens, will |-> ses.will]
      BY <2>2, <2>5, ClosedEffect
    <3>3. closed.conn[c] = IF c = d THEN NoOne ELSE ses.conn[c]
      BY <3>2 DEF SessionTypeOK
    <3>4. [ses.handlers EXCEPT ![d] = {}] = ses.handlers
      BY <2>1 DEF SessionTypeOK
    <3>5. [h \in Handlers |-> IF ses.home[h] = d THEN NoOne ELSE ses.home[h]] = ses.home
      BY <2>1 DEF Homes, SessionTypeOK
    <3>6. PICK linked : linked = [ses.conn EXCEPT ![d] = IF c = d THEN NoOne ELSE ses.conn[c],
                                              ![c] = NoOne]
      OBVIOUS
    <3>7. ses' = [closed EXCEPT !.conn = linked]
      <4>1. ses' = [closed EXCEPT !.conn = [closed.conn EXCEPT ![d] = closed.conn[c],
                                                               ![c] = NoOne]]
        <5>1. closed = [life |-> closed.life, conn |-> closed.conn, trans |-> closed.trans,
                handlers |-> closed.handlers, home |-> closed.home, made |-> closed.made,
                at |-> closed.at, channel |-> closed.channel, open |-> closed.open,
                notices |-> closed.notices, listens |-> closed.listens, will |-> closed.will]
          BY <3>2
        <5> QED BY <2>3, <5>1, BothPointers
      <4>2. [closed.conn EXCEPT ![d] = closed.conn[c], ![c] = NoOne] = linked
        BY <3>2, <3>3, <3>6 DEF SessionTypeOK
      <4> QED BY <4>1, <4>2
    <3>8. /\ ses'.life = ses.life /\ ses'.conn = linked
          /\ ses'.open = [ses.open EXCEPT ![ses.conn[d]] = "freed"]
          /\ ses'.handlers = ses.handlers /\ ses'.home = ses.home
          /\ ses'.notices = ses.notices /\ ses'.made = ses.made
      BY <3>2, <3>4, <3>5, <3>7
    <3>9. SessionTypeOK'
      <4>1. linked \in [Conns -> Sessions \cup {NoOne}]
        BY <3>6 DEF SessionTypeOK
      <4>2. /\ [r \in Receivers |-> IF ses.at[r] = d THEN NoOne ELSE ses.at[r]]
                 \in [Receivers -> Conns \cup {NoOne}]
            /\ [ses.open EXCEPT ![ses.conn[d]] = "freed"]
                 \in [Sessions -> {"unused", "open", "freed"}]
        BY DEF SessionTypeOK
      <4> QED BY <3>2, <3>4, <3>5, <3>7, <4>1, <4>2 DEF SessionTypeOK
    <3>10. HeldOnce'
      BY <2>1, <2>5, <3>1, <3>6, <3>8 DEF HeldOnce, SessionTypeOK, LiveConn
    <3>11. HeldAtAll'
      BY <2>5, <3>1, <3>6, <3>8 DEF HeldAtAll, HeldOnce, SessionTypeOK, NullSession
    <3>12. Homes' /\ NewIsSilent'
      BY <2>1, <3>6, <3>8 DEF Homes, NewIsSilent, SessionTypeOK
    <3>13. NoticesReachTheHolder'
      BY <2>1, <3>6, <3>8 DEF NoticesReachTheHolder, SessionTypeOK
    <3> QED BY <3>9, <3>10, <3>11, <3>12, <3>13
  <2> QED BY <2>4, <2>5
<1> QED BY <1>1, <1>2

\* A handler enters and leaves the connection's list and has its home together.
LEMMA UnhandleHolds ==
  ASSUME NullSession, HeldInv, NEW h \in Handlers, Unhandle(h)
  PROVE  HeldInv'
<1> USE DEF HeldInv
<1>1. PICK c \in Conns : c = ses.home[h] /\ h \in ses.handlers[c]
  BY DEF Unhandle, SessionTypeOK, Homes
<1>2. ses.conn[c] \in Sessions
  BY <1>1 DEF Homes, SessionTypeOK
<1>3. PICK rest : rest = ses.handlers[c] \ {h}
  OBVIOUS
<1>4. PICK notices : notices = IF rest = {} THEN [ses.notices EXCEPT ![ses.conn[c]] = NoOne]
                                ELSE ses.notices
  OBVIOUS
<1>5. ses' = [ses EXCEPT !.home = [ses.home EXCEPT ![h] = NoOne],
                         !.handlers = [ses.handlers EXCEPT ![c] = rest],
                         !.notices = notices]
  <2>1. PICK kept : kept = [ses EXCEPT !.home[h] = NoOne, !.handlers[c] = rest]
    OBVIOUS
  <2>2. kept = [ses EXCEPT !.home = [ses.home EXCEPT ![h] = NoOne],
                           !.handlers = [ses.handlers EXCEPT ![c] = rest]]
    BY <2>1 DEF SessionTypeOK
  <2>3. ses' = IF rest = {} THEN [kept EXCEPT !.notices[ses.conn[c]] = NoOne] ELSE kept
    BY <1>1, <1>2, <1>3, <2>1 DEF Unhandle, LetGo, NullSession
  <2>4. kept.notices = ses.notices
    BY <2>2 DEF SessionTypeOK
  <2> QED BY <1>4, <2>2, <2>3, <2>4 DEF SessionTypeOK
<1>6. /\ notices \in [Sessions -> Conns \cup {NoOne}]
      /\ [ses.home EXCEPT ![h] = NoOne] \in [Handlers -> Conns \cup {NoOne}]
      /\ [ses.handlers EXCEPT ![c] = rest] \in [Conns -> SUBSET Handlers]
  BY <1>2, <1>3, <1>4 DEF SessionTypeOK
<1>7. SessionTypeOK'
  BY <1>5, <1>6 DEF SessionTypeOK
<1>8. /\ ses'.life = ses.life /\ ses'.conn = ses.conn /\ ses'.open = ses.open
      /\ ses'.home = [ses.home EXCEPT ![h] = NoOne]
      /\ ses'.handlers = [ses.handlers EXCEPT ![c] = rest]
      /\ ses'.notices = notices /\ ses'.made = ses.made
  BY <1>5 DEF SessionTypeOK
<1>9. HeldOnce' /\ HeldAtAll'
  BY <1>8 DEF HeldOnce, HeldAtAll, LiveConn
<1>10. Homes'
  BY <1>1, <1>3, <1>8 DEF Homes, SessionTypeOK, NullSession
<1>11. NewIsSilent'
  BY <1>2, <1>4, <1>8 DEF NewIsSilent, SessionTypeOK
<1>12. NoticesReachTheHolder'
  <2>1. \A d \in Conns : d # c /\ ses.conn[d] # NoOne => ses.conn[d] # ses.conn[c]
    BY DEF HeldOnce
  <2>2. c # NoOne /\ ses.handlers[c] # {}
    BY <1>1 DEF NullSession
  <2> QED BY <1>2, <1>3, <1>4, <1>8, <2>1, <2>2 DEF NoticesReachTheHolder, SessionTypeOK
<1> QED BY <1>7, <1>9, <1>10, <1>11, <1>12

\* A handler that registers keeps it.
LEMMA HandleHolds ==
  ASSUME NullSession, "closed" \notin SessionHabits, HeldInv, NEW h \in Handlers, NEW c \in Conns,
         Handle(h, c)
  PROVE  HeldInv'
<1> USE DEF HeldInv
<1>0. ses.home[h] = NoOne
  BY DEF Handle, Homes
<1>1. ses.conn[c] \in Sessions
  BY DEF Handle, SessionTypeOK
<1>2. PICK notices : notices = IF ses.handlers[c] = {}
                               THEN [ses.notices EXCEPT ![ses.conn[c]] = c] ELSE ses.notices
  OBVIOUS
<1>3. ses' = [ses EXCEPT !.notices = notices,
                         !.handlers = [ses.handlers EXCEPT ![c] = ses.handlers[c] \cup {h}],
                         !.home = [ses.home EXCEPT ![h] = c], !.made = ses.made \cup {h}]
  <2>1. PICK set : set = SetWhenEmpty(ses, c)
    OBVIOUS
  <2>2. set = [ses EXCEPT !.notices = notices]
    BY <1>1, <1>2, <2>1 DEF SetWhenEmpty, SessionTypeOK, NullSession
  <2>3. ses' = [set EXCEPT !.handlers[c] = set.handlers[c] \cup {h}, !.home[h] = c,
                           !.made = set.made \cup {h}]
    BY <2>1 DEF Handle
  <2>4. set.handlers = ses.handlers /\ set.home = ses.home /\ set.made = ses.made
    BY <2>2 DEF SessionTypeOK
  <2> QED BY <2>2, <2>3, <2>4 DEF SessionTypeOK
<1>4. /\ notices \in [Sessions -> Conns \cup {NoOne}]
      /\ [ses.home EXCEPT ![h] = c] \in [Handlers -> Conns \cup {NoOne}]
      /\ [ses.handlers EXCEPT ![c] = ses.handlers[c] \cup {h}] \in [Conns -> SUBSET Handlers]
  BY <1>1, <1>2 DEF SessionTypeOK
<1>5. SessionTypeOK'
  BY <1>3, <1>4 DEF SessionTypeOK
<1>6. /\ ses'.life = ses.life /\ ses'.conn = ses.conn /\ ses'.open = ses.open
      /\ ses'.home = [ses.home EXCEPT ![h] = c]
      /\ ses'.handlers = [ses.handlers EXCEPT ![c] = ses.handlers[c] \cup {h}]
      /\ ses'.notices = notices /\ ses'.made = ses.made \cup {h}
  BY <1>3 DEF SessionTypeOK
<1>7. HeldOnce' /\ HeldAtAll'
  BY <1>6 DEF HeldOnce, HeldAtAll, LiveConn
<1>8. Homes'
  BY <1>0, <1>1, <1>6 DEF Homes, SessionTypeOK, NullSession
<1>9. NewIsSilent'
  BY <1>1, <1>2, <1>6 DEF NewIsSilent, HeldOnce, SessionTypeOK, NullSession
<1>10. NoticesReachTheHolder'
  <2>1. \A d \in Conns : d # c /\ ses.conn[d] # NoOne => ses.conn[d] # ses.conn[c]
    BY DEF HeldOnce
  <2>2. ses'.handlers[c] # {}
    BY <1>6 DEF SessionTypeOK
  <2>4. notices[ses.conn[c]] = c
    <3>1. ses.conn[c] # NoOne
      BY <1>1 DEF NullSession
    <3>2. CASE ses.handlers[c] = {}
      <4>1. notices = [ses.notices EXCEPT ![ses.conn[c]] = c]
        BY <1>2, <3>2
      <4> QED BY <1>1, <4>1 DEF SessionTypeOK
    <3>3. CASE ses.handlers[c] # {}
      BY <1>2, <3>1, <3>3 DEF NoticesReachTheHolder
    <3> QED BY <3>2, <3>3
  <2>3. ASSUME NEW d \in Conns, d # c, ses.conn[d] # NoOne
        PROVE  /\ ses'.handlers[d] = ses.handlers[d]
               /\ notices[ses.conn[d]] = ses.notices[ses.conn[d]]
    BY <1>1, <1>2, <1>6, <2>1, <2>3 DEF SessionTypeOK
  <2> QED BY <1>6, <2>2, <2>3, <2>4 DEF NoticesReachTheHolder
<1> QED BY <1>5, <1>7, <1>8, <1>9, <1>10

\* What a transaction does keeps it.
LEMMA TransactionHolds ==
  ASSUME NullSession, HeldInv, NEW c \in Conns, BeginTransaction(c) \/ FailIn(c) \/ EndTransaction(c)
  PROVE  HeldInv'
<1> USE DEF HeldInv
<1>1. CASE \E s \in {"none", "open", "failed"} : ses' = [ses EXCEPT !.trans[c] = s]
  <2>1. PICK s \in {"none", "open", "failed"} : ses' = [ses EXCEPT !.trans[c] = s]
    BY <1>1
  <2>2. SessionTypeOK'
    BY <2>1 DEF SessionTypeOK
  <2>3. /\ ses'.life = ses.life /\ ses'.conn = ses.conn /\ ses'.handlers = ses.handlers
        /\ ses'.home = ses.home /\ ses'.open = ses.open
        /\ ses'.notices = ses.notices /\ ses'.made = ses.made
    BY <2>1 DEF SessionTypeOK
  <2> QED BY <2>2, <2>3, Untouched
<1>2. CASE EndTransaction(c) /\ ses.conn[c] # NoOne
  <2>1. PICK p \in Sessions : p = ses.conn[c]
    BY <1>2 DEF SessionTypeOK
  <2>2. \/ ses' = [[ses EXCEPT !.trans[c] = "none"] EXCEPT !.listens[p] = ses.will[p]]
        \/ ses' = [[ses EXCEPT !.trans[c] = "none"] EXCEPT !.will[p] = ses.listens[p]]
    BY <1>2, <2>1 DEF EndTransaction
  <2>3. CASE ses' = [[ses EXCEPT !.trans[c] = "none"] EXCEPT !.listens[p] = ses.will[p]]
    BY <2>3, Untouched DEF SessionTypeOK
  <2>4. CASE ses' = [[ses EXCEPT !.trans[c] = "none"] EXCEPT !.will[p] = ses.listens[p]]
    BY <2>4, Untouched DEF SessionTypeOK
  <2> QED BY <2>2, <2>3, <2>4
<1> QED BY <1>1, <1>2 DEF BeginTransaction, FailIn, EndTransaction

\* A receiver that registers keeps it.
LEMMA AddReceiverHolds ==
  ASSUME NullSession, HeldInv, NEW r \in Receivers, NEW c \in Conns, AddReceiver(r, c)
  PROVE  HeldInv'
<1> USE DEF HeldInv
<1>1. PICK ch \in Channels : ch = ses.channel[r]
  BY DEF SessionTypeOK
<1>2. CASE ses' = [ses EXCEPT !.at[r] = c, !.made = @ \cup {r}]
  BY <1>2, Untouched DEF SessionTypeOK
<1>3. CASE ses' = [ses EXCEPT !.trans[c] = IF @ = "none" THEN @ ELSE "failed"]
  BY <1>3, Untouched DEF SessionTypeOK
<1>4. CASE /\ ses.conn[c] # NoOne
           /\ ses' = [Listening(ses, c, LAMBDA S : S \cup {ses.channel[r]})
                        EXCEPT !.at[r] = c, !.made = @ \cup {r}]
  <2>1. PICK p \in Sessions : p = ses.conn[c]
    BY <1>4 DEF SessionTypeOK
  <2>2. PICK set : set = Listening(ses, c, LAMBDA S : S \cup {ses.channel[r]})
    OBVIOUS
  <2>3. ses' = [set EXCEPT !.at[r] = c, !.made = @ \cup {r}]
    BY <1>4, <2>2
  <2>4. PICK will \in [Sessions -> SUBSET Channels], listens \in [Sessions -> SUBSET Channels] :
          set = [ses EXCEPT !.will = will, !.listens = listens]
    <3>1. PICK will : will = [ses.will EXCEPT ![p] = @ \cup {ch}]
      OBVIOUS
    <3>2. will \in [Sessions -> SUBSET Channels]
      BY <3>1 DEF SessionTypeOK
    <3>3. CASE ses.trans[c] = "none"
      <4>1. set = [ses EXCEPT !.will = will, !.listens = [ses.listens EXCEPT ![p] = will[p]]]
        BY <1>1, <2>1, <2>2, <3>1, <3>3 DEF Listening, SessionTypeOK
      <4>2. [ses.listens EXCEPT ![p] = will[p]] \in [Sessions -> SUBSET Channels]
        BY <3>2 DEF SessionTypeOK
      <4> QED BY <3>2, <4>1, <4>2
    <3>4. CASE ses.trans[c] # "none"
      <4>1. set = [ses EXCEPT !.will = will]
        BY <1>1, <2>1, <2>2, <3>1, <3>4 DEF Listening, SessionTypeOK
      <4>2. set = [ses EXCEPT !.will = will, !.listens = ses.listens]
        BY <4>1 DEF SessionTypeOK
      <4> QED BY <3>2, <4>2 DEF SessionTypeOK
    <3> QED BY <3>3, <3>4
  <2> QED BY <2>3, <2>4, Untouched DEF SessionTypeOK
<1> QED BY <1>1, <1>2, <1>3, <1>4 DEF AddReceiver, Works

\* A receiver that goes keeps it.
LEMMA RemoveReceiverHolds ==
  ASSUME NullSession, HeldInv, NEW r \in Receivers, RemoveReceiver(r)
  PROVE  HeldInv'
<1> USE DEF HeldInv
<1>1. PICK c \in Conns : c = ses.at[r]
  BY DEF RemoveReceiver, SessionTypeOK
<1>2. PICK ch \in Channels : ch = ses.channel[r]
  BY DEF SessionTypeOK
<1>3. PICK erased : erased = [ses EXCEPT !.at[r] = NoOne]
  OBVIOUS
<1>4. CASE ses' = erased
  BY <1>3, <1>4, Untouched DEF SessionTypeOK
<1>5. CASE /\ Works(erased, c)
           /\ ses' = Listening(erased, c, LAMBDA S : S \ {ses.channel[r]})
  <2>1. PICK p \in Sessions : p = ses.conn[c]
    BY <1>3, <1>5 DEF Works, SessionTypeOK
  <2>2. /\ erased.conn[c] = p /\ erased.will = ses.will /\ erased.listens = ses.listens
        /\ erased.trans = ses.trans
    BY <1>3, <2>1 DEF SessionTypeOK
  <2>3. PICK will \in [Sessions -> SUBSET Channels], listens \in [Sessions -> SUBSET Channels] :
          ses' = [erased EXCEPT !.will = will, !.listens = listens]
    <3>1. PICK will : will = [ses.will EXCEPT ![p] = @ \ {ch}]
      OBVIOUS
    <3>2. will \in [Sessions -> SUBSET Channels]
      BY <3>1 DEF SessionTypeOK
    <3>3. CASE ses.trans[c] = "none"
      <4>1. ses' = [erased EXCEPT !.will = will, !.listens = [ses.listens EXCEPT ![p] = will[p]]]
        BY <1>2, <1>3, <1>5, <2>2, <3>1, <3>3 DEF Listening, SessionTypeOK
      <4>2. [ses.listens EXCEPT ![p] = will[p]] \in [Sessions -> SUBSET Channels]
        BY <3>2 DEF SessionTypeOK
      <4> QED BY <3>2, <4>1, <4>2
    <3>4. CASE ses.trans[c] # "none"
      <4>1. ses' = [erased EXCEPT !.will = will]
        BY <1>2, <1>3, <1>5, <2>2, <3>1, <3>4 DEF Listening, SessionTypeOK
      <4>2. ses' = [erased EXCEPT !.will = will, !.listens = ses.listens]
        BY <1>3, <4>1 DEF SessionTypeOK
      <4> QED BY <3>2, <4>2 DEF SessionTypeOK
    <3> QED BY <3>3, <3>4
  <2> QED BY <1>3, <2>3, Untouched DEF SessionTypeOK
<1> QED BY <1>1, <1>3, <1>4, <1>5 DEF RemoveReceiver

\* Every step keeps it.
LEMMA HeldStepInv ==
  ASSUME NullSession, "closed" \notin SessionHabits, HeldInv, [SessionNext]_ses
  PROVE  HeldInv'
<1>1. CASE UNCHANGED ses
  BY <1>1, Untouched DEF HeldInv, SessionTypeOK
<1>2. CASE SessionNext
  BY <1>2, ConnectHolds, CloseHolds, TransactionHolds, MoveHolds, AssignHolds, HandleHolds,
     UnhandleHolds, AddReceiverHolds, RemoveReceiverHolds DEF SessionNext
<1> QED BY <1>1, <1>2

\* It is enough.
LEMMA HoldsOnce ==
  ASSUME NullSession, HeldInv
  PROVE  SessionHeld
<1> USE DEF HeldInv
<1>1. ASSUME NEW p \in Sessions, ses.open[p] = "open"
      PROVE  Cardinality({c \in Conns : LiveConn(c) /\ ses.conn[c] = p}) = 1
  <2>1. PICK c \in Conns : ses.conn[c] = p
    BY <1>1 DEF HeldAtAll
  <2>2. {d \in Conns : LiveConn(d) /\ ses.conn[d] = p} = {c}
    BY <2>1 DEF HeldOnce, NullSession
  <2> QED BY <2>2, FS_Singleton
<1>2. HeldByOne
  BY <1>1 DEF HeldByOne, HeldOnce, NullSession
<1>3. HandlersKnowTheirHome
  BY DEF HandlersKnowTheirHome, Homes, HeldOnce
<1> QED BY <1>2, <1>3 DEF SessionHeld

\* However connections are opened, moved, assigned and closed, in whatever order with the
\* handlers registered on them: no session leaks or is held twice, its notices reach who
\* holds it, and no handler refers to a connection that is no more, if handlers are made
\* for open connections only (connection.cxx:204, :744, errorhandler.cxx:29).
THEOREM HeldAlways ==
  ASSUME NullSession, "closed" \notin SessionHabits
  PROVE  SessionSpec => []SessionHeld
<1>1. SessionInit => HeldInv
  BY HeldInitInv
<1>2. HeldInv /\ [SessionNext]_ses => HeldInv'
  BY HeldStepInv
<1>3. HeldInv => SessionHeld
  BY HoldsOnce
<1> QED BY <1>1, <1>2, <1>3, PTL DEF SessionSpec

-----------------------------------------------------------------------------
(* The registration of foci that move.                                       *)

\* A live stream is registered as long as it has a COPY to complete, since
\* complete() ends both.
Together ==
  \A f \in Streams :
    /\ LiveStream(f) => (foc.registered[f] <=> ~foc.finished[f])
    /\ foc.life[f] = "unborn" => ~foc.finished[f]

Copying == \A t \in Transactions : foc.copying[t] <=> foc.focus[t] # Nobody

FocusInv == FocusTypeOK /\ FocusIsRegistered /\ Together /\ Copying

\* Nothing is open at first.
LEMMA FocusInitInv ==
  ASSUME Nobody \notin Streams, FocusInit
  PROVE  FocusInv
<1>1. PICK t \in Transactions :
        foc = [focus |-> [u \in Transactions |-> Nobody],
               copying |-> [u \in Transactions |-> FALSE],
               life |-> [f \in Streams |-> "unborn"], trans |-> [f \in Streams |-> t],
               registered |-> [f \in Streams |-> FALSE],
               finished |-> [f \in Streams |-> FALSE], notices |-> FALSE]
  BY DEF FocusInit
<1>2. FocusTypeOK
  BY <1>1 DEF FocusTypeOK
<1>3. FocusIsRegistered /\ Together /\ Copying
  BY <1>1 DEF FocusIsRegistered, Together, Copying, LiveStream
<1> QED BY <1>2, <1>3 DEF FocusInv

\* What a move does: g has f's transaction, and its registration if it had one; f
\* has nothing left to complete.
Moved(g, f) ==
  [focus |-> IF foc.registered[f]
             THEN [foc.focus EXCEPT ![foc.trans[f]] = g] ELSE foc.focus,
   copying |-> foc.copying,
   life |-> [foc.life EXCEPT ![g] = "live"],
   trans |-> [foc.trans EXCEPT ![g] = foc.trans[f]],
   registered |-> [foc.registered EXCEPT ![g] = foc.registered[f], ![f] = FALSE],
   finished |-> [foc.finished EXCEPT ![g] = foc.finished[f], ![f] = TRUE],
   notices |-> foc.notices]

\* What the move constructor of a stream leaves (stream_to.hxx:162, transaction_focus.hxx:103).
LEMMA MoveEffect ==
  ASSUME Nobody \notin Streams, FocusInv, NEW f \in Streams, NEW g \in Streams, Move(g, f)
  PROVE  foc' = Moved(g, f)
<1> USE DEF FocusInv, FocusTypeOK, Moved
<1>1. f # g /\ foc' = MoveStream(foc, g, f)
  BY DEF Move, LiveStream
<1>2. PICK copied : copied = [foc EXCEPT !.life[g] = "live", !.trans[g] = foc.trans[f],
                                       !.registered[g] = foc.registered[f]]
  OBVIOUS
<1>3. copied = [focus |-> foc.focus, copying |-> foc.copying,
                life |-> [foc.life EXCEPT ![g] = "live"],
                trans |-> [foc.trans EXCEPT ![g] = foc.trans[f]],
                registered |-> [foc.registered EXCEPT ![g] = foc.registered[f]],
                finished |-> foc.finished, notices |-> foc.notices]
  BY <1>2
<1>4. MoveFocus(foc, g, f) =
        IF foc.registered[f] THEN RegisterMe(UnregisterMe(copied, f), g) ELSE copied
  BY <1>2 DEF MoveFocus
<1>5. PICK moved : moved = MoveFocus(foc, g, f)
  OBVIOUS
<1>6. foc' = [moved EXCEPT !.finished[g] = foc.finished[f], !.finished[f] = TRUE]
  BY <1>1, <1>5 DEF MoveStream
<1>7. CASE foc.registered[f]
  <2>1. foc.focus[foc.trans[f]] = f
    BY <1>7 DEF FocusIsRegistered, Move
  <2>2. PICK freed : freed = UnregisterMe(copied, f)
    OBVIOUS
  <2>3. freed =
          [focus |-> [foc.focus EXCEPT ![foc.trans[f]] = Nobody], copying |-> foc.copying,
           life |-> [foc.life EXCEPT ![g] = "live"],
           trans |-> [foc.trans EXCEPT ![g] = foc.trans[f]],
           registered |-> [foc.registered EXCEPT ![g] = foc.registered[f], ![f] = FALSE],
           finished |-> foc.finished, notices |-> foc.notices]
    BY <1>1, <1>3, <1>7, <2>1, <2>2 DEF UnregisterMe
  <2>4. moved =
          [focus |-> [foc.focus EXCEPT ![foc.trans[f]] = g], copying |-> foc.copying,
           life |-> [foc.life EXCEPT ![g] = "live"],
           trans |-> [foc.trans EXCEPT ![g] = foc.trans[f]],
           registered |-> [foc.registered EXCEPT ![g] = foc.registered[f], ![f] = FALSE],
           finished |-> foc.finished, notices |-> foc.notices]
    <3>1. freed.trans[g] = foc.trans[f] /\ freed.focus[foc.trans[f]] = Nobody
      BY <1>1, <2>3
    <3>2. moved = [freed EXCEPT !.focus[foc.trans[f]] = g, !.registered[g] = TRUE]
      BY <1>4, <1>5, <1>7, <2>2, <3>1 DEF RegisterMe, MayRegister
    <3>3. [freed.focus EXCEPT ![foc.trans[f]] = g] = [foc.focus EXCEPT ![foc.trans[f]] = g]
      BY <2>3
    <3>4. [freed.registered EXCEPT ![g] = TRUE]
            = [foc.registered EXCEPT ![g] = foc.registered[f], ![f] = FALSE]
      BY <1>1, <1>7, <2>3
    <3>5. moved = [freed EXCEPT !.focus = [freed.focus EXCEPT ![foc.trans[f]] = g],
                                !.registered = [freed.registered EXCEPT ![g] = TRUE]]
      BY <2>3, <3>2
    <3> QED BY <2>3, <3>3, <3>4, <3>5
  <2>5. foc' = [moved EXCEPT !.finished = [foc.finished EXCEPT ![g] = foc.finished[f],
                                                               ![f] = TRUE]]
    BY <1>1, <1>6, <2>4
  <2> QED BY <1>7, <2>4, <2>5
<1>8. CASE ~ foc.registered[f]
  <2>1. moved = copied
    BY <1>4, <1>5, <1>8
  <2>2. foc' = [moved EXCEPT !.finished = [foc.finished EXCEPT ![g] = foc.finished[f],
                                                               ![f] = TRUE]]
    BY <1>1, <1>6, <1>3, <2>1
  <2>3. [foc.registered EXCEPT ![g] = foc.registered[f], ![f] = FALSE]
          = [foc.registered EXCEPT ![g] = foc.registered[f]]
    BY <1>1, <1>8
  <2> QED BY <1>3, <1>8, <2>1, <2>2, <2>3
<1> QED BY <1>7, <1>8

\* A move takes the registration along, so that it stays the session's.
LEMMA MovePreserves ==
  ASSUME Nobody \notin Streams, FocusInv, NEW f \in Streams, NEW g \in Streams, Move(g, f)
  PROVE  FocusInv'
<1> USE DEF FocusInv, FocusTypeOK, Moved
<1>1. f # g /\ LiveStream(f) /\ foc.life[g] = "unborn"
  BY DEF Move, LiveStream
<1>2. \A t \in Transactions : foc.focus[t] # g
  BY <1>1 DEF FocusIsRegistered, LiveStream
<1>3. foc' = Moved(g, f)
  BY MoveEffect
<1>4. FocusTypeOK'
  BY <1>3
<1>5. FocusIsRegistered'
  BY <1>1, <1>2, <1>3 DEF FocusIsRegistered, LiveStream
<1>6. Together'
  BY <1>1, <1>3 DEF Together, LiveStream
<1>7. Copying'
  BY <1>1, <1>3 DEF Copying, FocusIsRegistered
<1> QED BY <1>4, <1>5, <1>6, <1>7

\* What complete() does while f has something left: it is registered, so that
\* unregister_me finds it.
Ended(f) ==
  [focus |-> [foc.focus EXCEPT ![foc.trans[f]] = Nobody],
   copying |-> [foc.copying EXCEPT ![foc.trans[f]] = FALSE],
   life |-> foc.life, trans |-> foc.trans,
   registered |-> [foc.registered EXCEPT ![f] = FALSE],
   finished |-> [foc.finished EXCEPT ![f] = TRUE],
   notices |-> foc.notices]

\* What complete() leaves (stream_to.cxx:117).
LEMMA CompletedEffect ==
  ASSUME FocusInv, NEW f \in Streams, LiveStream(f), ~foc.finished[f]
  PROVE  Completed(foc, f) = Ended(f)
<1> USE DEF FocusInv, FocusTypeOK, Ended
<1>1. foc.focus[foc.trans[f]] = f
  BY DEF FocusIsRegistered, Together
<1>2. PICK ended : ended = [foc EXCEPT !.finished[f] = TRUE]
  OBVIOUS
<1>3. ended = [focus |-> foc.focus, copying |-> foc.copying, life |-> foc.life,
               trans |-> foc.trans, registered |-> foc.registered,
               finished |-> [foc.finished EXCEPT ![f] = TRUE], notices |-> foc.notices]
  BY <1>2
<1>4. PICK freed : freed = UnregisterMe(ended, f)
  OBVIOUS
<1>5. freed = [ended EXCEPT !.focus[foc.trans[f]] = Nobody, !.registered[f] = FALSE]
  BY <1>1, <1>3, <1>4 DEF UnregisterMe
<1>6. freed = [focus |-> [foc.focus EXCEPT ![foc.trans[f]] = Nobody],
              copying |-> foc.copying, life |-> foc.life, trans |-> foc.trans,
              registered |-> [foc.registered EXCEPT ![f] = FALSE],
              finished |-> [foc.finished EXCEPT ![f] = TRUE], notices |-> foc.notices]
  BY <1>3, <1>5
<1>7. Completed(foc, f) = [freed EXCEPT !.copying[foc.trans[f]] = FALSE]
  BY <1>2, <1>4 DEF Completed
<1> QED BY <1>6, <1>7

\* complete() ends the COPY and the registration together.
LEMMA CompletePreserves ==
  ASSUME Nobody \notin Streams, FocusInv, NEW f \in Streams, Complete(f)
  PROVE  FocusInv'
<1> USE DEF FocusInv, FocusTypeOK, Ended
<1>1. LiveStream(f) /\ foc' = Completed(foc, f)
  BY DEF Complete
<1>2. CASE foc.finished[f]
  <2>1. foc' = foc
    BY <1>1, <1>2 DEF Completed
  <2> QED BY <2>1 DEF FocusIsRegistered, Together, Copying, LiveStream
<1>3. CASE ~ foc.finished[f]
  <2>1. foc.focus[foc.trans[f]] = f
    BY <1>1, <1>3 DEF FocusIsRegistered, Together
  <2>2. foc' = Ended(f)
    BY <1>1, <1>3, CompletedEffect
  <2>3. FocusTypeOK'
    BY <2>2
  <2>4. FocusIsRegistered'
    BY <1>1, <2>1, <2>2 DEF FocusIsRegistered, LiveStream
  <2>5. Together'
    BY <1>1, <2>2 DEF Together, LiveStream
  <2>6. Copying'
    BY <2>2 DEF Copying
  <2> QED BY <2>3, <2>4, <2>5, <2>6
<1> QED BY <1>2, <1>3

\* The destructor completes a stream that is not finished, and does nothing otherwise.
LEMMA DestroyPreserves ==
  ASSUME Nobody \notin Streams, FocusInv, NEW f \in Streams, DestroyStream(f)
  PROVE  FocusInv'
<1> USE DEF FocusInv, FocusTypeOK, Ended
<1>1. LiveStream(f) /\ foc' = [Completed(foc, f) EXCEPT !.life[f] = "dead"]
  BY DEF DestroyStream
<1>2. CASE foc.finished[f]
  <2>1. foc' = [foc EXCEPT !.life[f] = "dead"]
    BY <1>1, <1>2 DEF Completed
  <2>2. \A t \in Transactions : foc.focus[t] # f
    BY <1>1, <1>2 DEF FocusIsRegistered, Together
  <2>3. FocusTypeOK'
    BY <2>1
  <2>4. FocusIsRegistered'
    BY <1>1, <1>2, <2>1, <2>2 DEF FocusIsRegistered, LiveStream
  <2>5. Together' /\ Copying'
    BY <2>1 DEF Together, Copying, LiveStream
  <2> QED BY <2>3, <2>4, <2>5
<1>3. CASE ~ foc.finished[f]
  <2>1. foc.focus[foc.trans[f]] = f
    BY <1>1, <1>3 DEF FocusIsRegistered, Together
  <2>2. foc' = [Ended(f) EXCEPT !.life = [foc.life EXCEPT ![f] = "dead"]]
    <3>1. PICK ended : ended = Completed(foc, f)
      OBVIOUS
    <3>2. ended = Ended(f)
      BY <1>1, <1>3, <3>1, CompletedEffect
    <3>3. foc' = [ended EXCEPT !.life[f] = "dead"]
      BY <1>1, <3>1
    <3> QED BY <3>2, <3>3
  <2>3. FocusTypeOK'
    BY <2>2
  <2>4. FocusIsRegistered'
    BY <1>1, <2>1, <2>2 DEF FocusIsRegistered, LiveStream
  <2>5. Together'
    BY <1>1, <2>2 DEF Together, LiveStream
  <2>6. Copying'
    BY <2>2 DEF Copying
  <2> QED BY <2>3, <2>4, <2>5, <2>6
<1> QED BY <1>2, <1>3

\* A stream is opened on a transaction without a focus only.
LEMMA OpenPreserves ==
  ASSUME Nobody \notin Streams, FocusInv, NEW f \in Streams, NEW t \in Transactions, Open(f, t)
  PROVE  FocusInv'
<1> USE DEF FocusInv, FocusTypeOK
<1>1. CASE UNCHANGED foc
  BY <1>1 DEF FocusIsRegistered, Together, Copying, LiveStream
<1>2. CASE foc.focus[t] = Nobody /\ foc' # foc
  <2>1. PICK made : made = [foc EXCEPT !.life[f] = "live", !.trans[f] = t, !.copying[t] = TRUE]
    OBVIOUS
  <2>2. made = [focus |-> foc.focus, copying |-> [foc.copying EXCEPT ![t] = TRUE],
                life |-> [foc.life EXCEPT ![f] = "live"],
                trans |-> [foc.trans EXCEPT ![f] = t],
                registered |-> foc.registered, finished |-> foc.finished,
                notices |-> foc.notices]
    BY <2>1
  <2>3. foc' = [made EXCEPT !.focus[t] = f, !.registered[f] = TRUE]
    BY <1>2, <2>1, <2>2 DEF Open, RegisterMe, MayRegister
  <2>4. foc' = [focus |-> [foc.focus EXCEPT ![t] = f],
                copying |-> [foc.copying EXCEPT ![t] = TRUE],
                life |-> [foc.life EXCEPT ![f] = "live"],
                trans |-> [foc.trans EXCEPT ![f] = t],
                registered |-> [foc.registered EXCEPT ![f] = TRUE],
                finished |-> foc.finished, notices |-> foc.notices]
    BY <2>2, <2>3
  <2>5. FocusTypeOK'
    BY <2>4
  <2>6. FocusIsRegistered'
    BY <1>2, <2>4 DEF FocusIsRegistered, Open, LiveStream
  <2>7. Together'
    BY <2>4 DEF Together, Open, LiveStream
  <2>8. Copying'
    BY <2>4 DEF Copying
  <2> QED BY <2>5, <2>6, <2>7, <2>8
<1> QED BY <1>1, <1>2 DEF Open

\* Every step keeps the invariant.
LEMMA FocusStepInv ==
  ASSUME Nobody \notin Streams, FocusInv, [FocusNext]_foc
  PROVE  FocusInv'
<1>1. CASE UNCHANGED foc
  BY <1>1 DEF FocusInv, FocusTypeOK, FocusIsRegistered, Together, Copying, LiveStream
<1>2. CASE FocusNext
  BY <1>2, OpenPreserves, MovePreserves, CompletePreserves, DestroyPreserves DEF FocusNext
<1> QED BY <1>1, <1>2

\* The invariant says that the focus is sound.
LEMMA FocusInvSound ==
  ASSUME Nobody \notin Streams, FocusInv
  PROVE  FocusSound
BY DEF FocusInv, FocusTypeOK, FocusIsRegistered, Together, Copying, LiveStream,
       FocusSound, CopyHasOneStream

\* Whatever streams are opened, moved, completed and destroyed over whatever
\* transactions, the pointers of both agree, and a session that copies has the one
\* live stream that will end the COPY (transaction_focus.hxx:63, stream_to.hxx:162).
THEOREM FocusSoundAlways ==
  ASSUME Nobody \notin Streams
  PROVE  FocusSpec => []FocusSound
<1>1. FocusInit => FocusInv
  BY FocusInitInv
<1>2. FocusInv /\ [FocusNext]_foc => FocusInv'
  BY FocusStepInv
<1>3. FocusInv => FocusSound
  BY FocusInvSound
<1> QED BY <1>1, <1>2, <1>3, PTL DEF FocusSpec

-----------------------------------------------------------------------------
(* What perform() tells of the callback's work, whatever statements fail with.*)

\* What a transaction that is not about to commit can be at the server.
Uncommitted(s) == s \in {"none", "block", "aborted"}

\* PerformTellsTruth is not inductive: that a callback is not run again after what
\* may have taken effect rests on the exception that leaves it saying so, and that
\* on who lost the connection and what COMMIT did.  An exception without doubt that
\* comes after a query for the outcome says nothing of it, but is not tried again.
OutcomeInv ==
  /\ server \in {"none", "block", "committing", "committed", "aborted"}
  /\ commits = IF server = "committed" THEN 1 ELSE 0
  /\ pc \in {"call", "inside", "constraints", "commit", "asking", "raised", "returned",
             "thrown"}
  /\ asks \in Nat
  /\ pc \in {"call", "inside", "constraints", "commit"} => Uncommitted(server)
  /\ pc \in {"inside", "constraints", "commit"} => asks = 0
  /\ pc = "asking" => conn = "lost"
  /\ pc = "returned" => server = "committed"
  /\ pc \in {"raised", "thrown"} /\ ~Doubtful => Uncommitted(server) \/ asks # 0
  /\ pc = "raised" /\ ~Doubtful /\ ~Uncommitted(server) =>
       \A c \in Again : ~Is(raised, c)

\* Every class catches itself: an exception of doubt is not tried again.
LEMMA DoubtIsNotRetried ==
  ASSUME Doubtful
  PROVE  \E c \in NotAgain : Is(raised, c)
BY DEF Doubtful, NotAgain, Is

\* perform has not begun.
LEMMA OutcomeInitInv == OutcomeInit => OutcomeInv
<1> SUFFICES ASSUME OutcomeInit
             PROVE  OutcomeInv
  OBVIOUS
<1>1. pc \in {"call", "thrown"} /\ server = "none" /\ commits = 0 /\ asks = 0
  BY Zenon DEF OutcomeInit
<1> QED BY <1>1 DEF OutcomeInv, Uncommitted

\* COMMIT is answered by an exception: what leaves commit(), or goes on to ask, says
\* what may have happened.
LEMMA CommitErrorTells ==
  ASSUME NEW e, NEW open \in BOOLEAN, CommitError(e, open),
         ~Is(e, "broken_connection") \/ ~open
  PROVE  \/ pc' = "asking" /\ ~open
         \/ /\ pc' = "raised"
            /\ ~open \/ e = "statement_completion_unknown" => Doubtful'
BY DEF CommitError, CommitThrows, CommitFailed, Doubt, GoTo, Raise, Doubtful

\* Every line of perform, and whatever the server makes of a COMMIT, keeps the invariant.
LEMMA OutcomeStepInv ==
  ASSUME OutcomeHabits \cap {"remote", "conflict"} = {},
         OutcomeInv, [OutcomeNext]_outcomeVars
  PROVE  OutcomeInv'
<1> USE DEF OutcomeInv, Uncommitted
<1>1. CASE UNCHANGED outcomeVars
  BY <1>1 DEF outcomeVars, Doubtful
<1>2. CASE Dies
  BY <1>2 DEF Dies, Server, Doubtful
<1>3. CASE Resolves
  BY <1>3 DEF Resolves, Server, Doubtful
<1>4. CASE Begin
  BY <1>4 DEF Begin, Server, GoTo, Raise, Doubtful
<1>5. CASE Work
  BY <1>5 DEF Work, LosesConnection, Fails, Server, GoTo, Raise, Doubtful
<1>6. CASE CallCommit
  BY <1>6 DEF CallCommit, GoTo, Raise, Doubtful
<1>7. CASE Constraints
  BY <1>7 DEF Constraints, LosesConnection, Fails, Server, GoTo, Raise, Doubtful
<1>8. CASE SendCommit
  <2>1. CASE conn = "up" /\ Server("committed") /\ GoTo("returned")
    BY <1>8, <2>1 DEF SendCommit, Server, GoTo
  <2>2. ASSUME NEW c \in Codes, conn = "up", UNCHANGED conn,
               Is(ThrowSqlError(c), "broken_connection") => "remote" \in OutcomeHabits,
               \E s \in IF ThrowSqlError(c) = "statement_completion_unknown"
                        THEN {"committed", "aborted"} ELSE {"aborted"} : Server(s),
               CommitError(ThrowSqlError(c), TRUE)
        PROVE  OutcomeInv'
    <3>1. /\ pc' = "raised"
          /\ ThrowSqlError(c) = "statement_completion_unknown" => Doubtful'
      BY <2>2, CommitErrorTells
    <3>2. /\ server' \in {"committed", "aborted"}
          /\ server' = "committed" => ThrowSqlError(c) = "statement_completion_unknown"
          /\ commits' = IF server' = "committed" THEN 1 ELSE 0
          /\ asks' \in Nat
      BY <1>8, <2>2 DEF Server, SendCommit
    <3> QED BY <3>1, <3>2
  <2>3. CASE /\ conn' = "lost"
             /\ IF conn = "up" THEN \E s \in {"committed", "committing", "aborted"} : Server(s)
                ELSE Server("aborted")
             /\ CommitError("broken_connection", FALSE)
    <3>1. pc' = "asking" \/ (pc' = "raised" /\ Doubtful')
      BY <2>3, CommitErrorTells
    <3>2. /\ server' \in {"committed", "committing", "aborted"}
          /\ commits' = IF server' = "committed" THEN 1 ELSE 0
          /\ asks' \in Nat
      BY <1>8, <2>3 DEF Server, SendCommit
    <3> QED BY <2>3, <3>1, <3>2
  <2> QED BY <1>8, <2>1, <2>2, <2>3 DEF SendCommit
<1>9. CASE Ask
  <2>1. CASE AskAgain
    BY <1>9, <2>1 DEF Ask, AskAgain, CommitThrows, GoTo, Raise, Doubtful
  <2>2. ASSUME NEW e \in QueryErrors, CommitThrows(e)
        PROVE  OutcomeInv'
    <3>1. asks' # 0 /\ asks' \in Nat /\ pc' = "raised" /\ raised' = e
      BY <1>9, <2>2 DEF Ask, CommitThrows, Raise
    <3>2. \A c \in Again : ~Is(e, c)
      BY DEF QueryErrors, Again
    <3> QED BY <1>9, <3>1, <3>2 DEF Ask, Doubtful
  <2>3. CASE ~AskAgain /\ ~(\E e \in QueryErrors : CommitThrows(e))
    <3>1. GoTo("returned") /\ server = "committed"
      BY <1>9, <2>3 DEF Ask, Committed
    <3> QED BY <1>9, <3>1 DEF Ask, GoTo
  <2> QED BY <2>1, <2>2, <2>3
<1>10. CASE Catch
  <2>1. CASE pc' = "call"
    <3>1. ~Doubtful /\ \E c \in Again : Is(raised, c)
      BY <1>10, <2>1, DoubtIsNotRetried DEF Catch
    <3>2. Uncommitted(server)
      BY <1>10, <3>1 DEF Catch
    <3> QED BY <1>10, <2>1, <3>2 DEF Catch, Server
  <2>2. CASE pc' = "thrown"
    BY <1>10, <2>2 DEF Catch, Server, Doubtful
  <2> QED BY <1>10, <2>1, <2>2 DEF Catch
<1> QED BY <1>1, <1>2, <1>3, <1>4, <1>5, <1>6, <1>7, <1>8, <1>9, <1>10 DEF OutcomeNext, Perform

\* At its end perform says what the server has made of the transaction.
LEMMA OutcomeInvTells == OutcomeInv => PerformTellsTruth
BY DEF OutcomeInv, Uncommitted, PerformTellsTruth, AtMostOnce, ReturnMeansDone, FailureMeansNothing,
   DoubtIsTold

\* Whatever fails, however often and whenever the connection is lost, the callback's
\* work is committed once at most, perform returns only if it is, and an exception
\* without doubt means that it is not, unless it is that of a query for the outcome
\* (transactor.hxx:106, robusttransaction.cxx:148).  Assumed is that COMMIT does not
\* fail with a connection error on a connection that is up, nor the query for the
\* outcome with the rollback of a transaction.
THEOREM TruthAlways ==
  ASSUME OutcomeHabits \cap {"remote", "conflict"} = {}
  PROVE  OutcomeSpec => []PerformTellsTruth
<1>1. OutcomeInv /\ [OutcomeNext]_outcomeVars => OutcomeInv'
  BY OutcomeStepInv
<1> QED BY <1>1, OutcomeInitInv, OutcomeInvTells, PTL DEF OutcomeSpec

-----------------------------------------------------------------------------
(* The place of a cursor, which its client works out. *)

Clients == [at_end : {-1, 0, 1}, pos : Int, endpos : Int, adopted : BOOLEAN,
            owned : BOOLEAN]
Servers == [rows : Nat, at : Nat, scroll : BOOLEAN, open : BOOLEAN]

\* What a client c and the cursor s at the server have to do with each other: what c
\* knows of its place is so, and m_at_end is where s stands as far as the last move
\* could tell.
Knows(c, s) ==
  /\ c \in Clients /\ s \in Servers
  /\ s.at <= s.rows + 1
  /\ c.pos # -1 => c.pos = s.at
  /\ c.pos = -1 => c.adopted /\ c.endpos = -1
  /\ c.endpos # -1 => c.endpos = s.rows + 1
  /\ c.at_end = -1 => s.at = 0
  /\ c.at_end = 1 => s.at = s.rows + 1
  /\ c.at_end = 0 /\ c.pos # -1 => s.at \in 1..s.rows
-----------------------------------------------------------------------------
(* What adjust() makes of its members, in each of its cases: a move forwards  *)
(* or backwards, by as many rows as it was to be or by fewer.                *)

\* A move forwards over as many rows as were asked for (sql_cursor.cxx:205).
LEMMA ForwardFull ==
  ASSUME NEW c \in Clients, NEW n \in Int, n > 0,
         NEW pos \in Int, pos = IF c.pos >= 0 THEN c.pos + n ELSE c.pos
  PROVE  LET a == Adjust(c, n, n)
         IN  /\ a.cur \in Clients
             /\ a.cur.at_end = 0 /\ a.cur.pos = pos /\ a.cur.endpos = c.endpos
             /\ a.cur.adopted = c.adopted
             /\ a.displacement = n
             /\ ~ a.throws
<1>1. Direction(n) = 1 /\ Distance(n) = n /\ 1 * n = n
  BY DEF Direction, Distance
<1>2. PICK a : a = Adjust(c, n, n)
  OBVIOUS
<1>3. a.displacement = n
  BY <1>1, <1>2 DEF Adjust, Step
<1>4. a.cur.at_end = 0
  BY <1>1, <1>2 DEF Adjust, Step, AtEnd, Clients
<1>5. a.cur.pos = pos
  BY <1>1, <1>2 DEF Adjust, Step, AtEnd, Clients
<1>6. a.cur.endpos = c.endpos /\ a.cur.adopted = c.adopted
  BY <1>1, <1>2 DEF Adjust, Step, AtEnd, Clients
<1>7. a.cur \in Clients
  BY <1>1, <1>2 DEF Adjust, Step, AtEnd, Clients
<1>8. ~ a.throws
  BY <1>1, <1>2 DEF Adjust, Step
<1> QED BY <1>2, <1>3, <1>4, <1>5, <1>6, <1>7, <1>8

\* A move forwards that meets the end, which is then known (sql_cursor.cxx:174).
LEMMA ForwardShort ==
  ASSUME NEW c \in Clients, NEW n \in Int, NEW m \in Nat, m < n,
         NEW step \in Int, step = IF c.at_end # 1 THEN m + 1 ELSE m,
         NEW pos \in Int, pos = IF c.pos >= 0 THEN c.pos + step ELSE c.pos
  PROVE  LET a == Adjust(c, n, m)
         IN  /\ a.cur \in Clients
             /\ a.cur.at_end = 1 /\ a.cur.pos = pos /\ a.cur.endpos = pos
             /\ a.cur.adopted = c.adopted
             /\ a.displacement = step
             /\ a.throws <=> c.endpos >= 0 /\ pos # c.endpos
<1>1. Direction(n) = 1 /\ Distance(n) = n /\ 1 * step = step 
      /\ 1 * m = m /\ 1 * (m + 1) = (m + 1) /\ m # n /\ ~(m > n)
  BY DEF Direction, Distance
<1>2. PICK a : a = Adjust(c, n, m)
  OBVIOUS
<1>3. a.cur = [c EXCEPT !.at_end = 1, !.pos = pos, !.endpos = pos]
  <2>1. Step(c, 1, m # n, m) = step
    BY <1>1 DEF Step
  <2>2. a.cur = [c EXCEPT !.at_end = 1,
                          !.pos = IF c.pos >= 0
                                  THEN c.pos + 1 * Step(c, 1, m # n, m) ELSE c.pos,
                          !.endpos = IF c.pos >= 0
                                     THEN c.pos + 1 * Step(c, 1, m # n, m) ELSE c.pos]
    BY <1>1, <1>2 DEF Adjust, AtEnd
  <2> QED BY <1>1, <2>1, <2>2
<1>4. /\ a.cur.at_end = 1 /\ a.cur.pos = pos /\ a.cur.endpos = pos
      /\ a.cur.adopted = c.adopted /\ a.cur \in Clients
  BY <1>3 DEF Clients
<1>5. a.displacement = step
  BY <1>1, <1>2 DEF Adjust, Step
<1>6. a.throws <=> c.endpos >= 0 /\ pos # c.endpos
  BY <1>1, <1>2 DEF Adjust, Step
<1> QED BY <1>2, <1>4, <1>5, <1>6

\* A move backwards over as many rows as were asked for.
LEMMA BackwardFull ==
  ASSUME NEW c \in Clients, NEW n \in Int, n < 0,
         NEW pos \in Int, pos = IF c.pos >= 0 THEN c.pos + n ELSE c.pos
  PROVE  LET a == Adjust(c, n, -n)
         IN  /\ a.cur \in Clients
             /\ a.cur.at_end = 0 /\ a.cur.pos = pos /\ a.cur.endpos = c.endpos
             /\ a.cur.adopted = c.adopted
             /\ a.displacement = n
             /\ ~ a.throws
<1>1. Direction(n) = -1 /\ Distance(n) = -n /\ (-1) * (-n) = n /\ -n \in Int
  BY DEF Direction, Distance
<1>2. PICK a : a = Adjust(c, n, -n)
  OBVIOUS
<1>3. a.displacement = n
  BY <1>1, <1>2 DEF Adjust, Step
<1>4. a.cur.at_end = 0
  BY <1>1, <1>2 DEF Adjust, Step, AtEnd, Clients
<1>5. a.cur.pos = pos
  BY <1>1, <1>2 DEF Adjust, Step, AtEnd, Clients
<1>6. a.cur.endpos = c.endpos /\ a.cur.adopted = c.adopted
  BY <1>1, <1>2 DEF Adjust, Step, AtEnd, Clients
<1>7. a.cur \in Clients
  BY <1>1, <1>2 DEF Adjust, Step, AtEnd, Clients
<1>8. ~ a.throws
  BY <1>1, <1>2 DEF Adjust, Step
<1> QED BY <1>2, <1>3, <1>4, <1>5, <1>6, <1>7, <1>8

\* A move backwards that meets the beginning, which makes the position known.
LEMMA BackwardShort ==
  ASSUME NEW c \in Clients, NEW n \in Int, NEW m \in Nat, m < -n,
         NEW step \in Int, step = IF c.at_end # -1 THEN m + 1 ELSE m,
         NEW pos \in Int, pos = IF c.pos = -1 THEN 0
                               ELSE IF c.pos >= 0 THEN c.pos - step ELSE c.pos
  PROVE  LET a == Adjust(c, n, m)
         IN  /\ a.cur \in Clients
             /\ a.cur.at_end = -1 /\ a.cur.pos = pos /\ a.cur.endpos = c.endpos
             /\ a.cur.adopted = c.adopted
             /\ a.displacement = -step
             /\ a.throws <=> c.pos # -1 /\ c.pos # step
<1>1. Direction(n) = -1 /\ Distance(n) = -n /\ (-1) * step = -step
      /\ (-1) * m = -m /\ (-1) * (m + 1) = -(m + 1) /\ m # -n /\ ~(m > -n)
      /\ step >= 0 /\ step + -step = 0
  BY DEF Direction, Distance
<1>2. PICK a : a = Adjust(c, n, m)
  OBVIOUS
<1>3. a.cur = [c EXCEPT !.at_end = -1, !.pos = pos, !.endpos = c.endpos]
  <2>1. Step(c, -1, m # -n, m) = step
    BY <1>1 DEF Step
  <2>2. CASE c.pos = -1
    <3>1. a.cur = [c EXCEPT !.at_end = -1,
                            !.pos = IF Step(c, -1, m # -n, m) >= 0
                                    THEN Step(c, -1, m # -n, m)
                                           + (-1) * Step(c, -1, m # -n, m)
                                    ELSE Step(c, -1, m # -n, m),
                            !.endpos = c.endpos]
      BY <1>1, <1>2, <2>2 DEF Adjust, AtEnd
    <3> QED BY <1>1, <2>1, <2>2, <3>1
  <2>3. CASE c.pos # -1
    <3>1. a.cur = [c EXCEPT !.at_end = -1,
                            !.pos = IF c.pos >= 0
                                    THEN c.pos + (-1) * Step(c, -1, m # -n, m)
                                    ELSE c.pos,
                            !.endpos = c.endpos]
      BY <1>1, <1>2, <2>3 DEF Adjust, AtEnd
    <3>2. c.pos + -step = c.pos - step
      BY DEF Clients
    <3> QED BY <1>1, <2>1, <2>3, <3>1, <3>2
  <2> QED BY <2>2, <2>3
<1>4. /\ a.cur.at_end = -1 /\ a.cur.pos = pos /\ a.cur.endpos = c.endpos
      /\ a.cur.adopted = c.adopted /\ a.cur \in Clients
  BY <1>3 DEF Clients
<1>5. a.displacement = -step
  BY <1>1, <1>2 DEF Adjust, Step
<1>6. a.throws <=> c.pos # -1 /\ c.pos # step
  BY <1>1, <1>2 DEF Adjust, Step
<1> QED BY <1>2, <1>4, <1>5, <1>6

-----------------------------------------------------------------------------
\* adjust() throws nothing, what it makes of its members is true of where the cursor
\* has gone, and the displacement it works out is the way it went, unless it did not
\* know that it stood at the end.
AdjustedRight(c, s, n) ==
  LET a == Adjust(c, n, Count(s, n))
      t == [s EXCEPT !.at = Arrives(s, n)]
  IN  /\ ~a.throws
      /\ Knows(a.cur, t)
      /\ a.cur.adopted = c.adopted
      /\ ~c.adopted => a.displacement = t.at - s.at
      /\ a.displacement \in Int

\* After a move forwards the client knows the server's place again.
LEMMA AdjustForward ==
  ASSUME NEW c, NEW s, NEW n \in Int, n > 0, Knows(c, s)
  PROVE  AdjustedRight(c, s, n)
<1> USE DEF Knows, Servers
<1>1. PICK a : a = Adjust(c, n, Count(s, n))
  OBVIOUS
<1>2. PICK t : t = [s EXCEPT !.at = Arrives(s, n)]
  OBVIOUS
<1>3. c.pos \in Int
  BY DEF Clients
<1>4. CASE s.at + n <= s.rows
  <2>1. Count(s, n) = n /\ Arrives(s, n) = s.at + n
    BY <1>4 DEF Count, Arrives, Lesser, Greater
  <2>2. PICK pos \in Int : pos = IF c.pos >= 0 THEN c.pos + n ELSE c.pos
    BY <1>3
  <2>3. /\ a.cur \in Clients /\ a.cur.at_end = 0 /\ a.cur.pos = pos
        /\ a.cur.endpos = c.endpos /\ a.cur.adopted = c.adopted
        /\ a.displacement = n /\ ~ a.throws
    BY <1>1, <2>1, <2>2, ForwardFull
  <2>4. t \in Servers /\ t.at = s.at + n /\ t.rows = s.rows
    BY <1>2, <1>4, <2>1
  <2> QED BY <1>1, <1>2, <1>3, <1>4, <2>2, <2>3, <2>4 DEF AdjustedRight
<1>5. CASE s.at + n > s.rows
  <2>1. PICK m \in Nat : /\ m = Count(s, n) /\ m < n
                         /\ m = IF s.at = s.rows + 1 THEN 0 ELSE s.rows - s.at
    BY <1>5 DEF Count, Lesser, Greater
  <2>2. PICK step \in Int : step = IF c.at_end # 1 THEN m + 1 ELSE m
    OBVIOUS
  <2>3. PICK pos \in Int : pos = IF c.pos >= 0 THEN c.pos + step ELSE c.pos
    BY <1>3
  <2>4. /\ a.cur \in Clients /\ a.cur.at_end = 1 /\ a.cur.pos = pos
        /\ a.cur.endpos = pos /\ a.cur.adopted = c.adopted
        /\ a.displacement = step
        /\ a.throws <=> c.endpos >= 0 /\ pos # c.endpos
    BY <1>1, <2>1, <2>2, <2>3, ForwardShort
  <2>5. t \in Servers /\ t.at = s.rows + 1 /\ t.rows = s.rows
    BY <1>2, <1>5 DEF Arrives, Lesser
  <2>6. c.pos # -1 => pos = s.rows + 1 /\ step = s.rows + 1 - s.at
    BY <2>1, <2>2, <2>3 DEF Clients
  <2> QED BY <1>1, <1>2, <1>3, <2>2, <2>3, <2>4, <2>5, <2>6 DEF AdjustedRight
<1> QED BY <1>4, <1>5

\* After a move backwards the client knows the server's place again.
LEMMA AdjustBackward ==
  ASSUME NEW c, NEW s, NEW n \in Int, n < 0, Knows(c, s)
  PROVE  AdjustedRight(c, s, n)
<1> USE DEF Knows, Servers
<1>1. PICK a : a = Adjust(c, n, Count(s, n))
  OBVIOUS
<1>2. PICK t : t = [s EXCEPT !.at = Arrives(s, n)]
  OBVIOUS
<1>3. c.pos \in Int
  BY DEF Clients
<1>4. CASE s.at + n >= 1
  <2>1. Count(s, n) = -n /\ Arrives(s, n) = s.at + n
    BY <1>4 DEF Count, Arrives, Greater
  <2>2. PICK pos \in Int : pos = IF c.pos >= 0 THEN c.pos + n ELSE c.pos
    BY <1>3
  <2>3. /\ a.cur \in Clients /\ a.cur.at_end = 0 /\ a.cur.pos = pos
        /\ a.cur.endpos = c.endpos /\ a.cur.adopted = c.adopted
        /\ a.displacement = n /\ ~ a.throws
    BY <1>1, <2>1, <2>2, BackwardFull
  <2>4. t \in Servers /\ t.at = s.at + n /\ t.rows = s.rows
    BY <1>2, <1>4, <2>1
  <2> QED BY <1>1, <1>2, <1>3, <1>4, <2>2, <2>3, <2>4 DEF AdjustedRight
<1>5. CASE s.at + n < 1
  <2>1. PICK m \in Nat : /\ m = Count(s, n) /\ m < -n
                         /\ m = IF s.at = 0 THEN 0 ELSE s.at - 1
    BY <1>5 DEF Count, Greater
  <2>2. PICK step \in Int : step = IF c.at_end # -1 THEN m + 1 ELSE m
    OBVIOUS
  <2>3. PICK pos \in Int : pos = IF c.pos = -1 THEN 0
                                 ELSE IF c.pos >= 0 THEN c.pos - step ELSE c.pos
    BY <1>3
  <2>4. /\ a.cur \in Clients /\ a.cur.at_end = -1 /\ a.cur.pos = pos
        /\ a.cur.endpos = c.endpos /\ a.cur.adopted = c.adopted
        /\ a.displacement = -step
        /\ a.throws <=> c.pos # -1 /\ c.pos # step
    BY <1>1, <2>1, <2>2, <2>3, BackwardShort
  <2>5. t \in Servers /\ t.at = 0 /\ t.rows = s.rows
    BY <1>2, <1>5 DEF Arrives, Greater
  <2>6. c.pos # -1 => c.pos = step /\ pos = 0 /\ step = s.at
    BY <2>1, <2>2, <2>3 DEF Clients
  <2> QED BY <1>1, <1>2, <1>3, <2>2, <2>3, <2>4, <2>5, <2>6 DEF AdjustedRight
<1> QED BY <1>4, <1>5

\* FETCH or MOVE by any distance, none and one the server refuses included.
LEMMA CallRight ==
  ASSUME NEW c, NEW s, NEW n \in Int, Knows(c, s)
  PROVE  LET r == Call(c, s, n)
         IN  /\ Knows(r.cur, r.srv)
             /\ r.throws \in {"", "sql"}
             /\ r.cur.adopted = c.adopted
             /\ ~c.adopted => r.displacement = r.srv.at - s.at
             /\ r.displacement \in Int
<1>1. CASE n = 0 \/ Refuses(s, n)
  BY <1>1 DEF Call, Knows, Servers
<1>2. CASE n # 0 /\ ~Refuses(s, n)
  <2>1. AdjustedRight(c, s, n)
    BY <1>2, AdjustForward, AdjustBackward
  <2> QED BY <1>2, <2>1 DEF AdjustedRight, Call, Knows, Servers
<1> QED BY <1>1, <1>2
-----------------------------------------------------------------------------
IInv ==
  /\ last.throws \in {"", "internal", "range", "sql"}
  /\ CursorKnowsItsPlace
  /\ Knows(cur, srv)

\* A new cursor is before the first row; an adopted one is anywhere, and knows it.
LEMMA InitInv ==
  ASSUME Init
  PROVE  IInv
<1> USE RowsAssumption DEF Knows, Clients, Servers, IInv
<1>1. last.throws = "" /\ last.reported = 0 /\ last.real = 0
  BY DEF Init, NoCall
<1>2. PICK n \in 0..MaxRows, scroll \in BOOLEAN :
        \/ /\ srv = [rows |-> n, at |-> 0, scroll |-> scroll, open |-> TRUE]
           /\ cur = Declared
        \/ \E p \in 0..(n + 1), owned \in BOOLEAN :
             /\ srv = [rows |-> n, at |-> p, scroll |-> scroll, open |-> TRUE]
             /\ cur = Adopted(owned)
  BY DEF Init
<1>3. Knows(cur, srv)
  <2>1. CASE /\ srv = [rows |-> n, at |-> 0, scroll |-> scroll, open |-> TRUE]
             /\ cur = Declared
    BY <2>1 DEF Declared
  <2>2. ASSUME NEW p \in 0..(n + 1), NEW owned \in BOOLEAN,
               srv = [rows |-> n, at |-> p, scroll |-> scroll, open |-> TRUE],
               cur = Adopted(owned)
        PROVE  Knows(cur, srv)
    BY <2>2 DEF Adopted
  <2> QED BY <1>2, <2>1, <2>2
<1> QED BY <1>1, <1>3 DEF CursorKnowsItsPlace, PositionKnown, NeverConfused,
                          DisplacementRight

\* fetch() and move() keep what is known.
LEMMA FetchOrMoveRight ==
  ASSUME IInv, NEW n \in Int, FetchOrMove(n)
  PROVE  IInv'
<1> DEFINE r == Call(cur, srv, n)
<1>1. /\ Knows(r.cur, r.srv) /\ r.throws \in {"", "sql"} /\ r.cur.adopted = cur.adopted
      /\ ~cur.adopted => r.displacement = r.srv.at - srv.at
  BY CallRight DEF IInv
<1>2. /\ cur' = r.cur /\ srv' = r.srv
      /\ last'.reported = r.displacement /\ last'.real = r.srv.at - srv.at
      /\ last'.throws = r.throws
  BY DEF FetchOrMove, NoCall
<1> HIDE DEF r
<1> QED BY <1>1, <1>2, ZenonT(40) DEF IInv, CursorKnowsItsPlace, PositionKnown, NeverConfused,
                          DisplacementRight, Knows, Clients, Servers

\* What retrieve() is made of is such calls: each leaves the client knowing its place.
Good(x) == Knows(x.cur, x.srv) /\ x.throws \in {"", "sql"}

\* So does either in any number of rows, also none.
LEMMA CallGood ==
  ASSUME NEW c, NEW s, NEW n \in Int, Knows(c, s)
  PROVE  Good(Call(c, s, n))
BY CallRight DEF Good

\* So does retrieve(), which moves to the end and to its first row before it fetches.
LEMMA RetrieveRight ==
  ASSUME IInv, NEW b \in Int, NEW e \in Int, Retrieve(b, e)
  PROVE  IInv'
<1>1. PICK start : start = [cur |-> cur, srv |-> srv, throws |-> "", rows |-> <<>>]
  OBVIOUS
<1>2. PICK known : known = IF cur.pos = -1 THEN Call(cur, srv, -(MaxRows + 1)) ELSE start
  OBVIOUS
<1>3. Good(known)
  <2>1. Good(start)
    BY <1>1 DEF IInv, Good
  <2>2. -(MaxRows + 1) \in Int
    BY RowsAssumption
  <2>3. Good(Call(cur, srv, -(MaxRows + 1)))
    BY <2>2, CallGood DEF IInv
  <2> QED BY <1>2, <2>1, <2>3
<1>4. PICK sized : sized = Size(known)
  OBVIOUS
<1>5. Good(sized)
  <2>1. MaxRows + 1 \in Int
    BY RowsAssumption
  <2>2. Knows(known.cur, known.srv)
    BY <1>3 DEF Good
  <2>3. Good(Call(known.cur, known.srv, MaxRows + 1))
    BY <2>1, <2>2, CallGood
  <2> QED BY <1>3, <1>4, <2>3 DEF Size
<1>6. Knows(sized.cur, sized.srv) /\ sized.cur.pos \in Int /\ sized.cur.endpos \in Int
  BY <1>5 DEF Good, Knows, Clients
<1>7. PICK size \in Int : size = SizeOf(sized.cur)
  BY <1>6 DEF SizeOf
<1>8. PICK end \in Int : end = Greater(Lesser(e, size), -1)
  BY <1>7 DEF Greater, Lesser
<1>9. PICK dir \in Int : dir = IF b < end THEN 1 ELSE -1
  OBVIOUS
<1>10. PICK there : there = Call(sized.cur, sized.srv, MoveTo(sized.cur, b, dir))
  OBVIOUS
<1>11. Good(there)
  <2>1. MoveTo(sized.cur, b, dir) \in Int
    BY <1>6, <1>9 DEF MoveTo
  <2> QED BY <1>6, <1>10, <2>1, CallGood
<1>12. PICK fetched : fetched = Call(there.cur, there.srv, end - b)
  OBVIOUS
<1>13. Good(fetched)
  <2>1. end - b \in Int
    BY <1>8
  <2>2. Knows(there.cur, there.srv)
    BY <1>11 DEF Good
  <2> QED BY <1>12, <2>1, <2>2, CallGood
<1>14. PICK r : r = IF b > size \/ b = end THEN sized ELSE fetched
  OBVIOUS
<1>15. Good(r)
  BY <1>5, <1>13, <1>14
<1>16. cur' = r.cur /\ srv' = r.srv
  BY <1>1, <1>2, <1>4, <1>7, <1>8, <1>9, <1>10, <1>12, <1>14 DEF Retrieve
<1>17. "internal" \notin {known.throws, sized.throws, there.throws, fetched.throws}
  BY <1>3, <1>5, <1>11, <1>13 DEF Good
<1>18. last'.throws = (IF b > size THEN "range" ELSE "")
       /\ last'.reported = 0 /\ last'.real = 0
  BY <1>1, <1>2, <1>4, <1>7, <1>8, <1>9, <1>10, <1>12, <1>17 DEF Retrieve, NoCall
<1> QED BY <1>15, <1>16, <1>18
        DEF Good, IInv, CursorKnowsItsPlace, PositionKnown, NeverConfused,
            DisplacementRight, Knows, Clients, Servers

\* close() moves nobody.
LEMMA CloseRight ==
  ASSUME IInv, Close
  PROVE  IInv'
<1>1. last'.throws = "" /\ last'.reported = 0 /\ last'.real = 0
  BY DEF Close, NoCall
<1>2. Knows(cur', srv')
  BY DEF Close, IInv, Knows, Clients, Servers
<1> QED BY <1>1, <1>2 DEF IInv, CursorKnowsItsPlace, PositionKnown, NeverConfused,
                          DisplacementRight, Knows, Clients, Servers

\* Every call keeps what is known.
LEMMA StepInv ==
  ASSUME IInv, [Next]_vars
  PROVE  IInv'
<1>1. CASE UNCHANGED vars
  BY <1>1 DEF vars, IInv, CursorKnowsItsPlace, PositionKnown, NeverConfused,
              DisplacementRight, Knows, Clients, Servers
<1>2. CASE \E n \in Strides : FetchOrMove(n)
  BY <1>2, FetchOrMoveRight, StridesAssumption
<1>3. ASSUME NEW b \in 0..(MaxRows + 1), NEW e \in -2..(MaxRows + 1), StatelessRetrieve(b, e)
      PROVE  IInv'
  <2>1. b \in Int /\ e \in Int
    BY RowsAssumption
  <2>2. Retrieve(b, e)
    BY <1>3 DEF StatelessRetrieve
  <2> QED BY <2>1, <2>2, RetrieveRight
<1>4. CASE Close
  BY <1>4, CloseRight
<1> QED BY <1>1, <1>2, <1>3, <1>4 DEF Next

\* However many rows there are, whatever distances are moved, and wherever an adopted
\* cursor stood: a position the client knows is that of the cursor, adjust() never
\* finds a contradiction, and it reports the way a declared cursor went
\* (sql_cursor.cxx:165).
THEOREM PlaceIsKnown == Spec => []CursorKnowsItsPlace
<1>1. IInv /\ [Next]_vars => IInv'
  BY StepInv
<1>2. IInv => CursorKnowsItsPlace
  BY DEF IInv
<1> QED BY <1>1, <1>2, InitInv, PTL DEF Spec
-----------------------------------------------------------------------------
(* What retrieve() returns *)

\* A move back by at least as far as the cursor has come puts an end to not knowing.
LEMMA ToTheStart ==
  ASSUME NEW c, NEW s, NEW n \in Int, Knows(c, s), n < 0, s.at + n < 1, ~Refuses(s, n)
  PROVE  LET r == Call(c, s, n)
         IN  r.cur.pos # -1 /\ r.srv = [s EXCEPT !.at = 0]
<1> USE DEF Knows, Servers
<1>1. PICK m \in Nat : /\ m = Count(s, n) /\ m < -n
                       /\ m = IF s.at = 0 THEN 0 ELSE s.at - 1
  BY DEF Count, Greater
<1>2. PICK step \in Int : step = IF c.at_end # -1 THEN m + 1 ELSE m
  OBVIOUS
<1>3. c.pos \in Int /\ (c.pos # -1 => c.pos >= 0 /\ c.pos = step)
  BY <1>1, <1>2 DEF Clients
<1>4. PICK pos \in Int : pos = IF c.pos = -1 THEN 0
                               ELSE IF c.pos >= 0 THEN c.pos - step ELSE c.pos
  BY <1>3
<1>5. PICK a : a = Adjust(c, n, Count(s, n))
  OBVIOUS
<1>6. /\ a.cur \in Clients /\ a.cur.at_end = -1 /\ a.cur.pos = pos
      /\ a.cur.endpos = c.endpos /\ a.cur.adopted = c.adopted
      /\ a.displacement = -step
      /\ a.throws <=> c.pos # -1 /\ c.pos # step
  <2>1. c \in Clients /\ a = Adjust(c, n, m)
    BY <1>1, <1>5
  <2> HIDE DEF Knows, Servers
  <2> QED BY <1>1, <1>2, <1>4, <2>1, BackwardShort
<1>7. Arrives(s, n) = 0
  BY DEF Arrives, Greater
<1>8. pos = 0
  BY <1>3, <1>4
<1> QED BY <1>5, <1>6, <1>7, <1>8 DEF Call

\* A move to beyond the last row tells a client that knows its place where the end is.
LEMMA ToTheEnd ==
  ASSUME NEW c, NEW s, NEW n \in Int, Knows(c, s), c.pos # -1, n > 0, s.at + n > s.rows,
         ~Refuses(s, n)
  PROVE  LET r == Call(c, s, n)
         IN  r.cur.pos # -1 /\ r.cur.endpos # -1 /\ r.srv = [s EXCEPT !.at = s.rows + 1]
<1> USE DEF Knows, Servers
<1>1. PICK m \in Nat : /\ m = Count(s, n) /\ m < n
                       /\ m = IF s.at = s.rows + 1 THEN 0 ELSE s.rows - s.at
  BY DEF Count, Lesser, Greater
<1>2. PICK step \in Int : step = IF c.at_end # 1 THEN m + 1 ELSE m
  OBVIOUS
<1>3. c.pos \in Int /\ c.pos >= 0
  BY DEF Clients
<1>4. PICK pos \in Int : pos = IF c.pos >= 0 THEN c.pos + step ELSE c.pos
  BY <1>3
<1>5. PICK a : a = Adjust(c, n, Count(s, n))
  OBVIOUS
<1>6. /\ a.cur \in Clients /\ a.cur.at_end = 1 /\ a.cur.pos = pos
      /\ a.cur.endpos = pos /\ a.cur.adopted = c.adopted
      /\ a.displacement = step
      /\ a.throws <=> c.endpos >= 0 /\ pos # c.endpos
  <2>1. c \in Clients /\ a = Adjust(c, n, m)
    BY <1>1, <1>5
  <2> HIDE DEF Knows, Servers
  <2> QED BY <1>1, <1>2, <1>4, <2>1, ForwardShort
<1>7. Arrives(s, n) = s.rows + 1
  BY DEF Arrives, Lesser
<1>8. pos >= 0
  BY <1>2, <1>3, <1>4
<1> QED BY <1>5, <1>6, <1>7, <1>8 DEF Call

\* The server refuses no move of it.
Scrolls(s) == s.open /\ s.scroll

\* A move to position T, by a client that knows its place, stops past the last row.
LEMMA MovedTo ==
  ASSUME NEW c, NEW s, NEW T \in Nat, Knows(c, s), c.pos # -1, Scrolls(s)
  PROVE  Call(c, s, T - c.pos).srv = [s EXCEPT !.at = IF T > s.rows THEN s.rows + 1 ELSE T]
<1> USE DEF Knows, Servers
<1>1. PICK n \in Int : n = T - c.pos
  OBVIOUS
<1>2. ~Refuses(s, n)
  BY DEF Refuses, Scrolls
<1>3. CASE n = 0
  <2>1. (IF T > s.rows THEN s.rows + 1 ELSE T) = s.at
    BY <1>1, <1>3
  <2> QED BY <1>1, <1>3, <2>1 DEF Call
<1>4. CASE n # 0
  <2>1. Arrives(s, n) = IF T > s.rows THEN s.rows + 1 ELSE T
    BY <1>1, <1>4 DEF Arrives, Lesser, Greater
  <2> QED BY <1>1, <1>2, <1>4, <2>1 DEF Call
<1> QED BY <1>3, <1>4

\* The two ways of fetching from before the row it starts with.
LEMMA FetchedDown ==
  ASSUME NEW s \in Servers, NEW b \in Nat, NEW end \in Int,
         b < end, end <= s.rows, s.at = b
  PROVE  /\ Count(s, end - b) = end - b
         /\ \A i \in 1..(end - b) : RowsPassed(s, end - b)[i] = b + i
         /\ DOMAIN RowsPassed(s, end - b) = 1..(end - b)
<1>1. Count(s, end - b) = end - b /\ Direction(end - b) = 1
  BY DEF Servers, Count, Direction, Greater, Lesser
<1> QED BY <1>1 DEF RowsPassed, Servers

\* Rows fetched backwards are those above the cursor, in descending order.
LEMMA FetchedUp ==
  ASSUME NEW s \in Servers, NEW b \in Nat, NEW end \in Int, NEW k \in {0, 1},
         end >= -1, b > end, s.at = b + 2 - k, k = 1 => end = -1
  PROVE  /\ Count(s, end - b) = b - end - k
         /\ \A i \in 1..(b - end - k) : RowsPassed(s, end - b)[i] = b + 2 - k - i
         /\ DOMAIN RowsPassed(s, end - b) = 1..(b - end - k)
<1>1. Count(s, end - b) = b - end - k /\ Direction(end - b) = -1
  BY DEF Servers, Count, Direction, Greater
<1>2. \A i \in 1..(b - end - k) : s.at + (-1) * i = b + 2 - k - i
  BY DEF Servers
<1> QED BY <1>1, <1>2 DEF RowsPassed

\* The rows got are those asked for that exist.
Returned(got, asked, rows) ==
  \E skip \in {0, 1} :
    /\ \A i \in DOMAIN asked : asked[i] + 1 \in 1..rows <=> i - skip \in DOMAIN got
    /\ \A i \in DOMAIN got : i + skip \in DOMAIN asked /\ got[i] = asked[i + skip] + 1

\* fetch() returns the rows beyond the cursor that there are, up to as many as were asked for.
LEMMA FetchReturns ==
  ASSUME NEW s \in Servers, NEW b \in Nat, NEW end \in Int, NEW dir \in Int,
         b <= s.rows, end >= -1, end <= s.rows, b # end,
         dir = IF b < end THEN 1 ELSE -1,
         b = s.rows => end = -1 \/ b < end,
         s.at = IF b - dir + 1 > s.rows THEN s.rows + 1 ELSE b - dir + 1
  PROVE  Returned(RowsPassed(s, end - b),
                  [i \in 1..Distance(end - b) |-> b + dir * (i - 1)], s.rows)
<1> DEFINE got == RowsPassed(s, end - b)
           asked == [i \in 1..Distance(end - b) |-> b + dir * (i - 1)]
<1>1. CASE b < end
  <2>1. Distance(end - b) = end - b /\ s.at = b /\ dir = 1
    BY <1>1 DEF Distance, Servers
  <2>2. /\ DOMAIN asked = 1..(end - b)
        /\ \A i \in DOMAIN asked : asked[i] + 1 = b + i
    BY <2>1
  <2>3. DOMAIN got = 1..(end - b) /\ \A i \in DOMAIN got : got[i] = b + i
    BY <1>1, <2>1, FetchedDown
  <2> HIDE DEF got, asked
  <2>4. /\ \A i \in DOMAIN asked : asked[i] + 1 \in 1..s.rows <=> i - 0 \in DOMAIN got
        /\ \A i \in DOMAIN got : i + 0 \in DOMAIN asked /\ got[i] = asked[i + 0] + 1
    BY <2>2, <2>3 DEF Servers
  <2> QED BY <2>4 DEF Returned, got, asked
<1>2. CASE b > end
  <2>1. Distance(end - b) = b - end /\ dir = -1
    BY <1>2 DEF Distance
  <2>2. PICK k \in {0, 1} : k = IF b = s.rows THEN 1 ELSE 0
    OBVIOUS
  <2>3. s.at = b + 2 - k /\ (k = 1 => end = -1)
    BY <1>2, <2>1, <2>2 DEF Servers
  <2>4. /\ DOMAIN asked = 1..(b - end)
        /\ \A i \in DOMAIN asked : asked[i] + 1 = b + 2 - i
    BY <2>1
  <2>5. DOMAIN got = 1..(b - end - k) /\ \A i \in DOMAIN got : got[i] = b + 2 - k - i
    BY <1>2, <2>3, FetchedUp
  <2> HIDE DEF got, asked
  <2>6. \A i \in DOMAIN asked : asked[i] + 1 \in 1..s.rows <=> i - k \in DOMAIN got
    BY <2>2, <2>3, <2>4, <2>5, SMTT(30) DEF Servers
  <2>7. \A i \in DOMAIN got : i + k \in DOMAIN asked /\ got[i] = asked[i + k] + 1
    BY <2>3, <2>4, <2>5
  <2> QED BY <2>6, <2>7 DEF Returned, got, asked
<1> QED BY <1>1, <1>2

\* Before it fetches, retrieve() knows where the cursor stands and where its end is.
LEMMA KnowsAll ==
  ASSUME NEW c, NEW s, Knows(c, s), s.rows <= MaxRows, Scrolls(s),
         NEW start, start.cur = c, start.srv = s,
         NEW known, known = IF c.pos = -1 THEN Call(c, s, -(MaxRows + 1)) ELSE start,
         NEW sized, sized = Size(known)
  PROVE  /\ Knows(sized.cur, sized.srv)
         /\ sized.cur.pos # -1 /\ SizeOf(sized.cur) = s.rows
         /\ sized.srv.rows = s.rows /\ Scrolls(sized.srv)
<1> USE RowsAssumption
<1>1. /\ Knows(known.cur, known.srv) /\ known.cur.pos # -1
      /\ known.srv.rows = s.rows /\ Scrolls(known.srv)
  <2>1. CASE c.pos = -1
    <3>1. PICK n \in Int : n = -(MaxRows + 1)
      OBVIOUS
    <3>2. n < 0 /\ s.at + n < 1 /\ ~Refuses(s, n)
      BY <3>1 DEF Knows, Servers, Refuses, Scrolls
    <3>3. known = Call(c, s, n)
      BY <2>1, <3>1
    <3>4. known.cur.pos # -1 /\ known.srv = [s EXCEPT !.at = 0]
      BY <3>2, <3>3, ToTheStart
    <3>5. Knows(known.cur, known.srv)
      BY <3>3, CallRight
    <3> QED BY <3>4, <3>5 DEF Knows, Servers, Scrolls
  <2>2. CASE c.pos # -1
    <3>1. known.cur = c /\ known.srv = s
      BY <2>2
    <3> QED BY <2>2, <3>1
  <2> QED BY <2>1, <2>2
<1>2. CASE known.cur.endpos # -1
  BY <1>1, <1>2 DEF Size, SizeOf, Knows, Servers
<1>3. CASE known.cur.endpos = -1
  <2>1. PICK n \in Int : n = MaxRows + 1
    OBVIOUS
  <2>2. n > 0 /\ known.srv.at + n > known.srv.rows /\ ~Refuses(known.srv, n)
    BY <1>1, <2>1 DEF Knows, Servers, Refuses, Scrolls
  <2>3. sized = Call(known.cur, known.srv, n)
    BY <1>3, <2>1 DEF Size
  <2>4. /\ sized.cur.pos # -1 /\ sized.cur.endpos # -1
        /\ sized.srv = [known.srv EXCEPT !.at = known.srv.rows + 1]
    BY <1>1, <2>2, <2>3, ToTheEnd
  <2>5. Knows(sized.cur, sized.srv)
    <3>1. PICK d, t : d = known.cur /\ t = known.srv
      OBVIOUS
    <3>2. Knows(d, t) /\ sized = Call(d, t, n)
      BY <1>1, <2>3, <3>1
    <3> QED BY <3>2, CallRight
  <2>6. sized.srv.rows = s.rows /\ Scrolls(sized.srv)
    BY <1>1, <2>4 DEF Knows, Servers, Scrolls
  <2>7. SizeOf(sized.cur) = s.rows
    <3>1. sized.cur.endpos = s.rows + 1 /\ s.rows \in Nat
      BY <2>4, <2>5, <2>6 DEF Knows, Servers
    <3> QED BY <3>1 DEF SizeOf
  <2> QED BY <2>4, <2>5, <2>6, <2>7
<1> QED BY <1>2, <1>3

\* So says RetrievesAsked; nothing asked, nothing returned.
LEMMA NothingAsked ==
  ASSUME NEW rows
  PROVE  Returned(<<>>, <<>>, rows)
<1>1. DOMAIN <<>> = {}
  OBVIOUS
<1> QED BY <1>1 DEF Returned

\* What retrieve() returns is what it was asked for, once both are written as ranges.
LEMMA ReturnedAsAsked ==
  /\ RetrievesAsked <=> (last.throws = "" => Returned(last.got, last.asked, srv.rows))
  /\ RetrievesAsked' <=> (last'.throws = "" => Returned(last'.got, last'.asked, srv'.rows))
BY DEF RetrievesAsked, Returned

\* What makes RetrievesAsked inductive.
RInv == IInv /\ srv.rows <= MaxRows /\ RetrievesAsked

\* retrieve() returns the rows from the first one asked for to the last, in either direction.
LEMMA RetrieveReturns ==
  ASSUME RInv, NEW b \in Nat, NEW e \in Int, Retrieve(b, e), Scrolls(srv),
         e >= -2, ~(b = srv.rows /\ e \in 0..(b - 1))
  PROVE  RetrievesAsked' /\ srv'.rows = srv.rows
<1>0. Knows(cur, srv) /\ srv.rows \in Nat /\ srv.rows <= MaxRows
  BY DEF RInv, IInv, Knows, Servers
<1>1. PICK start : start = [cur |-> cur, srv |-> srv, throws |-> "", rows |-> <<>>]
  OBVIOUS
<1>2. PICK known : known = IF cur.pos = -1 THEN Call(cur, srv, -(MaxRows + 1)) ELSE start
  OBVIOUS
<1>3. PICK sized : sized = Size(known)
  OBVIOUS
<1>4. PICK rows \in Nat : rows = srv.rows
  BY <1>0
<1>5. /\ Knows(sized.cur, sized.srv)
      /\ sized.cur.pos # -1 /\ SizeOf(sized.cur) = rows
      /\ sized.srv.rows = rows /\ Scrolls(sized.srv)
  <2>1. start.cur = cur /\ start.srv = srv
    BY <1>1
  <2>2. /\ Knows(sized.cur, sized.srv)
        /\ sized.cur.pos # -1 /\ SizeOf(sized.cur) = srv.rows
        /\ sized.srv.rows = srv.rows /\ Scrolls(sized.srv)
    BY <1>0, <1>2, <1>3, <2>1, KnowsAll
  <2> QED BY <1>4, <2>2
<1>6. PICK end \in Int : end = Greater(Lesser(e, rows), -1)
  BY DEF Greater, Lesser
<1>7. end >= -1 /\ end <= rows /\ (e \in 0..(b - 1) \/ end = e \/ end = rows \/ end = -1)
  BY <1>6 DEF Greater, Lesser
<1>8. PICK dir \in Int : dir = IF b < end THEN 1 ELSE -1
  OBVIOUS
<1>9. PICK there : there = Call(sized.cur, sized.srv, MoveTo(sized.cur, b, dir))
  OBVIOUS
<1>10. PICK fetched : fetched = Call(there.cur, there.srv, end - b)
  OBVIOUS
<1>11. PICK got : got = IF b > rows \/ b = end THEN <<>> ELSE fetched.rows
  OBVIOUS
<1>12. PICK asked : asked = [i \in 1..Distance(end - b) |-> b + dir * (i - 1)]
  OBVIOUS
<1>13. last'.got = got /\ last'.asked = asked
  BY <1>1, <1>2, <1>3, <1>5, <1>6, <1>8, <1>9, <1>10, <1>11, <1>12 DEF Retrieve, NoCall
<1>14. srv' = (IF b > rows \/ b = end THEN sized ELSE fetched).srv
  BY <1>1, <1>2, <1>3, <1>5, <1>6, <1>8, <1>9, <1>10 DEF Retrieve
<1>15. b > rows => last'.throws # ""
  BY <1>1, <1>2, <1>3, <1>5, <1>6, <1>8, <1>9, <1>10 DEF Retrieve, NoCall
<1>16. CASE b > rows \/ b = end
  <2>1. srv'.rows = srv.rows
    BY <1>4, <1>5, <1>14, <1>16
  <2>2. CASE b = end
    <3>1. Distance(end - b) = 0
      BY <2>2 DEF Distance
    <3>2. DOMAIN asked = {} /\ got = <<>>
      BY <1>11, <1>12, <1>16, <3>1
    <3> QED BY <1>13, <2>1, <3>2 DEF RetrievesAsked
  <2>3. CASE b > rows
    BY <1>15, <2>1, <2>3 DEF RetrievesAsked
  <2> QED BY <1>16, <2>2, <2>3
<1>17. CASE b <= rows /\ b # end
  <2>0. (dir = 1 \/ dir = -1) /\ b - dir + 1 \in Nat
    BY <1>8
  <2>1. PICK T \in Nat : T = b - dir + 1
    BY <2>0
  <2>2. MoveTo(sized.cur, b, dir) = T - sized.cur.pos
    BY <1>5, <2>1 DEF MoveTo, Knows, Clients
  <2>3. there.srv = [sized.srv EXCEPT !.at = IF T > rows THEN rows + 1 ELSE T]
    <3>1. there = Call(sized.cur, sized.srv, T - sized.cur.pos)
      BY <1>9, <2>2
    <3>2. there.srv = [sized.srv EXCEPT !.at =
                         IF T > sized.srv.rows THEN sized.srv.rows + 1 ELSE T]
      <4>1. PICK c, s : c = sized.cur /\ s = sized.srv
        OBVIOUS
      <4>2. Knows(c, s) /\ c.pos # -1 /\ Scrolls(s) /\ there = Call(c, s, T - c.pos)
        BY <1>5, <3>1, <4>1
      <4>3. there.srv = [s EXCEPT !.at = IF T > s.rows THEN s.rows + 1 ELSE T]
        BY <4>2, MovedTo, SMTT(30)
      <4> QED BY <4>1, <4>3
    <3> QED BY <1>5, <3>2
  <2>4. PICK s \in Servers : /\ s = there.srv /\ s.rows = rows /\ Scrolls(s)
                             /\ s.at = IF T > rows THEN rows + 1 ELSE T
    BY <1>5, <2>3 DEF Knows, Servers, Scrolls
  <2>5. end - b \in Int /\ end - b # 0 /\ ~Refuses(s, end - b)
    BY <1>17, <2>4 DEF Refuses, Scrolls
  <2>6. got = RowsPassed(s, end - b) /\ srv'.rows = srv.rows
    <3>1. PICK n \in Int : n = end - b
      OBVIOUS
    <3>2. fetched = Call(there.cur, s, n) /\ n # 0 /\ ~Refuses(s, n)
      BY <1>10, <2>4, <2>5, <3>1
    <3>3. fetched.rows = RowsPassed(s, n) /\ fetched.srv = [s EXCEPT !.at = Arrives(s, n)]
      BY <3>2 DEF Call
    <3>4. fetched.srv.rows = rows
      BY <2>4, <3>3 DEF Servers
    <3>5. ~(b > rows \/ b = end)
      BY <1>17
    <3>6. got = fetched.rows /\ srv' = fetched.srv
      BY <1>11, <1>14, <3>5
    <3> QED BY <1>4, <3>1, <3>3, <3>4, <3>6
  <2>7. b = rows => end = -1 \/ b < end
    BY <1>4, <1>6, <1>17 DEF Greater, Lesser
  <2>8. Returned(got, asked, rows)
    BY <1>7, <1>8, <1>12, <1>17, <2>1, <2>4, <2>6, <2>7, FetchReturns
  <2> QED BY <1>4, <1>13, <2>6, <2>8 DEF Returned, RetrievesAsked
<1> QED BY <1>4, <1>16, <1>17

\* Every step keeps it: no other call says that it was asked for rows.
LEMMA StepReturns ==
  ASSUME "beyond" \notin Habits, RInv, [Next]_vars
  PROVE  RInv'
<1>1. IInv'
  BY StepInv DEF RInv
<1>2. CASE UNCHANGED vars
  BY <1>1, <1>2 DEF RInv, RetrievesAsked, vars
<1>3. ASSUME NEW n \in Int, FetchOrMove(n)
      PROVE  RInv'
  <2>1. srv'.rows = srv.rows
    BY <1>3 DEF FetchOrMove, Call, RInv, IInv, Knows, Servers
  <2>2. last'.got = <<>> /\ last'.asked = <<>>
    BY <1>3 DEF FetchOrMove, NoCall
  <2>3. RetrievesAsked'
    BY <2>2, NothingAsked, ReturnedAsAsked
  <2> QED BY <1>1, <2>1, <2>3 DEF RInv
<1>4. ASSUME NEW b \in 0..(MaxRows + 1), NEW e \in -2..(MaxRows + 1), StatelessRetrieve(b, e)
      PROVE  RInv'
  <2>1. b \in Nat /\ e \in Int /\ e >= -2
    BY RowsAssumption
  <2>2. /\ Retrieve(b, e) /\ Scrolls(srv)
        /\ ~(b = srv.rows /\ e \in 0..(b - 1))
    BY <1>4 DEF StatelessRetrieve, Scrolls
  <2>3. RetrievesAsked' /\ srv'.rows = srv.rows
    BY <2>1, <2>2, RetrieveReturns
  <2> QED BY <1>1, <2>3 DEF RInv
<1>5. CASE Close
  <2>1. srv'.rows = srv.rows /\ last'.got = <<>> /\ last'.asked = <<>>
    BY <1>5 DEF Close, NoCall, RInv, IInv, Knows, Servers
  <2>2. RetrievesAsked'
    BY <2>1, NothingAsked, ReturnedAsAsked
  <2> QED BY <1>1, <2>1, <2>2 DEF RInv
<1> QED BY <1>2, <1>3, <1>4, <1>5, StridesAssumption DEF Next

\* A program that does not go back from one past the last row to a row that exists gets
\* from retrieve() the rows it asks for that exist, in order, and no other, wherever the
\* cursor stood and whatever was fetched before (cursor.cxx:56).
THEOREM RetrievedAsAsked ==
  ASSUME "beyond" \notin Habits
  PROVE  Spec => []RetrievesAsked
<1>1. ASSUME Init
      PROVE  RInv
  <2>1. srv.rows \in 0..MaxRows
    BY <1>1 DEF Init
  <2>2. last.got = <<>> /\ last.asked = <<>>
    BY <1>1 DEF Init, NoCall
  <2>3. RetrievesAsked
    BY <2>2, NothingAsked, ReturnedAsAsked
  <2> QED BY <1>1, <2>1, <2>3, InitInv, RowsAssumption DEF RInv
<1>2. RInv /\ [Next]_vars => RInv'
  BY StepReturns
<1>3. RInv => RetrievesAsked
  BY DEF RInv
<1> QED BY <1>1, <1>2, <1>3, PTL DEF Spec
-----------------------------------------------------------------------------
(* The stream: its place and the blocks it reads.                            *)

Strms == [stride : Nat \ {0}, realpos : Nat, reqpos : Nat, done : BOOLEAN]

\* The stream and the cursor at the server agree on the stream's place.
Placed(w) ==
  /\ w.s.realpos = Lesser(w.srv.at, w.srv.rows)
  /\ w.s.done => w.srv.at = w.srv.rows + 1
\* What reading can make of a stream s whose query has n rows: its stride and the place
\* asked for stay, and it knows where it stands.
Worlds(s, n) ==
  {w \in [s : Strms, c : Clients, srv : Servers, here : [Its -> Seq(Int)]] :
     /\ Knows(w.c, w.srv) /\ w.srv.open /\ Placed(w)
     /\ w.s.stride = s.stride /\ w.s.reqpos = s.reqpos /\ w.srv.rows = n}

\* The block at pos of a query of so many rows.
BlockOf(pos, stride, rows) ==
  [k \in 1..Greater(Lesser(stride, rows - pos), 0) |-> pos + k]

\* A block at or past the end is empty, and one before it is not.
LEMMA BlockLength ==
  ASSUME NEW pos \in Nat, NEW n \in Nat \ {0}, NEW rows \in Nat
  PROVE  /\ BlockOf(pos, n, rows) \in Seq(Int)
         /\ pos >= rows => BlockOf(pos, n, rows) = <<>>
         /\ pos < rows => Len(BlockOf(pos, n, rows)) = Lesser(n, rows - pos)
         /\ pos < rows => BlockOf(pos, n, rows) # <<>>
<1>1. PICK len : len = Greater(Lesser(n, rows - pos), 0)
  OBVIOUS
<1>2. len \in Nat /\ (pos >= rows => len = 0)
        /\ (pos < rows => len = Lesser(n, rows - pos) /\ len > 0)
  BY <1>1 DEF Greater, Lesser
<1>3. PICK b : b = BlockOf(pos, n, rows)
  OBVIOUS
<1>4. b = [k \in 1..len |-> pos + k]
  BY <1>1, <1>3 DEF BlockOf
<1>5. b \in Seq(Int) /\ Len(b) = len
  BY <1>2, <1>4
<1>6. len = 0 => b = <<>>
  BY <1>5
<1>7. len > 0 => b # <<>>
  BY <1>5
<1> QED BY <1>2, <1>3, <1>5, <1>6, <1>7

\* FETCH and MOVE forwards pass the rows of the next block.
LEMMA CallForward ==
  ASSUME NEW c, NEW s, NEW n \in Nat \ {0}, Knows(c, s), s.open,
         NEW r, r = Call(c, s, n)
  PROVE  /\ Knows(r.cur, r.srv) /\ r.srv.open /\ r.srv.rows = s.rows
         /\ r.srv.at = Lesser(s.at + n, s.rows + 1)
         /\ r.rows = BlockOf(Lesser(s.at, s.rows), n, s.rows)
<1>1. s \in Servers /\ s.at <= s.rows + 1
  BY DEF Knows
<1>2. Knows(r.cur, r.srv)
  <2>1. n \in Int
    OBVIOUS
  <2> QED BY <2>1, CallRight
<1>3. n # 0 /\ ~Refuses(s, n) /\ n > 0 /\ Direction(n) = 1
  BY DEF Refuses, Direction
<1>4. r.srv = [s EXCEPT !.at = Arrives(s, n)] /\ r.rows = RowsPassed(s, n)
  BY <1>3 DEF Call
<1>5. r.srv.open /\ r.srv.rows = s.rows /\ r.srv.at = Lesser(s.at + n, s.rows + 1)
  BY <1>1, <1>3, <1>4 DEF Arrives, Servers
<1>6. Count(s, n) = Greater(Lesser(n, s.rows - Lesser(s.at, s.rows)), 0)
  BY <1>1, <1>3 DEF Count, Greater, Lesser, Servers
<1>7. Count(s, n) > 0 => s.at = Lesser(s.at, s.rows)
  BY <1>1, <1>3 DEF Count, Greater, Lesser, Servers
<1>8. PICK len, at, place : len = Count(s, n) /\ at = s.at /\ place = Lesser(s.at, s.rows)
  OBVIOUS
<1>9. at \in Nat /\ place \in Nat /\ len \in Nat /\ (len > 0 => at = place)
  BY <1>1, <1>6, <1>7, <1>8 DEF Servers, Lesser, Greater
<1>10. RowsPassed(s, n) = [i \in 1..len |-> at + 1 * i]
  BY <1>3, <1>8 DEF RowsPassed
<1>11. [i \in 1..len |-> at + 1 * i] = [i \in 1..len |-> place + i]
  BY <1>9
<1>12. BlockOf(place, n, s.rows) = [k \in 1..len |-> place + k]
  BY <1>6, <1>8 DEF BlockOf
<1> QED BY <1>2, <1>4, <1>5, <1>8, <1>10, <1>11, <1>12

\* How many rows that is, and what is left of the query then.
LEMMA ForwardCounts ==
  ASSUME NEW c, NEW s, NEW n \in Nat \ {0}, Knows(c, s), s.open,
         NEW r, r = Call(c, s, n)
  PROVE  /\ Len(r.rows) \in Nat
         /\ Lesser(s.at, s.rows) + Len(r.rows) = Lesser(Lesser(s.at, s.rows) + n, s.rows)
         /\ Lesser(s.at, s.rows) + Len(r.rows) = Lesser(r.srv.at, s.rows)
         /\ r.rows = <<>> \/ Len(r.rows) < n => r.srv.at = s.rows + 1
         /\ s.at = s.rows + 1 => r.srv.at = s.rows + 1
<1>1. s \in Servers /\ s.at <= s.rows + 1
  BY DEF Knows
<1>2. PICK place, at, rows : place = Lesser(s.at, s.rows) /\ at = s.at /\ rows = s.rows
  OBVIOUS
<1>3. at \in Nat /\ rows \in Nat /\ place \in Nat /\ place <= rows /\ at <= rows + 1
        /\ place = Lesser(at, rows)
  BY <1>1, <1>2 DEF Servers, Lesser
<1>4. r.srv.at = Lesser(at + n, rows + 1) /\ r.rows = BlockOf(place, n, rows)
  BY <1>2, CallForward
<1>5. PICK len : len = Len(r.rows)
  OBVIOUS
<1>6. CASE place < rows
  <2>1. len = Lesser(n, rows - place) /\ r.rows # <<>>
    BY <1>3, <1>4, <1>5, <1>6, BlockLength
  <2> QED BY <1>2, <1>3, <1>4, <1>5, <1>6, <2>1, SMTT(30) DEF Lesser
<1>7. CASE place >= rows
  <2>1. r.rows = <<>> /\ len = 0
    BY <1>3, <1>4, <1>5, <1>7, BlockLength
  <2> QED BY <1>2, <1>3, <1>4, <1>5, <1>7, <2>1 DEF Lesser
<1> QED BY <1>3, <1>6, <1>7

\* fetchblock(): the block at the stream's place, and the stream goes past it.
LEMMA Fetched ==
  ASSUME NEW s, NEW rows, NEW w \in Worlds(s, rows), NEW f, f = FetchBlock(w)
  PROVE  /\ [s |-> f.s, c |-> f.c, srv |-> f.srv, here |-> f.here] \in Worlds(s, rows)
         /\ f.here = w.here /\ f.srv.rows = rows
         /\ f.block = BlockOf(w.s.realpos, s.stride, rows)
         /\ f.s.realpos = Lesser(w.s.realpos + s.stride, rows)
<1>1. PICK ws, c, sv : ws = w.s /\ c = w.c /\ sv = w.srv
  OBVIOUS
<1>2. /\ ws \in Strms /\ sv \in Servers /\ Knows(c, sv) /\ sv.open /\ w.here \in [Its -> Seq(Int)]
      /\ ws.realpos = Lesser(sv.at, sv.rows) /\ (ws.done => sv.at = sv.rows + 1)
      /\ ws.stride = s.stride /\ ws.reqpos = s.reqpos /\ sv.rows = rows
  BY <1>1 DEF Worlds, Placed
<1>3. PICK n \in Nat \ {0} : n = ws.stride
  BY <1>2 DEF Strms
<1>4. PICK r : r = Call(c, sv, n)
  OBVIOUS
<1>5. /\ Knows(r.cur, r.srv) /\ r.srv.open /\ r.srv.rows = rows
      /\ r.rows = BlockOf(ws.realpos, n, rows)
  BY <1>2, <1>4, CallForward
<1>6. /\ Len(r.rows) \in Nat
      /\ ws.realpos + Len(r.rows) = Lesser(ws.realpos + n, rows)
      /\ ws.realpos + Len(r.rows) = Lesser(r.srv.at, rows)
      /\ r.rows = <<>> => r.srv.at = rows + 1
      /\ sv.at = rows + 1 => r.srv.at = rows + 1
  BY <1>2, <1>4, ForwardCounts
<1>7. PICK p, d : p = ws.realpos + Len(r.rows) /\ d = (ws.done \/ r.rows = <<>>)
  OBVIOUS
<1>8. f.c = r.cur /\ f.srv = r.srv /\ f.here = w.here /\ f.block = r.rows
  BY <1>1, <1>3, <1>4 DEF FetchBlock
<1>9. f.s = [ws EXCEPT !.realpos = p, !.done = d]
  BY <1>1, <1>3, <1>4, <1>7 DEF FetchBlock, CountBlock
<1>10. p \in Nat /\ d \in BOOLEAN /\ (d => r.srv.at = rows + 1)
  <2>1. p \in Nat
    BY <1>2, <1>6, <1>7 DEF Strms
  <2>2. d \in BOOLEAN
    BY <1>7
  <2>3. d => r.srv.at = rows + 1
    BY <1>2, <1>6, <1>7
  <2> QED BY <2>1, <2>2, <2>3
<1>11. /\ f.s \in Strms /\ f.s.realpos = p /\ f.s.done = d /\ f.s.stride = s.stride
       /\ f.s.reqpos = s.reqpos
  BY <1>2, <1>9, <1>10 DEF Strms
<1>12. r.cur \in Clients /\ r.srv \in Servers
  BY <1>5 DEF Knows
<1>13. PICK v : v = [s |-> f.s, c |-> f.c, srv |-> f.srv, here |-> f.here]
  OBVIOUS
<1>14. v.s = f.s /\ v.c = r.cur /\ v.srv = r.srv /\ v.here = w.here
  BY <1>8, <1>13
<1>15. v \in [s : Strms, c : Clients, srv : Servers, here : [Its -> Seq(Int)]]
  BY <1>2, <1>8, <1>11, <1>12, <1>13
<1>16. Placed(v)
  BY <1>5, <1>6, <1>7, <1>10, <1>11, <1>14 DEF Placed
<1>17. v \in Worlds(s, rows)
  BY <1>5, <1>11, <1>14, <1>15, <1>16 DEF Worlds
<1> QED BY <1>1, <1>2, <1>3, <1>5, <1>6, <1>7, <1>8, <1>11, <1>13, <1>17

\* ignore(n): the stream goes past n rows, or to the end.
LEMMA Ignored ==
  ASSUME NEW s, NEW rows, NEW w \in Worlds(s, rows), NEW n \in Nat \ {0}, NEW v, v = Ignore(w, n)
  PROVE  /\ v \in Worlds(s, rows) /\ v.here = w.here
         /\ v.s.realpos = Lesser(w.s.realpos + n, rows)
<1>1. PICK ws, c, sv : ws = w.s /\ c = w.c /\ sv = w.srv
  OBVIOUS
<1>2. /\ ws \in Strms /\ sv \in Servers /\ Knows(c, sv) /\ sv.open /\ w.here \in [Its -> Seq(Int)]
      /\ ws.realpos = Lesser(sv.at, sv.rows) /\ (ws.done => sv.at = sv.rows + 1)
      /\ ws.stride = s.stride /\ ws.reqpos = s.reqpos /\ sv.rows = rows
      /\ w \in [s : Strms, c : Clients, srv : Servers, here : [Its -> Seq(Int)]]
  BY <1>1 DEF Worlds, Placed
<1>3. PICK r : r = Call(c, sv, n)
  OBVIOUS
<1>4. Knows(r.cur, r.srv) /\ r.srv.open /\ r.srv.rows = rows
  BY <1>2, <1>3, CallForward
<1>5. /\ Len(r.rows) \in Nat
      /\ ws.realpos + Len(r.rows) = Lesser(ws.realpos + n, rows)
      /\ ws.realpos + Len(r.rows) = Lesser(r.srv.at, rows)
      /\ Len(r.rows) < n => r.srv.at = rows + 1
      /\ sv.at = rows + 1 => r.srv.at = rows + 1
  BY <1>2, <1>3, ForwardCounts
<1>6. PICK p, d : p = ws.realpos + Len(r.rows) /\ d = (ws.done \/ Len(r.rows) < n)
  OBVIOUS
<1>7. v.c = r.cur /\ v.srv = r.srv /\ v.here = w.here
  BY <1>1, <1>2, <1>3 DEF Ignore
<1>8. v.s = [ws EXCEPT !.realpos = p, !.done = d]
  BY <1>1, <1>2, <1>3, <1>6 DEF Ignore
<1>9. p \in Nat /\ d \in BOOLEAN /\ (d => r.srv.at = rows + 1)
  <2>1. p \in Nat
    BY <1>2, <1>5, <1>6 DEF Strms
  <2>2. d \in BOOLEAN
    BY <1>6
  <2>3. d => r.srv.at = rows + 1
    BY <1>2, <1>5, <1>6
  <2> QED BY <2>1, <2>2, <2>3
<1>10. /\ v.s \in Strms /\ v.s.realpos = p /\ v.s.done = d /\ v.s.stride = s.stride
       /\ v.s.reqpos = s.reqpos
  BY <1>2, <1>8, <1>9 DEF Strms
<1>11. r.cur \in Clients /\ r.srv \in Servers
  BY <1>4 DEF Knows
<1>12. v = [s |-> v.s, c |-> v.c, srv |-> v.srv, here |-> v.here]
  BY <1>2 DEF Ignore
<1>13. v \in [s : Strms, c : Clients, srv : Servers, here : [Its -> Seq(Int)]]
  BY <1>2, <1>7, <1>10, <1>11, <1>12
<1>14. Placed(v)
  BY <1>4, <1>5, <1>6, <1>7, <1>9, <1>10 DEF Placed
<1>15. v \in Worlds(s, rows)
  BY <1>4, <1>7, <1>10, <1>13, <1>14 DEF Worlds
<1> QED BY <1>1, <1>5, <1>6, <1>7, <1>10, <1>15

\* The block at pos is given to the iterators that stand there, and the stream, which
\* was not past it, goes past it.
LEMMA Served ==
  ASSUME NEW s, s \in Strms, NEW rows \in Nat, NEW w \in Worlds(s, rows), NEW pos \in Nat,
         NEW todo, NEW v, v = Serve(w, pos, todo)
  PROVE  /\ v \in Worlds(s, rows)
         /\ pos >= w.s.realpos =>
              /\ v.s.realpos = Lesser(pos + s.stride, rows)
              /\ \A i \in Its :
                   v.here[i] = IF i \in todo /\ it[i].pos = pos THEN BlockOf(pos, s.stride, rows)
                               ELSE w.here[i]
<1>1. PICK there : there = IF pos > w.s.realpos THEN Ignore(w, pos - w.s.realpos) ELSE w
  OBVIOUS
<1>2. PICK read : read = FetchBlock(there)
  OBVIOUS
<1>3. w.s \in Strms /\ w.s.realpos \in Nat /\ w.s.realpos <= rows /\ s.stride \in Nat \ {0}
  BY DEF Worlds, Strms, Placed, Lesser, Servers
<1>4. /\ there \in Worlds(s, rows) /\ there.here = w.here
      /\ pos >= w.s.realpos => there.s.realpos = Lesser(pos, rows)
  <2>1. CASE pos > w.s.realpos
    <3>1. PICK n \in Nat \ {0} : n = pos - w.s.realpos
      BY <1>3, <2>1
    <3>2. there = Ignore(w, n) /\ w.s.realpos + n = pos
      BY <1>1, <1>3, <2>1, <3>1
    <3> QED BY <3>1, <3>2, Ignored
  <2>2. CASE ~(pos > w.s.realpos)
    BY <1>1, <1>3, <2>2 DEF Lesser
  <2> QED BY <2>1, <2>2
<1>5. /\ [s |-> read.s, c |-> read.c, srv |-> read.srv, here |-> read.here] \in Worlds(s, rows)
      /\ read.here = w.here
      /\ read.block = BlockOf(there.s.realpos, s.stride, rows)
      /\ read.s.realpos = Lesser(there.s.realpos + s.stride, rows)
  BY <1>2, <1>4, Fetched
<1>6. there.s.realpos \in Nat
  BY <1>4 DEF Worlds, Strms
<1>7. read.block \in Seq(Int)
  BY <1>3, <1>5, <1>6, BlockLength
<1>8. PICK given : given = [i \in Its |-> IF i \in todo /\ it[i].pos = pos THEN read.block
                                          ELSE read.here[i]]
  OBVIOUS
<1>9. given \in [Its -> Seq(Int)]
  <2>1. w.here \in [Its -> Seq(Int)]
    BY DEF Worlds
  <2> QED BY <1>5, <1>7, <1>8, <2>1
<1>10. v = [s |-> read.s, c |-> read.c, srv |-> read.srv, here |-> given]
  BY <1>1, <1>2, <1>8 DEF Serve
<1>11. v \in Worlds(s, rows)
  BY <1>5, <1>9, <1>10 DEF Worlds, Placed
<1>12. ASSUME pos >= w.s.realpos
       PROVE  /\ v.s.realpos = Lesser(pos + s.stride, rows)
              /\ read.block = BlockOf(pos, s.stride, rows)
  <2>1. there.s.realpos = Lesser(pos, rows)
    BY <1>4, <1>12
  <2>2. v.s.realpos = Lesser(Lesser(pos, rows) + s.stride, rows)
    BY <1>5, <1>10, <2>1
  <2>3. Lesser(Lesser(pos, rows) + s.stride, rows) = Lesser(pos + s.stride, rows)
    BY <1>3 DEF Lesser
  <2>4. BlockOf(Lesser(pos, rows), s.stride, rows) = BlockOf(pos, s.stride, rows)
    <3>1. CASE pos <= rows
      BY <3>1 DEF Lesser
    <3>2. CASE pos > rows
      <4>1. Lesser(pos, rows) = rows
        BY <3>2 DEF Lesser
      <4>2. BlockOf(rows, s.stride, rows) = <<>> /\ BlockOf(pos, s.stride, rows) = <<>>
        <5>1. rows >= rows /\ pos >= rows
          BY <3>2
        <5> QED BY <1>3, <5>1, BlockLength
      <4> QED BY <4>1, <4>2
    <3> QED BY <3>1, <3>2
  <2> QED BY <1>5, <2>1, <2>2, <2>3, <2>4
<1> QED BY <1>5, <1>8, <1>10, <1>11, <1>12

-----------------------------------------------------------------------------
(* service_iterators: what each position that is served leaves.              *)

\* Positions are a stride or more apart: what is read at one of them is read for the
\* iterators that stand there, and for no other.
Apart ==
  \A i \in OnStream :
    /\ it[i].pos \in Nat
    /\ \A j \in OnStream :
         \/ it[i].pos = it[j].pos
         \/ it[i].pos + strm.stride <= it[j].pos
         \/ it[j].pos + strm.stride <= it[i].pos

\* w is what has become of the stream when the positions of todo below n are served.
Upto(n, w, todo) ==
  /\ w \in Worlds(strm, srv.rows)
  /\ \A i \in Its : w.here[i] = IF i \in todo /\ it[i].pos < n THEN Block(it[i].pos) ELSE it[i].here
  /\ w.s.realpos >= strm.realpos
  /\ \/ w.s.realpos = strm.realpos
     \/ \E i \in todo : it[i].pos < n /\ w.s.realpos = Lesser(it[i].pos + strm.stride, srv.rows)
  /\ \A i \in todo : it[i].pos < n => w.s.realpos >= Lesser(it[i].pos + strm.stride, srv.rows)

\* Block is that block, of the stream's stride and the rows at the server.
LEMMA BlockIs ==
  ASSUME NEW pos
  PROVE  Block(pos) = BlockOf(pos, strm.stride, srv.rows)
BY DEF Block, BlockOf

\* One more position.
LEMMA OneMore ==
  ASSUME Apart, strm \in Strms, srv.rows \in Nat, NEW topos \in Nat,
         NEW todo, todo = Todo(Now, topos), NEW p \in Nat, NEW w, Upto(p, w, todo)
  PROVE  Upto(p + 1, IF \E i \in todo : it[i].pos = p THEN Serve(w, p, todo) ELSE w, todo)
<1>1. /\ w \in Worlds(strm, srv.rows) /\ w.s.realpos \in Nat
      /\ strm.stride \in Nat \ {0} /\ strm.realpos \in Nat
  BY DEF Upto, Worlds, Strms
<1>2. \A i \in todo : /\ i \in OnStream /\ i \in Its /\ it[i].pos \in Nat
                      /\ it[i].pos >= strm.realpos
  BY DEF Todo, Now, Apart, OnStream, Live
<1>3. \A i \in todo : it[i].pos < p + 1 <=> it[i].pos < p \/ it[i].pos = p
  BY <1>2
<1>4. CASE \E i \in todo : it[i].pos = p
  <2>1. PICK j \in todo : it[j].pos = p
    BY <1>4
  <2>2. PICK v : v = Serve(w, p, todo)
    OBVIOUS
  <2>3. p >= w.s.realpos
    <3>1. CASE w.s.realpos = strm.realpos
      BY <1>1, <1>2, <2>1, <3>1
    <3>2. CASE \E i \in todo : it[i].pos < p /\ w.s.realpos = Lesser(it[i].pos + strm.stride, srv.rows)
      <4>1. PICK i \in todo : it[i].pos < p /\ w.s.realpos = Lesser(it[i].pos + strm.stride, srv.rows)
        BY <3>2
      <4>2. it[i].pos + strm.stride <= p
        BY <1>1, <1>2, <2>1, <4>1 DEF Apart
      <4> QED BY <1>1, <1>2, <4>1, <4>2 DEF Lesser
    <3> QED BY <3>1, <3>2 DEF Upto
  <2>4. /\ v \in Worlds(strm, srv.rows)
        /\ v.s.realpos = Lesser(p + strm.stride, srv.rows)
        /\ \A i \in Its :
             v.here[i] = IF i \in todo /\ it[i].pos = p THEN BlockOf(p, strm.stride, srv.rows)
                         ELSE w.here[i]
    BY <1>1, <2>2, <2>3, Served
  <2>5. \A i \in Its :
          v.here[i] = IF i \in todo /\ it[i].pos < p + 1 THEN Block(it[i].pos) ELSE it[i].here
    BY <1>2, <1>3, <2>4, BlockIs DEF Upto
  <2>6. v.s.realpos >= w.s.realpos
    <3>1. w.s.realpos <= srv.rows
      BY <1>1 DEF Worlds, Placed, Lesser, Servers
    <3> QED BY <1>1, <2>3, <2>4, <3>1 DEF Lesser
  <2>7. v.s.realpos >= strm.realpos
    BY <1>1, <2>4, <2>6 DEF Upto, Worlds, Strms
  <2>8. \A i \in todo : it[i].pos < p + 1 =>
          v.s.realpos >= Lesser(it[i].pos + strm.stride, srv.rows)
    <3> TAKE i \in todo
    <3>1. CASE it[i].pos = p
      BY <1>1, <2>4, <3>1 DEF Lesser
    <3>2. CASE it[i].pos < p
      <4>1. w.s.realpos >= Lesser(it[i].pos + strm.stride, srv.rows)
        BY <3>2 DEF Upto
      <4>2. Lesser(it[i].pos + strm.stride, srv.rows) \in Nat /\ v.s.realpos \in Nat
        BY <1>1, <1>2, <2>4 DEF Lesser
      <4> QED BY <1>1, <2>6, <4>1, <4>2
    <3> QED BY <1>3, <3>1, <3>2
  <2>9. \E i \in todo : it[i].pos < p + 1 /\ v.s.realpos = Lesser(it[i].pos + strm.stride, srv.rows)
    BY <1>3, <2>1, <2>4
  <2> QED BY <1>4, <2>2, <2>4, <2>5, <2>7, <2>8, <2>9 DEF Upto
<1>5. CASE ~ \E i \in todo : it[i].pos = p
  BY <1>2, <1>3, <1>5 DEF Upto
<1> QED BY <1>4, <1>5

\* What service_iterators leaves: each iterator that stood at a block not read yet, up
\* to topos, has it, and the stream is past all those blocks and no further.
LEMMA Serviced ==
  ASSUME Apart, Now \in Worlds(strm, srv.rows), NEW topos \in Nat
  PROVE  Upto(topos + 1, Service(topos), Todo(Now, topos))
<1> DEFINE todo == Todo(Now, topos)
           One(n, w) == IF \E i \in todo : it[i].pos = n - 1 THEN Serve(w, n - 1, todo) ELSE w
           served[n \in 0..(topos + 1)] ==
             IF n = 0 THEN Now
             ELSE IF \E i \in todo : it[i].pos = n - 1 THEN Serve(served[n - 1], n - 1, todo)
             ELSE served[n - 1]
<1>1. strm \in Strms /\ srv.rows \in Nat
  BY DEF Worlds, Servers, Now
<1>2. PICK X, top, start : X = Worlds(strm, srv.rows) /\ top = topos + 1 /\ start = Now
  OBVIOUS
<1>3. top \in Nat /\ start \in X
  BY <1>2
<1>4. \A n \in 1..top, w \in X : One(n, w) \in X
  <2> TAKE n \in 1..top, w \in X
  <2>1. CASE \E i \in todo : it[i].pos = n - 1
    <3>1. n - 1 \in Nat
      OBVIOUS
    <3> HIDE DEF todo
    <3>2. Serve(w, n - 1, todo) \in X
      BY <1>1, <1>2, <3>1, Served
    <3> QED BY <2>1, <3>2
  <2>2. CASE ~ \E i \in todo : it[i].pos = n - 1
    BY <2>2
  <2> QED BY <2>1, <2>2
<1>5. PICK step : step = [n \in 1..top |-> [w \in X |-> One(n, w)]]
  OBVIOUS
<1>6. step \in [1..top -> [X -> X]]
  <2> HIDE DEF One
  <2> QED BY <1>4, <1>5
<1>7. PICK f \in [0..top -> X] : Passes(f, top, start, step)
  <2> HIDE DEF One, served
  <2> QED BY <1>3, <1>6, Passing
<1>8. f = [n \in 0..top |-> IF n = 0 THEN start
                              ELSE IF \E i \in todo : it[i].pos = n - 1
                                   THEN Serve(f[n - 1], n - 1, todo)
                              ELSE f[n - 1]]
  <2>1. \A n \in 0..top : n # 0 => n \in 1..top /\ n - 1 \in 0..top /\ f[n - 1] \in X
    BY <1>3
  <2>2. \A n \in 0..top : n # 0 => step[n][f[n - 1]] = One(n, f[n - 1])
    <3> HIDE DEF One
    <3> QED BY <2>1, <1>5
  <2>3. \A n \in 0..top : f[n] = IF n = 0 THEN start ELSE One(n, f[n - 1])
    <3> HIDE DEF One
    <3> QED BY <2>1, <2>2, <1>7 DEF Passes
  <2> HIDE DEF todo
  <2> QED BY <2>3
<1>9. served = [n \in 0..top |-> IF n = 0 THEN start
                                   ELSE IF \E i \in todo : it[i].pos = n - 1
                                        THEN Serve(served[n - 1], n - 1, todo)
                                   ELSE served[n - 1]]
  <2> HIDE DEF todo
  <2> QED BY <1>2, <1>8
<1> HIDE DEF served
<1>10. served[0] = start /\ \A n \in 1..top : served[n] = One(n, served[n - 1])
  <2>1. \A n \in 0..top : served[n] = IF n = 0 THEN start
                                        ELSE IF \E i \in todo : it[i].pos = n - 1
                                             THEN Serve(served[n - 1], n - 1, todo)
                                        ELSE served[n - 1]
    <3> HIDE DEF todo
    <3> QED BY <1>9
  <2>2. 0 \in 0..top /\ \A n \in 1..top : n \in 0..top /\ n # 0
    BY <1>3
  <2> HIDE DEF todo
  <2> QED BY <2>1, <2>2
<1>11. PICK T : T = {n \in 0..top : Upto(n, served[n], todo)}
  OBVIOUS
<1>12. 0 \in T
  <2>1. Upto(0, start, todo)
    <3>1. \A i \in todo : it[i].pos \in Nat /\ ~(it[i].pos < 0)
      BY DEF Todo, Apart
    <3>2. start.here = [i \in Its |-> it[i].here] /\ start.s = strm
      BY <1>2 DEF Now
    <3>3. strm.realpos >= strm.realpos
      BY <1>1 DEF Strms
    <3> HIDE DEF todo
    <3> QED BY <1>2, <1>3, <3>1, <3>2, <3>3 DEF Upto
  <2> HIDE DEF todo
  <2> QED BY <1>3, <1>10, <1>11, <2>1
<1>13. ASSUME NEW n \in 1..top, n - 1 \in T
       PROVE  n \in T
  <2>1. n - 1 \in Nat /\ n \in 0..top /\ (n - 1) + 1 = n
    BY <1>3
  <2>2. PICK p \in Nat : p = n - 1
    BY <2>1
  <2>3. PICK w : w = served[p]
    OBVIOUS
  <2>4. Upto(p, w, todo)
    <3> HIDE DEF todo
    <3> QED BY <1>11, <1>13, <2>2, <2>3
  <2>5. Upto(p + 1, IF \E i \in todo : it[i].pos = p THEN Serve(w, p, todo) ELSE w, todo)
    BY <1>1, <2>4, OneMore
  <2>6. served[n] = IF \E i \in todo : it[i].pos = p THEN Serve(w, p, todo) ELSE w
    <3> HIDE DEF todo
    <3> QED BY <1>10, <2>2, <2>3
  <2> HIDE DEF todo
  <2> QED BY <1>11, <2>1, <2>2, <2>5, <2>6
<1>14. 0..top \subseteq T
  <2> HIDE DEF todo
  <2> QED BY <1>3, <1>12, <1>13, ByPositions
<1>15. Upto(top, served[top], todo)
  <2> HIDE DEF todo
  <2> QED BY <1>3, <1>11, <1>14
<1>16. Service(topos) = served[top]
  BY <1>2 DEF Service, served
<1> QED BY <1>2, <1>15, <1>16
-----------------------------------------------------------------------------
(* The list of iterators.                                                    *)

\* h, n and p link the iterators of S from h down, in the order of their ranks: each
\* points to the ones next to it in that order.
Linked(rank, h, n, p, S) ==
  /\ rank \in [Its -> Nat] /\ S \subseteq Its
  /\ n \in [Its -> Its \cup {Null}] /\ p \in [Its -> Its \cup {Null}]
  /\ \A i, j \in S : rank[i] = rank[j] => i = j
  /\ IF h = Null THEN S = {} ELSE h \in S /\ \A j \in S : rank[j] <= rank[h]
  /\ \A i \in S :
       IF n[i] = Null THEN \A j \in S : rank[i] <= rank[j]
       ELSE n[i] \in S /\ rank[n[i]] < rank[i]
              /\ \A j \in S : rank[j] < rank[i] => rank[j] <= rank[n[i]]
  /\ \A i \in S :
       IF p[i] = Null THEN \A j \in S : rank[j] <= rank[i]
       ELSE p[i] \in S /\ rank[i] < rank[p[i]]
              /\ \A j \in S : rank[i] < rank[j] => rank[p[i]] <= rank[j]
  /\ \A i \in Its \ S : n[i] = Null /\ p[i] = Null

\* insert_iterator puts one before all the others (cursor.cxx:159).
LEMMA Linking ==
  ASSUME Null \notin Its, NEW rank, NEW h, NEW n, NEW p, NEW S, Linked(rank, h, n, p, S),
         NEW i \in Its \ S,
         NEW m, m = [n EXCEPT ![i] = h],
         NEW q, q = IF h = Null THEN p ELSE [p EXCEPT ![h] = i]
  PROVE  \E above \in [Its -> Nat] : Linked(above, i, m, q, S \cup {i})
<1>1. PICK top \in Nat : top = IF h = Null THEN 0 ELSE rank[h] + 1
  BY DEF Linked
<1>2. PICK above : above = [rank EXCEPT ![i] = top]
  OBVIOUS
<1> USE DEF Linked
<1>3. above \in [Its -> Nat] /\ above[i] = top /\ \A j \in S : above[j] = rank[j] /\ rank[j] \in Nat
  BY <1>2
<1>4. \A j \in S : rank[j] < top
  BY <1>1
<1>5. h # Null => h \in S /\ h # i
  OBVIOUS
<1>6. m[i] = h /\ \A j \in S : m[j] = n[j] /\ (j # h => q[j] = p[j])
  BY <1>5
<1>7. q[i] = Null /\ (h # Null => q[h] = i)
  BY <1>5
<1>8. m \in [Its -> Its \cup {Null}] /\ q \in [Its -> Its \cup {Null}]
  BY <1>5
<1>9. \A j, k \in S \cup {i} : above[j] = above[k] => j = k
  BY <1>3, <1>4
<1>10. \A j \in S \cup {i} : above[j] <= above[i]
  BY <1>3, <1>4
<1>11. ASSUME NEW j \in S \cup {i}
       PROVE  IF m[j] = Null THEN \A k \in S \cup {i} : above[j] <= above[k]
              ELSE m[j] \in S \cup {i} /\ above[m[j]] < above[j]
                     /\ \A k \in S \cup {i} : above[k] < above[j] => above[k] <= above[m[j]]
  <2>1. CASE j = i
    <3>1. CASE h = Null
      BY <1>3, <1>6, <2>1, <3>1
    <3>2. CASE h # Null
      <4>1. above[h] < top /\ \A k \in S : above[k] <= above[h]
        BY <1>3, <1>4, <1>5, <3>2
      <4> QED BY <1>3, <1>5, <1>6, <2>1, <3>2, <4>1
    <3> QED BY <3>1, <3>2
  <2>2. CASE j \in S
    <3>1. m[j] = n[j]
      BY <1>6, <2>2
    <3>2. CASE n[j] = Null
      BY <1>3, <1>4, <2>2, <3>1, <3>2
    <3>3. CASE n[j] # Null
      <4>1. n[j] \in S /\ rank[n[j]] < rank[j]
        BY <2>2, <3>3
      <4>2. \A k \in S : rank[k] < rank[j] => rank[k] <= rank[n[j]]
        BY <2>2, <3>3
      <4>3. ~ (above[i] < above[j])
        BY <1>3, <1>4, <2>2
      <4> QED BY <1>3, <2>2, <3>1, <3>3, <4>1, <4>2, <4>3
    <3> QED BY <3>2, <3>3
  <2> QED BY <2>1, <2>2
<1>12. ASSUME NEW j \in S \cup {i}
       PROVE  IF q[j] = Null THEN \A k \in S \cup {i} : above[k] <= above[j]
              ELSE q[j] \in S \cup {i} /\ above[j] < above[q[j]]
                     /\ \A k \in S \cup {i} : above[j] < above[k] => above[q[j]] <= above[k]
  <2>1. CASE j = i
    BY <1>7, <1>10, <2>1
  <2>2. CASE j \in S /\ j = h
    <3>1. \A k \in S : ~ (above[h] < above[k])
      BY <1>3, <2>2
    <3>2. q[j] = i /\ i # Null /\ above[j] < above[i]
      BY <1>3, <1>4, <1>7, <2>2
    <3> QED BY <1>3, <2>2, <3>1, <3>2
  <2>3. CASE j \in S /\ j # h
    <3>1. q[j] = p[j] /\ h \in S /\ rank[j] < rank[h]
      <4>1. h \in S
        BY <2>3
      <4>2. rank[j] <= rank[h] /\ rank[j] # rank[h] /\ rank[j] \in Nat /\ rank[h] \in Nat
        BY <2>3, <4>1
      <4> QED BY <1>6, <2>3, <4>1, <4>2
    <3>2. p[j] # Null
      <4>1. rank[j] \in Nat /\ rank[h] \in Nat
        BY <1>3, <2>3, <3>1
      <4> QED BY <2>3, <3>1, <4>1
    <3>3. p[j] \in S /\ rank[j] < rank[p[j]] /\ \A k \in S : rank[j] < rank[k] => rank[p[j]] <= rank[k]
      BY <2>3, <3>2
    <3>4. above[p[j]] <= above[i]
      BY <1>10, <3>3
    <3> QED BY <1>3, <2>3, <3>1, <3>2, <3>3, <3>4
  <2> QED BY <2>1, <2>2, <2>3
<1>13. \A j \in Its \ (S \cup {i}) : m[j] = Null /\ q[j] = Null
  BY <1>5
<1>14. S \cup {i} \subseteq Its /\ i # Null /\ i \in S \cup {i}
  OBVIOUS
<1> QED BY <1>3, <1>8, <1>9, <1>10, <1>11, <1>12, <1>13, <1>14

\* remove_iterator joins its neighbours (cursor.cxx:169).
LEMMA Unlinking ==
  ASSUME Null \notin Its, NEW rank, NEW h, NEW n, NEW p, NEW S, Linked(rank, h, n, p, S),
         NEW i \in S,
         NEW before, before = IF i = h THEN Null ELSE p[i],
         NEW q, q = IF n[i] = Null THEN p ELSE [p EXCEPT ![n[i]] = before],
         NEW m, m = IF i = h THEN n ELSE [n EXCEPT ![p[i]] = n[i]]
  PROVE  Linked(rank, IF i = h THEN n[i] ELSE h, [m EXCEPT ![i] = Null],
                [q EXCEPT ![i] = Null], S \ {i})
<1> USE DEF Linked
<1>1. \A j \in S : rank[j] \in Nat /\ j \in Its /\ n[j] \in Its \cup {Null} /\ p[j] \in Its \cup {Null}
  OBVIOUS
<1>2. h # Null /\ h \in S /\ \A j \in S : rank[j] <= rank[h]
  OBVIOUS
<1>3. p[h] = Null
  BY <1>1, <1>2
<1>4. before = p[i] /\ (i # h => p[i] # Null)
  <2>1. CASE i = h
    BY <1>3, <2>1
  <2>2. CASE i # h
    <3>1. rank[i] < rank[h]
      BY <1>1, <1>2, <2>2
    <3> QED BY <1>1, <1>2, <2>2, <3>1
  <2> QED BY <2>1, <2>2
<1>5. n[i] # Null => n[i] \in S /\ n[i] # i /\ rank[n[i]] < rank[i]
                       /\ \A j \in S : rank[j] < rank[i] => rank[j] <= rank[n[i]]
  BY <1>1
<1>6. n[i] = Null => \A j \in S : rank[i] <= rank[j]
  OBVIOUS
<1>7. p[i] # Null => p[i] \in S /\ p[i] # i /\ rank[i] < rank[p[i]]
                       /\ \A j \in S : rank[i] < rank[j] => rank[p[i]] <= rank[j]
  BY <1>1
<1>8. p[i] = Null => i = h
  BY <1>4
<1>9. PICK o, u : o = [m EXCEPT ![i] = Null] /\ u = [q EXCEPT ![i] = Null]
  OBVIOUS
<1>10. o \in [Its -> Its \cup {Null}] /\ u \in [Its -> Its \cup {Null}]
  BY <1>1, <1>4, <1>9
<1>11. ASSUME NEW j \in S \ {i}
       PROVE  o[j] = IF p[i] # Null /\ j = p[i] THEN n[i] ELSE n[j]
  BY <1>1, <1>4, <1>7, <1>9, <1>8, <1>3
<1>12. ASSUME NEW j \in S \ {i}
       PROVE  u[j] = IF n[i] # Null /\ j = n[i] THEN p[i] ELSE p[j]
  BY <1>1, <1>4, <1>5, <1>9
<1>13. ASSUME NEW j \in S \ {i}
       PROVE  IF o[j] = Null THEN \A k \in S \ {i} : rank[j] <= rank[k]
              ELSE o[j] \in S \ {i} /\ rank[o[j]] < rank[j]
                     /\ \A k \in S \ {i} : rank[k] < rank[j] => rank[k] <= rank[o[j]]
  <2>1. CASE p[i] # Null /\ j = p[i]
    <3>1. o[j] = n[i] /\ rank[i] < rank[j] /\ \A k \in S : rank[i] < rank[k] => rank[j] <= rank[k]
      BY <1>7, <1>11, <2>1
    <3>2. \A k \in S \ {i} : rank[k] < rank[j] => rank[k] < rank[i]
      <4> TAKE k \in S \ {i}
      <4>1. rank[k] # rank[i]
        OBVIOUS
      <4>2. rank[k] \in Nat /\ rank[j] \in Nat /\ rank[i] \in Nat
        BY <1>1
      <4>3. rank[i] < rank[k] => rank[j] <= rank[k]
        BY <3>1
      <4> HIDE DEF Linked
      <4> QED BY <4>1, <4>2, <4>3
    <3>3. CASE n[i] = Null
      <4>1. \A k \in S \ {i} : ~ (rank[k] < rank[i])
        BY <1>1, <1>6, <3>3
      <4> QED BY <1>1, <3>1, <3>2, <3>3, <4>1
    <3>4. CASE n[i] # Null
      <4>1. rank[n[i]] < rank[j] /\ n[i] \in S \ {i}
        BY <1>1, <1>5, <3>1, <3>4
      <4> QED BY <1>1, <1>5, <3>1, <3>2, <3>4, <4>1
    <3> QED BY <3>3, <3>4
  <2>2. CASE ~(p[i] # Null /\ j = p[i])
    <3>1. o[j] = n[j]
      BY <1>11, <2>2
    <3>2. n[j] # i
      <4>1. SUFFICES ASSUME n[j] = i PROVE FALSE
        OBVIOUS
      <4>2. i # Null /\ rank[i] < rank[j] /\ \A k \in S : rank[k] < rank[j] => rank[k] <= rank[i]
        BY <1>1, <4>1
      <4>3. p[i] # Null
        BY <1>1, <1>2, <1>8, <4>2
      <4>4. p[i] \in S /\ rank[i] < rank[p[i]] /\ rank[p[i]] <= rank[j]
        BY <1>7, <4>2, <4>3
      <4>5. rank[p[i]] = rank[j]
        <5>1. rank[p[i]] \in Nat /\ rank[j] \in Nat /\ rank[i] \in Nat
          BY <1>1, <4>4
        <5>2. ~ (rank[p[i]] < rank[j])
          <6>1. rank[p[i]] < rank[j] => rank[p[i]] <= rank[i]
            BY <4>2, <4>4
          <6>2. rank[i] < rank[p[i]]
            BY <4>4
          <6> HIDE DEF Linked
          <6> QED BY <5>1, <6>1, <6>2
        <5>3. rank[p[i]] <= rank[j]
          BY <4>4
        <5> HIDE DEF Linked
        <5> QED BY <5>1, <5>2, <5>3
      <4> QED BY <2>2, <4>3, <4>4, <4>5
    <3> QED BY <1>1, <3>1, <3>2
  <2> QED BY <2>1, <2>2
<1>14. ASSUME NEW j \in S \ {i}
       PROVE  IF u[j] = Null THEN \A k \in S \ {i} : rank[k] <= rank[j]
              ELSE u[j] \in S \ {i} /\ rank[j] < rank[u[j]]
                     /\ \A k \in S \ {i} : rank[j] < rank[k] => rank[u[j]] <= rank[k]
  <2>1. CASE n[i] # Null /\ j = n[i]
    <3>1. u[j] = p[i] /\ rank[j] < rank[i] /\ \A k \in S : rank[k] < rank[i] => rank[k] <= rank[j]
      BY <1>5, <1>12, <2>1
    <3>2. \A k \in S \ {i} : rank[j] < rank[k] => rank[i] < rank[k]
      <4> TAKE k \in S \ {i}
      <4>1. rank[k] # rank[i]
        OBVIOUS
      <4>2. rank[k] \in Nat /\ rank[j] \in Nat /\ rank[i] \in Nat
        BY <1>1
      <4>3. rank[k] < rank[i] => rank[k] <= rank[j]
        BY <3>1
      <4> HIDE DEF Linked
      <4> QED BY <4>1, <4>2, <4>3
    <3>3. CASE p[i] = Null
      <4>1. \A k \in S \ {i} : ~ (rank[i] < rank[k])
        BY <1>1, <1>2, <1>8, <3>3
      <4> QED BY <1>1, <3>1, <3>2, <3>3, <4>1
    <3>4. CASE p[i] # Null
      <4>1. rank[j] < rank[p[i]] /\ p[i] \in S \ {i}
        BY <1>1, <1>7, <3>1, <3>4
      <4> QED BY <1>1, <1>7, <3>1, <3>2, <3>4, <4>1
    <3> QED BY <3>3, <3>4
  <2>2. CASE ~(n[i] # Null /\ j = n[i])
    <3>1. u[j] = p[j]
      BY <1>12, <2>2
    <3>2. p[j] # i
      <4>1. SUFFICES ASSUME p[j] = i PROVE FALSE
        OBVIOUS
      <4>2. i # Null /\ rank[j] < rank[i] /\ \A k \in S : rank[j] < rank[k] => rank[i] <= rank[k]
        BY <1>1, <4>1
      <4>3. n[i] # Null
        BY <1>1, <1>6, <4>2
      <4>4. n[i] \in S /\ rank[n[i]] < rank[i] /\ rank[j] <= rank[n[i]]
        BY <1>5, <4>2, <4>3
      <4>5. rank[n[i]] = rank[j]
        <5>1. rank[n[i]] \in Nat /\ rank[j] \in Nat /\ rank[i] \in Nat
          BY <1>1, <4>4
        <5>2. ~ (rank[j] < rank[n[i]])
          <6>1. rank[j] < rank[n[i]] => rank[i] <= rank[n[i]]
            BY <4>2, <4>4
          <6>2. rank[n[i]] < rank[i]
            BY <4>4
          <6> HIDE DEF Linked
          <6> QED BY <5>1, <6>1, <6>2
        <5>3. rank[j] <= rank[n[i]]
          BY <4>4
        <5> HIDE DEF Linked
        <5> QED BY <5>1, <5>2, <5>3
      <4> QED BY <2>2, <4>3, <4>4, <4>5
    <3> QED BY <1>1, <3>1, <3>2
  <2> QED BY <2>1, <2>2
<1>15. ASSUME NEW j \in Its \ (S \ {i})
       PROVE  o[j] = Null /\ u[j] = Null
  <2>1. CASE j = i
    BY <1>1, <1>4, <1>9, <2>1
  <2>2. CASE j # i
    <3>1. n[j] = Null /\ p[j] = Null /\ j \notin S
      BY <2>2
    <3>2. o[j] = n[j]
      BY <1>4, <1>7, <1>9, <2>2, <3>1
    <3>3. u[j] = p[j]
      BY <1>5, <1>9, <2>2, <3>1
    <3> QED BY <3>1, <3>2, <3>3
  <2> QED BY <2>1, <2>2
<1>16. PICK g : g = IF i = h THEN n[i] ELSE h
  OBVIOUS
<1>17. IF g = Null THEN S \ {i} = {} ELSE g \in S \ {i} /\ \A j \in S \ {i} : rank[j] <= rank[g]
  <2>1. CASE i # h
    BY <1>2, <1>16, <2>1
  <2>2. CASE i = h
    <3>1. \A j \in S \ {i} : rank[j] < rank[i]
      <4> TAKE j \in S \ {i}
      <4>1. rank[j] # rank[i] /\ rank[j] <= rank[i]
        BY <1>2, <2>2
      <4> QED BY <1>1, <4>1
    <3>2. CASE n[i] = Null
      BY <1>1, <1>6, <1>16, <2>2, <3>1, <3>2
    <3>3. CASE n[i] # Null
      BY <1>5, <1>16, <2>2, <3>1, <3>3
    <3> QED BY <3>2, <3>3
  <2> QED BY <2>1, <2>2
<1> QED BY <1>9, <1>10, <1>13, <1>14, <1>15, <1>16, <1>17
-----------------------------------------------------------------------------
(* The invariant.                                                            *)

Iterators == [live : BOOLEAN, on : BOOLEAN, pos : Nat, here : Seq(Int)]

\* Iterators stand where an advance has ended, and the stream has read at most one
\* block beyond the last of these places.
Asked(pos) == pos = strm.reqpos \/ pos + strm.stride <= strm.reqpos
Reading ==
  /\ Now \in Worlds(strm, srv.rows)
  /\ it \in [Its -> Iterators]
  /\ Apart
  /\ \A i \in OnStream : Asked(it[i].pos)
  /\ OnStream # {} => strm.realpos <= strm.reqpos + strm.stride
  /\ IteratorsKeepTheirPlace
Listing == \E rank \in [Its -> Nat] : Linked(rank, head, next, prev, OnStream)
StreamInv == Reading /\ Listing

\* What the invariant says of its types.
LEMMA StreamTypes ==
  ASSUME Reading
  PROVE  /\ strm \in Strms /\ srv \in Servers /\ cur \in Clients /\ Knows(cur, srv) /\ srv.open
         /\ strm.stride \in Nat \ {0} /\ strm.realpos \in Nat /\ strm.reqpos \in Nat
         /\ srv.rows \in Nat /\ strm.realpos = Lesser(srv.at, srv.rows)
         /\ strm.done => srv.at = srv.rows + 1
         /\ strm.realpos <= srv.rows
<1>1. /\ strm \in Strms /\ srv \in Servers /\ cur \in Clients /\ Knows(cur, srv) /\ srv.open
      /\ strm.realpos = Lesser(srv.at, srv.rows) /\ (strm.done => srv.at = srv.rows + 1)
  BY DEF Reading, Worlds, Placed, Now
<1> QED BY <1>1 DEF Strms, Servers, Lesser

\* It says what IteratorsServed does.
LEMMA InvServes ==
  ASSUME Null \notin Its, StreamInv
  PROVE  IteratorsServed
<1>1. StreamPlace
  BY StreamTypes DEF StreamInv, StreamPlace
<1>2. IteratorsKeepTheirPlace
  BY DEF StreamInv, Reading
<1>3. ListSound
  <2>1. PICK rank \in [Its -> Nat] : Linked(rank, head, next, prev, OnStream)
    BY DEF StreamInv, Listing
  <2>2. PICK S : S = OnStream
    OBVIOUS
  <2> USE <2>1, <2>2 DEF Linked
  <2>3. \A i \in S : rank[i] \in Nat /\ i \in Its /\ i # Null
    OBVIOUS
  <2>4. (head = Null) = (S = {})
    OBVIOUS
  <2>5. head # Null => head \in S /\ prev[head] = Null
    BY <2>3
  <2>6. ASSUME NEW i \in S
        PROVE  /\ next[i] # Null => next[i] \in S /\ prev[next[i]] = i
               /\ prev[i] # Null => prev[i] \in S /\ next[prev[i]] = i
               /\ prev[i] = Null => i = head
    <3>1. ASSUME next[i] # Null
          PROVE  next[i] \in S /\ prev[next[i]] = i
      <4>1. PICK n : n = next[i]
        OBVIOUS
      <4>2. n \in S /\ rank[n] < rank[i] /\ \A j \in S : rank[j] < rank[i] => rank[j] <= rank[n]
        BY <3>1, <4>1
      <4>3. prev[n] # Null
        BY <2>3, <4>2
      <4>4. PICK p : p = prev[n]
        OBVIOUS
      <4>5. p \in S /\ rank[n] < rank[p] /\ rank[p] <= rank[i]
        BY <4>2, <4>3, <4>4
      <4>6. rank[p] < rank[i] => rank[p] <= rank[n]
        BY <4>2, <4>5
      <4>7. rank[p] = rank[i]
        <5>1. rank[p] \in Nat /\ rank[n] \in Nat /\ rank[i] \in Nat
          BY <2>3, <4>2, <4>5
        <5> HIDE <2>1, <2>2 DEF Linked
        <5> QED BY <4>5, <4>6, <5>1
      <4> QED BY <4>1, <4>2, <4>4, <4>5, <4>7
    <3>2. ASSUME prev[i] # Null
          PROVE  prev[i] \in S /\ next[prev[i]] = i
      <4>1. PICK p : p = prev[i]
        OBVIOUS
      <4>2. p \in S /\ rank[i] < rank[p] /\ \A j \in S : rank[i] < rank[j] => rank[p] <= rank[j]
        BY <3>2, <4>1
      <4>3. next[p] # Null
        BY <2>3, <4>2
      <4>4. PICK n : n = next[p]
        OBVIOUS
      <4>5. n \in S /\ rank[n] < rank[p] /\ rank[i] <= rank[n]
        BY <4>2, <4>3, <4>4
      <4>6. rank[i] < rank[n] => rank[p] <= rank[n]
        BY <4>2, <4>5
      <4>7. rank[n] = rank[i]
        <5>1. rank[p] \in Nat /\ rank[n] \in Nat /\ rank[i] \in Nat
          BY <2>3, <4>2, <4>5
        <5> HIDE <2>1, <2>2 DEF Linked
        <5> QED BY <4>5, <4>6, <5>1
      <4> QED BY <4>1, <4>2, <4>4, <4>5, <4>7
    <3>3. ASSUME prev[i] = Null
          PROVE  i = head
      <4>1. head \in S /\ rank[head] <= rank[i] /\ rank[i] <= rank[head]
        BY <3>3
      <4>2. rank[head] = rank[i]
        <5>1. rank[head] \in Nat /\ rank[i] \in Nat
          BY <2>3, <4>1
        <5> HIDE <2>1, <2>2 DEF Linked
        <5> QED BY <4>1, <5>1
      <4> QED BY <4>1, <4>2
    <3> QED BY <3>1, <3>2, <3>3
  <2>7. \A i \in Its \ S : next[i] = Null /\ prev[i] = Null
    OBVIOUS
  <2> HIDE <2>1 DEF Linked
  <2> QED BY <2>4, <2>5, <2>6, <2>7 DEF ListSound
<1> QED BY <1>1, <1>2, <1>3 DEF IteratorsServed

\* The constructor.
LEMMA StreamInitInv ==
  ASSUME StreamInit
  PROVE  StreamInv
<1>1. PICK n \in 0..MaxRows : srv = [rows |-> n, at |-> 0, scroll |-> FALSE, open |-> TRUE]
  BY DEF StreamInit
<1>2. PICK k \in 1..MaxStride : strm = [stride |-> k, realpos |-> 0, reqpos |-> 0, done |-> FALSE]
  BY DEF StreamInit
<1>3. n \in Nat /\ k \in Nat \ {0}
  OBVIOUS
<1>4. cur = Declared /\ it = [i \in Its |-> Blank]
  BY DEF StreamInit
<1>5. strm \in Strms /\ srv \in Servers /\ cur \in Clients /\ Knows(cur, srv)
  BY <1>1, <1>2, <1>3, <1>4 DEF Strms, Servers, Clients, Knows, Declared
<1>6. Blank \in Iterators /\ Blank.here \in Seq(Int) /\ ~Blank.live
  BY DEF Blank, Iterators
<1>7. OnStream = {}
  BY <1>4, <1>6 DEF OnStream, Live
<1>8. PICK w : w = Now
  OBVIOUS
<1>9. w \in [s : Strms, c : Clients, srv : Servers, here : [Its -> Seq(Int)]]
  BY <1>4, <1>5, <1>6, <1>8 DEF Now
<1>10. w.s = strm /\ w.c = cur /\ w.srv = srv
  BY <1>8 DEF Now
<1>11. Placed(w) /\ w.srv.open
  BY <1>1, <1>2, <1>3, <1>10 DEF Placed, Lesser
<1>12. Now \in Worlds(strm, srv.rows)
  BY <1>5, <1>8, <1>9, <1>10, <1>11 DEF Worlds
<1>13. Reading
  BY <1>4, <1>6, <1>7, <1>12 DEF Reading, Apart, IteratorsKeepTheirPlace
<1>14. Listing
  <2>1. PICK rank : rank = [i \in Its |-> 0]
    OBVIOUS
  <2>2. rank \in [Its -> Nat]
    BY <2>1
  <2>3. head = Null /\ next = [i \in Its |-> Null] /\ prev = [i \in Its |-> Null]
    BY DEF StreamInit
  <2>4. Linked(rank, head, next, prev, OnStream)
    BY <1>7, <2>2, <2>3 DEF Linked
  <2> QED BY <2>2, <2>4 DEF Listing
<1> QED BY <1>13, <1>14 DEF StreamInv
-----------------------------------------------------------------------------
(* The steps.                                                                *)

\* Reading touches neither the list nor the places of the iterators.
LEMMA BecomesReads ==
  ASSUME Reading, NEW w \in Worlds(strm, srv.rows), Becomes(w)
  PROVE  /\ Now' \in Worlds(strm', srv'.rows)
         /\ strm'.stride = strm.stride /\ strm'.reqpos = strm.reqpos /\ srv'.rows = srv.rows
         /\ strm'.realpos = w.s.realpos
         /\ it' \in [Its -> Iterators]
         /\ OnStream' = OnStream
         /\ \A i \in Its : it'[i].pos = it[i].pos /\ it'[i].here = w.here[i]
<1>1. /\ w \in [s : Strms, c : Clients, srv : Servers, here : [Its -> Seq(Int)]]
      /\ w.s.stride = strm.stride /\ w.s.reqpos = strm.reqpos /\ w.srv.rows = srv.rows
  BY DEF Worlds
<1>2. /\ strm' = w.s /\ cur' = w.c /\ srv' = w.srv
      /\ it' = [i \in Its |-> [it[i] EXCEPT !.here = w.here[i]]]
  BY DEF Becomes
<1>3. it \in [Its -> Iterators]
  BY DEF Reading
<1>4. \A i \in Its : /\ it'[i] = [it[i] EXCEPT !.here = w.here[i]]
                     /\ it[i] \in Iterators /\ w.here[i] \in Seq(Int)
  BY <1>1, <1>2, <1>3
<1>5. \A i \in Its : /\ it'[i] \in Iterators /\ it'[i].live = it[i].live /\ it'[i].on = it[i].on
                     /\ it'[i].pos = it[i].pos /\ it'[i].here = w.here[i]
  BY <1>4 DEF Iterators
<1>6. it' \in [Its -> Iterators]
  BY <1>2, <1>5
<1>7. OnStream' = OnStream
  BY <1>5 DEF OnStream, Live
<1>8. Now' = w
  <2>1. Now' = [s |-> strm', c |-> cur', srv |-> srv', here |-> [i \in Its |-> it'[i].here]]
    BY DEF Now
  <2>2. [i \in Its |-> it'[i].here] = w.here
    BY <1>1, <1>5
  <2>3. w = [s |-> w.s, c |-> w.c, srv |-> w.srv, here |-> w.here]
    BY <1>1
  <2> QED BY <1>2, <2>1, <2>2, <2>3
<1>9. w \in Worlds(strm', srv'.rows)
  BY <1>1, <1>2 DEF Worlds
<1> QED BY <1>1, <1>2, <1>5, <1>6, <1>7, <1>8, <1>9

\* get() and ignore(), which no iterator sees.
LEMMA ReadKeeps ==
  ASSUME Reading, Live = {}, NEW w \in Worlds(strm, srv.rows), Becomes(w)
  PROVE  Reading'
<1>1. OnStream = {}
  BY DEF OnStream
<1>2. Now' \in Worlds(strm', srv'.rows) /\ it' \in [Its -> Iterators] /\ OnStream' = {}
  BY <1>1, BecomesReads
<1> QED BY <1>2 DEF Reading, Apart, IteratorsKeepTheirPlace

\* A look at an iterator has the blocks up to its own read, each for those that stand there.
LEMMA LookKeeps ==
  ASSUME Reading, NEW x \in OnStream, it[x].pos >= strm.realpos, Becomes(Service(it[x].pos))
  PROVE  Reading'
<1>1. PICK topos \in Nat : topos = it[x].pos
  BY DEF Reading, Apart
<1>2. PICK w : w = Service(topos)
  OBVIOUS
<1>3. PICK todo : todo = Todo(Now, topos)
  OBVIOUS
<1>4. Upto(topos + 1, w, todo)
  BY <1>2, <1>3, Serviced DEF Reading
<1>5. w \in Worlds(strm, srv.rows)
  BY <1>4 DEF Upto
<1>6. /\ Now' \in Worlds(strm', srv'.rows)
      /\ strm'.stride = strm.stride /\ strm'.reqpos = strm.reqpos /\ srv'.rows = srv.rows
      /\ strm'.realpos = w.s.realpos
      /\ it' \in [Its -> Iterators]
      /\ OnStream' = OnStream
      /\ \A i \in Its : it'[i].pos = it[i].pos /\ it'[i].here = w.here[i]
  BY <1>1, <1>2, <1>5, BecomesReads
<1>7. /\ strm.stride \in Nat \ {0} /\ strm.realpos \in Nat /\ strm.reqpos \in Nat
      /\ srv.rows \in Nat /\ strm.realpos <= srv.rows /\ w.s.realpos \in Nat
  BY <1>5, StreamTypes DEF Worlds, Strms
<1>8. \A i \in OnStream : i \in Its /\ it[i].pos \in Nat /\ Asked(it[i].pos)
  BY DEF Reading, Apart, OnStream, Live
<1>9. \A i \in OnStream : i \in todo <=> it[i].pos >= strm.realpos /\ it[i].pos <= topos
  BY <1>3 DEF Todo, Now
<1>10. todo \subseteq OnStream
  BY <1>3 DEF Todo
<1>11. \A i \in todo : it[i].pos < topos + 1
  BY <1>8, <1>9, <1>10
<1>12. /\ w.s.realpos >= strm.realpos
       /\ \A i \in todo : w.s.realpos >= Lesser(it[i].pos + strm.stride, srv.rows)
       /\ w.s.realpos = strm.realpos
            \/ \E i \in todo : w.s.realpos = Lesser(it[i].pos + strm.stride, srv.rows)
       /\ \A i \in Its : w.here[i] = IF i \in todo THEN Block(it[i].pos) ELSE it[i].here
  BY <1>4, <1>11 DEF Upto
<1>13. ASSUME NEW i \in OnStream
       PROVE  it'[i].here = IF it'[i].pos < strm'.realpos
                             THEN BlockOf(it'[i].pos, strm'.stride, srv'.rows) ELSE <<>>
  <2>1. /\ it'[i].pos = it[i].pos /\ it'[i].here = w.here[i]
        /\ BlockOf(it'[i].pos, strm'.stride, srv'.rows) = Block(it[i].pos)
    BY <1>6, <1>8, BlockIs
  <2>2. it[i].here = IF it[i].pos < strm.realpos THEN Block(it[i].pos) ELSE <<>>
    BY DEF Reading, IteratorsKeepTheirPlace
  <2>3. CASE i \in todo
    <3>1. w.here[i] = Block(it[i].pos)
      BY <1>8, <1>12, <2>3
    <3>2. CASE it[i].pos < w.s.realpos
      BY <1>6, <2>1, <3>1, <3>2
    <3>3. CASE ~(it[i].pos < w.s.realpos)
      <4>1. it[i].pos >= srv.rows
        BY <1>7, <1>8, <1>12, <2>3, <3>3 DEF Lesser
      <4>2. Block(it[i].pos) = <<>>
        BY <1>7, <1>8, <4>1, BlockIs, BlockLength
      <4> QED BY <1>6, <2>1, <3>1, <3>3, <4>2
    <3> QED BY <3>2, <3>3
  <2>4. CASE i \notin todo
    <3>1. w.here[i] = it[i].here
      BY <1>8, <1>12, <2>4
    <3>2. CASE it[i].pos < strm.realpos
      <4>1. it[i].pos < w.s.realpos
        BY <1>7, <1>8, <1>12, <3>2
      <4> QED BY <1>6, <2>1, <2>2, <3>1, <3>2, <4>1
    <3>3. CASE it[i].pos >= strm.realpos
      <4>1. it[i].pos > topos
        BY <1>1, <1>7, <1>8, <1>9, <2>4, <3>3
      <4>2. ~(it[i].pos < w.s.realpos)
        <5>1. CASE w.s.realpos = strm.realpos
          BY <1>7, <1>8, <3>3, <5>1
        <5>2. CASE \E k \in todo : w.s.realpos = Lesser(it[k].pos + strm.stride, srv.rows)
          <6>1. PICK k \in todo : w.s.realpos = Lesser(it[k].pos + strm.stride, srv.rows)
            BY <5>2
          <6>2. it[k].pos <= topos /\ k \in OnStream /\ it[k].pos \in Nat
            BY <1>8, <1>9, <1>10
          <6>3. it[k].pos + strm.stride <= it[i].pos
            BY <1>7, <1>8, <4>1, <6>2 DEF Reading, Apart
          <6> QED BY <1>7, <1>8, <6>1, <6>2, <6>3 DEF Lesser
        <5> QED BY <1>12, <5>1, <5>2
      <4>3. it[i].here = <<>>
        BY <1>7, <1>8, <2>2, <3>3
      <4> QED BY <1>6, <2>1, <3>1, <4>2, <4>3
    <3> QED BY <1>7, <1>8, <3>2, <3>3
  <2> QED BY <2>3, <2>4
<1>14. IteratorsKeepTheirPlace'
  BY <1>6, <1>13 DEF IteratorsKeepTheirPlace, Block, BlockOf
<1>15. strm'.realpos <= strm'.reqpos + strm'.stride
  <2>1. CASE w.s.realpos = strm.realpos
    BY <1>6, <1>8, <2>1 DEF Reading
  <2>2. CASE \E k \in todo : w.s.realpos = Lesser(it[k].pos + strm.stride, srv.rows)
    <3>1. PICK k \in todo : w.s.realpos = Lesser(it[k].pos + strm.stride, srv.rows)
      BY <2>2
    <3>2. it[k].pos \in Nat /\ it[k].pos <= strm.reqpos
      BY <1>7, <1>8, <1>10 DEF Asked
    <3> QED BY <1>6, <1>7, <3>1, <3>2 DEF Lesser
  <2> QED BY <1>12, <2>1, <2>2
<1>16. Apart'
  BY <1>6, <1>8 DEF Reading, Apart
<1>17. \A i \in OnStream' : Asked(it[i].pos)'
  BY <1>6, <1>8 DEF Asked
<1> QED BY <1>6, <1>14, <1>15, <1>16, <1>17 DEF Reading

\* What a place among the others must be for the iterator x.
Fits(x) ==
  /\ x \in Iterators /\ Asked(x.pos)
  /\ \A j \in OnStream :
       \/ x.pos = it[j].pos
       \/ x.pos + strm.stride <= it[j].pos
       \/ it[j].pos + strm.stride <= x.pos
  /\ x.here = IF x.pos < strm.realpos THEN Block(x.pos) ELSE <<>>
  /\ strm.realpos <= strm.reqpos + strm.stride

\* A new value of one iterator leaves the others where they are.
LEMMA ChangeKeeps ==
  ASSUME Reading, UNCHANGED <<vars, strm>>, NEW i \in Its, NEW x \in Iterators,
         it' = [it EXCEPT ![i] = x], x.live /\ x.on => Fits(x)
  PROVE  /\ Reading'
         /\ OnStream' = IF x.live /\ x.on THEN OnStream \cup {i} ELSE OnStream \ {i}
<1>1. it \in [Its -> Iterators] /\ UNCHANGED <<cur, srv, strm>>
  BY DEF Reading, vars
<1>2. it' \in [Its -> Iterators] /\ it'[i] = x /\ \A j \in Its : j # i => it'[j] = it[j]
  BY <1>1
<1>3. OnStream' = IF x.live /\ x.on THEN OnStream \cup {i} ELSE OnStream \ {i}
  BY <1>2 DEF OnStream, Live
<1>4. Now' \in Worlds(strm', srv'.rows)
  <2>1. PICK w : w = Now'
    OBVIOUS
  <2>2. w = [s |-> strm, c |-> cur, srv |-> srv, here |-> [j \in Its |-> it'[j].here]]
    BY <1>1, <2>1 DEF Now
  <2>3. \A j \in Its : it'[j].here \in Seq(Int)
    BY <1>2 DEF Iterators
  <2>4. [j \in Its |-> it'[j].here] \in [Its -> Seq(Int)]
    BY <2>3
  <2>5. strm \in Strms /\ srv \in Servers /\ cur \in Clients /\ Knows(cur, srv) /\ srv.open
          /\ strm.realpos = Lesser(srv.at, srv.rows) /\ (strm.done => srv.at = srv.rows + 1)
    BY StreamTypes
  <2>6. w \in Worlds(strm, srv.rows)
    BY <2>2, <2>4, <2>5 DEF Worlds, Placed
  <2> QED BY <1>1, <2>1, <2>6
<1>5. \A j \in OnStream' : j \in Its /\ ((j = i /\ Fits(x) /\ it'[j] = x) \/ (j \in OnStream /\ it'[j] = it[j]))
  BY <1>2, <1>3 DEF OnStream, Live
<1>6. \A j \in OnStream : j \in Its /\ it[j].pos \in Nat
  BY DEF Reading, Apart, OnStream, Live
<1>7. x.pos \in Nat /\ strm.stride \in Nat
  BY StreamTypes DEF Iterators
<1>8. Apart'
  <2> SUFFICES ASSUME NEW j \in OnStream', NEW k \in OnStream'
               PROVE  /\ it'[j].pos \in Nat
                      /\ \/ it'[j].pos = it'[k].pos
                         \/ it'[j].pos + strm.stride <= it'[k].pos
                         \/ it'[k].pos + strm.stride <= it'[j].pos
    BY <1>1 DEF Apart
  <2>1. it'[j].pos \in Nat
    BY <1>5, <1>6, <1>7
  <2>2. CASE j \in OnStream /\ it'[j] = it[j] /\ k \in OnStream /\ it'[k] = it[k]
    BY <2>1, <2>2 DEF Reading, Apart
  <2>3. CASE j \in OnStream /\ it'[j] = it[j] /\ Fits(x) /\ it'[k] = x
    BY <2>1, <2>3 DEF Fits
  <2>4. CASE Fits(x) /\ it'[j] = x /\ k \in OnStream /\ it'[k] = it[k]
    BY <2>1, <2>4 DEF Fits
  <2>5. CASE it'[j] = x /\ it'[k] = x
    BY <2>1, <2>5
  <2> QED BY <1>5, <2>2, <2>3, <2>4, <2>5
<1>9. \A j \in OnStream' : Asked(it[j].pos)'
  BY <1>1, <1>5 DEF Asked, Fits, Reading
<1>10. OnStream' # {} => strm'.realpos <= strm'.reqpos + strm'.stride
  BY <1>1, <1>5 DEF Fits, Reading
<1>11. IteratorsKeepTheirPlace'
  <2> SUFFICES ASSUME NEW j \in OnStream'
               PROVE  it'[j].here = IF it'[j].pos < strm.realpos
                                    THEN BlockOf(it'[j].pos, strm.stride, srv.rows) ELSE <<>>
    BY <1>1 DEF IteratorsKeepTheirPlace, Block, BlockOf
  <2>1. CASE j \in OnStream /\ it'[j] = it[j]
    BY <2>1, BlockIs DEF Reading, IteratorsKeepTheirPlace
  <2>2. CASE Fits(x) /\ it'[j] = x
    BY <2>2, BlockIs DEF Fits
  <2> QED BY <1>5, <2>1, <2>2
<1> QED BY <1>2, <1>3, <1>4, <1>8, <1>9, <1>10, <1>11 DEF Reading

\* A place where an iterator stands is one for another.
LEMMA PlaceFits ==
  ASSUME Reading, NEW j \in OnStream
  PROVE  Fits(it[j])
<1>1. j \in Its /\ it[j] \in Iterators /\ Asked(it[j].pos)
  BY DEF Reading, OnStream, Live
<1>2. strm.realpos <= strm.reqpos + strm.stride
  BY DEF Reading
<1> QED BY <1>1, <1>2 DEF Reading, Fits, Apart, IteratorsKeepTheirPlace

\* So is the one a new iterator is given.
LEMMA NewFits ==
  ASSUME Reading, strm.realpos <= strm.reqpos,
         NEW x, x = [live |-> TRUE, on |-> TRUE, pos |-> strm.reqpos, here |-> <<>>]
  PROVE  Fits(x)
<1>1. strm.stride \in Nat \ {0} /\ strm.realpos \in Nat /\ strm.reqpos \in Nat
  BY StreamTypes
<1>2. x \in Iterators /\ x.pos = strm.reqpos /\ x.here = <<>>
  BY <1>1 DEF Iterators
<1>3. \A j \in OnStream : it[j].pos = strm.reqpos \/ it[j].pos + strm.stride <= strm.reqpos
  BY DEF Reading, Asked
<1> QED BY <1>1, <1>2, <1>3 DEF Fits, Asked

\* ++ and += take an iterator past the last place asked for, where no other stands.
LEMMA AdvanceKeeps ==
  ASSUME Reading, NEW i \in Its, NEW n \in 1..2, Advance(i, n)
  PROVE  Reading' /\ OnStream' = OnStream
<1>1. PICK to : to = Forward(n)
  OBVIOUS
<1>2. /\ strm' = [strm EXCEPT !.reqpos = to] /\ UNCHANGED <<cur, srv>> /\ i \in OnStream
      /\ it' = [it EXCEPT ![i].pos = to, ![i].here = <<>>]
  BY <1>1 DEF Advance, vars
<1>3. /\ strm \in Strms /\ strm.stride \in Nat \ {0} /\ strm.realpos \in Nat /\ strm.reqpos \in Nat
      /\ it \in [Its -> Iterators]
  BY StreamTypes DEF Reading
<1>4. to \in Nat /\ to >= strm.reqpos + strm.stride
  <2>1. CASE n = 1
    BY <1>1, <1>3, <2>1 DEF Forward
  <2>2. CASE n = 2
    BY <1>1, <1>3, <2>2 DEF Forward
  <2> QED BY <2>1, <2>2
<1>5. /\ strm' \in Strms /\ strm'.reqpos = to /\ strm'.stride = strm.stride
      /\ strm'.realpos = strm.realpos /\ strm'.done = strm.done
  BY <1>2, <1>3, <1>4 DEF Strms
<1>6. /\ it'[i] \in Iterators /\ it'[i].pos = to /\ it'[i].here = <<>>
      /\ it'[i].live = it[i].live /\ it'[i].on = it[i].on
  <2>1. it[i] \in Iterators
    BY <1>3
  <2>7. <<>> \in Seq(Int)
    OBVIOUS
  <2>2. PICK none \in Seq(Int) : none = <<>>
    BY <2>7
  <2>3. it'[i] = [it[i] EXCEPT !.pos = to, !.here = none]
    BY <1>2, <1>3, <2>2
  <2>4. it'[i] = [live |-> it[i].live, on |-> it[i].on, pos |-> to, here |-> none]
    BY <2>1, <2>3 DEF Iterators
  <2>5. it[i].live \in BOOLEAN /\ it[i].on \in BOOLEAN
    BY <2>1 DEF Iterators
  <2>6. it'[i] \in Iterators
    BY <1>4, <2>4, <2>5 DEF Iterators
  <2> QED BY <2>2, <2>4, <2>6
<1>7. it' \in [Its -> Iterators] /\ \A j \in Its : j # i => it'[j] = it[j]
  BY <1>2, <1>3, <1>6
<1>8. OnStream' = OnStream
  BY <1>6, <1>7 DEF OnStream, Live
<1>9. \A j \in OnStream : /\ j \in Its /\ it[j].pos \in Nat /\ it[j].pos <= strm.reqpos
                          /\ it[j].pos + strm.stride <= to
  <2> TAKE j \in OnStream
  <2>1. j \in Its /\ it[j].pos \in Nat
    BY DEF Reading, Apart, OnStream, Live
  <2>2. it[j].pos = strm.reqpos \/ it[j].pos + strm.stride <= strm.reqpos
    BY DEF Reading, Asked
  <2> QED BY <1>3, <1>4, <2>1, <2>2
<1>10. strm.realpos <= strm.reqpos + strm.stride
  BY <1>2 DEF Reading
<1>11. Now' \in Worlds(strm', srv'.rows)
  <2>1. PICK w : w = Now'
    OBVIOUS
  <2>2. w = [s |-> strm', c |-> cur, srv |-> srv, here |-> [j \in Its |-> it'[j].here]]
    BY <1>2, <2>1 DEF Now
  <2>3. \A j \in Its : it'[j].here \in Seq(Int)
    BY <1>7 DEF Iterators
  <2>4. [j \in Its |-> it'[j].here] \in [Its -> Seq(Int)]
    BY <2>3
  <2>5. srv \in Servers /\ cur \in Clients /\ Knows(cur, srv) /\ srv.open
          /\ strm.realpos = Lesser(srv.at, srv.rows) /\ (strm.done => srv.at = srv.rows + 1)
    BY StreamTypes
  <2>6. w \in Worlds(strm', srv.rows)
    BY <1>5, <2>2, <2>4, <2>5 DEF Worlds, Placed
  <2> QED BY <1>2, <2>1, <2>6
<1>12. Apart'
  <2> SUFFICES ASSUME NEW j \in OnStream, NEW k \in OnStream
               PROVE  /\ it'[j].pos \in Nat
                      /\ \/ it'[j].pos = it'[k].pos
                         \/ it'[j].pos + strm.stride <= it'[k].pos
                         \/ it'[k].pos + strm.stride <= it'[j].pos
    BY <1>5, <1>8 DEF Apart
  <2>1. it'[j].pos \in Nat
    BY <1>4, <1>6, <1>7, <1>9
  <2>2. CASE j # i /\ k # i
    BY <1>7, <1>9, <2>1, <2>2 DEF Reading, Apart
  <2>3. CASE j = i /\ k # i
    BY <1>6, <1>7, <1>9, <2>1, <2>3
  <2>4. CASE j # i /\ k = i
    BY <1>6, <1>7, <1>9, <2>1, <2>4
  <2>5. CASE j = i /\ k = i
    BY <2>1, <2>5
  <2> QED BY <2>2, <2>3, <2>4, <2>5
<1>13. \A j \in OnStream' : Asked(it[j].pos)'
  <2> SUFFICES ASSUME NEW j \in OnStream
               PROVE  it'[j].pos = to \/ it'[j].pos + strm.stride <= to
    BY <1>5, <1>8 DEF Asked
  <2> QED BY <1>6, <1>7, <1>9
<1>14. strm'.realpos <= strm'.reqpos + strm'.stride
  BY <1>3, <1>4, <1>5, <1>10
<1>15. IteratorsKeepTheirPlace'
  <2> SUFFICES ASSUME NEW j \in OnStream
               PROVE  it'[j].here = IF it'[j].pos < strm.realpos
                                    THEN BlockOf(it'[j].pos, strm'.stride, srv'.rows) ELSE <<>>
    BY <1>5, <1>8 DEF IteratorsKeepTheirPlace, Block, BlockOf
  <2>1. CASE j # i
    BY <1>2, <1>5, <1>7, <1>9, <2>1, BlockIs DEF Reading, IteratorsKeepTheirPlace
  <2>2. CASE j = i
    <3>1. ~ (to < strm.realpos)
      BY <1>3, <1>4, <1>10
    <3> QED BY <1>6, <2>2, <3>1
  <2> QED BY <2>1, <2>2
<1> QED BY <1>7, <1>8, <1>11, <1>12, <1>13, <1>14, <1>15 DEF Reading

\* insert_iterator makes a list of the iterators there were and the new one.
LEMMA LinkKeeps ==
  ASSUME Null \notin Its, Listing, NEW i \in Its \ OnStream, Link(i), OnStream' = OnStream \cup {i}
  PROVE  Listing'
<1>1. PICK rank \in [Its -> Nat] : Linked(rank, head, next, prev, OnStream)
  BY DEF Listing
<1>2. PICK n, p : /\ n = [next EXCEPT ![i] = head]
                  /\ p = IF head = Null THEN prev ELSE [prev EXCEPT ![head] = i]
  OBVIOUS
<1>3. head' = i /\ next' = n /\ prev' = p
  BY <1>2 DEF Link, Lists
<1>4. \E above \in [Its -> Nat] : Linked(above, i, n, p, OnStream \cup {i})
  BY <1>1, <1>2, Linking
<1>5. PICK above \in [Its -> Nat] : Linked(above, i, n, p, OnStream \cup {i})
  BY <1>4
<1>6. Linked(above, head', next', prev', OnStream')
  BY <1>3, <1>5
<1> QED BY <1>6 DEF Listing

\* What remove_iterator leaves is the list of the others.
LEMMA UnlinkKeeps ==
  ASSUME Null \notin Its, Listing, NEW i \in OnStream, Unlink(i), OnStream' = OnStream \ {i}
  PROVE  Listing'
<1>1. PICK rank \in [Its -> Nat] : Linked(rank, head, next, prev, OnStream)
  BY DEF Listing
<1>2. PICK before, q, m :
        /\ before = IF i = head THEN Null ELSE prev[i]
        /\ q = IF next[i] = Null THEN prev ELSE [prev EXCEPT ![next[i]] = before]
        /\ m = IF i = head THEN next ELSE [next EXCEPT ![prev[i]] = next[i]]
  OBVIOUS
<1>3. PICK h, n, p : /\ h = IF i = head THEN next[i] ELSE head
                     /\ n = [m EXCEPT ![i] = Null] /\ p = [q EXCEPT ![i] = Null]
  OBVIOUS
<1>4. head' = h /\ next' = n /\ prev' = p
  BY <1>2, <1>3 DEF Unlink, Lists
<1>5. Linked(rank, h, n, p, OnStream \ {i})
  BY <1>1, <1>2, <1>3, Unlinking
<1>6. Linked(rank, head', next', prev', OnStream')
  BY <1>4, <1>5
<1> QED BY <1>6 DEF Listing

\* While no iterator comes or goes the list is the same.
LEMMA ListStays ==
  ASSUME Listing, SameList, OnStream' = OnStream
  PROVE  Listing'
BY DEF Listing, SameList

\* No step of a stream takes an iterator from its rows, or the list from its shape.
LEMMA StreamStepKeeps ==
  ASSUME Null \notin Its, "late" \notin Habits, StreamInv, [StreamNext]_allVars
  PROVE  StreamInv'
<1> USE DEF StreamInv
<1>1. it \in [Its -> Iterators] /\ Now \in Worlds(strm, srv.rows)
  BY DEF Reading
<1>2. OnStream = {i \in Its : it[i].live /\ it[i].on}
  BY DEF OnStream, Live
<1>3. CASE Read
  <2>1. PICK f : f = FetchBlock(Now)
    OBVIOUS
  <2>2. f = [s |-> f.s, c |-> f.c, srv |-> f.srv, here |-> f.here, block |-> f.block]
    BY <2>1 DEF FetchBlock
  <2>3. PICK w : w = [s |-> f.s, c |-> f.c, srv |-> f.srv, here |-> f.here]
    OBVIOUS
  <2>4. w \in Worlds(strm, srv.rows)
    BY <1>1, <2>1, <2>3, Fetched
  <2>5. Becomes(w) /\ Live = {}
    BY <1>3, <2>1, <2>3 DEF Read, Becomes
  <2>6. Reading'
    BY <2>4, <2>5, ReadKeeps
  <2>7. OnStream' = OnStream /\ SameList
    BY <2>4, <2>5, BecomesReads DEF Becomes
  <2> QED BY <2>6, <2>7, ListStays
<1>4. CASE \E n \in 1..2 : Skip(n)
  <2>1. PICK n \in 1..2 : Skip(n)
    BY <1>4
  <2>2. PICK w : w = Ignore(Now, n)
    OBVIOUS
  <2>3. n \in Nat \ {0}
    OBVIOUS
  <2>4. w \in Worlds(strm, srv.rows)
    BY <1>1, <2>2, <2>3, Ignored
  <2>5. Becomes(w) /\ Live = {}
    BY <2>1, <2>2 DEF Skip
  <2>6. Reading'
    BY <2>4, <2>5, ReadKeeps
  <2>7. OnStream' = OnStream /\ SameList
    BY <2>4, <2>5, BecomesReads DEF Becomes
  <2> QED BY <2>6, <2>7, ListStays
<1>5. CASE \E i \in Its : Make(i)
  <2>1. PICK i \in Its : Make(i)
    BY <1>5
  <2>2. PICK x : x = [live |-> TRUE, on |-> TRUE, pos |-> strm.reqpos, here |-> <<>>]
    OBVIOUS
  <2>3. UNCHANGED <<vars, strm>> /\ it' = [it EXCEPT ![i] = x] /\ Link(i) /\ ~it[i].live
    BY <2>1, <2>2 DEF Make
  <2>4. strm.realpos <= strm.reqpos
    <3>1. ~ (strm.realpos > strm.reqpos)
      BY <2>1 DEF Make
    <3> QED BY <3>1, StreamTypes
  <2>5. Fits(x) /\ x \in Iterators /\ x.live /\ x.on
    BY <2>2, <2>4, NewFits DEF Fits
  <2>6. Reading' /\ OnStream' = OnStream \cup {i}
    BY <2>3, <2>5, ChangeKeeps
  <2>7. i \in Its \ OnStream
    BY <1>2, <2>3
  <2> QED BY <2>3, <2>6, <2>7, LinkKeeps
<1>6. CASE \E i \in Its : MakeEnd(i)
  <2>1. PICK i \in Its : MakeEnd(i)
    BY <1>6
  <2>2. PICK x : x = [Blank EXCEPT !.live = TRUE]
    OBVIOUS
  <2>3. UNCHANGED <<vars, strm>> /\ it' = [it EXCEPT ![i] = x] /\ SameList /\ ~it[i].live
    BY <2>1, <2>2 DEF MakeEnd
  <2>4. x \in Iterators /\ ~x.on
    <3>1. Blank \in Iterators /\ ~Blank.on
      BY DEF Blank, Iterators
    <3>2. x = [live |-> TRUE, on |-> Blank.on, pos |-> Blank.pos, here |-> Blank.here]
      BY <2>2, <3>1 DEF Iterators
    <3> QED BY <3>1, <3>2 DEF Iterators
  <2>5. Reading' /\ OnStream' = OnStream \ {i}
    BY <2>3, <2>4, ChangeKeeps
  <2>6. i \notin OnStream
    BY <1>2, <2>3
  <2>7. OnStream' = OnStream
    BY <2>5, <2>6
  <2> QED BY <2>3, <2>5, <2>7, ListStays
<1>7. CASE \E i \in Its : Destroy(i)
  <2>1. PICK i \in Its : Destroy(i)
    BY <1>7
  <2>2. UNCHANGED <<vars, strm>> /\ it' = [it EXCEPT ![i] = Blank] /\ it[i].live
          /\ (IF it[i].on THEN Unlink(i) ELSE SameList)
    BY <2>1 DEF Destroy
  <2>3. Blank \in Iterators /\ ~Blank.live
    BY DEF Blank, Iterators
  <2>4. Reading' /\ OnStream' = OnStream \ {i}
    BY <2>2, <2>3, ChangeKeeps
  <2>5. CASE it[i].on
    <3>1. i \in OnStream
      BY <1>2, <2>2, <2>5
    <3> QED BY <2>2, <2>4, <2>5, <3>1, UnlinkKeeps
  <2>6. CASE ~it[i].on
    <3>1. i \notin OnStream
      BY <1>2, <2>6
    <3>2. OnStream' = OnStream
      BY <2>4, <3>1
    <3> QED BY <2>2, <2>4, <2>6, <3>2, ListStays
  <2> QED BY <2>5, <2>6
<1>8. CASE \E i \in Its : Look(i)
  <2>1. PICK i \in Its : Look(i)
    BY <1>8
  <2>2. CASE it[i].pos < strm.realpos
    <3>1. UNCHANGED allVars
      BY <2>1, <2>2 DEF Look
    <3>2. UNCHANGED <<cur, srv, last, strm, it, head, next, prev>>
      BY <3>1 DEF allVars, vars, streamVars
    <3> QED BY <3>2 DEF Reading, Now, Apart, OnStream, Live, Asked, IteratorsKeepTheirPlace, Block,
                        Listing
  <2>3. CASE ~ (it[i].pos < strm.realpos)
    <3>1. i \in OnStream /\ Becomes(Service(it[i].pos))
      BY <2>1, <2>3 DEF Look
    <3>2. it[i].pos \in Nat /\ strm.realpos \in Nat
      BY <3>1, StreamTypes DEF Reading, Apart
    <3>3. it[i].pos >= strm.realpos
      BY <2>3, <3>2
    <3>4. Reading'
      BY <3>1, <3>3, LookKeeps
    <3>5. Upto(it[i].pos + 1, Service(it[i].pos), Todo(Now, it[i].pos))
      BY <3>2, Serviced DEF Reading
    <3>6. Service(it[i].pos) \in Worlds(strm, srv.rows)
      BY <3>5 DEF Upto
    <3>7. OnStream' = OnStream /\ SameList
      BY <3>1, <3>6, BecomesReads DEF Becomes
    <3> QED BY <3>4, <3>7, ListStays
  <2> QED BY <2>2, <2>3
<1>9. CASE \E i, j \in Its : Copy(i, j)
  <2>1. PICK i \in Its, j \in Its : Copy(i, j)
    BY <1>9
  <2>2. UNCHANGED <<vars, strm>> /\ it' = [it EXCEPT ![i] = it[j]] /\ ~it[i].live /\ it[j].live
          /\ (IF it[j].on THEN Link(i) ELSE SameList)
    BY <2>1 DEF Copy
  <2>3. it[j] \in Iterators /\ i \notin OnStream
    BY <1>1, <1>2, <2>2
  <2>4. it[j].live /\ it[j].on => Fits(it[j])
    BY <1>2, PlaceFits
  <2>5. Reading' /\ OnStream' = IF it[j].live /\ it[j].on THEN OnStream \cup {i} ELSE OnStream \ {i}
    BY <2>2, <2>3, <2>4, ChangeKeeps
  <2>6. CASE it[j].on
    <3>1. OnStream' = OnStream \cup {i} /\ Link(i) /\ i \in Its \ OnStream
      BY <2>2, <2>3, <2>5, <2>6
    <3> QED BY <2>5, <3>1, LinkKeeps
  <2>7. CASE ~it[j].on
    <3>1. OnStream' = OnStream /\ SameList
      BY <2>2, <2>3, <2>5, <2>7
    <3> QED BY <2>5, <3>1, ListStays
  <2> QED BY <2>6, <2>7
<1>10. CASE \E i, j \in Its : Assign(i, j)
  <2>1. PICK i \in Its, j \in Its : Assign(i, j)
    BY <1>10
  <2>2. UNCHANGED <<vars, strm>> /\ it' = [it EXCEPT ![i] = it[j]] /\ it[i].live /\ it[j].live
    BY <2>1 DEF Assign
  <2>3. it[j] \in Iterators /\ (i \in OnStream <=> it[i].on)
    BY <1>1, <1>2, <2>2
  <2>4. it[j].live /\ it[j].on => Fits(it[j])
    BY <1>2, PlaceFits
  <2>5. Reading' /\ OnStream' = IF it[j].live /\ it[j].on THEN OnStream \cup {i} ELSE OnStream \ {i}
    BY <2>2, <2>3, <2>4, ChangeKeeps
  <2>6. CASE it[i].on /\ ~it[j].on
    <3>1. OnStream' = OnStream \ {i} /\ Unlink(i) /\ i \in OnStream
      BY <2>1, <2>3, <2>5, <2>6 DEF Assign
    <3> QED BY <2>5, <3>1, UnlinkKeeps
  <2>7. CASE ~it[i].on /\ it[j].on
    <3>1. OnStream' = OnStream \cup {i} /\ Link(i) /\ i \in Its \ OnStream
      BY <2>1, <2>2, <2>3, <2>5, <2>7 DEF Assign
    <3> QED BY <2>5, <3>1, LinkKeeps
  <2>8. CASE (it[i].on /\ it[j].on) \/ (~it[i].on /\ ~it[j].on)
    <3>1. SameList
      BY <2>1, <2>8 DEF Assign
    <3>2. OnStream' = OnStream
      BY <2>2, <2>3, <2>5, <2>8
    <3> QED BY <2>5, <3>1, <3>2, ListStays
  <2> QED BY <2>6, <2>7, <2>8
<1>11. CASE \E i \in Its, n \in 1..2 : Advance(i, n)
  <2>1. PICK i \in Its, n \in 1..2 : Advance(i, n)
    BY <1>11
  <2>2. Reading' /\ OnStream' = OnStream
    BY <2>1, AdvanceKeeps
  <2>3. SameList
    BY <2>1 DEF Advance
  <2> QED BY <2>2, <2>3, ListStays
<1>12. CASE UNCHANGED allVars
  <2>1. UNCHANGED <<cur, srv, last, strm, it, head, next, prev>>
    BY <1>12 DEF allVars, vars, streamVars
  <2> QED BY <2>1 DEF Reading, Now, Apart, OnStream, Live, Asked, IteratorsKeepTheirPlace, Block,
                      Listing
<1> QED BY <1>3, <1>4, <1>5, <1>6, <1>7, <1>8, <1>9, <1>10, <1>11, <1>12 DEF StreamNext

\* Each iterator gets the rows of its own place, whoever made the stream read them and
\* whatever iterators came and went, as long as none is made where the stream has read on
\* (cursor.hxx:391).
THEOREM IteratorsAlwaysServed ==
  Null \notin Its /\ "late" \notin Habits => (StreamSpec => []IteratorsServed)
<1>1. SUFFICES ASSUME Null \notin Its, "late" \notin Habits
               PROVE  StreamSpec => []IteratorsServed
  OBVIOUS
<1>2. StreamInit => StreamInv
  BY StreamInitInv
<1>3. StreamInv /\ [StreamNext]_allVars => StreamInv'
  BY <1>1, StreamStepKeeps
<1>4. StreamInv => IteratorsServed
  BY <1>1, InvServes
<1> QED BY <1>2, <1>3, <1>4, PTL DEF StreamSpec
=============================================================================
