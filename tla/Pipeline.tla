------------------------------ MODULE Pipeline ------------------------------
(***************************************************************************)
(* pqxx::pipeline (pipeline.cxx): queries go out in batches, joined by     *)
(* semicolons and headed by a dummy query, and their results are matched   *)
(* to them by position.  A call is one step; what is not up to the caller  *)
(* is which results have arrived when the code looks (is_busy), and        *)
(* whether the connection is lost.                                         *)
(*                                                                         *)
(* The code moves two iterators over a map of queries ordered by id.  Here *)
(* an iterator is the id it stands at, or PastLast.  A call is an operator *)
(* from one world, the record of everything it may change, to the set of   *)
(* worlds it may leave; "thrown" is what leaves the call.                  *)
(***************************************************************************)
EXTENDS Integers, Sequences, FiniteSets, SequencesExt

CONSTANTS
  MaxQ,      \* bound: queries inserted
  Retains,   \* the values passed to retain()
  PipeHabits \* "cancel": goes on with the pipeline after cancel()
             \* "error":  goes on with it after flush() when it was in error

ASSUME PipeAssumption == MaxQ \in Nat

PastLast == MaxQ + 1   \* std::end(m_queries)
Limit == MaxQ + 2      \* qid_limit(): no error

VARIABLES
  w,      \* the pipeline and its connection
  fate,   \* what the server makes of each query: "ok", "runtime" or "syntax" error
  told    \* what retrieve() last said of each: "none", "ok", "failed", "refused"

pipeVars == <<w, fate, told>>

None == [of |-> 0, ok |-> TRUE]          \* a result not in yet
Failure == [of |-> 0, ok |-> FALSE]      \* an error, whichever query's
Answers == {None, Failure} \cup [of : 1..MaxQ, ok : {TRUE}]

\* Queries and their results, by their ids.
Maps == UNION {[S -> Answers] : S \in SUBSET (1..MaxQ)}

Worlds ==
  [queries : Maps,                                             \* m_queries
   first : 1..PastLast, second : 1..PastLast,                   \* m_issuedrange
   waiting : 0..MaxQ, retain : Retains \cup {0}, qid : 0..MaxQ,
   dummy : BOOLEAN, error : 0..Limit, registered : BOOLEAN,
   kind : {"work", "non"}, failed : BOOLEAN,    \* the block of the transaction
   command : BOOLEAN, wire : Seq(Answers),      \* a command whose results are on
                                                \* their way, then a null one
   lost : BOOLEAN,
   ran : Seq(1..MaxQ), undone : SUBSET (1..MaxQ),   \* history: at the server
   thrown : {"none", "surplus", "internal", "broken", "refused", "failed"}]

PipeTypeOK ==
  /\ w \in Worlds
  /\ fate \in [1..MaxQ -> {"ok", "runtime", "syntax"}]
  /\ told \in [1..MaxQ -> {"none", "ok", "failed", "refused"}]

\* A pipeline that has just been made, on a transaction of kind k.
Fresh(k) ==
  [queries |-> <<>>, first |-> PastLast, second |-> PastLast, waiting |-> 0, retain |-> 0,
   qid |-> 0, dummy |-> FALSE, error |-> Limit, registered |-> TRUE,
   kind |-> k, failed |-> FALSE, command |-> FALSE, wire |-> <<>>,
   lost |-> FALSE, ran |-> <<>>, undone |-> {}, thrown |-> "none"]

PipeInit ==
  /\ \E k \in {"work", "non"} : w = Fresh(k)
  /\ fate \in [1..MaxQ -> {"ok", "runtime", "syntax"}]
  /\ told = [q \in 1..MaxQ |-> "none"]
-----------------------------------------------------------------------------
(* The map and its iterators *)

Pending(v) == v.first # v.second

\* The iterators at i and beyond, and the one after i.
From(v, i) == {j \in DOMAIN v.queries : j >= i}
Least(S) == IF S = {} THEN PastLast ELSE CHOOSE i \in S : \A j \in S : i <= j
After(v, i) == Least(From(v, i + 1))
Issued(v) == From(v, v.first) \ From(v, v.second)

\* Ids in the order of the map.
Ordered(S) ==
  LET upto[n \in 0..MaxQ] ==
        IF n = 0 THEN <<>>
        ELSE IF n \in S THEN Append(upto[n - 1], n) ELSE upto[n - 1]
  IN  upto[MaxQ]

Answer(v, ids, answer(_)) ==
  [v EXCEPT !.queries = [i \in DOMAIN @ |-> IF i \in ids THEN answer(i) ELSE @[i]]]

SetErrorAt(v, q) == IF q < v.error THEN [v EXCEPT !.error = q] ELSE v
Throw(v, what) == [v EXCEPT !.thrown = what]

\* Go on from each world with `step` unless an exception is on its way.
Then(S, step(_)) == UNION {IF v.thrown = "none" THEN step(v) ELSE {v} : v \in S}
-----------------------------------------------------------------------------
(* The server (external) *)

\* The queries of ids that fail, and those before the first of them.
Wrong(ids) == {q \in ids : fate[q] # "ok"}
Right(ids) == {q \in ids : \A b \in Wrong(ids) : q < b}

\* What it answers when it has run seq: to the dummy query, to each of seq, and an error
\* if there is a query that fails.
Replies(seq, dummy, fails) ==
  (IF dummy THEN <<[of |-> 0, ok |-> TRUE]>> ELSE <<>>)
    \o ([i \in DOMAIN seq |-> [of |-> seq[i], ok |-> TRUE]]
          \o (IF fails THEN <<Failure>> ELSE <<>>))

\* It parses the whole string before it runs any of it, runs the queries in
\* order up to the first that fails, and leaves nothing of a string that fails
\* but what a block of its own keeps until it is rolled back.
Send(v, ids, dummy) ==
  LET seq == Ordered(Right(ids))
      fails == Wrong(ids) # {}
      none == v.failed \/ \E q \in ids : fate[q] = "syntax"
  IN  [v EXCEPT !.command = TRUE,
                !.wire = IF none THEN <<Failure>> ELSE Replies(seq, dummy, fails),
                !.ran = IF none THEN @ ELSE @ \o seq,
                !.undone = IF none \/ ~fails THEN @ ELSE @ \cup Right(ids),
                !.failed = @ \/ (v.kind = "work" /\ fails)]

\* transaction_base::exec of a query by itself: libpq first throws away what
\* is left of an earlier command.
Alone(v, q) ==
  LET fails == v.lost \/ v.failed \/ fate[q] # "ok"
  IN  [v EXCEPT !.command = FALSE, !.wire = <<>>,
                !.ran = IF fails THEN @ ELSE Append(@, q),
                !.failed = @ \/ (v.kind = "work" /\ fails /\ ~v.lost),
                !.thrown = IF fails THEN "failed" ELSE "none"]
-----------------------------------------------------------------------------
(* Receiving *)

\* obtain_result(): FALSE is a null result, which ends a command.
ObtainResult(v, expectNone) ==
  LET null == [v EXCEPT !.command = FALSE]
      got == [v EXCEPT !.wire = Tail(@)]
  IN  CASE v.wire = <<>> /\ Pending(v) /\ ~expectNone ->
             [SetErrorAt(null, v.first) EXCEPT !.second = v.first]
        [] v.wire = <<>> /\ (~Pending(v) \/ expectNone) -> null
        [] v.wire # <<>> /\ ~Pending(v) ->
             Throw(SetErrorAt(got, Least(DOMAIN v.queries)), "surplus")
        [] v.wire # <<>> /\ Pending(v) ->
             [Answer(got, {v.first}, LAMBDA i : Head(v.wire)) EXCEPT !.first = After(v, v.first)]

\* Calls of obtain_result(), one after the other up to the null result: got[n] is what
\* n of them make of v.
Obtained(v) ==
  LET got[n \in 0..Len(v.wire) + 1] ==
        IF n = 0 THEN v
        ELSE LET u == got[n - 1] IN IF u.thrown = "none" THEN ObtainResult(u, FALSE) ELSE u
  IN  got

\* get_further_available_results(): as many as have arrived, the null result
\* too perhaps.  On a lost connection the code takes what has arrived before it
\* throws (pipeline.cxx:417); here that was taken by a call before the loss.
GetFurther(v) ==
  IF v.lost THEN {Throw(v, "broken")}
  ELSE LET got == Obtained(v) IN {got[n] : n \in 0..Len(v.wire) + 1}

\* (mutant) the status of a replayed query is not checked
KeptWithThud(good, thud) == good \cup {thud}

\* The replayed queries that get a result of their own.
Kept(good, thud) == good

\* The queries ids by themselves, one after the other.
Singly(v, ids) ==
  LET tried[n \in 0..MaxQ] ==
        IF n = 0 THEN v ELSE IF n \in ids THEN Alone(tried[n - 1], n) ELSE tried[n - 1]
  IN  tried[MaxQ]

\* The first of the queries ids that will fail.
Thud(v, ids) == Least({q \in ids : v.lost \/ v.failed \/ fate[q] # "ok"})
Before(ids, thud) == {q \in ids : q < thud}

\* Issue the queries of a failed batch one at a time, up to the one that fails.
Replay(v, ids) ==
  LET thud == Thud(v, ids)
      good == Before(ids, thud)
      past == [Answer(Singly(v, good \cup {thud}), Kept(good, thud),
                      LAMBDA i : [of |-> i, ok |-> TRUE]) EXCEPT
                 !.waiting = @ + Cardinality(ids) - Cardinality(good \cup {thud}),
                 !.first = After(v, thud), !.second = After(v, thud),
                 !.registered = FALSE, !.thrown = "none"]
  IN  SetErrorAt(past, IF past.first = PastLast THEN thud + 1 ELSE past.first)

\* Give the whole batch the error of its dummy query.
Spoilt(v) ==
  Answer([v EXCEPT !.dummy = FALSE, !.wire = Tail(@)], Issued(v), LAMBDA i : Failure)

\* obtain_dummy().  When the batch has failed, at least one of its queries will
\* fail again: the block has failed, the connection is lost, or it has a
\* syntax error.
ObtainDummy(v) ==
  LET left == ObtainResult(Spoilt(v), TRUE)
  IN  IF v.wire = <<>>
      THEN Throw(SetErrorAt([v EXCEPT !.dummy = FALSE, !.command = FALSE], 0), "internal")
      ELSE IF Head(v.wire).ok THEN [v EXCEPT !.dummy = FALSE, !.wire = Tail(@)]
      ELSE Replay(left, Issued(left))

Dummy(v) == IF v.dummy THEN {ObtainDummy(v)} ELSE {v}

ReceiveIfAvailable(v) ==
  IF v.lost THEN {Throw(v, "broken")}
  ELSE (IF v.command THEN {v} ELSE {})           \* is_busy(): nothing has arrived
       \cup Then(Dummy(v), LAMBDA u : IF Pending(u) THEN GetFurther(u) ELSE {u})

\* At least one call of obtain_result(), up to stop or the null result.
ObtainedTo(v, stop) ==
  LET got == Obtained(v)
      null == Len(v.wire) + 1
  IN  got[Least({n \in 1..null : got[n].first = stop \/ n = null})]

\* receive(stop)
Receive(v, stop) ==
  LET upTo == Then(Dummy(v), LAMBDA u : {ObtainedTo(u, stop)})
  IN  Then(upTo, LAMBDA u : IF u.first = stop THEN GetFurther(u) ELSE {u})
-----------------------------------------------------------------------------
(* Issuing *)

\* (mutant) queries are issued after an error too
ErrorForgotten(v) == TRUE
NoError(v) == v.error = Limit

\* Where a batch starts: "oldest query (lowest id) not in previous issue range".
Oldest(v) == v.second

\* (mutant) the dummy query is sent but not expected
SentForgettingDummy(v) ==
  LET ids == From(v, Oldest(v))
      n == Cardinality(ids)
  IN  [Send(v, ids, n > 1) EXCEPT !.first = Oldest(v), !.second = PastLast, !.waiting = @ - n]

\* A batch of more than one is headed by the dummy query.
Sent(v) ==
  LET ids == From(v, Oldest(v))
      n == Cardinality(ids)
  IN  [Send(v, ids, n > 1) EXCEPT !.dummy = (n > 1), !.first = Oldest(v), !.second = PastLast,
                                  !.waiting = @ - n]

\* issue(), called when nothing is pending: start_exec fails on a connection
\* that is lost.
Issue(v) ==
  Then({ObtainResult(v, FALSE)},
       LAMBDA u : IF ~NoError(u) THEN {u} ELSE IF u.lost THEN {Throw(u, "failed")} ELSE {Sent(u)})

Attach(v) == [v EXCEPT !.registered = TRUE]
Detach(v) == [v EXCEPT !.registered = FALSE]

\* Once more something is waiting and nothing is pending.
IssueIdle(v) == IF Pending(v) THEN {v} ELSE Issue(v)

Inserted(v) ==
  LET q == v.qid + 1
  IN  [Attach(v) EXCEPT
         !.qid = q, !.queries = [i \in DOMAIN @ \cup {q} |-> IF i = q THEN None ELSE @[i]],
         !.second = IF @ = PastLast THEN q ELSE @,
         !.first = IF v.second = PastLast /\ @ = PastLast THEN q ELSE @,
         !.waiting = @ + 1]

InsertQuery(v) ==
  LET u == Inserted(v)
  IN  IF u.waiting <= u.retain THEN {u}
      ELSE Then(IF Pending(u) THEN ReceiveIfAvailable(u) ELSE {u}, IssueIdle)

ResumeIssuing(v) ==
  Then(IF Pending(v) THEN ReceiveIfAvailable(v) ELSE {v},
       LAMBDA u : IF Pending(u) \/ u.waiting = 0 THEN {u}
                  ELSE Then(Issue(u), ReceiveIfAvailable))

\* All that is on its way is received.
ReceiveAll(v) == IF Pending(v) THEN Receive(v, v.second) ELSE {v}

IssueRest(v) ==
  IF v.waiting > 0 /\ NoError(v) THEN Then(Issue(v), LAMBDA u : Receive(u, PastLast)) ELSE {v}

CompleteAll(v) == Then(Then(ReceiveAll(v), IssueRest), LAMBDA u : {Detach(u)})

Cleared(v) ==
  [v EXCEPT !.first = PastLast, !.second = PastLast, !.waiting = 0, !.dummy = FALSE,
            !.queries = <<>>]

FlushAll(v) ==
  Then(IF v.queries = <<>> THEN {v} ELSE Then(ReceiveAll(v), LAMBDA u : {Cleared(u)}),
       LAMBDA u : {Detach(u)})

\* cancel(): the server is told to stop; what it answers is left unread.
CancelAll(v) ==
  LET kept == From(v, 1) \ Issued(v)
      forget(u) == [u EXCEPT !.queries = [i \in kept |-> @[i]], !.first = v.second]
  IN  IF ~Pending(v) THEN {v}
      ELSE IF v.lost THEN {Throw(v, "failed")}
      ELSE {forget(v)} \cup
             {[forget(v) EXCEPT !.wire = SubSeq(@, 1, k) \o <<Failure>>,
                                !.failed = @ \/ v.kind = "work",
                                !.undone = @ \cup Issued(v)] :
                k \in {i \in 0..Len(v.wire) - 1 : v.wire[i + 1].ok}}

\* retrieve(q): sees to it that q has been sent, then that its result is in, then that
\* what waits goes out; then q is erased, and check_status may throw.
SentFor(v, q) ==
  IF v.second = PastLast \/ q < v.second THEN {v}
  ELSE Then(ReceiveAll(v), LAMBDA u : IF NoError(u) THEN Issue(u) ELSE {u})

GotFor(v, q) ==
  IF ~Pending(v) THEN {v}
  ELSE IF q >= v.first THEN Receive(v, After(v, q)) ELSE ReceiveIfAvailable(v)

KeptBusy(v, q) ==
  IF q >= v.error THEN {Throw(v, "refused")}
  ELSE IF v.waiting > 0 /\ ~Pending(v) /\ NoError(v) THEN Issue(v) ELSE {v}

ResultTaken(v, q) ==
  [v EXCEPT !.queries = [i \in DOMAIN @ \ {q} |-> @[i]],
            !.thrown = IF v.queries[q].ok THEN "none" ELSE "failed"]

\* In the shadow of an earlier error it is refused, and q left where it is.
RetrieveResult(v, q) ==
  IF q >= v.error THEN {Throw(v, "refused")}
  ELSE Then(Then(Then(SentFor(v, q), LAMBDA u : GotFor(u, q)), LAMBDA u : KeptBusy(u, q)),
            LAMBDA u : {ResultTaken(u, q)})

\* is_finished()
IsFinished(q) == w.first = PastLast \/ (q < w.first /\ q < w.error)

-----------------------------------------------------------------------------
(* The operations *)

Called == [w EXCEPT !.thrown = "none"]

Insert == w.qid < MaxQ /\ w' \in InsertQuery(Called) /\ UNCHANGED <<fate, told>>

RetrieveQuery(q) ==
  /\ q \in DOMAIN w.queries
  /\ \E v \in RetrieveResult(Called, q) :
       /\ w' = v
       /\ told' = [told EXCEPT ![q] =
            IF q \notin DOMAIN v.queries THEN (IF v.thrown = "none" THEN "ok" ELSE "failed")
            ELSE IF v.thrown = "refused" THEN "refused" ELSE @]
  /\ UNCHANGED fate

CompletePipe == w' \in CompleteAll(Called) /\ UNCHANGED <<fate, told>>
Flush ==
  /\ (w.error < Limit => "error" \in PipeHabits)
  /\ w' \in FlushAll(Called) /\ UNCHANGED <<fate, told>>
Cancel ==
  /\ (Pending(w) => "cancel" \in PipeHabits)
  /\ w' \in CancelAll(Called) /\ UNCHANGED <<fate, told>>
Resume == w' \in ResumeIssuing(Called) /\ UNCHANGED <<fate, told>>
Retain(n) ==
  /\ LET v == [Called EXCEPT !.retain = n]
     IN  w' \in IF v.waiting >= n THEN ResumeIssuing(v) ELSE {v}
  /\ UNCHANGED <<fate, told>>

\* Another call on the transaction while the pipeline does not have the focus.
ElsewhereExec ==
  /\ ~w.registered
  /\ w' = [Called EXCEPT !.command = FALSE, !.wire = <<>>]
  /\ UNCHANGED <<fate, told>>

\* The connection is gone: what has arrived can be read, then one error.
Lose ==
  /\ ~w.lost
  /\ \E k \in 0..Len(w.wire) :
       w' = [Called EXCEPT !.lost = TRUE,
                        !.wire = IF w.command THEN SubSeq(@, 1, k) \o <<Failure>> ELSE <<>>]
  /\ UNCHANGED <<fate, told>>

PipeNext ==
  \/ \E q \in 1..MaxQ : RetrieveQuery(q)
  \/ Insert \/ CompletePipe \/ Flush \/ Cancel \/ Resume
  \/ \E n \in Retains : Retain(n)
  \/ ElsewhereExec \/ Lose

PipeSpec == PipeInit /\ [][PipeNext]_pipeVars
-----------------------------------------------------------------------------
(* Properties *)

\* What a caller is told of a query is true of that query: no dummy, replay,
\* early look or lost answer shifts the results (pipeline.cxx:261).
ToldTrue == \A q \in 1..MaxQ : told[q] = "ok" => q \in ToSet(w.ran) /\ fate[q] = "ok"

\* The server runs each query at most once and in the order of insertion, also
\* when a failed batch is replayed (pipeline.cxx:318).
RunInOrder == \A i, j \in DOMAIN w.ran : i < j => w.ran[i] < w.ran[j]

\* "The given query failed; never issue anything beyond that" (pipeline.hxx:195).
NothingBeyondError ==
  [][\A i \in DOMAIN w'.ran \ DOMAIN w.ran : w'.ran[i] < w.error]_pipeVars

\* A query is_finished() calls finished has its result (pipeline.hxx:118).
FinishedHasResult == \A q \in DOMAIN w.queries : IsFinished(q) => w.queries[q] # None

\* While results are on their way to it the pipeline is the focus of the
\* transaction, so that no other call throws them away (pipeline.hxx:45).
PendingIsFocus == w.command /\ Pending(w) => w.registered

\* "To be sure that your statements succeeded, call retrieve until the pipeline
\* is empty" (pipeline.hxx:90): then each has run and none has been undone.
AllRetrievedMeansDone ==
  (\A q \in 1..w.qid : told[q] = "ok") =>
     /\ ToSet(w.ran) = 1..w.qid /\ w.undone = {}
     /\ w.kind = "work" => ~w.failed

\* The iterators stand at queries that are there, and behind them are those
\* counted as waiting (pipeline.cxx:223, :335, :410).
IteratorsValid ==
  /\ {w.first, w.second} \subseteq DOMAIN w.queries \cup {PastLast} /\ w.first <= w.second
  /\ w.error = Limit => w.waiting = Cardinality(From(w, w.second))

\* The server never answers more, nor less, than the pipeline counts on
\* (pipeline.cxx:257, :286), unless the connection is lost between the last
\* result of a batch and the end of its answer.
AnswersAddUp == ~w.lost => w.thrown \notin {"surplus", "internal"}

\* Results and queries are matched: what is told of a query is its own.
ResultsMatch ==
  ToldTrue /\ FinishedHasResult /\ PendingIsFocus /\ IteratorsValid /\ AnswersAddUp

\* What was inserted is done, once, in order, and none of it is undone unnoticed.
QueriesDone == RunInOrder /\ AllRetrievedMeansDone
=============================================================================
