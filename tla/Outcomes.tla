------------------------------ MODULE Outcomes ------------------------------
(***************************************************************************)
(* pqxx::perform (transactor.hxx) over a callback that opens a connection, *)
(* does its work in one transaction, a work or a robusttransaction, and    *)
(* commits it; and what each class makes of a commit whose answer is lost  *)
(* (transaction.cxx, robusttransaction.cxx).  The server may still be      *)
(* executing a COMMIT whose session is lost while the client asks for its  *)
(* outcome on another connection.                                          *)
(***************************************************************************)
EXTENDS Naturals, Errors

CONSTANTS
  MaxAttempts,  \* the `attempts` passed to perform are 0..MaxAttempts
  MaxAnswers,   \* bound: max_attempts of do_commit (500 in the code)
  Codes,        \* the SQLSTATEs a statement may fail with
  OutcomeHabits \* "remote": COMMIT may fail with a connection error of another
                \* server it depends on while the session itself goes on;
                \* "conflict": the query for the outcome may fail with a rollback,
                \* as one to a standby does in conflict with recovery

VARIABLES
  pc,        \* where perform is: "call", "inside", "constraints", "commit", "asking",
             \* "raised" (an exception leaves the callback), "returned", "thrown"
  left,      \* attempts
  raised,    \* the exception on its way, or the last one
  kind,      \* "work" or "robust": the transaction of the callback
  status,    \* its transaction_base::m_status
  conn,      \* its connection: "up", "dead" (not known to be), "lost"
  asks,      \* queries for the outcome so far
  server,    \* its transaction at the server: "none", "block", "committing",
             \* "committed" or "aborted"
  commits,   \* history: runs of the callback whose transaction committed
  answered   \* history: a query found it committed or aborted

outcomeVars == <<pc, left, raised, kind, status, conn, asks, server, commits, answered>>

OutcomeTypeOK ==
  /\ pc \in {"call", "inside", "constraints", "commit", "asking", "raised", "returned", "thrown"}
  /\ left \in 0..MaxAttempts /\ asks \in 0..MaxAnswers /\ commits \in Nat
  /\ raised \in DOMAIN Base \cup {"", "std::invalid_argument", "its own"}
  /\ kind \in {"work", "robust"}
  /\ status \in {"active", "aborted", "committed", "in_doubt"}
  /\ conn \in {"up", "dead", "lost"}
  /\ server \in {"none", "block", "committing", "committed", "aborted"}
  /\ answered \in BOOLEAN

\* perform refuses zero attempts.
OutcomeInit ==
  /\ left \in 0..MaxAttempts
  /\ kind \in {"work", "robust"}
  /\ IF left = 0 THEN pc = "thrown" /\ raised = "std::invalid_argument"
                 ELSE pc = "call" /\ raised = ""
  /\ status = "active" /\ conn = "lost" /\ asks = 0
  /\ server = "none" /\ commits = 0 /\ answered = FALSE
-----------------------------------------------------------------------------
(* The server *)

\* Its transaction takes the state s.
Server(s) ==
  /\ server' = s
  /\ commits' = IF s = "committed" /\ server # "committed" THEN commits + 1 ELSE commits

\* A statement before COMMIT meets a dead session, or fails with an error that
\* leaves the session in a failed block.
LosesConnection == conn' = "lost" /\ Server("aborted")
Fails(e) == conn = "up" /\ Server("aborted") /\ UNCHANGED conn /\
            \E c \in Codes : e = ThrowSqlError(c)

Dies ==
  /\ conn = "up" /\ pc \in {"inside", "constraints", "commit"}
  /\ conn' = "dead" /\ Server("aborted")
  /\ UNCHANGED <<pc, left, raised, kind, status, asks, answered>>

\* The COMMIT of a lost session comes to its end.
Resolves ==
  /\ server = "committing"
  /\ \E s \in {"committed", "aborted"} : Server(s)
  /\ UNCHANGED <<pc, left, raised, kind, status, conn, asks, answered>>
-----------------------------------------------------------------------------
(* The callback *)

Raise(e) == pc' = "raised" /\ raised' = e
GoTo(p) == pc' = p /\ UNCHANGED raised

\* The constructors: a connection, BEGIN, and for a robusttransaction its id.
Begin ==
  /\ pc = "call"
  /\ kind' \in {"work", "robust"} /\ status' = "active" /\ asks' = 0 /\ answered' = FALSE
  /\ \/ conn' = "up" /\ Server("block") /\ GoTo("inside")
     \/ conn' = "lost" /\ Server("none") /\ Raise("broken_connection")
  /\ UNCHANGED left

\* A statement fails, or the callback does; one that finds the connection lost
\* may be of no importance to the callback.
Work ==
  /\ pc = "inside"
  /\ \/ conn = "dead" /\ LosesConnection /\ (Raise("broken_connection") \/ GoTo("inside"))
     \/ \E e \in DOMAIN Base : Fails(e) /\ Raise(e)
     \/ Raise("its own") /\ UNCHANGED <<conn, server, commits>>
  /\ UNCHANGED <<left, kind, status, asks, answered>>

\* transaction_base::commit() up to do_commit().
CallCommit ==
  /\ pc = "inside"
  /\ IF conn = "lost" THEN Raise("broken_connection")
     ELSE GoTo(IF kind = "robust" THEN "constraints" ELSE "commit")
  /\ UNCHANGED <<left, kind, status, conn, asks, server, commits, answered>>

\* SET CONSTRAINTS ALL IMMEDIATE; when it fails, do_abort() on a lost
\* connection throws in its turn.
Constraints ==
  /\ pc = "constraints"
  /\ \/ conn = "up" /\ GoTo("commit") /\ UNCHANGED <<status, conn, server, commits>>
     \/ conn = "dead" /\ LosesConnection /\ Raise("broken_connection") /\ status' = "aborted"
     \/ \E e \in DOMAIN Base : Fails(e) /\ Raise(e) /\ status' = "aborted"
  /\ UNCHANGED <<left, kind, asks, answered>>

\* (mutant) a connection lost while committing counts as a failed commit
DoubtIfUnknown(e, open) ==
  IF e = "statement_completion_unknown"
  THEN "in_doubt_error" ELSE e

\* basic_transaction::do_commit: the exception it makes of that of COMMIT.
Doubt(e, open) ==
  IF e = "statement_completion_unknown" \/ ~open THEN "in_doubt_error" ELSE e

\* basic_robusttransaction::do_commit: an error that is not about the connection
\* on one that is still open ends it.
CommitFailed(e, open) == ~Is(e, "broken_connection") /\ open

\* commit(): the status after do_commit() has thrown e.
StatusAfter(e) == IF e = "in_doubt_error" THEN "in_doubt" ELSE "aborted"

CommitThrows(e) == Raise(e) /\ status' = StatusAfter(e)

\* The answer to COMMIT is the exception e.
CommitError(e, open) ==
  IF kind = "work" THEN CommitThrows(Doubt(e, open))
  ELSE IF CommitFailed(e, open) THEN CommitThrows(e)
  ELSE GoTo("asking") /\ UNCHANGED status

SendCommit ==
  /\ pc = "commit"
  /\ \/ /\ conn = "up" /\ Server("committed") /\ UNCHANGED conn
        /\ GoTo("returned") /\ status' = "committed"
     \/ \E c \in Codes :
          /\ conn = "up" /\ UNCHANGED conn
          /\ Is(ThrowSqlError(c), "broken_connection") => "remote" \in OutcomeHabits
          /\ \E s \in IF ThrowSqlError(c) = "statement_completion_unknown"
                      THEN {"committed", "aborted"} ELSE {"aborted"} : Server(s)
          /\ CommitError(ThrowSqlError(c), TRUE)
     \/ /\ conn' = "lost"
        /\ IF conn = "up" THEN \E s \in {"committed", "committing", "aborted"} : Server(s)
           ELSE Server("aborted")
        /\ CommitError("broken_connection", FALSE)
  /\ UNCHANGED <<left, kind, asks, answered>>

\* Another attempt at query_status, or none is left.
AskAgain == IF asks' < MaxAnswers THEN GoTo("asking") /\ UNCHANGED status
            ELSE CommitThrows("in_doubt_error")

\* query_status says that it has committed.
Committed(s) == s = "committed"

\* What query_status throws and the loop does not catch: any error of a statement
\* but that of a connection, a status that is null or unknown, no answer at all.
QueryErrors ==
  {e \in {ThrowSqlError(c) : c \in Codes} \cup {"internal_error", "failure"} :
     /\ ~Is(e, "broken_connection")
     /\ Is(e, "transaction_rollback") => "conflict" \in OutcomeHabits}

\* One turn of the loop: no connection to ask on, or an answer, or an error that
\* commit() passes on as its own.  The do_abort() that follows "aborted" throws
\* broken_connection in its turn on a connection that is lost, which the loop
\* catches; on one that is not, commit() returns.
Ask ==
  /\ pc = "asking"
  /\ asks' = asks + 1
  /\ \/ AskAgain /\ UNCHANGED answered
     \/ /\ answered' = (answered \/ server \in {"committed", "aborted"})
        /\ IF Committed(server) \/ (server = "aborted" /\ conn = "up")
           THEN GoTo("returned") /\ status' = "committed"
           ELSE AskAgain
     \/ (\E e \in QueryErrors : CommitThrows(e)) /\ UNCHANGED answered
  /\ UNCHANGED <<left, kind, conn, server, commits>>
-----------------------------------------------------------------------------
(* perform *)

\* The catch clauses that come first rethrow; those that follow try again.
NotAgain == {"in_doubt_error", "statement_completion_unknown", "protocol_violation"}
Again == {"broken_connection", "transaction_rollback"}

\* (mutant) attempts is not counted down
CountForgotten == left

CountDown == left - 1

\* ~transaction has rolled back what is still open: on the way to the catch
\* clause the callback's objects are destroyed.
Catch ==
  /\ pc = "raised"
  /\ IF /\ \A c \in NotAgain : ~Is(raised, c)
        /\ \E c \in Again : Is(raised, c)
        /\ left > 1
     THEN pc' = "call" /\ left' = CountDown
     ELSE pc' = "thrown" /\ UNCHANGED left
  /\ Server(IF server = "block" THEN "aborted" ELSE server)
  /\ status' = IF status = "active" THEN "aborted" ELSE status
  /\ UNCHANGED <<raised, kind, conn, asks, answered>>

Perform == Begin \/ Work \/ CallCommit \/ Constraints \/ SendCommit \/ Ask \/ Catch

OutcomeNext == Perform \/ Dies \/ Resolves

\* The program's thread goes on by itself, and the server ends every COMMIT.
OutcomeSpec == OutcomeInit /\ [][OutcomeNext]_outcomeVars
OutcomeFairSpec == OutcomeSpec /\ WF_outcomeVars(Perform) /\ WF_outcomeVars(Resolves)
-----------------------------------------------------------------------------
(* Properties *)

Doubtful == raised \in {"in_doubt_error", "statement_completion_unknown"}

\* However often the callback is run again, its transaction commits once at
\* most: perform does not try again what may have taken effect, or may still
\* (transactor.hxx:106).
AtMostOnce == commits + (IF server = "committing" THEN 1 ELSE 0) <= 1

\* perform returns only what has been committed.
ReturnMeansDone == pc = "returned" => commits = 1 /\ server = "committed"

\* "libpqxx may be unable to determine whether the database was able to complete the
\* transaction, or had to roll it back.  In that scenario, commit() will throw an
\* in_doubt_error" (transaction_base.hxx:105): with any other exception nothing has
\* been committed, nor still may be.
DoubtIsTold == pc = "thrown" /\ ~Doubtful => commits = 0 /\ server # "committing"

\* So it is as long as a robusttransaction did not have to ask: what its query for
\* the outcome throws leaves commit() as if it were an error of COMMIT
\* (robusttransaction.cxx:203), and says nothing about the outcome.
FailureMeansNothing == asks = 0 => DoubtIsTold

\* What perform makes known is what happened, at the server, to the work of all the
\* runs of the callback, but for an error of the query for the outcome.
PerformTellsTruth == AtMostOnce /\ ReturnMeansDone /\ FailureMeansNothing

\* perform ends, however often it tries again and asks for the outcome: with the
\* result, or an exception (transactor.hxx:106).
PerformEnds == pc = "call" ~> pc \in {"returned", "thrown"}

\* "What robusttransaction tries to achieve is to give you certainty"
\* (robusttransaction.hxx:78): it is not in doubt about an outcome it was told.
KnownOutcomeIsReported == answered => status # "in_doubt"
=============================================================================
