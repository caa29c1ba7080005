------------------------------- MODULE Errors -------------------------------
(***************************************************************************)
(* The exceptions of libpqxx (except.hxx) and the one each SQLSTATE is     *)
(* thrown as (result::throw_sql_error).  What is caught where depends on   *)
(* both: pqxx::perform and the commit of a transaction tell a failure that *)
(* may be tried again from one that may have taken effect by its class.    *)
(***************************************************************************)
EXTENDS TLC

\* The base class of each exception: of the failures of a connection or a
\* transaction, of the errors of the program, of those of a statement.
Failures ==
     "failure" :> "std::runtime_error"
  @@ "broken_connection" :> "failure"
  @@ "protocol_violation" :> "broken_connection"
  @@ "variable_set_to_null" :> "failure"
  @@ "sql_error" :> "failure"
  @@ "in_doubt_error" :> "failure"
  @@ "transaction_rollback" :> "sql_error"
  @@ "serialization_failure" :> "transaction_rollback"
  @@ "statement_completion_unknown" :> "transaction_rollback"
  @@ "deadlock_detected" :> "transaction_rollback"

LogicErrors ==
     "internal_error" :> "std::logic_error"
  @@ "usage_error" :> "std::logic_error"
  @@ "argument_error" :> "std::invalid_argument"
  @@ "conversion_error" :> "std::domain_error"
  @@ "unexpected_null" :> "conversion_error"
  @@ "conversion_overrun" :> "conversion_error"
  @@ "range_error" :> "std::out_of_range"
  @@ "unexpected_rows" :> "range_error"

DataErrors ==
     "feature_not_supported" :> "sql_error"
  @@ "data_exception" :> "sql_error"
  @@ "integrity_constraint_violation" :> "sql_error"
  @@ [e \in {"restrict_violation", "not_null_violation", "foreign_key_violation",
             "unique_violation", "check_violation"} |-> "integrity_constraint_violation"]

StatementErrors ==
     "invalid_cursor_state" :> "sql_error"
  @@ "invalid_sql_statement_name" :> "sql_error"
  @@ "invalid_cursor_name" :> "sql_error"
  @@ "syntax_error" :> "sql_error"
  @@ [e \in {"undefined_column", "undefined_function", "undefined_table"} |-> "syntax_error"]

ServerErrors ==
     "insufficient_privilege" :> "sql_error"
  @@ "insufficient_resources" :> "sql_error"
  @@ "disk_full" :> "insufficient_resources"
  @@ "out_of_memory" :> "insufficient_resources"
  @@ "too_many_connections" :> "broken_connection"
  @@ "plpgsql_error" :> "sql_error"
  @@ [e \in {"plpgsql_raise", "plpgsql_no_data_found", "plpgsql_too_many_rows"} |->
        "plpgsql_error"]

Base == Failures @@ LogicErrors @@ DataErrors @@ StatementErrors @@ ServerErrors

\* The classes a catch clause of which catches e.
Kinds[e \in DOMAIN Base] ==
  {e} \cup (IF Base[e] \in DOMAIN Base THEN Kinds[Base[e]] ELSE {Base[e]})
Is(e, c) == e = c \/ (e \in DOMAIN Base /\ c \in Kinds[e])
-----------------------------------------------------------------------------
(* A SQLSTATE is a pair: its class, two characters, and the other three.     *)

NoState == <<"", "">>     \* none in the answer, or an empty one

\* What a whole code is thrown as, and what the rest of its class is.
ByCode ==
     <<"08", "P01">> :> "protocol_violation"
  @@ <<"23", "001">> :> "restrict_violation"    @@ <<"23", "502">> :> "not_null_violation"
  @@ <<"23", "503">> :> "foreign_key_violation" @@ <<"23", "505">> :> "unique_violation"
  @@ <<"23", "514">> :> "check_violation"
  @@ <<"40", "000">> :> "transaction_rollback"  @@ <<"40", "001">> :> "serialization_failure"
  @@ <<"40", "003">> :> "statement_completion_unknown"
  @@ <<"40", "P01">> :> "deadlock_detected"
  @@ <<"42", "501">> :> "insufficient_privilege" @@ <<"42", "601">> :> "syntax_error"
  @@ <<"42", "703">> :> "undefined_column"      @@ <<"42", "883">> :> "undefined_function"
  @@ <<"42", "P01">> :> "undefined_table"
  @@ <<"53", "100">> :> "disk_full"             @@ <<"53", "200">> :> "out_of_memory"
  @@ <<"53", "300">> :> "too_many_connections"
  @@ <<"P0", "001">> :> "plpgsql_raise"         @@ <<"P0", "002">> :> "plpgsql_no_data_found"
  @@ <<"P0", "003">> :> "plpgsql_too_many_rows"

ByClass ==
     "0A" :> "feature_not_supported"  @@ "08" :> "broken_connection"
  @@ "0L" :> "insufficient_privilege" @@ "0P" :> "insufficient_privilege"
  @@ "22" :> "data_exception"         @@ "23" :> "integrity_constraint_violation"
  @@ "24" :> "invalid_cursor_state"   @@ "26" :> "invalid_sql_statement_name"
  @@ "34" :> "invalid_cursor_name"
  @@ "53" :> "insufficient_resources" @@ "P0" :> "plpgsql_error"

ThrowSqlError(code) ==
  CASE code = NoState -> "broken_connection"
    [] code \in DOMAIN ByCode -> ByCode[code]
    [] code \notin DOMAIN ByCode /\ code # NoState /\ code[1] \in DOMAIN ByClass ->
         ByClass[code[1]]
    [] OTHER -> "sql_error"

\* result::check_status, connection::make_result: what an answer makes a call
\* throw, "" if nothing.  An answer is a status and the SQLSTATE of an error.
Statuses == {"EMPTY_QUERY", "COMMAND_OK", "TUPLES_OK", "COPY_OUT", "COPY_IN", "COPY_BOTH",
             "PIPELINE_SYNC", "PIPELINE_ABORTED", "SINGLE_TUPLE",
             "BAD_RESPONSE", "NONFATAL_ERROR", "FATAL_ERROR", "none"}

StatusError(status, code) ==
  CASE status \in {"EMPTY_QUERY", "COMMAND_OK", "TUPLES_OK",
                   "COPY_OUT", "COPY_IN", "COPY_BOTH"} -> ""
    [] status \in {"PIPELINE_SYNC", "PIPELINE_ABORTED", "SINGLE_TUPLE"} ->
         "feature_not_supported"
    [] status \in {"BAD_RESPONSE", "NONFATAL_ERROR", "FATAL_ERROR"} -> ThrowSqlError(code)

\* No answer at all: libpq could not send, or lost the connection.
MakeResult(status, code, open) ==
  IF status = "none" THEN IF open THEN "failure" ELSE "broken_connection"
  ELSE StatusError(status, code)
=============================================================================
