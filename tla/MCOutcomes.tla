----------------------------- MODULE MCOutcomes -----------------------------
EXTENDS Outcomes

\* A conflict, a constraint, a timeout, an unknown completion, a violation of the
\* protocol, and two errors of a connection.
MCCodes ==
  {<<"40", "001">>, <<"23", "505">>, <<"57", "014">>, <<"40", "003">>, <<"08", "P01">>, <<"08", "006">>,
   <<"53", "300">>}
=============================================================================
