--------------------------- MODULE ClientDirectory ---------------------------
(***************************************************************************)
(* What the client manager promises its callers, who only see calls go out *)
(* and come back: every call takes effect at one moment between its start  *)
(* and its end, as a whole and at most once; it takes none only if at some *)
(* moment in between it could have none, if it was a victim of a deadlock  *)
(* of updates, or if the connection is lost, and then the last call of     *)
(* that manager may even take effect after it came back.                   *)
(***************************************************************************)
EXTENDS Directory

CONSTANTS
  Calls,     \* the calls the program makes
  Start,     \* the clients an earlier run may have left
  NoCall,    \* no call in progress
  Done       \* the call has been decided and is about to return

VARIABLES
  table,     \* table clients exists
  rows,      \* its rows
  up,        \* the manager's connection works
  call,      \* the call each manager is in, Done or NoCall
  excuse,    \* there was a moment in this call when it could have no effect
  answer     \* what FindClients has found

vars == <<table, rows, up, call, excuse, answer>>

Init ==
  /\ \/ table = FALSE /\ rows = {}
     \/ table = TRUE /\ rows = Start
  /\ up = [m \in Managers |-> TRUE]
  /\ call = [m \in Managers |-> NoCall]
  /\ excuse = [m \in Managers |-> FALSE]
  /\ answer = [m \in Managers |-> {}]

Invoke(m, c) ==
  /\ up[m] /\ call[m] = NoCall
  /\ call' = [call EXCEPT ![m] = c]
  /\ excuse' = [excuse EXCEPT ![m] = NoEffect(c, rows, table)]
  /\ answer' = [answer EXCEPT ![m] = {}]
  /\ UNCHANGED <<table, rows, up>>

\* The effect of a call that has one.
Effect(c) ==
  \/ /\ c.op = "CreateTable" /\ table' = TRUE /\ UNCHANGED rows
  \/ /\ c.op = "AddClient"
     /\ \E id \in Ids :
          /\ \A r \in rows : r.id # id
          /\ rows' = rows \cup {NewRow(c, id)}
     /\ UNCHANGED table
  \/ /\ c.op = "DeleteClient"
     /\ rows' = rows \ WithEmail(rows, c.email) /\ UNCHANGED table
  \/ /\ c.op \in {"AddPhone", "DeletePhone", "UpdateClient"}
     /\ rows' = (rows \ WithEmail(rows, c.email))
                  \cup {ChangedRow(c, r) : r \in WithEmail(rows, c.email)}
     /\ UNCHANGED table

Apply(m) ==
  /\ call[m] \notin {NoCall, Done} /\ ~NoEffect(call[m], rows, table)
  /\ Effect(call[m])
  /\ call' = [call EXCEPT ![m] = Done]
  /\ excuse' = [x \in Managers |->
       excuse[x] \/ (call'[x] \notin {NoCall, Done} /\ NoEffect(call'[x], rows', table'))]
  /\ UNCHANGED <<up, answer>>

Find(m) ==
  /\ call[m] \notin {NoCall, Done} /\ call[m].op = "FindClients" /\ table
  /\ answer' = [answer EXCEPT ![m] = Matching(rows, call[m].query)]
  /\ call' = [call EXCEPT ![m] = Done]
  /\ UNCHANGED <<table, rows, up, excuse>>

Skip(m) ==
  /\ call[m] \notin {NoCall, Done} /\ excuse[m]
  /\ call' = [call EXCEPT ![m] = Done]
  /\ UNCHANGED <<table, rows, up, excuse, answer>>

Renaming(m) == call[m] \notin {NoCall, Done} /\ call[m].op = "UpdateClient"

\* Only an UpdateClient that meets another one may be sacrificed to a deadlock.
Victim(m) ==
  /\ Renaming(m) /\ \E s \in Managers \ {m} : Renaming(s)
  /\ call' = [call EXCEPT ![m] = Done]
  /\ UNCHANGED <<table, rows, up, excuse, answer>>

Return(m) ==
  /\ up[m] /\ call[m] = Done
  /\ call' = [call EXCEPT ![m] = NoCall]
  /\ UNCHANGED <<table, rows, up, excuse, answer>>

\* The connection is lost for good; a FindClients in progress comes back empty.
Lose(m) ==
  /\ up[m] /\ up' = [up EXCEPT ![m] = FALSE]
  /\ answer' = [answer EXCEPT ![m] = IF call[m] = NoCall THEN @ ELSE {}]
  /\ UNCHANGED <<table, rows, call, excuse>>

Abandon(m) ==
  /\ ~up[m] /\ call[m] # NoCall
  /\ call' = [call EXCEPT ![m] = NoCall]
  /\ UNCHANGED <<table, rows, up, excuse, answer>>

Next ==
  \E m \in Managers :
    \/ \E c \in Calls : Invoke(m, c)
    \/ Apply(m) \/ Find(m) \/ Skip(m) \/ Victim(m)
    \/ Return(m) \/ Lose(m) \/ Abandon(m)

Spec == Init /\ [][Next]_vars
=============================================================================
