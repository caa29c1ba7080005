------------------------------- MODULE Backend -------------------------------
(***************************************************************************)
(* One PostgreSQL session as libpqxx sees it through libpq: an external    *)
(* component, modelled from what src/05/libpqxx-7.9.0 sends it and how it  *)
(* reads the answers.  A command is an action Srv...(r) where r is what    *)
(* connection::make_result (connection.cxx:218) makes of the answer:       *)
(*   "ok"      a result                                                    *)
(*   "error"   an sql_error; the connection stays usable                   *)
(*   "unknown" statement_completion_unknown (SQLSTATE 40003)               *)
(*   "broken"  broken_connection; the command may or may not have run      *)
(***************************************************************************)
EXTENDS Naturals, FiniteSets

CONSTANT Writes       \* the row changes clients send; each is sent once

VARIABLES
  open,      \* connection::is_open(): PQstatus() still says CONNECTION_OK
  alive,     \* the server process behind the connection still exists
  st,        \* "idle": autocommit, "block": in a transaction block,
             \* "failed": in a block whose commands are ignored
  block,     \* writes of the current block, not yet durable
  copying,   \* a COPY ... FROM STDIN is in progress
  copied,    \* rows handed over since it started
  durable    \* committed writes

beVars == <<open, alive, st, block, copying, copied, durable>>

BeTypeOK ==
  /\ open \in BOOLEAN /\ alive \in BOOLEAN /\ copying \in BOOLEAN
  /\ st \in {"idle", "block", "failed"}
  /\ block \subseteq Writes /\ copied \subseteq Writes /\ durable \subseteq Writes

BeInit ==
  /\ open = TRUE /\ alive = TRUE /\ copying = FALSE
  /\ st = "idle"
  /\ block = {} /\ copied = {} /\ durable = {}

Up == open /\ alive
Replies == {"ok", "error", "unknown", "broken"}

\* What an error does to the session: an open block fails as a whole.
Failed(s) == IF s = "block" THEN "failed" ELSE s

\* A command sent while a COPY is in progress makes libpq end the COPY with an
\* error first (PQexecStart), so the command itself meets this state.
StNow == IF copying THEN Failed(st) ELSE st
BlockNow == IF StNow = "block" THEN block ELSE {}

\* The session is gone, and with it whatever it had not made durable.
Gone(d) ==
  /\ open' = FALSE /\ alive' = FALSE
  /\ st' = "idle" /\ block' = {} /\ copying' = FALSE /\ copied' = {}
  /\ durable' = d

\* No reply: sent on a dead session, or the session dies while it serves the
\* command, before or after the effect `d` became durable.
Lost(d) == IF Up THEN Gone(durable) \/ Gone(d) ELSE Gone(durable)

Answer(s, b, d) ==
  /\ Up
  /\ st' = s /\ block' = b /\ durable' = d
  /\ copying' = FALSE /\ copied' = {}
  /\ UNCHANGED <<open, alive>>

SrvBegin(r) ==
  \/ /\ r = "ok" /\ StNow # "failed"
     /\ Answer("block", BlockNow, durable)   \* inside a block: only a WARNING
  \/ /\ r = "error" /\ Answer(Failed(StNow), {}, durable)
  \/ /\ r = "broken" /\ Lost(durable)

\* A statement that writes w, with autocommit outside a block.
SrvWrite(r, w) ==
  \/ /\ r = "ok" /\ StNow = "idle" /\ Answer("idle", {}, durable \cup {w})
  \/ /\ r = "ok" /\ StNow = "block" /\ Answer("block", BlockNow \cup {w}, durable)
  \/ /\ r = "error" /\ Answer(Failed(StNow), {}, durable)
  \/ /\ r = "broken"
     /\ Lost(IF StNow = "idle" THEN durable \cup {w} ELSE durable)

\* COMMIT of a failed block is answered like any other, but rolls back.
SrvCommit(r) ==
  \/ /\ r = "ok" /\ Answer("idle", {}, durable \cup BlockNow)
  \/ /\ r = "error" /\ Answer("idle", {}, durable)    \* e.g. a deferred constraint
  \/ /\ r = "unknown"
     /\ \E d \in {durable, durable \cup BlockNow} : Answer("idle", {}, d)
  \/ /\ r = "broken" /\ Lost(durable \cup BlockNow)

SrvRollback(r) ==
  \/ /\ r = "ok" /\ Answer("idle", {}, durable)
  \/ /\ r = "broken" /\ Lost(durable)

SrvCopyStart(r) ==
  \/ /\ r = "ok" /\ StNow # "failed" /\ Up
     /\ copying' = TRUE /\ copied' = {}
     /\ UNCHANGED <<open, alive, st, block, durable>>
  \/ /\ r = "error" /\ Answer(Failed(StNow), {}, durable)
  \/ /\ r = "broken" /\ Lost(durable)

\* PQputCopyData only buffers: it fails without a COPY and learns of a dead
\* server no sooner than PQputCopyEnd does.
SrvCopyData(r, w) ==
  \/ /\ r = "ok" /\ copying /\ copied' = copied \cup {w}
     /\ UNCHANGED <<open, alive, st, block, copying, durable>>
  \/ r = "error" /\ ~copying /\ UNCHANGED beVars

SrvCopyEnd(r) ==
  \/ /\ r = "ok" /\ copying /\ st = "block" /\ Answer("block", block \cup copied, durable)
  \/ /\ r = "ok" /\ copying /\ st = "idle" /\ Answer("idle", {}, durable \cup copied)
  \/ /\ r = "error" /\ copying /\ Answer(Failed(st), {}, durable)
  \/ /\ r = "error" /\ ~copying /\ UNCHANGED beVars
  \/ /\ r = "broken" /\ copying
     /\ Lost(IF st = "idle" THEN durable \cup copied ELSE durable)

\* The server process dies on its own; the client has not noticed yet.
SrvDies ==
  /\ Up
  /\ alive' = FALSE
  /\ st' = "idle" /\ block' = {}
  /\ UNCHANGED <<open, copying, copied, durable>>
=============================================================================
