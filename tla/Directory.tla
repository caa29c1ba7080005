------------------------------ MODULE Directory ------------------------------
(***************************************************************************)
(* The data of the client directory of src/05/Task#1 and what each method  *)
(* of class Manager does to it as a whole: the vocabulary shared by        *)
(* ClientDirectory (what the program promises) and ClientManager (how its  *)
(* transactions deliver it).                                               *)
(***************************************************************************)
EXTENDS Naturals, Sequences

CONSTANTS
  Managers,  \* Manager objects, each with a connection of its own
  Emails, Names, Phones,
  Ids        \* the values the SERIAL column's sequence can produce

ASSUME IdAssumption == Ids \subseteq Nat \ {0}

\* One row of table clients (Client_Manager.cpp:12), also struct Client.
Rows == [id : Ids, email : Emails, first : Names, last : Names,
         phones : Seq(Phones)]

\* The method calls a program makes on a Manager.
CallSet ==
  [op : {"CreateTable"}]
    \cup [op : {"AddClient"}, email : Emails, first : Names, last : Names,
          phones : Seq(Phones)]
    \cup [op : {"AddPhone", "DeletePhone"}, email : Emails, phone : Phones]
    \cup [op : {"DeleteClient"}, email : Emails]
    \cup [op : {"UpdateClient"}, email : Emails, to : Emails, first : Names, last : Names]
    \cup [op : {"FindClients"}, query : Emails \cup Names \cup Phones]

WithEmail(rows, e) == {r \in rows : r.email = e}

\* FindClients: WHERE email = $1 OR first_name = $1 OR last_name = $1
Matching(rows, q) == {r \in rows : r.email = q \/ r.first = q \/ r.last = q}

\* (mutant) the id is not taken from the sequence
RowWithoutId(c, id) ==
  [id |-> 0, email |-> c.email, first |-> c.first, last |-> c.last, phones |-> c.phones]

\* The row an INSERT makes; the id comes from the sequence of the SERIAL column.
NewRow(c, id) ==
  [id |-> id, email |-> c.email, first |-> c.first, last |-> c.last, phones |-> c.phones]

\* array_remove: s without the elements equal to x, prefix by prefix.
Without(s, x) ==
  LET kept[n \in 0..Len(s)] ==
        IF n = 0 THEN <<>>
        ELSE IF s[n] = x THEN kept[n - 1] ELSE Append(kept[n - 1], s[n])
  IN  kept[Len(s)]

\* What the SET clause of a call's UPDATE makes of row r.
ChangedRow(c, r) ==
  LET renames == c.op = "UpdateClient" IN
  [id     |-> r.id,
   email  |-> IF renames THEN c.to ELSE r.email,
   first  |-> IF renames THEN c.first ELSE r.first,
   last   |-> IF renames THEN c.last ELSE r.last,
   phones |-> CASE c.op = "AddPhone"    -> Append(r.phones, c.phone)
                [] c.op = "DeletePhone" -> Without(r.phones, c.phone)
                [] OTHER                -> r.phones]

\* The call can have no effect on these rows: no such client, or the email it
\* needs belongs to another one, or there is no table yet (or already).
NoEffect(c, rows, table) ==
  IF c.op = "CreateTable" THEN table
  ELSE \/ ~table
       \/ c.op = "AddClient" /\ WithEmail(rows, c.email) # {}
       \/ c.op \in {"AddPhone", "DeletePhone", "DeleteClient", "UpdateClient"}
            /\ WithEmail(rows, c.email) = {}
       \/ c.op = "UpdateClient" /\ c.to # c.email /\ WithEmail(rows, c.to) # {}
=============================================================================
