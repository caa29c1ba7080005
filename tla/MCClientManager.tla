--------------------------- MODULE MCClientManager ---------------------------
(* Small programs on class Manager: which calls they make is the constant     *)
(* Calls, chosen per run so that the calls of that run meet each other.       *)
EXTENDS ClientManager, FiniteSets, TLC

CONSTANTS a, b, c, n, p, q

Left(e, id) == [id |-> id, email |-> e, first |-> n, last |-> n, phones |-> <<p>>]
StartA == {Left(a, 1)}
StartABC == {Left(a, 1), Left(b, 2), Left(c, 3)}
MaxIds == 1..(FirstId + MaxCalls * Cardinality(Managers))

AddCall(e) == [op |-> "AddClient", email |-> e, first |-> n, last |-> n, phones |-> <<p>>]
DeleteCall(e) == [op |-> "DeleteClient", email |-> e]
Rename(e, t) == [op |-> "UpdateClient", email |-> e, to |-> t, first |-> n, last |-> n]
FindCall(x) == [op |-> "FindClients", query |-> x]

AllCalls == {[op |-> "CreateTable"], AddCall(a), AddCall(b), DeleteCall(a),
             Rename(a, b), Rename(b, a), FindCall(n),
             [op |-> "AddPhone", email |-> a, phone |-> q],
             [op |-> "DeletePhone", email |-> a, phone |-> p]}
RowCalls == {Rename(a, b), Rename(b, c), Rename(c, a), AddCall(b), DeleteCall(a),
             [op |-> "AddPhone", email |-> a, phone |-> q],
             [op |-> "DeletePhone", email |-> b, phone |-> p]}
Symmetry == Permutations(Managers)
=============================================================================
