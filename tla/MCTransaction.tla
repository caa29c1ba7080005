---------------------------- MODULE MCTransaction ----------------------------
(* Transaction with a few objects: t1 is used up and followed by t2 (and t3), *)
(* which is enough for anything t1 leaves behind in the session to be met.    *)
EXTENDS Transaction, TLC

CONSTANT MaxWrites    \* bound: writes each object may send
MCNums == 1..MaxWrites
MCWrites == Txns \X MCNums
Symmetry == Permutations(Txns)
=============================================================================
