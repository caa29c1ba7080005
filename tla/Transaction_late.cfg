SPECIFICATION Spec
CONSTANTS
  Txns = {t1, t2}
  NoTxn = NoTxn
  MaxWrites = 2
  Nums <- MCNums
  Writes <- MCWrites
  Habits = {"abort", "late"}
SYMMETRY Symmetry
CHECK_DEADLOCK FALSE
INVARIANTS AbortedWritesNothing
