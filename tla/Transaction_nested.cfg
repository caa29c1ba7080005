SPECIFICATION Spec
CONSTANTS
  Txns = {t1, t2, t3}
  NoTxn = NoTxn
  MaxWrites = 1
  Nums <- MCNums
  Writes <- MCWrites
  Habits = {"abort", "nested"}
SYMMETRY Symmetry
CHECK_DEADLOCK FALSE
INVARIANTS AbortedLeavesNothing
