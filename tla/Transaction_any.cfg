SPECIFICATION Spec
CONSTANTS
  Txns = {t1, t2}
  NoTxn = NoTxn
  MaxWrites = 2
  Nums <- MCNums
  Writes <- MCWrites
  Habits = {"abort", "late", "ignore"}
SYMMETRY Symmetry
CHECK_DEADLOCK FALSE
INVARIANTS IInv OneActive AllOrNothing AbortedLeavesNothing
PROPERTIES OutcomeIsFinal InDoubtOnlyIfSent
