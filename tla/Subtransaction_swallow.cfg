SPECIFICATION SubSpec
CHECK_DEADLOCK FALSE
CONSTANTS
  MaxSubs = 3
  MaxWrites = 1
  SubHabits = {"swallow"}
INVARIANT ParentFine
