SPECIFICATION Spec
CONSTANTS
  Managers = {m1, m2, m3}
  Emails = {a, b, c}
  Names = {n}
  Phones = {p, q}
  a = a
  b = b
  c = c
  n = n
  p = p
  q = q
  Ids <- MaxIds
  Calls <- RowCalls
  NoCall = NoCall
  Done = Done
  Start <- StartABC
  FirstId = 4
  MaxCalls = 1
  Losses = {m1, m2, m3}
SYMMETRY Symmetry
CHECK_DEADLOCK FALSE
INVARIANTS UniqueEmail OnlyRenamesDeadlock PromiseInv
PROPERTIES KeepsPromise
