SPECIFICATION FairSpec
CONSTANTS
  Managers = {m1, m2}
  Emails = {a, b, c}
  Names = {n}
  Phones = {p, q}
  a = a
  b = b
  c = c
  n = n
  p = p
  q = q
  Ids <- MaxIds
  Calls <- AllCalls
  NoCall = NoCall
  Done = Done
  Start <- StartA
  FirstId = 4
  MaxCalls = 2
  Losses = {m1}
CHECK_DEADLOCK FALSE
INVARIANTS TypeOK TableAfterCreate
PROPERTIES KeepsPromise EveryCallEnds
