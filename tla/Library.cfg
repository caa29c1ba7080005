SPECIFICATION LibrarySpec
CHECK_DEADLOCK FALSE
CONSTANTS
  Parts = {"cursor", "stream", "pipeline", "outcomes", "subtransaction", "blob", "focus", "session"}
  MaxRows = 3
  Strides <- MCStrides
  Habits = {}
  OutcomeHabits = {}
  SessionHabits = {}
  SubHabits = {}
  BlobHabits = {}
  Codes <- MCCodes
  Nobody = Null
  NoOne = Null
  Its = {i1, i2, i3}
  Null = Null
  MaxStride = 2
  MaxAsk = 5
  MaxQ = 3
  Retains = {2}
  PipeHabits = {}
  MaxAttempts = 3
  MaxAnswers = 3
  MaxSubs = 3
  MaxWrites = 1
  Blobs = {b1, b2}
  Ids = {1, 2}
  MaxFd = 1
  MaxLen = 2
  ChunkLimit = 1
  Streams = {f1, f2, f3, f4}
  Transactions = {t1, t2}
  Conns = {c1, c2}
  Sessions = {s1, s2}
  Handlers = {h1}
  Receivers = {r1, r2}
  Channels = {x, y}
INVARIANTS LibraryTypeOK CursorKnowsItsPlace RetrievesAsked IteratorsServed ResultsMatch QueriesDone PerformTellsTruth SubtransactionsKept BlobsSound FocusSound SessionHeld ReceiversAreListening
PROPERTIES NothingBeyondError PerformEnds
