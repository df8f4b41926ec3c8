\* Reads, writes, drops, a second writing task, failures, a channel of one place.
SPECIFICATION Spec
CONSTANTS
  Receiver = receiver
  App = app
  Free = free
  Senders = {s1}
  Capacity = 1
  Workers = 2
  AppCalls = {"read", "write", "drop"}
  Failures = TRUE
  Spurious = TRUE
  MaxPackets = 3
  MaxBurst = 2
  MaxWrites = 2
  MaxCuts = 2
INVARIANTS
  TypeOK
  NothingSkipped
  LockOrder
  CircleNeedsTheReader
  CopiesComeFromCutPolls
PROPERTIES
  ClosedWritesFail
CHECK_DEADLOCK FALSE
