\* Delayed, duplicated and reordered datagrams, a Fin, failing receive loops.
SPECIFICATION Spec
CONSTANTS
  Client = client
  Server = server
  U16 = 6
  SackWord = 2
  SackLenMod = 2
  OverflowChecks = FALSE
  Connectors = {client}
  Writers = {client}
  WriteStates = {"Connected"}
  WriteSizes = {1, 2}
  MaxChunks = 3
  FinSenders = {client}
  IoErrors = {server}
  Duplication = TRUE
  Loss = FALSE
INVARIANTS
  TypeOK
  DeliveredInOrder
  NothingLost
  AckTruthful
  StoredBeyondGap
  OneWayInv
PROPERTIES
  ImplementsStream
  IgnoredDataIsHeld
  AbortIsFinal
CHECK_DEADLOCK FALSE
