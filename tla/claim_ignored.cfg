\* The endpoint that accepted the connection writes; nothing is lost.
SPECIFICATION Spec
CONSTANTS
  Client = client
  Server = server
  U16 = 8
  SackWord = 4
  SackLenMod = 2
  OverflowChecks = FALSE
  Connectors = {client}
  Writers = {server}
  WriteStates = {"Connected"}
  WriteSizes = {1}
  MaxChunks = 1
  FinSenders = {}
  IoErrors = {}
  Duplication = FALSE
  Loss = FALSE
PROPERTIES
  IgnoredDataWasAcknowledged
CHECK_DEADLOCK FALSE
