\* The client writes before its handshake is over; nothing is lost.
SPECIFICATION Spec
CONSTANTS
  Client = client
  Server = server
  U16 = 8
  SackWord = 4
  SackLenMod = 2
  OverflowChecks = FALSE
  Connectors = {client}
  Writers = {client}
  WriteStates = {"SynSent"}
  WriteSizes = {1}
  MaxChunks = 1
  FinSenders = {}
  IoErrors = {}
  Duplication = FALSE
  Loss = FALSE
PROPERTIES
  OnlyTheSynIsAcked
CHECK_DEADLOCK FALSE
