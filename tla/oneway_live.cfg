\* Fair lossy network, the application keeps calling send_packets.
SPECIFICATION LiveSpec
CONSTANTS
  Client = client
  Server = server
  U16 = 6
  SackWord = 3
  SackLenMod = 2
  OverflowChecks = FALSE
  Connectors = {client}
  Writers = {client}
  WriteStates = {"Connected"}
  WriteSizes = {0, 1, 2}
  MaxChunks = 3
  FinSenders = {}
  IoErrors = {}
  Duplication = FALSE
  Loss = TRUE
INVARIANTS
  ReceiveLoopsSurvive
PROPERTIES
  EveryChunkArrives
CHECK_DEADLOCK FALSE
