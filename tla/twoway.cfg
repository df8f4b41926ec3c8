\* Both endpoints may connect, and write until their u16 numbers run out; debug build.
SPECIFICATION Spec
CONSTANTS
  Client = client
  Server = server
  U16 = 5
  SackWord = 3
  SackLenMod = 2
  OverflowChecks = TRUE
  Connectors = {client, server}
  Writers = {client, server}
  WriteStates = {"Connected"}
  WriteSizes = {1, 2}
  MaxChunks = 2
  FinSenders = {}
  IoErrors = {}
  Duplication = FALSE
  Loss = TRUE
INVARIANTS
  DeliverOnce
  SeqIdentifiesChunk
PROPERTIES
  ImplementsSkippingStream
CHECK_DEADLOCK FALSE
