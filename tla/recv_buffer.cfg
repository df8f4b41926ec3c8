\* Short, full and oversized datagrams, one after the other.
SPECIFICATION Spec
CONSTANTS
  HeaderSize = 2
  BUF_SIZE = 3
  Lengths = {1, 2, 3, 4, 5, 7}
  ReadSizes = {4, 6}
  MaxReceived = 4
  MaxQueued = 2
INVARIANTS
  HeaderIsItsOwn
  BytesAreTheNewest
CHECK_DEADLOCK FALSE
