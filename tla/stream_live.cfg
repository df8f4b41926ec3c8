\* Reads and writes while packets arrive, through a channel of one place.
SPECIFICATION FairSpec
CONSTANTS
  Receiver = receiver
  App = app
  Free = free
  Senders = {s1}
  Capacity = 1
  Workers = 3
  AppCalls = {"read", "write"}
  Failures = FALSE
  Spurious = TRUE
  MaxPackets = 2
  MaxBurst = 2
  MaxWrites = 3
  MaxCuts = 1
PROPERTIES
  WritesReturn
  ImplementsPipe
CHECK_DEADLOCK FALSE
