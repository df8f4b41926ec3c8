\* The receive task ends while the application reads.
SPECIFICATION FairSpec
CONSTANTS
  Receiver = receiver
  App = app
  Free = free
  Senders = {}
  Capacity = 1
  Workers = 2
  AppCalls = {"read"}
  Failures = TRUE
  Spurious = FALSE
  MaxPackets = 2
  MaxBurst = 1
  MaxWrites = 0
  MaxCuts = 0
PROPERTIES
  ReaderLearnsOfTheEnd
CHECK_DEADLOCK FALSE
