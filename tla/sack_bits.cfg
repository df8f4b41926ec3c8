\* Every set of stored numbers, length bytes that wrap, both build profiles.
SPECIFICATION Spec
CONSTANTS
  U8BITS = 2
  WordBytes = 2
  LenMod = 4
  Room = 2
  U16 = 10
INVARIANTS
  BitsNameTheStored
  AcksAreTheStored
  LostAreTheMissing
  PanicsAtTheEndOnly
PROPERTIES
  ImplementsExchange
CHECK_DEADLOCK FALSE
