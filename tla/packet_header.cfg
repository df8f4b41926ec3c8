\* Setters, parser and replies in any order, while the u32 clock turns over.
SPECIFICATION Spec
CONSTANTS
  Nibble = 6
  Micros = 10
  U16Values = {1, 777}
  U32Values = {27, 1000000}
  Times = {3, 1679615, 1679616, 1700000}
INVARIANTS
  FieldsReadBack
CHECK_DEADLOCK FALSE
