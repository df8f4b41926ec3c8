\* Datagrams of up to six bytes, then one selective ack or more behind them.
SPECIFICATION Spec
CONSTANTS
  HeaderSize = 2
  Word = 2
  Nibble = 2
  LastType = 0
  Bytes = {0, 1, 2, 3}
  SackLengths = {2}
  SackBytes = {1}
  MaxDatagram = 6
  MaxLen = 11
INVARIANTS
  TypeOK
  ReadersStayInside
  StaysAccepted
  EveryWalkAgrees
  GetSackFindsTheFirst
CHECK_DEADLOCK FALSE
