SPECIFICATION Spec
CONSTANTS
  SegSizes = {0, 1, 3}
  DatagramSizes = {0, 2}
  ReadSizes = {0, 1, 4}
  BufSizes = {1, 8}
  DefaultBuf = 8
  MinBuf = 2
  MaxSegments = 4
  MaxDatagrams = 2
INVARIANT TypeOK
INVARIANT AccountingExact
INVARIANT WindowTight
INVARIANT NothingLost
INVARIANT DatagramsInOrder
PROPERTY OneRecordPerRead
CHECK_DEADLOCK FALSE
