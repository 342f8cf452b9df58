CONSTANTS
  Connections <- MCConnections
  Trailers <- MCTrailers
  MinPayload = 2
  MaxPayload = 30
  U16 = 29
  MAX_BUF_LEN = 60
  MaxArrivals = 4
  MaxDuplicates = 1
SPECIFICATION Spec
INVARIANTS TypeOK OrderlyIsAssembled NoBodyTwice
PROPERTIES OwnBytesOnly FaultNeedsCutDelimiter
CHECK_DEADLOCK FALSE
