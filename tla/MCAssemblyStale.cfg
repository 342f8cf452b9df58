CONSTANTS
  Connections <- MCConnections
  Trailers <- MCTrailers
  MinPayload = 2
  MaxPayload = 30
  U16 = 29
  MAX_BUF_LEN = 60
  MaxArrivals = 4
  MaxDuplicates = 1
SPECIFICATION Spec
INVARIANT FinalBodyIsSent
CHECK_DEADLOCK FALSE
