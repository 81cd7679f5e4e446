CONSTANTS
  AESDCHAR_MAX_WRITE_OPERATIONS_SUPPORTED = 2
  NULL = NULL
  NoThread = NoThread
  Conn = {c1, c2}
  NewLine <- NL
  Seeks <- NoSeeks
  Chunks <- MCChunks
  Faults = {"kill"}
  MaxPacket = 3
  MaxRemnant = 1
SPECIFICATION Spec
INVARIANT TypeOK
PROPERTIES
  ImplementsPacketLog
  
