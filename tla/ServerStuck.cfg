CONSTANTS
  AESDCHAR_MAX_WRITE_OPERATIONS_SUPPORTED = 2
  NULL = NULL
  NoThread = NoThread
  Conn = {c1, c2}
  NewLine <- NL
  Seeks <- SomeSeeks
  Chunks <- PacketsAndSeeks
  Faults = {}
  MaxPacket = 4
  MaxRemnant = 0
CHECK_DEADLOCK FALSE
SPECIFICATION FairSpec
PROPERTY EveryPacketAnswered
