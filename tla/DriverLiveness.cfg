CONSTANTS
  AESDCHAR_MAX_WRITE_OPERATIONS_SUPPORTED = 2
  NULL = NULL
  FREED = FREED
  NoProc = NoProc
  Proc = {p1, p2}
  Byte <- MCByte
  NewLine <- NL
  Junk = "junk"
  Inputs <- LineEnds
  Counts = {1}
  SeekArgs <- EndOnly
  SeekTos <- SecondOnly
  Faults = {"signal"}
  MaxIncomplete = 1
SPECIFICATION FairSpec
PROPERTY EveryCallReturns
