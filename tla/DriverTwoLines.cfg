CONSTANTS
  AESDCHAR_MAX_WRITE_OPERATIONS_SUPPORTED = 2
  NULL = NULL
  FREED = FREED
  NoProc = NoProc
  Proc = {p1}
  Byte <- MCByte
  NewLine <- NL
  Junk = "junk"
  Inputs <- TwoLines
  Counts = {1}
  SeekArgs = {}
  SeekTos = {}
  Faults = {}
  MaxIncomplete = 1
SPECIFICATION Spec
INVARIANT CommandsAreLines
