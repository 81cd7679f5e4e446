CONSTANTS
  AESDCHAR_MAX_WRITE_OPERATIONS_SUPPORTED = 2
  NULL = NULL
  FREED = FREED
  NoProc = NoProc
  Proc = {p1, p2}
  Byte <- MCByte
  NewLine <- NL
  Junk = "junk"
  Inputs <- Lines
  Counts = {0, 2}
  SeekArgs <- MCSeekArgs
  SeekTos <- MCSeekTos
  Faults = {"signal", "copy_to_user"}
  MaxIncomplete = 1
SYMMETRY MCSymmetry
SPECIFICATION Spec
INVARIANT FposWithinContents
PROPERTIES
  ImplementsLineDevice
  
