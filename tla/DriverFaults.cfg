CONSTANTS
  AESDCHAR_MAX_WRITE_OPERATIONS_SUPPORTED = 2
  NULL = NULL
  FREED = FREED
  NoProc = NoProc
  Proc = {p1, p2}
  Byte <- MCByte
  NewLine <- NL
  Junk = "junk"
  Inputs <- SeveralLines
  Counts = {}
  SeekArgs = {}
  SeekTos <- SecondOnly
  Faults = {"signal", "kmalloc", "copy_from_user", "cdev_add"}
  MaxIncomplete = 1
SYMMETRY MCSymmetry
SPECIFICATION Spec
INVARIANTS
  TypeOK
  RingInv
  MutexDiscipline
  
  SizeMatches
