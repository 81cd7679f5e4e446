CONSTANTS
  AESDCHAR_MAX_WRITE_OPERATIONS_SUPPORTED = 10
  NULL = NULL
  Entries <- MCEntries
SPECIFICATION Spec
INVARIANTS
  RingInv
  FindFollowsConcatenation
PROPERTY ImplementsCommandLog
