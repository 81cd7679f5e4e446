CONSTANTS
  NULL = NULL
  NoThread = NoThread
  Conn = {c1, c2, c3}
  Faults = {"malloc", "pthread_create"}
SPECIFICATION FairSpec
INVARIANTS
  
  JoinWaitsForNoClient
  
PROPERTIES
  AcceptsAgain
  MarkedAreReaped
  MarksIfListed
