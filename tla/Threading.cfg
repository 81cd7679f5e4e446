CONSTANTS
  Thread = {t1, t2}
  NoThread = NoThread
  Faults = {"malloc", "create", "lock", "unlock"}
  Waits <- MCWaits
  PerMs = 2
  MaxSleep = 4
SPECIFICATION FairSpec
INVARIANTS
  DataOwned
  HeldByOne
PROPERTIES
  SleepsEnough
  CallsEnd
