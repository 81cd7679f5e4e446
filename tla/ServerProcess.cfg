CONSTANTS
  Conn = {c1, c2}
  Main = Main
  NoThread = NoThread
  Faults = {"getaddrinfo", "socket", "bind", "listen", "fork", "timer_create", "timer_settime"}
CHECK_DEADLOCK FALSE
SPECIFICATION FairSpec
INVARIANTS
  TypeOK
  NobodyCutOff
  ReleasedOnce
PROPERTIES
  RecordsWhole
  
  
