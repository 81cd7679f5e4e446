CONSTANTS
  Proc = {p1, p2, p3}
  First = p1
  NoProc = NoProc
  Faults = {"open", "fork", "dup2", "execv", "waitpid"}
  MaxOpen = 2
SPECIFICATION FairSpec
INVARIANTS
  ChildrenReaped
PROPERTIES
  TrueUnlessMisread
  
  ReturnsUnlessCopied
