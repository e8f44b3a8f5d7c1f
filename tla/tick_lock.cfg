CONSTANTS
  p1 = p1
  p2 = p2
  NoPid = NoPid
  Blank = Blank
  Free = Free
  Floor = Floor
  Pids = {p1, p2}
  MaxHold = 2
SPECIFICATION FairSpec
INVARIANTS
  PidfileTruth
  OwnGuardLasts
  HolderVisible
PROPERTIES
  NeverWedged
  AcquireReturns
  AcquireTellsTruth
  ImplementsContract
