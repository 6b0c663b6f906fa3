SPECIFICATION FairSpec
CONSTANTS
  Slices = {s1}
  Contents <- MCMoving
  Worlds <- MCAllReady
  None = None
  MaxChanges = 2
  MaxFaults = 0
PROPERTY EventuallyAllNodes
CHECK_DEADLOCK FALSE
