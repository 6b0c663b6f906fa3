SPECIFICATION FairSpec
CONSTANTS
  Slices = {s1}
  Contents <- MCContents
  Worlds <- MCNodes
  None = None
  MaxChanges = 1
  MaxFaults = 1
INVARIANTS TypeOK LocalIsTracked
PROPERTY EventuallyFiltered
CHECK_DEADLOCK FALSE
