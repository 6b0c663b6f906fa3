SPECIFICATION FairSpec
CONSTANTS
  Controller = ctl
  Updaters = {}
  Specs <- MCSpecs
  NodeSets <- MCOneNode
  UserGroups = {"g1"}
  Ids <- MCIds
  None = None
  MaxChanges = 3
  MaxFaults = 0
INVARIANTS GoneLeavesNothing SettledIsServed
PROPERTIES QueueDrains DeletionCompletes EventuallyRealised
CHECK_DEADLOCK FALSE
