SPECIFICATION FairSpec
CONSTANTS
  Controller = ctl
  Updaters = {}
  Specs <- MCTwoSpecs
  NodeSets <- MCOneNode
  UserGroups = {"g1"}
  Ids <- MCIds
  None = None
  MaxChanges = 0
  MaxFaults = 1
PROPERTY EventuallyPublished
CHECK_DEADLOCK FALSE
