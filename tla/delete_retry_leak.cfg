SPECIFICATION Spec
CONSTANTS
  Controller = ctl
  Updaters = {}
  Specs <- MCTwoSpecs
  NodeSets <- MCOneNode
  UserGroups = {"g1"}
  Ids <- MCIds
  None = None
  MaxChanges = 1
  MaxFaults = 1
INVARIANT GoneLeavesNoTargetGroup
CHECK_DEADLOCK FALSE
