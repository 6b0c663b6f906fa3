SPECIFICATION Spec
CONSTANTS
  Controller = ctl
  Updaters = {}
  Specs <- MCSamePort
  NodeSets <- MCOneNode
  UserGroups = {"g1"}
  Ids <- MCIds
  None = None
  MaxChanges = 1
  MaxFaults = 0
INVARIANT PortsExposed
CHECK_DEADLOCK FALSE
