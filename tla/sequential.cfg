SPECIFICATION Spec
CONSTANTS
  Controller = ctl
  Updaters = {}
  Specs <- MCSpecs
  NodeSets <- MCNodeSets
  UserGroups = {"g1"}
  Ids <- MCIds
  None = None
  MaxChanges = 2
  MaxFaults = 2
INVARIANTS TypeOK AtMostOneLoadBalancer NoDanglingListener OneListenerPerPort SecurityGroupsAttached NeverOrphaned
INVARIANTS SettledIsReleased SettledIsRealised
PROPERTIES ServedStaysServed StatusCleared ImplementsContract
CHECK_DEADLOCK FALSE
