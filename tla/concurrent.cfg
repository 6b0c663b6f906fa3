SPECIFICATION Spec
CONSTANTS
  Controller = ctl
  Updaters = {resync}
  Specs <- MCTwoSpecs
  NodeSets <- MCOneNode
  UserGroups = {"g1"}
  Ids <- MCIds
  None = None
  MaxChanges = 1
  MaxFaults = 0
INVARIANTS LifecycleInv ReconcileEstablishesSpec
CHECK_DEADLOCK FALSE
