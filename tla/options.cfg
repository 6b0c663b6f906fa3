SPECIFICATION Spec
CONSTANTS
  Cidrs = {"a", "b", "c", "d", "e"}
  Capacity <- MCCapacity
  Word = 16
  DefaultIdleConnectionTimeout = 6
  Requests <- MCRequests
  Vpcs <- MCVpcs
  Configs <- MCConfigs
  Groups = {"g1", "g2"}
  None = None
  MaxChanges = 1
  MaxRestarts = 1
INVARIANTS TypeOK SettledAsRequested SourcesAsConfigured LimitsAsRequested
PROPERTY NoNeedlessUpdate
CHECK_DEADLOCK FALSE
