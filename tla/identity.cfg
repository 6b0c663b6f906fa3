SPECIFICATION Spec
CONSTANTS
  Services = {"uid1", "uid2"}
  Clusters = {"c1", "c2"}
  Home <- MCHome
  Key <- MCKey
  Configs <- MCConfigs
  MaxObjects = 7
  None = None
  MaxRestarts <- MCMaxRestarts
INVARIANTS TypeOK OneLoadBalancerPerService BackedByOwnObjects SettledUnderPresentLabels GoneLeavesNoTargetGroups
PROPERTY OnlyOwnObjects
CHECK_DEADLOCK FALSE
