SPECIFICATION FairSpec
CONSTANTS
  Names = {"n1"}
  Ids = {"first", "second", "other"}
  Slug <- MCSlug
  Foreign = {"other"}
  None = None
  MaxAddress = 2
  MaxChanges = 4
  MaxFaults = 1
INVARIANTS TypeOK ProviderIDIsOwnMachine
PROPERTIES LiveMachineKept GoneNodeRemoved ShutdownTainted EventuallyInitialised AddressesFollow
CHECK_DEADLOCK FALSE
