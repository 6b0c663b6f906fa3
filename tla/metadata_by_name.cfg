SPECIFICATION Spec
CONSTANTS
  Names = {"n1"}
  Ids = {"first", "second", "other"}
  Slug <- MCSlug
  Foreign = {"other"}
  None = None
  MaxAddress = 1
  MaxChanges = 4
  MaxFaults = 0
INVARIANT AddressesOfOwnMachine
CHECK_DEADLOCK FALSE
