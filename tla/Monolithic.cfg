SPECIFICATION Spec
CONSTANTS
  Managements = {"Managed", "Unmanaged"}
  Validity = 2
  Refresh = 1
  CheckExpiryAfter = 1
  Faulty = {"finalize", "update", "objects", "prune", "status"}
  FreshLists = TRUE
  InOrder = TRUE
  NoObj = NoObj
  MaxTime = 3
  MaxDisturbances = 2
INVARIANTS TypeOK ServesStated
PROPERTIES Lifecycle ConditionsSettle
CHECK_DEADLOCK FALSE
