SPECIFICATION Spec
CONSTANTS
  Managements = {""}
  Validity = 2
  Refresh = 1
  CheckExpiryAfter = 1
  Faulty = {"finalize", "objects", "status"}
  FreshLists = TRUE
  InOrder = TRUE
  NoObj = NoObj
  MaxTime = 3
  MaxDisturbances = 0
CHECK_DEADLOCK FALSE
INVARIANT ServesValid
