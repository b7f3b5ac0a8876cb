CONSTANTS
  ingester = ingester
  generator = generator
  gateway = gateway
  i0 = i0
  m0 = m0
  g0 = g0
  badSecret = badSecret
  apiError = apiError
  Pods = {i0, m0}
  Components = {ingester, generator}
  Component <- MCComponent
  Generator = generator
  Counted = {ingester, generator}
  ListOrder <- MCListOrder
  ConfigErrors = {badSecret}
  OtherErrors = {apiError}
  NoObj = NoObj
  RVs = 4
  MaxChanges = 2
  MaxFaults = 2
CHECK_DEADLOCK FALSE
SPECIFICATION Spec
INVARIANTS TypeOK OneCondition MapsAgree
