CONSTANTS
  ingester = ingester
  generator = generator
  gateway = gateway
  i0 = i0
  m0 = m0
  g0 = g0
  badSecret = badSecret
  apiError = apiError
  Pods = {i0}
  Components = {ingester}
  Component <- MCComponent
  Generator = generator
  Counted = {ingester}
  ListOrder <- MCListOrder
  ConfigErrors = {badSecret}
  OtherErrors = {apiError}
  NoObj = NoObj
  RVs = 4
  MaxChanges = 1
  MaxFaults = 1
CHECK_DEADLOCK FALSE
SPECIFICATION FairSpec
PROPERTY HasCondition
