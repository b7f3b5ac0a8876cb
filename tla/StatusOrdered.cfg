CONSTANTS
  ingester = ingester
  generator = generator
  gateway = gateway
  i0 = i0
  m0 = m0
  g0 = g0
  badSecret = badSecret
  apiError = apiError
  Pods = {i0}
  Components = {ingester}
  Component <- MCComponent
  Generator = generator
  Counted = {ingester}
  ListOrder <- MCListOrder
  ConfigErrors = {badSecret}
  OtherErrors = {apiError}
  NoObj = NoObj
  RVs = 3
  MaxChanges = 3
  MaxFaults = 1
CHECK_DEADLOCK FALSE
SPECIFICATION OrderedSpec
PROPERTY ReadyIsTrue
