CONSTANTS
  ingester = ingester
  generator = generator
  gateway = gateway
  i0 = i0
  m0 = m0
  g0 = g0
  badSecret = badSecret
  apiError = apiError
  Pods = {i0, g0}
  Components = {ingester, gateway}
  Component <- MCComponent
  Generator = generator
  Counted = {ingester}
  ListOrder <- MCListOrder
  ConfigErrors = {badSecret}
  OtherErrors = {apiError}
  NoObj = NoObj
  RVs = 4
  MaxChanges = 3
  MaxFaults = 0
CHECK_DEADLOCK FALSE
SPECIFICATION Spec
INVARIANT AllComponentsReady
