CONSTANTS
  None = None
  e1 = e1
  e2 = e2
  target = target
  other = other
  tls = tls
  Endpoints = {e1}
  Names = {target, tls}
  Specs <- MixedSpecs
  RefSets <- TlsRefs
  Budget <- OwnershipBudget
SPECIFICATION Spec
PROPERTIES OwnershipRespected
CHECK_DEADLOCK FALSE
