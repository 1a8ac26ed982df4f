CONSTANTS
  None = None
  e1 = e1
  e2 = e2
  target = target
  other = other
  tls = tls
  Endpoints = {e1}
  Names = {target}
  Specs <- StaticSpecs
  RefSets <- NoRefs
  Budget <- StaleSecretBudget
SPECIFICATION Spec
INVARIANTS CompleteMeansSynced
CHECK_DEADLOCK FALSE
