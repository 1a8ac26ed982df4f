CONSTANTS
  None = None
  e1 = e1
  e2 = e2
  target = target
  other = other
  tls = tls
  Endpoints = {e1}
  Names = {}
  Specs <- PlainSpecs
  RefSets <- NoRefs
  Budget <- PanicBudget
SPECIFICATION Spec
INVARIANTS RunningMeansBusy
CHECK_DEADLOCK FALSE
