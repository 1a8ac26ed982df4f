CONSTANTS
  None = None
  e1 = e1
  e2 = e2
  target = target
  other = other
  tls = tls
  Endpoints = {e1, e2}
  Names = {target, other}
  Specs <- MovingSpecs
  RefSets <- NoRefs
  Budget <- MovingBudget
SPECIFICATION FairSpec
INVARIANTS FetchesFromSpecEndpoint MetadataTracked
PROPERTIES Converges ForgottenIsGone
CHECK_DEADLOCK FALSE
