CONSTANTS
  None = None
  e1 = e1
  e2 = e2
  target = target
  other = other
  tls = tls
  Endpoints = {e1}
  Names = {}
  Specs <- RefreshSpecs
  RefSets <- NoRefs
  Budget <- RefreshBudget
SPECIFICATION FairSpec
INVARIANTS TagsSound
PROPERTIES Converges TouchArrives
