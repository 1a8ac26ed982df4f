CONSTANTS
  None = None
  e1 = e1
  e2 = e2
  target = target
  other = other
  tls = tls
  Endpoints = {e1}
  Names = {}
  Specs <- SentinelSpecs
  RefSets <- NoRefs
  Budget <- SentinelBudget
SPECIFICATION FairSpec
PROPERTIES PublishedArrives
