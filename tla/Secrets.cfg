CONSTANTS
  None = None
  e1 = e1
  e2 = e2
  target = target
  other = other
  tls = tls
  Endpoints = {e1}
  Names = {target, tls}
  Specs <- SecretSpecs
  RefSets <- TlsRefs
  Budget <- SecretBudget
SPECIFICATION FairSpec
INVARIANTS NoMixedSecret
PROPERTIES Converges
