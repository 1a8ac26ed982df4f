CONSTANTS
  None = None
  p = p
  r1 = r1
  r2 = r2
  Primary = p
  Replicas = {r1, r2}
  Discovery = TRUE
  LoadBalancing = TRUE
  MinBackoff = 2
  MaxBackoff = 8
  RefreshInterval = 2
  Expiry = 6
  MaxFails = 3
  MaxFailures = 4
SPECIFICATION FairSpec
INVARIANTS TypeOK BackoffHonoured
PROPERTIES LookupsSpaced LoadSpread ImplementsPolicy Recovers
