CONSTANTS
  None = None
  Atoi <- SomeAtoi
  NoLabel = NoLabel
  Entries <- SomeEntries
  Settings <- SomeSettings
  Snapshots <- SomeSnapshots
  Contents <- SomeContents
  Selections <- SomeSelections
  TrimKeyPrefixes <- TrimP
  SecretType = "default"
  Target = Target
  Clients <- TwoClients
  PageSize = 2
  Budget <- LoaderBudget
SPECIFICATION Spec
INVARIANTS SecretsComplete DocumentsFaithful
PROPERTIES CheckSound NoChangeOverlooked LoadConverges
