CONSTANTS
  None = None
  Atoi <- SomeAtoi
  NoLabel = NoLabel
  Entries <- SomeEntries
  Settings <- SomeSettings
  Snapshots <- SomeSnapshots
  Contents <- SomeContents
  Selections <- SomeSelections
  TrimKeyPrefixes <- TrimP
  SecretType = "json"
  Target = Target
  Clients <- TwoClients
  PageSize = 2
  Budget <- LoaderBudget
SPECIFICATION Spec
INVARIANTS SecretsComplete
