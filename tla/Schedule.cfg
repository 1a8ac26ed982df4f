CONSTANTS
  None = None
  NotDuration = NotDuration
  Second = 1
  Minute = 3
  RetryAfter = 2
  MaxDuration = 1
  Specs <- ScheduleSpecs
  Variants <- AllVariants
  Environment <- Environments
  Oldest = 16
  Budget <- ScheduleBudget
SPECIFICATION Spec
INVARIANTS AcceptedNeverPanics OneLabelPerFilter Fresh
PROPERTIES VaultSpared
