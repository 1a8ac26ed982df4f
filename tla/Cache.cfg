CONSTANTS
  None = None
  c1 = c1
  c2 = c2
  Contents = {c1, c2}
  Initial = c1
  Edited = Edited
  Refresh = {TRUE, FALSE}
  Typed = {TRUE, FALSE}
  Budget <- CacheBudget
SPECIFICATION Spec
INVARIANTS NothingEditedAtRest
PROPERTIES CacheConverges
CHECK_DEADLOCK FALSE
