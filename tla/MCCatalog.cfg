SPECIFICATION Spec
CONSTANTS
  r1 = r1
  r2 = r2
  none = none
  Requests = {r1, r2}
  NTools = 2
  None = none
  MaxChanges = 2
INVARIANTS CatalogIsOneAnswer
PROPERTIES ListedWasGranted EveryRequestAnswered
