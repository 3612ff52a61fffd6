CONSTANTS
  r1 = r1
  r2 = r2
  p1 = p1
  Requests <- MCRequests
  Paths = {p1}
  Calls <- MCOverwrites
  Settings <- AllOn
  Flippable = {}
  MaxRuns = 2
  RegistryFaults = FALSE
SPECIFICATION Spec
PROPERTY NoLostUpdate
CHECK_DEADLOCK FALSE
