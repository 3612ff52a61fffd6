CONSTANTS
  r1 = r1
  r2 = r2
  p1 = p1
  Requests <- MCRequests
  Paths = {p1}
  Calls <- MCCalls
  Settings <- AllOn
  Flippable = {}
  MaxRuns = 2
  RegistryFaults = FALSE
SPECIFICATION Spec
INVARIANT AcknowledgedContentStays
SYMMETRY Symmetry
CHECK_DEADLOCK FALSE
