SPECIFICATION Spec
CONSTANTS
  console = console
  b1 = b1
  i1 = i1
  w1 = w1
  w2 = w2
  h1 = h1
  h2 = h2
  none = none
  noRow = noRow
  Bridges = {b1}
  Importers = {i1}
  Console = console
  Workers = {w1, w2}
  NTables = 2
  NTargets = 2
  Hosts = {h1, h2}
  FileHost = h1
  NLimits = 2
  Limits = {30, 60}
  DefaultLimit = 30
  Switches = {"writes"}
  NoRow = noRow
  None = none
  MaxRequests = 2
  MaxFaults = 1
INVARIANTS StartedOnWholeSchema ImportedWhole AdminHasTheLastWord PanicHolds OneFormAtATime
PROPERTY ConsoleServes
