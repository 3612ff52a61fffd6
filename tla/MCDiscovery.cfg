CONSTANTS
  c1 = c1
  c2 = c2
  p1 = p1
  h1 = h1
  h2 = h2
  h3 = h3
  Callers = {c1, c2}
  Processes = {p1}
  Home <- MCHome
  Hosts = {h1, h2, h3}
  Entries <- MCEntries
  Placements <- MCPlacements
  MaxCommands <- MCCommands
  Neighborhoods <- MCNeighborhoods
SPECIFICATION Spec
INVARIANT TypeOK
INVARIANT OneScanAtATime
PROPERTY EndpointWasVerified
PROPERTY WaitersReturn
CHECK_DEADLOCK FALSE
