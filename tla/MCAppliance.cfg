CONSTANTS
  c1 = c1
  c2 = c2
  admin = admin
  tunnel = tunnel
  check = check
  Commits <- MCCommits
  Installed <- MCInstalled
  Deployed <- MCDeployed
  Adapter <- MCAdapter
  Brings <- MCBrings
  None = None
  Unsaved = Unsaved
  MaxRuns = 3
  MaxDeploys = 2
  MaxChanges = 4
  MaxFaults = 2
SPECIFICATION Spec
INVARIANT TypeOK
INVARIANT RuntimeKept
INVARIANT WholeSetRestored
INVARIANT SuccessLeavesWayBack
INVARIANT ProvenanceIsTrue
INVARIANT RollbackRestores
INVARIANT FailureKeepsWhatWas
CHECK_DEADLOCK FALSE
