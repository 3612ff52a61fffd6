CONSTANTS
  p1 = p1
  p2 = p2
  Requests = {r1}
  Paths = {p1, p2}
  Calls <- MCCalls
  Settings <- AnySetting
  Flippable = {"gateway", "writes"}
  MaxRuns = 3
  RegistryFaults = TRUE
SPECIFICATION Spec
INVARIANT TypeOK
INVARIANT AttemptBeforeExecution
INVARIANT PermittedSinceSubmission
INVARIANT RetriedOnce
PROPERTY KeepsPromise
PROPERTY EveryCallIsAnswered
CHECK_DEADLOCK FALSE
