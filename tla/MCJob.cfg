CONSTANTS
  Starts = {s1, s2}
  Looks = {q1}
  Cleanups = {c1}
  CleanUpAfter = {"FINISHED", "FAILED"}
  Nobody = Nobody
SPECIFICATION Spec
INVARIANT TypeOK
INVARIANT WorkerKeepsItsDirectory
INVARIANT AnswerIsTheExitCode
INVARIANT InterruptedIsFinal
PROPERTY LookingNeverWaits
CHECK_DEADLOCK FALSE
