CONSTANTS
  Starts = {s1, s2}
  Looks = {q1}
  Cleanups = {c1}
  CleanUpAfter = {"FINISHED", "FAILED", "INTERRUPTED"}
  Nobody = Nobody
SPECIFICATION Spec
PROPERTY CleanupRefusesRunningJob
CHECK_DEADLOCK FALSE
