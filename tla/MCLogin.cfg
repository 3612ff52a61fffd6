SPECIFICATION Spec
CONSTANTS
  a1 = a1
  a2 = a2
  none = none
  Users = {a1}
  Addresses = {a1, a2}
  MaxFailedAttempts = 3
  FailureWindow = 2
  Lockout = 2
  Timeout = 1
  None = none
  MaxClock = 3
  MaxLogins = 2
  MaxSent = 1
  MaxKills = 1
INVARIANTS GuessesAreLimited LockedOutForCause ChangesServedToTheirLogin RestartKeepsSessions
CHECK_DEADLOCK FALSE
