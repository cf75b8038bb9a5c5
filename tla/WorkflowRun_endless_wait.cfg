CONSTANTS
  Clients = {c1, c2, c3}
  Program <- Short
  Transcript = FALSE
  MaxCalls = 1
  Calls = {"cancel", "wait"}
  SpawnMayFail = FALSE
  Faults = FALSE
  LockTimeouts = FALSE
  WaitTimeouts = FALSE
  Crashes = FALSE
SPECIFICATION FairSpec
CHECK_DEADLOCK FALSE
PROPERTIES WaitReturns
