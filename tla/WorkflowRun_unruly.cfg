CONSTANTS
  Clients = {c1, c2}
  Program <- Full
  Transcript = TRUE
  MaxCalls = 1
  Calls = {"cancel", "get", "list", "wait"}
  SpawnMayFail = TRUE
  Faults = TRUE
  LockTimeouts = TRUE
  WaitTimeouts = TRUE
  Crashes = TRUE
SPECIFICATION FairSpec
CHECK_DEADLOCK FALSE
INVARIANTS SucceededMeansAll CancelTakesEffect CancelledTellsTruth
PROPERTIES ImplementsRunLife NothingLost WorkerStops WaitersAnswered
