CONSTANTS
  p1 = p1
  p2 = p2
  t1 = t1
  t2 = t2
  t3 = t3
  s1 = s1
  s2 = s2
  s3 = s3
  fluent = fluent
  mechanical = mechanical
  NoOne = NoOne
  Procs = {p1}
  Threads = {t1, t2, t3}
  ProcOf <- OneProc
  Sids = {s1, s2}
  AdapterOf <- Adapters
  MaxSessions = 2
  MaxPerAdapter = 1
  Calls = {"open", "execute", "close", "list"}
  MaxCalls = 1
  CloseMayFail = FALSE
  LockTimeouts = TRUE
  FileMayBeLost = FALSE
  Crashes = FALSE
  OrderlyCallers = FALSE
  LaunchWithinTTL = FALSE
SPECIFICATION FairSpec
CHECK_DEADLOCK FALSE
PROPERTY CallsReturn
INVARIANTS OneUserAtATime UsesLiveProduct
