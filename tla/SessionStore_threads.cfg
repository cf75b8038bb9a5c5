CONSTANTS
  p1 = p1
  p2 = p2
  t1 = t1
  t2 = t2
  t3 = t3
  s1 = s1
  s2 = s2
  s3 = s3
  fluent = fluent
  mechanical = mechanical
  NoOne = NoOne
  Procs = {p1}
  Threads = {t1, t2}
  ProcOf <- OneProc
  Sids = {s1, s2, s3}
  AdapterOf <- Adapters
  MaxSessions = 2
  MaxPerAdapter = 1
  Calls = {"open", "execute", "close", "closeAll"}
  MaxCalls = 3
  CloseMayFail = FALSE
  LockTimeouts = FALSE
  FileMayBeLost = TRUE
  Crashes = FALSE
  OrderlyCallers = TRUE
  LaunchWithinTTL = TRUE
SPECIFICATION Spec
CHECK_DEADLOCK FALSE
INVARIANTS CapacityKept NoLostProduct ClosedMeansClosed
PROPERTY ExpiryRemovesOnlyDue
SYMMETRY SameIds
