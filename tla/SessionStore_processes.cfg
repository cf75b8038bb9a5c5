CONSTANTS
  p1 = p1
  p2 = p2
  t1 = t1
  t2 = t2
  t3 = t3
  s1 = s1
  s2 = s2
  s3 = s3
  fluent = fluent
  mechanical = mechanical
  NoOne = NoOne
  Procs = {p1, p2}
  Threads = {t1, t3}
  ProcOf <- TwoProcs
  Sids = {s1, s2}
  AdapterOf <- Adapters
  MaxSessions = 1
  MaxPerAdapter = 2
  Calls = {"open", "execute", "close"}
  MaxCalls = 3
  CloseMayFail = TRUE
  LockTimeouts = FALSE
  FileMayBeLost = FALSE
  Crashes = TRUE
  OrderlyCallers = TRUE
  LaunchWithinTTL = TRUE
SPECIFICATION Spec
CHECK_DEADLOCK FALSE
INVARIANTS CapacityKept DiskTellsTruth MemoryMatchesDisk
SYMMETRY SameIds
