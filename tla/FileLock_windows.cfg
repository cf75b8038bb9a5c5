CONSTANTS
  t1 = t1
  t2 = t2
  t3 = t3
  p1 = p1
  p2 = p2
  p3 = p3
  NoPid = NoPid
  NoFile = NoFile
  Threads = {t1, t2, t3}
  Pids = {p1, p2}
  PidOf <- TwoPids
  Windows = TRUE
  Crashes = TRUE
  ProbeMisses = TRUE
  UnlinkDenied = TRUE
  WriteFails = TRUE
  Stalls = TRUE
SPECIFICATION Spec
CHECK_DEADLOCK FALSE
PROPERTY ImplementsMutex
