CONSTANTS
  t1 = t1
  t2 = t2
  t3 = t3
  p1 = p1
  p2 = p2
  p3 = p3
  NoPid = NoPid
  NoFile = NoFile
  Threads = {t1, t2, t3}
  Pids = {p1, p2, p3}
  PidOf <- ThreePids
  Windows = FALSE
  Crashes = TRUE
  ProbeMisses = FALSE
  UnlinkDenied = FALSE
  WriteFails = FALSE
  Stalls = FALSE
SPECIFICATION Spec
CHECK_DEADLOCK FALSE
INVARIANT MutualExclusion
