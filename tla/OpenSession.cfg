SPECIFICATION FairSpec
CONSTANTS
  Servers = {"s1", "s2"}
  Threads = {"t1", "t2", "t3"}
  ServerOf <- ServerOfMC
  NoOne = NoOne
  Tools = {"t1", "t2"}
  Mixes <- MixesMC
  Roots = {241, 252}
  Installed <- InstalledMC
  Importable = {"fluent", "mechanical", "workbench"}
  Asked <- AskedMC
  ConnectOnly = {"t2"}
  RetryCount <- RetryCountMC
  StartTimeout <- StartTimeoutMC
  Windows = TRUE
  Pids = {1, 2}
  Crashes = TRUE
CHECK_DEADLOCK FALSE
INVARIANTS OneStore FluentAlone OutlastsOneAttempt NoStrays
PROPERTIES SparesElders OpensReturn
