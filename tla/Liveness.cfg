SPECIFICATION MCSpec
CONSTANTS
  NoKey = NoKey
  NoTask = NoTask
  t1 = t1
  t2 = t2
  k1 = k1
  p1 = p1
  p2 = p2
  s1 = s1
  s2 = s2
  Keys = {k1}
  Tasks = {t1, t2}
  KeyOf <- BothUnkeyed
  Procs = {p1, p2}
  Slots = {s1, s2}
  ProcOf <- TwoProcs
  Handled = {t1}
  MaxAttempts = 2
  EnqueueDelays = {FALSE}
  RetryDelays = {FALSE}
  MaxOverruns = 0
  MaxCrashes = 0
  MaxMessages = 8
  MaxDeliveries = 9
  Runners = {"a", "b"}
  Versions = {1, 2}
  Statements = 2
  MaxMigrates = 4
  MaxFailures = 2
  Clients = {"a", "b"}
  TTL = 2
  Patience = 1
  MaxTokens = 4
  MaxDeaths = 1
  Callers = {"a", "b"}
  PoolSize = 2
  MaxTries = 2
  MaxWrites = 1
  MaxCalls = 2
  MaxFaults = 2
CHECK_DEADLOCK FALSE
INVARIANTS AppliedAsRecorded MutualExclusion ConnectionsReturn WritesAsReported
PROPERTIES ImplementsLifecycle EveryTaskSettles MigratesEnd LeasesEnd CallsEnd
