SPECIFICATION Spec
CONSTANTS
  NoKey = NoKey
  NoTask = NoTask
  t1 = t1
  t2 = t2
  k1 = k1
  p1 = p1
  p2 = p2
  s1 = s1
  s2 = s2
  Keys = {k1}
  Tasks = {t1, t2}
  KeyOf <- SameKey
  Procs = {p1, p2}
  Slots = {s1, s2}
  ProcOf <- TwoProcs
  Handled = {t1, t2}
  MaxAttempts = 1
  EnqueueDelays = {FALSE}
  RetryDelays = {FALSE}
  MaxOverruns = 0
  MaxCrashes = 0
  MaxMessages = 4
  MaxDeliveries = 9
INVARIANTS RepeatedKeyReturnsTask
