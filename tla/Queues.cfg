SPECIFICATION MCSpec
CONSTANTS
  t1 = t1
  t2 = t2
  t3 = t3
  t4 = t4
  k = k
  a = a
  b = b
  p = p
  q = q
  NoKey = NoKey
  NoTask = NoTask
  Tasks = {t1, t2, t3, t4}
  KeyOf <- Keys
  Slots = {a, b}
  Handled = {t1, t3, t4}
  MaxAttempts = 2
  Jobs = {t1, t2}
  Known = {t1}
  Procs = {p, q}
  Coros = {a, b}
  Deployments <- Everywhere
  MaxTries = 2
  MaxSends = 3
  MaxFaults = 1
CHECK_DEADLOCK FALSE
INVARIANTS NoJobLost JobsRunAsPromised
PROPERTIES ImplementsLifecycle EveryTaskSettles EveryJobSettles
