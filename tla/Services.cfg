SPECIFICATION MCSpec
CONSTANTS
  Length = 3
  Events = {"e"}
  Requests = {"r", "s", "t"}
  Handlers = 2
  MaxFaults = 2
  Senders = {"r", "s"}
  MaxAttempts = 2
  MaxSessions = 3
  MaxCalls = 4
  Callers = {"c", "d"}
  References = {"r"}
  NoReference = "none"
  MaxPayments = 3
  MaxTasks = {0, 1, 3}
  Unlimited = 0
  Concurrencies = {1, 2}
  IdleLimit = 2
  MaxRuns = 2
  MaxStops = 2
  MaxErrors = 1
  LastTask = 4
  Tasks = {"t"}
  Keys = {"k"}
  NoKey = "none"
  KeyOf <- Unkeyed
  NoTask = "none"
  Procs = {"p"}
  Slots = {"a", "b"}
  ProcOf <- OneProc
  Handled = {"t"}
  TaskAttempts = 2
  EnqueueDelays = {FALSE}
  RetryDelays = {TRUE, FALSE}
  MaxOverruns = 2
  MaxCrashes = 0
  MaxMessages = 4
  MaxDeliveries = 5
  Routes = {"r", "s"}
  Quotas <- SmallQuotas
  Second = 2
  Characters <- SqlCharacters
  MaxScript = 5
  Letters <- EnvLetters
  Tails <- EnvTails
  MaxLength = 4
  Paths <- DeepPaths
  MaxEntries = 3
  MaxVariables = 3
  LastTime = 3
  MaxRequests = 3
  MaxDeaths = 1
CHECK_DEADLOCK FALSE
INVARIANTS CompensatesAsReported SplitsStatements LoadsAsWritten EventsHandled QuotasHold SessionsSound StoreAgrees RunsWithinLimits NoTaskLost
PROPERTIES StoreNeverRegresses
