------------------------------ MODULE Services ------------------------------
(***************************************************************************)
(* Components of one process that share no state, each under its own name: *)
(* sagas (SagaCoordinator, extended), webhooks, the HTTP client, payments, *)
(* the run loop of the task worker, the task queue and the rate limiters.  *)
(* What each module says of its component holds beside the others.         *)
(***************************************************************************)
EXTENDS SagaCoordinator, Sequences

CONSTANTS
  Events, Requests, Handlers, MaxFaults,                 \* Webhooks
  Senders, MaxAttempts, MaxSessions, MaxCalls,           \* HttpSessions
  Callers, References, NoReference, MaxPayments,         \* Payments
  MaxTasks, Unlimited, Concurrencies, IdleLimit, MaxRuns, MaxStops, MaxErrors,
  LastTask,                                              \* TaskWorkerRun
  Tasks, Keys, NoKey, KeyOf, NoTask, Procs, Slots, ProcOf, Handled, TaskAttempts,
  EnqueueDelays, RetryDelays, MaxOverruns, MaxCrashes, MaxMessages,
  MaxDeliveries,                                         \* RedisTaskQueue
  Routes, Quotas, Second, LastTime, MaxRequests, MaxDeaths,      \* RateLimit
  Characters, MaxScript,                                 \* SqlSplitter
  Letters, Tails, MaxLength,                             \* EnvFile
  Paths, MaxEntries, MaxVariables                        \* Settings

\* What the constructors of the components accept: a list of handlers, attempts that are
\* made at least once, the settings that TaskWorker does not reject, and the quotas that
\* rate_limit() does not.
ASSUME HandlersAssumption == Handlers \in Nat
ASSUME AttemptsAssumption == MaxAttempts \in Nat \ {0}
ASSUME SettingsAssumption ==
  /\ MaxTasks \ {Unlimited} \subseteq Nat \ {0}
  /\ Concurrencies \subseteq Nat \ {0}
ASSUME QuotasAssumption ==
  Quotas \subseteq [limit: Nat \ {0}, window: Nat \ {0}] /\ Second \in Nat \ {0}
\* What may stand behind a value is blank up to a comment, and a path names something.
ASSUME TailsAssumption ==
  /\ Tails \subseteq Seq(Letters)
  /\ \A tail \in Tails : \A i \in DOMAIN tail :
       tail[i] \notin {"space", "hash"} => \E j \in 1 .. i - 1 : tail[j] = "hash"
ASSUME PathsAssumption == \A p \in Paths : p \in Seq(STRING) /\ p # << >>
ASSUME QueueAssumption ==
  /\ KeyOf \in [Tasks -> Keys \cup {NoKey}] /\ NoKey \notin Keys
  /\ NoTask \notin Tasks
  /\ ProcOf \in [Slots -> Procs]
  /\ Handled \subseteq Tasks
  /\ TaskAttempts \in Nat \ {0}
  /\ EnqueueDelays \in SUBSET BOOLEAN /\ RetryDelays \in SUBSET BOOLEAN
  /\ {MaxOverruns, MaxCrashes, MaxMessages, MaxDeliveries} \subseteq Nat

VARIABLES durable, recorded, answered, ran, request, damaged, restarts, faults
VARIABLES closed, made, open, table, used, sender, cleanup, closer, overlong, orphaned, calls
VARIABLES checkouts, refunds, stored, storedRefunds, returned, payer, payments, losses
VARIABLES max_tasks, concurrency, stopped, pc, processed, idle_polls, batch, taken, orphans,
          late, runs, stops, errors
VARIABLES stream, delivered, pending, stale, store, reserved, mids, slot, call, overruns,
          crashes
VARIABLES redis, quota, now, hits, counters, caller, allowed, requests, deaths
VARIABLES script, index, statements, buffer, quote, in_line_comment, in_block_comment, done
VARIABLES style, text, raw, stage, inner, position, result
VARIABLES file, environ, settings, data, merged

Hooks == INSTANCE Webhooks

Http == INSTANCE HttpSessions

Stripe == INSTANCE Payments WITH
  MaxCalls <- MaxPayments, call <- payer, calls <- payments, faults <- losses

Worker == INSTANCE TaskWorkerRun

Queue == INSTANCE RedisTaskQueue WITH MaxAttempts <- TaskAttempts

Limiter == INSTANCE RateLimit

Splitter == INSTANCE SqlSplitter

Values == INSTANCE EnvFile

Loader == INSTANCE Settings

\* What the module of each component says of it.
EventsHandled == Hooks!EventsHandled
SessionsSound == Http!SessionsSound
StoreAgrees == Stripe!StoreAgrees
StoreNeverRegresses == Stripe!StoreNeverRegresses
RunsWithinLimits == Worker!RunsWithinLimits
NoTaskLost == Queue!NoTaskLost
QuotasHold == Limiter!QuotasHold
SplitsStatements == Splitter!SplitsStatements

\* Settings mean what their files and the environment say.
LoadsAsWritten == Values!ReadsBack /\ Loader!EnvironmentWins
=============================================================================
