------------------------------- MODULE Queues -------------------------------
(***************************************************************************)
(* The task queues of one process (MemoryTaskQueue, extended) and those on *)
(* a broker (BrokerTaskQueue), which share no state.                       *)
(***************************************************************************)
EXTENDS MemoryTaskQueue, FiniteSets

CONSTANTS Jobs, Known, Procs, Coros, Deployments, MaxTries, MaxSends, MaxFaults

\* A deployment gives a broker, and a process or none to each coroutine: one process for
\* Celery, whose messages return when it dies, and for Kafka, whose position it keeps.
ASSUME DeploymentsAssumption ==
  /\ "none" \notin Procs
  /\ \A d \in Deployments :
       /\ d.kind \in {"sqs", "fifo", "celery", "kafka"}
       /\ d.home \in [Coros -> Procs \cup {"none"}]
       /\ d.kind \in {"celery", "kafka"} =>
            \A b, c \in Coros :
              "none" \notin {d.home[b], d.home[c]} => d.home[b] = d.home[c]
ASSUME TriesAssumption == MaxTries \in Nat \ {0} /\ MaxSends \in Nat

VARIABLES deployed, log, last, held, gone, position, joined, skipped, recent, cache,
          receipts, coro, settled, runs, overruns, crashes

Broker == INSTANCE BrokerTaskQueue

\* A task stays on the broker until it is settled (_broker.py sends before it acknowledges),
\* except for those a Kafka consumer skips or commits too early.
NoJobLost == Broker!NoJobLost

\* The attempts of what a handler is given, and in the absence of crashes and overruns the
\* number of times it runs, stay within max_attempts; a settled task is not run again.
JobsRunAsPromised == Broker!JobsRunAsPromised

\* A task that was sent is completed or dead-lettered in the end, unless Kafka skips it or
\* Celery's client drops its message.
EveryJobSettles == Broker!EveryJobSettles

\* docs/plugins.md:1526 of a task whose handler has raised, refuted on a FIFO queue.
FailedJobsAreRetried == Broker!FailedJobsAreRetried
=============================================================================
