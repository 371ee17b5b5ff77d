--------------------------- MODULE TaskWorkerRun ---------------------------
(***************************************************************************)
(* TaskWorker.run() (plugins/tasks/worker.py): batches of concurrent       *)
(* coroutines that each take a task from the queue and process it, up to   *)
(* max_tasks, until stop() or too many polls of an empty queue.  What      *)
(* becomes of a task is up to the queue and its handler (RedisTaskQueue    *)
(* and its siblings).                                                      *)
(***************************************************************************)
EXTENDS Naturals

CONSTANTS
  MaxTasks,       \* the possible max_tasks; Unlimited for None
  Unlimited,
  Concurrencies,  \* the possible values of concurrency
  IdleLimit,      \* idle_poll_limit
  MaxRuns,        \* bounds on calls of run() and stop(), on calls of the queue that raise,
  MaxStops,
  MaxErrors,
  LastTask        \* and on the tasks taken

VARIABLES
  max_tasks, concurrency,
  stopped,    \* _stopped
  pc,         \* of run(): "idle", "loop", "batch" or "sleep"
  processed, idle_polls,
  batch,      \* [size, left, worked]: coroutines begun, still at work, and with a task done
  taken,      \* tasks taken from the queue in this run
  orphans,    \* coroutines of a run that has raised
  late,       \* batches begun since stop() was called on this run
  runs, stops, errors

runVars == <<max_tasks, concurrency, stopped, pc, processed, idle_polls, batch, taken,
             orphans, late, runs, stops, errors>>

settings == <<max_tasks, concurrency>>
bounds == <<runs, stops, errors>>

NoBatch == [size |-> 0, left |-> 0, worked |-> 0]

Init ==
  /\ max_tasks \in MaxTasks /\ concurrency \in Concurrencies
  /\ stopped = FALSE /\ pc = "idle"
  /\ processed = 0 /\ idle_polls = 0 /\ batch = NoBatch /\ taken = 0
  /\ orphans = 0 /\ late = 0
  /\ runs = 0 /\ stops = 0 /\ errors = 0

\* run() forgets a stop() that came before it.
Run ==
  /\ pc = "idle"
  /\ runs < MaxRuns /\ runs' = runs + 1
  /\ stopped' = FALSE
  /\ pc' = "loop"
  /\ processed' = 0 /\ idle_polls' = 0 /\ taken' = 0 /\ late' = 0
  /\ UNCHANGED <<settings, batch, orphans, stops, errors>>

\* Mutant: the budget is not counted down.
BudgetWhole == IF max_tasks = Unlimited THEN concurrency ELSE max_tasks

Larger(m, n) == IF m < n THEN n ELSE m

\* _remaining_task_budget()
Budget == IF max_tasks = Unlimited THEN concurrency ELSE Larger(1, max_tasks - processed)

Smaller(m, n) == IF m < n THEN m ELSE n

GoesOn == ~stopped

BeginBatch ==
  /\ pc = "loop" /\ GoesOn
  /\ LET size == Smaller(concurrency, Budget) IN
       batch' = [size |-> size, left |-> size, worked |-> 0]
  /\ pc' = "batch"
  /\ late' = IF stopped THEN late + 1 ELSE late
  /\ UNCHANGED <<settings, stopped, processed, idle_polls, taken, orphans, bounds>>

Stopped ==
  /\ pc = "loop" /\ ~GoesOn
  /\ pc' = "idle"
  /\ UNCHANGED <<settings, stopped, processed, idle_polls, batch, taken, orphans, late, bounds>>

Idles ==
  /\ pc = "batch" /\ batch.left > 0
  /\ batch' = [batch EXCEPT !.left = @ - 1]
  /\ UNCHANGED <<settings, stopped, pc, processed, idle_polls, taken, orphans, late, bounds>>

Processes ==
  /\ pc = "batch" /\ batch.left > 0 /\ taken < LastTask
  /\ taken' = taken + 1
  /\ batch' = [batch EXCEPT !.left = @ - 1, !.worked = @ + 1]
  /\ UNCHANGED <<settings, stopped, pc, processed, idle_polls, orphans, late, bounds>>

\* The queue raises: gather() passes it on at once, and the other coroutines go on.
Raises ==
  /\ pc = "batch" /\ batch.left > 0
  /\ errors < MaxErrors /\ errors' = errors + 1
  /\ orphans' = orphans + batch.left - 1
  /\ batch' = NoBatch
  /\ pc' = "idle"
  /\ UNCHANGED <<settings, stopped, processed, idle_polls, taken, late, runs, stops>>

OrphanEnds ==
  /\ orphans > 0
  /\ orphans' = orphans - 1
  /\ UNCHANGED <<settings, stopped, pc, processed, idle_polls, batch, taken, late, bounds>>

Count(n) == n

Enough(n) == max_tasks # Unlimited /\ n >= max_tasks

BatchEnds ==
  /\ pc = "batch" /\ batch.left = 0
  /\ processed' = processed + Count(batch.worked)
  /\ idle_polls' = IF batch.worked > 0 THEN 0 ELSE idle_polls + 1
  /\ batch' = NoBatch
  /\ pc' = IF Enough(processed') \/ idle_polls' >= IdleLimit THEN "idle" ELSE "sleep"
  /\ UNCHANGED <<settings, stopped, taken, orphans, late, bounds>>

\* The delay has passed, or stop() has ended it.
Wake ==
  /\ pc = "sleep"
  /\ pc' = "loop"
  /\ UNCHANGED <<settings, stopped, processed, idle_polls, batch, taken, orphans, late, bounds>>

Stop ==
  /\ stops < MaxStops /\ stops' = stops + 1
  /\ stopped' = TRUE
  /\ UNCHANGED <<settings, pc, processed, idle_polls, batch, taken, orphans, late, runs, errors>>

Next ==
  \/ Run \/ BeginBatch \/ Stopped \/ Idles \/ Processes \/ Raises \/ OrphanEnds
  \/ BatchEnds \/ Wake \/ Stop

Spec == Init /\ [][Next]_runVars

-----------------------------------------------------------------------------

\* A run takes no more than max_tasks tasks, those its coroutines are about to take included,
\* and reports all it took.
TakesWithinMax ==
  /\ max_tasks # Unlimited => taken + batch.left <= max_tasks
  /\ processed + batch.worked = taken \/ errors > 0

\* After stop() a run begins no further batch, and when it has returned nothing of it goes
\* on, unless a call of the queue has raised in the midst of a batch.
StopEnds == late = 0 /\ (errors = 0 => orphans = 0)

\* A run keeps its limits and its stop.
RunsWithinLimits == TakesWithinMax /\ StopEnds
=============================================================================
