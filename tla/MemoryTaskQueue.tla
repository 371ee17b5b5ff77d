-------------------------- MODULE MemoryTaskQueue --------------------------
(***************************************************************************)
(* MemoryTaskQueue (plugins/tasks/adapters/memory.py) and the handlers     *)
(* that the coroutines of a TaskWorker (worker.py) run on its tasks.  No   *)
(* operation of the queue awaits, so that each is one step.                *)
(***************************************************************************)
EXTENDS Naturals, Sequences

CONSTANTS
  Tasks,        \* the tasks that enqueue() may be called for
  KeyOf,        \* the idempotency key of each, NoKey for none
  NoKey,
  NoTask,
  Slots,        \* coroutines of the worker
  Handled,      \* the tasks whose name has a handler
  MaxAttempts   \* TaskEnvelope.max_attempts

ASSUME NoTaskAssumption == NoTask \notin Tasks
ASSUME MaxAttemptsAssumption == MaxAttempts \in Nat \ {0}

VARIABLES
  state,        \* TaskEnvelope.state, "absent" before enqueue()
  attempts,     \* TaskEnvelope.attempts
  delayed,      \* available_at > now
  queued,       \* _queued
  working       \* the envelope each coroutine has dequeued: its task and attempts

vars == <<state, attempts, delayed, queued, working>>

Resting == [task |-> NoTask, attempts |-> 0]

TypeOK ==
  /\ state \in [Tasks -> {"absent", "queued", "running", "completed", "dead_lettered"}]
  /\ attempts \in [Tasks -> 0 .. MaxAttempts]
  /\ delayed \in [Tasks -> BOOLEAN]
  /\ queued \in Seq(Tasks)
  /\ working \in [Slots -> [task: Tasks \cup {NoTask}, attempts: Nat]]

Init ==
  /\ state = [t \in Tasks |-> "absent"]
  /\ attempts = [t \in Tasks |-> 0]
  /\ delayed = [t \in Tasks |-> FALSE]
  /\ queued = <<>>
  /\ working = [s \in Slots |-> Resting]

-----------------------------------------------------------------------------
\* _idempotency_keys has the key of t; enqueue() then returns the task it names.
KeyTaken(t) == KeyOf[t] # NoKey /\ \E u \in Tasks : KeyOf[u] = KeyOf[t] /\ state[u] # "absent"

Waits(t, delay) ==
  /\ state' = [state EXCEPT ![t] = "queued"]
  /\ delayed' = [delayed EXCEPT ![t] = delay]
  /\ queued' = Append(queued, t)

Enqueue(t) ==
  /\ state[t] = "absent" /\ ~KeyTaken(t)
  /\ \E delay \in BOOLEAN : Waits(t, delay)
  /\ UNCHANGED <<attempts, working>>

Ready(t) == state[t] = "queued" /\ ~delayed[t]

\* Mutant: a delayed task ahead of a ready one is dropped.
RotatedDropping(i) == SubSeq(queued, i + 1, Len(queued))

\* The tasks before the first one that is ready go to the end of the deque.
Rotated(i) ==
  SubSeq(queued, i + 1, Len(queued)) \o
  SelectSeq(SubSeq(queued, 1, i - 1), LAMBDA t : state[t] = "queued")

Dequeue(s, t) ==
  /\ working[s] = Resting
  /\ Ready(t)
  /\ \E i \in 1 .. Len(queued) :
       /\ queued[i] = t
       /\ \A j \in 1 .. i - 1 : ~Ready(queued[j])
       /\ queued' = Rotated(i)
  /\ state' = [state EXCEPT ![t] = "running"]
  /\ attempts' = [attempts EXCEPT ![t] = @ + 1]
  /\ working' = [working EXCEPT ![s] = [task |-> t, attempts |-> attempts[t] + 1]]
  /\ UNCHANGED delayed

Settles(s, t, final) ==
  /\ working[s].task = t
  /\ state' = [state EXCEPT ![t] = final]
  /\ working' = [working EXCEPT ![s] = Resting]
  /\ UNCHANGED <<attempts, delayed, queued>>

HandlerReturns(s, t) == t \in Handled /\ Settles(s, t, "completed")

\* Mutant: one attempt more than max_attempts.
RetryOnceMore(s, t) ==
  /\ working[s].task = t
  /\ t \in Handled /\ working[s].attempts <= MaxAttempts
  /\ \E delay \in BOOLEAN : Waits(t, delay)
  /\ working' = [working EXCEPT ![s] = Resting]
  /\ UNCHANGED attempts

\* retry()
Retry(s, t) ==
  /\ working[s].task = t
  /\ t \in Handled /\ working[s].attempts < MaxAttempts
  /\ \E delay \in BOOLEAN : Waits(t, delay)
  /\ working' = [working EXCEPT ![s] = Resting]
  /\ UNCHANGED attempts

\* dead_letter(): no handler, or the last attempt has raised.
DeadLetter(s, t) ==
  /\ t \in Handled => working[s].attempts >= MaxAttempts
  /\ Settles(s, t, "dead_lettered")

\* available_at is reached.
Elapse(t) ==
  /\ delayed[t]
  /\ delayed' = [delayed EXCEPT ![t] = FALSE]
  /\ UNCHANGED <<state, attempts, queued, working>>

Work(s) == \E t \in Tasks :
  Dequeue(s, t) \/ HandlerReturns(s, t) \/ Retry(s, t) \/ DeadLetter(s, t)

Next == (\E t \in Tasks : Enqueue(t) \/ Elapse(t)) \/ (\E s \in Slots : Work(s))

Spec == Init /\ [][Next]_vars

\* A worker polls again and again, its handlers return, and time passes.
Fairness == /\ \A s \in Slots : WF_vars(Work(s))
            /\ \A t \in Tasks : WF_vars(Elapse(t))

FairSpec == Spec /\ Fairness

-----------------------------------------------------------------------------
(* Properties                                                              *)

\* The tasks go through the states TaskLifecycle allows, delivered max_attempts
\* times at most and by one coroutine at a time.
Lifecycle == INSTANCE TaskLifecycle WITH Redelivery <- FALSE
ImplementsLifecycle == Lifecycle!Spec

\* An enqueued task is settled in the end, delayed and failing ones included.
EveryTaskSettles == \A t \in Tasks : state[t] = "queued" ~> state[t] \in Lifecycle!Settled
=============================================================================
