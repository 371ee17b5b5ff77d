----------------------- MODULE MemoryTaskQueueProofs -----------------------
(***************************************************************************)
(* MemoryTaskQueue implements TaskLifecycle for every number of tasks,     *)
(* coroutines and attempts.                                                *)
(***************************************************************************)
EXTENDS MemoryTaskQueue, TLAPS

States == {"absent", "queued", "running", "completed", "dead_lettered"}

\* The types of what the refinement maps and of what the coroutines carry.
Typed ==
  /\ state \in [Tasks -> States]
  /\ attempts \in [Tasks -> Nat]
  /\ working \in [Slots -> [task: Tasks \cup {NoTask}, attempts: Nat]]

\* A task that is to be delivered has been delivered less often than max_attempts.
QueuedHasTries ==
  \A t \in Tasks : state[t] \in {"absent", "queued"} => attempts[t] < MaxAttempts

\* The envelope of a coroutine is that of a running task.
WorkIsRunning ==
  \A s \in Slots, t \in Tasks :
    working[s].task = t => state[t] = "running" /\ working[s].attempts = attempts[t]

\* No two coroutines have the same task.
WorkIsApart ==
  \A r, s \in Slots, t \in Tasks : working[r].task = t /\ working[s].task = t => r = s

IInv == Typed /\ QueuedHasTries /\ WorkIsRunning /\ WorkIsApart

\* Every initial state satisfies the invariant.
LEMMA InitIInv == Init => IInv
BY NoTaskAssumption, MaxAttemptsAssumption
DEF Init, IInv, Typed, QueuedHasTries, WorkIsRunning, WorkIsApart, Resting, States

\* enqueue() stores a task that nobody works on.
LEMMA EnqueueKeeps == ASSUME IInv, NEW t \in Tasks, Enqueue(t) PROVE IInv'
BY MaxAttemptsAssumption
DEF Enqueue, Waits, IInv, Typed, QueuedHasTries, WorkIsRunning, WorkIsApart, States

\* dequeue() gives a task that nobody works on to a coroutine.
LEMMA DequeueKeeps == ASSUME IInv, NEW s \in Slots, NEW t \in Tasks, Dequeue(s, t) PROVE IInv'
<1>1. /\ state' = [state EXCEPT ![t] = "running"]
      /\ attempts' = [attempts EXCEPT ![t] = @ + 1]
      /\ working' = [working EXCEPT ![s] = [task |-> t, attempts |-> attempts[t] + 1]]
      /\ state[t] = "queued"
  BY DEF Dequeue, Ready
<1>2. \A r \in Slots : working[r].task # t
  BY <1>1 DEF IInv, WorkIsRunning
<1> QED
  BY <1>1, <1>2 DEF IInv, Typed, QueuedHasTries, WorkIsRunning, WorkIsApart, States

\* A coroutine that lets go of its task in any other state leaves the others theirs.
LEMMA LettingGoKeeps ==
  ASSUME IInv, NEW s \in Slots, NEW t \in Tasks, NEW next \in States,
         working[s].task = t,
         next \in {"absent", "queued"} => attempts[t] < MaxAttempts,
         state' = [state EXCEPT ![t] = next],
         working' = [working EXCEPT ![s] = Resting],
         attempts' = attempts
  PROVE  IInv'
<1> USE DEF IInv, Typed
<1>1. Typed'
  BY NoTaskAssumption DEF Resting
<1>2. QueuedHasTries'
  BY DEF QueuedHasTries, States
<1>3. working'[s].task \notin Tasks /\ \A r \in Slots \ {s} : working'[r] = working[r]
  BY NoTaskAssumption DEF Resting
<1>4. \A r \in Slots \ {s}, u \in Tasks : working[r].task = u => u # t
  BY DEF WorkIsApart
<1>5. WorkIsRunning'
  BY <1>3, <1>4 DEF WorkIsRunning
<1>6. WorkIsApart'
  BY <1>3 DEF WorkIsApart
<1> QED
  BY <1>1, <1>2, <1>5, <1>6

\* The four ways in which a coroutine ends its work, and one task's delay.
LEMMA StepKeeps == ASSUME IInv, [Next]_vars PROVE IInv'
<1>1. CASE UNCHANGED vars
  BY <1>1 DEF vars, IInv, Typed, QueuedHasTries, WorkIsRunning, WorkIsApart
<1>2. ASSUME NEW t \in Tasks, Enqueue(t) PROVE IInv'
  BY <1>2, EnqueueKeeps
<1>3. ASSUME NEW t \in Tasks, Elapse(t) PROVE IInv'
  BY <1>3 DEF Elapse, IInv, Typed, QueuedHasTries, WorkIsRunning, WorkIsApart
<1>4. ASSUME NEW s \in Slots, NEW t \in Tasks, Dequeue(s, t) PROVE IInv'
  BY <1>4, DequeueKeeps
<1>5. ASSUME NEW s \in Slots, NEW t \in Tasks, HandlerReturns(s, t) PROVE IInv'
  BY <1>5, LettingGoKeeps DEF HandlerReturns, Settles, States
<1>6. ASSUME NEW s \in Slots, NEW t \in Tasks, Retry(s, t) PROVE IInv'
  <2>1. attempts[t] < MaxAttempts
    BY <1>6 DEF Retry, IInv, WorkIsRunning
  <2> QED
    BY <1>6, <2>1, LettingGoKeeps DEF Retry, Waits, States
<1>7. ASSUME NEW s \in Slots, NEW t \in Tasks, DeadLetter(s, t) PROVE IInv'
  BY <1>7, LettingGoKeeps DEF DeadLetter, Settles, States
<1> QED
  BY <1>1, <1>2, <1>3, <1>4, <1>5, <1>6, <1>7 DEF Next, Work

\* A task that waits is delivered less often than max_attempts, one that runs is with
\* one coroutine: worker.py decides on a copy of the envelope that is never stale.
THEOREM Invariance == Spec => []IInv
BY InitIInv, StepKeeps, PTL DEF Spec

\* Every step of the memory queue is one of TaskLifecycle, or changes nothing there.
LEMMA StepImplements == ASSUME IInv, [Next]_vars PROVE [Lifecycle!Next]_(Lifecycle!vars)
<1> USE DEF Lifecycle!Next, Lifecycle!vars
<1>1. CASE UNCHANGED vars
  BY <1>1 DEF vars
<1>2. ASSUME NEW t \in Tasks, Enqueue(t) PROVE Lifecycle!Submit(t)
  BY <1>2 DEF Enqueue, Waits, Lifecycle!Submit
<1>3. ASSUME NEW t \in Tasks, Elapse(t) PROVE UNCHANGED Lifecycle!vars
  BY <1>3 DEF Elapse
<1>4. ASSUME NEW s \in Slots, NEW t \in Tasks, Dequeue(s, t) PROVE Lifecycle!Deliver(t)
  BY <1>4 DEF Dequeue, Ready, Lifecycle!Deliver, IInv, QueuedHasTries
<1>5. ASSUME NEW s \in Slots, NEW t \in Tasks, HandlerReturns(s, t) PROVE Lifecycle!Settle(t)
  BY <1>5 DEF HandlerReturns, Settles, Lifecycle!Settle, Lifecycle!Settled, IInv, WorkIsRunning
<1>6. ASSUME NEW s \in Slots, NEW t \in Tasks, Retry(s, t) PROVE Lifecycle!Retry(t)
  BY <1>6 DEF Retry, Waits, Lifecycle!Retry, IInv, WorkIsRunning
<1>7. ASSUME NEW s \in Slots, NEW t \in Tasks, DeadLetter(s, t) PROVE Lifecycle!Settle(t)
  BY <1>7 DEF DeadLetter, Settles, Lifecycle!Settle, Lifecycle!Settled, IInv, WorkIsRunning
<1> QED
  BY <1>1, <1>2, <1>3, <1>4, <1>5, <1>6, <1>7 DEF Next, Work

\* The memory queue delivers a task max_attempts times at most, never two at a time,
\* and settles it once.
THEOREM Refinement == Spec => ImplementsLifecycle
<1>1. Init => Lifecycle!Init
  BY DEF Init, Lifecycle!Init
<1> QED
  BY <1>1, Invariance, StepImplements, PTL DEF Spec, ImplementsLifecycle, Lifecycle!Spec
=============================================================================
