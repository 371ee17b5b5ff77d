--------------------------- MODULE TaskLifecycle ---------------------------
(***************************************************************************)
(* What a task queue promises of one task, whatever carries it: the states *)
(* a TaskEnvelope goes through (tasks/models.py), the deliveries a worker  *)
(* may see and how the retry policy of TaskWorker bounds them.             *)
(* Redelivery is TRUE of a queue that hands a running task out again when  *)
(* its worker is presumed dead (at least once) and FALSE of one that never *)
(* does (exactly max_attempts at most).                                    *)
(***************************************************************************)
EXTENDS Naturals

CONSTANTS
  Tasks,        \* task ids
  MaxAttempts,  \* TaskEnvelope.max_attempts
  Redelivery    \* may a running task be delivered again

VARIABLES
  state,     \* the TaskState of each task, "absent" before it is stored
  attempts   \* deliveries so far

vars == <<state, attempts>>

Settled == {"completed", "dead_lettered"}

TypeOK ==
  /\ state \in [Tasks -> {"absent", "queued", "running"} \cup Settled]
  /\ attempts \in [Tasks -> Nat]

Init ==
  /\ state = [t \in Tasks |-> "absent"]
  /\ attempts = [t \in Tasks |-> 0]

Submit(t) ==
  /\ state[t] = "absent"
  /\ state' = [state EXCEPT ![t] = "queued"]
  /\ UNCHANGED attempts

Deliver(t) ==
  /\ \/ state[t] = "queued"
     \/ Redelivery /\ state[t] = "running"
  /\ Redelivery \/ attempts[t] < MaxAttempts
  /\ state' = [state EXCEPT ![t] = "running"]
  /\ attempts' = [attempts EXCEPT ![t] = @ + 1]

Retry(t) ==
  /\ state[t] = "running"
  /\ attempts[t] < MaxAttempts
  /\ state' = [state EXCEPT ![t] = "queued"]
  /\ UNCHANGED attempts

Settle(t) ==
  /\ state[t] = "running"
  /\ \E final \in Settled : state' = [state EXCEPT ![t] = final]
  /\ UNCHANGED attempts

Next == \E t \in Tasks : Submit(t) \/ Deliver(t) \/ Retry(t) \/ Settle(t)

(* Every task that is stored is settled in the end: a queued task is       *)
(* delivered and a running one settled or retried.                         *)
Fairness ==
  \A t \in Tasks : /\ WF_vars(Deliver(t) /\ state[t] = "queued")
                   /\ WF_vars(Retry(t) \/ Settle(t))

Spec == Init /\ [][Next]_vars

FairSpec == Spec /\ Fairness
=============================================================================
