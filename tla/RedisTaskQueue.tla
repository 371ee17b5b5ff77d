--------------------------- MODULE RedisTaskQueue ---------------------------
(***************************************************************************)
(* RedisStreamTaskQueue (tasks/adapters/redis_stream.py) driven by the     *)
(* handlers of TaskWorker (tasks/worker.py).                               *)
(*                                                                         *)
(* A task is a Redis hash plus the stream messages that carry its id.  A   *)
(* worker process holds one queue object; its coroutines ("slots", the     *)
(* concurrency of TaskWorkerRunConfig) share the object's _message_ids     *)
(* dictionary.  Every Redis call is an await, so one action is: Redis runs *)
(* the call in flight, and the coroutine then runs up to its next call,    *)
(* whose arguments are fixed there and kept in slot[s].arg.                *)
(*                                                                         *)
(* Time is abstract: a message's idle time is either below or at           *)
(* pending_min_idle_ms (stale), and available_at is either in the future   *)
(* (delayed) or not.  A failing Redis call ends TaskWorker.run and so the  *)
(* process: it is a Crash.                                                 *)
(***************************************************************************)
EXTENDS Naturals, Sequences, FiniteSets

CONSTANTS
  Tasks,          \* one per enqueue() call that may create a task
  Keys,           \* idempotency keys
  NoKey,          \* idempotency_key=None
  KeyOf,          \* the key each enqueue() call passes
  NoTask,
  Procs,          \* worker processes, each with its own queue object
  Slots,          \* the coroutines of TaskWorker._run_batch, run again and again
  ProcOf,         \* the process of each slot
  Handled,        \* the tasks whose name has a registered handler
  MaxAttempts,    \* max_attempts of the tasks
  EnqueueDelays,  \* may delay_seconds of enqueue() be positive
  RetryDelays,    \* may the worker's retry_backoff be positive
  MaxOverruns,    \* bound on live workers holding a message past pending_min_idle_ms
  MaxCrashes,     \* bound on crashes of processes and of callers of enqueue()
  MaxMessages,    \* bound on the length of the stream
  MaxDeliveries   \* bound on the attempts of a task

ASSUME KeysAssumption == KeyOf \in [Tasks -> Keys \cup {NoKey}] /\ NoKey \notin Keys
ASSUME TasksAssumption == NoTask \notin Tasks
ASSUME ProcsAssumption == ProcOf \in [Slots -> Procs]
ASSUME HandledAssumption == Handled \subseteq Tasks
ASSUME MaxAttemptsAssumption == MaxAttempts \in Nat \ {0}
ASSUME DelaysAssumption ==
  EnqueueDelays \in SUBSET BOOLEAN /\ RetryDelays \in SUBSET BOOLEAN
ASSUME BoundsAssumption ==
  {MaxOverruns, MaxCrashes, MaxMessages, MaxDeliveries} \subseteq Nat

VARIABLES
  stream,     \* the task id in each message; the message id is its index
  delivered,  \* last-delivered-id of the consumer group
  pending,    \* the group's pending entries list
  stale,      \* the pending ids that XAUTOCLAIM would hand over
  store,      \* the hash of each task
  reserved,   \* the task id stored under each idempotency key
  mids,       \* _message_ids of each process; 0 is an absent entry
  slot,       \* the local state of each coroutine
  call,       \* the local state of each enqueue() call
  overruns,   \* counts, bounded by MaxOverruns and MaxCrashes
  crashes

counts == <<overruns, crashes>>

vars == <<stream, delivered, pending, stale, store, reserved, mids, slot, call, counts>>

redis == <<stream, delivered, pending, stale, store, reserved>>

-----------------------------------------------------------------------------
Live == {"queued", "running"}
Settled == {"completed", "dead_lettered"}

Envelope == [state: {"absent"} \cup Live \cup Settled, attempts: Nat,
             delayed: BOOLEAN, mid: Nat]

\* HGETALL of a key that does not exist.
NoEnvelope == [state |-> "absent", attempts |-> 0, delayed |-> FALSE, mid |-> 0]

SlotLabels == {"rest", "claim", "read", "load", "ackDropped", "republish", "start", "run",
               "settleLoad", "settlePersist", "settleAck", "settlePublish"}

SlotState == [pc: SlotLabels, via: {"claim", "read"}, got: Nat,
              env: Envelope, arg: Nat]

\* Without a message: _run_once() has returned, or dequeue() is at one of its reads.
SlotAt(label) == [pc |-> label, via |-> "claim", got |-> 0, env |-> NoEnvelope, arg |-> 0]

IdleSlot == SlotAt("rest")

CallLabels == {"get", "reserve", "reget", "reload", "persist", "publish",
               "returned", "keyError", "crashed"}

CallState == [pc: CallLabels, found: Tasks \cup {NoTask}]

TypeOK ==
  /\ stream \in Seq(Tasks)
  /\ delivered \in 0 .. Len(stream)
  /\ pending \subseteq 1 .. delivered
  /\ stale \subseteq pending
  /\ store \in [Tasks -> Envelope]
  /\ reserved \in [Keys -> Tasks \cup {NoTask}]
  /\ mids \in [Procs -> [Tasks -> Nat]]
  /\ slot \in [Slots -> SlotState]
  /\ \A s \in Slots : slot[s].got \in 0 .. delivered
  /\ \A s \in Slots : slot[s].pc \notin {"rest", "claim", "read"} => slot[s].got # 0
  /\ call \in [Tasks -> CallState]
  /\ \A t \in Tasks : call[t].pc \in {"get", "reserve", "reget"} => KeyOf[t] # NoKey
  /\ overruns \in Nat /\ crashes \in Nat

Init ==
  /\ stream = << >>
  /\ delivered = 0
  /\ pending = {}
  /\ stale = {}
  /\ store = [t \in Tasks |-> NoEnvelope]
  /\ reserved = [k \in Keys |-> NoTask]
  /\ mids = [p \in Procs |-> [t \in Tasks |-> 0]]
  /\ slot = [s \in Slots |-> IdleSlot]
  /\ call = [t \in Tasks |->
               [pc |-> IF KeyOf[t] = NoKey THEN "persist" ELSE "get", found |-> NoTask]]
  /\ overruns = 0
  /\ crashes = 0

-----------------------------------------------------------------------------
(* enqueue(): t is the id the new TaskEnvelope would get.                  *)

EnqueueGoes(t, label) == call' = [call EXCEPT ![t].pc = label]

EnqueueReturns(t, found) == call' = [call EXCEPT ![t] = [pc |-> "returned", found |-> found]]

\* The first GET of the idempotency key, and the GET after a lost reservation.
\* The key is never deleted, so the second GET always finds a task.
EnqueueGet(t) ==
  /\ call[t].pc \in {"get", "reget"}
  /\ LET found == reserved[KeyOf[t]] IN
     IF found = NoTask
     THEN EnqueueGoes(t, "reserve")
     ELSE call' = [call EXCEPT ![t] = [pc |-> "reload", found |-> found]]
  /\ UNCHANGED <<redis, mids, slot, counts>>

\* Mutant: SET without NX.
EnqueueReserveOverwrites(t) ==
  /\ call[t].pc = "reserve"
  /\ reserved' = [reserved EXCEPT ![KeyOf[t]] = t]
  /\ EnqueueGoes(t, "persist")
  /\ UNCHANGED <<stream, delivered, pending, stale, store, mids, slot, counts>>

\* Mutant: the message is published before the hash is written.
EnqueueReservePublishes(t) ==
  /\ call[t].pc = "reserve"
  /\ reserved[KeyOf[t]] = NoTask
  /\ reserved' = [reserved EXCEPT ![KeyOf[t]] = t]
  /\ EnqueueGoes(t, "publish")
  /\ UNCHANGED <<stream, delivered, pending, stale, store, mids, slot, counts>>

\* SET NX
EnqueueReserve(t) ==
  /\ call[t].pc = "reserve"
  /\ IF reserved[KeyOf[t]] = NoTask
     THEN /\ reserved' = [reserved EXCEPT ![KeyOf[t]] = t]
          /\ EnqueueGoes(t, "persist")
     ELSE /\ EnqueueGoes(t, "reget")
          /\ UNCHANGED reserved
  /\ UNCHANGED <<stream, delivered, pending, stale, store, mids, slot, counts>>

\* get_async() of the task that holds the key: TaskEnvelope(**{}) of an empty
\* hash raises KeyError.
EnqueueReload(t) ==
  /\ call[t].pc = "reload"
  /\ IF store[call[t].found].state = "absent"
     THEN EnqueueGoes(t, "keyError")
     ELSE EnqueueReturns(t, call[t].found)
  /\ UNCHANGED <<redis, mids, slot, counts>>

\* HSET
EnqueuePersist(t) ==
  /\ call[t].pc = "persist"
  /\ \E delayed \in EnqueueDelays :
       store' = [store EXCEPT ![t] =
                   [state |-> "queued", attempts |-> 0, delayed |-> delayed, mid |-> 0]]
  /\ EnqueueGoes(t, "publish")
  /\ UNCHANGED <<stream, delivered, pending, stale, reserved, mids, slot, counts>>

\* XADD
EnqueuePublish(t) ==
  /\ call[t].pc = "publish"
  /\ stream' = Append(stream, t)
  /\ EnqueueReturns(t, t)
  /\ UNCHANGED <<delivered, pending, stale, store, reserved, mids, slot, counts>>

Enqueue(t) ==
  \/ EnqueueGet(t) \/ EnqueueReserve(t) \/ EnqueueReload(t)
  \/ EnqueuePersist(t) \/ EnqueuePublish(t)

-----------------------------------------------------------------------------
(* dequeue()                                                               *)

\* The task a slot is working on, and its entry in _message_ids.
TaskOf(s) == stream[slot[s].got]
MidOf(s) == mids[ProcOf[s]][TaskOf(s)]

SetMid(s, id) == mids' = [mids EXCEPT ![ProcOf[s]][TaskOf(s)] = id]

Goes(s, label) == slot' = [slot EXCEPT ![s].pc = label]

\* The next call is sent, with an envelope and a message id at hand.
Carries(s, label, env, id) ==
  slot' = [slot EXCEPT ![s] =
             [pc |-> label, via |-> @.via, got |-> @.got, env |-> env, arg |-> id]]

\* The envelope of a delivery, and an envelope in a new state.
Running(env) ==
  [state |-> "running", attempts |-> env.attempts + 1, delayed |-> env.delayed, mid |-> env.mid]
InState(env, state, delayed) ==
  [state |-> state, attempts |-> env.attempts, delayed |-> delayed, mid |-> env.mid]

\* _run_once() is over.
Rests(s) == slot' = [slot EXCEPT ![s] = IdleSlot]

\* _consume_messages() returns None: after the pending messages dequeue() reads
\* new ones, after the new ones it returns.
GivesUp(s) ==
  slot' = [slot EXCEPT ![s] = SlotAt(IF slot[s].via = "claim" THEN "read" ELSE "rest")]

\* _run_batch(): gather() has waited for the last coroutine of the process, and
\* run() starts the next batch.
Batch(p) ==
  /\ \A s \in Slots : ProcOf[s] = p => slot[s].pc = "rest"
  /\ slot' = [s \in Slots |-> IF ProcOf[s] = p THEN SlotAt("claim") ELSE slot[s]]
  /\ UNCHANGED <<redis, mids, call, counts>>

\* A message arrives: _message_ids[task_id] = message_id, then HGETALL is sent.
Receives(s, id, via) ==
  /\ mids' = [mids EXCEPT ![ProcOf[s]][stream[id]] = id]
  /\ slot' = [slot EXCEPT ![s] =
                [pc |-> "load", via |-> via, got |-> id, env |-> NoEnvelope, arg |-> 0]]

\* Mutant: min_idle_time=0, any pending message is claimed.
ClaimAny(s) ==
  /\ slot[s].pc = "claim"
  /\ \/ \E id \in pending : /\ stale' = stale \ {id}
                            /\ Receives(s, id, "claim")
     \/ /\ Goes(s, "read")
        /\ UNCHANGED <<stale, mids>>
  /\ UNCHANGED <<stream, delivered, pending, store, reserved, call, counts>>

\* Mutant: pending messages are never recovered.
ClaimNothing(s) ==
  /\ slot[s].pc = "claim"
  /\ Goes(s, "read")
  /\ UNCHANGED <<redis, mids, call, counts>>

\* XAUTOCLAIM from 0-0 with count=1: the oldest stale entry, if there is one.
Claim(s) ==
  /\ slot[s].pc = "claim"
  /\ \/ \E id \in stale :
          /\ \A other \in stale : id <= other
          /\ stale' = stale \ {id}
          /\ Receives(s, id, "claim")
     \/ /\ stale = {}
        /\ Goes(s, "read")
        /\ UNCHANGED <<stale, mids>>
  /\ UNCHANGED <<stream, delivered, pending, store, reserved, call, counts>>

\* XREADGROUP > with count=1
ReadNew(s) ==
  /\ slot[s].pc = "read"
  /\ IF delivered < Len(stream)
     THEN /\ delivered' = delivered + 1
          /\ pending' = pending \cup {delivered + 1}
          /\ Receives(s, delivered + 1, "read")
     ELSE /\ Rests(s)
          /\ UNCHANGED <<delivered, pending, mids>>
  /\ UNCHANGED <<stream, stale, store, reserved, call, counts>>

\* _load(): the message id in the hash replaces the entry of _message_ids.
MidAfterLoad(s) == IF store[TaskOf(s)].mid # 0 THEN store[TaskOf(s)].mid ELSE MidOf(s)

MayPublish == Len(stream) < MaxMessages

\* Mutant: the state of the task is not looked at.
LoadAnyState(s) ==
  LET env == store[TaskOf(s)]
  IN /\ slot[s].pc = "load"
     /\ ~env.delayed /\ env.attempts < MaxDeliveries
     /\ SetMid(s, MidAfterLoad(s))
     /\ Carries(s, "start", Running(env), MidAfterLoad(s))
     /\ UNCHANGED <<redis, call, counts>>

\* HGETALL of dequeue(): a message of a settled or delayed task is dropped, any
\* other is delivered.
Load(s) ==
  LET env == store[TaskOf(s)]
      drop == env.state \notin Live \/ env.delayed
  IN /\ slot[s].pc = "load"
     /\ IF drop THEN env.delayed => MayPublish ELSE env.attempts < MaxDeliveries
     /\ SetMid(s, MidAfterLoad(s))
     /\ IF drop THEN Carries(s, "ackDropped", env, MidAfterLoad(s))
                ELSE Carries(s, "start", Running(env), MidAfterLoad(s))
     /\ UNCHANGED <<redis, call, counts>>

\* XACK id by some slot.
Acks(id) ==
  /\ pending' = pending \ {id}
  /\ stale' = stale \ {id}

\* XACK of a dropped message; a delayed task is published again.
AckDropped(s) ==
  /\ slot[s].pc = "ackDropped"
  /\ Acks(slot[s].arg)
  /\ SetMid(s, 0)
  /\ IF slot[s].env.state \in Live THEN Goes(s, "republish") ELSE GivesUp(s)
  /\ UNCHANGED <<stream, delivered, store, reserved, call, counts>>

Republish(s) ==
  /\ slot[s].pc = "republish"
  /\ stream' = Append(stream, TaskOf(s))
  /\ GivesUp(s)
  /\ UNCHANGED <<delivered, pending, stale, store, reserved, mids, call, counts>>

\* HSET of an envelope: the field of the message id is written only when
\* _message_ids had an entry, and HSET leaves other fields alone.
Persists(s) ==
  store' = [store EXCEPT ![TaskOf(s)] = [slot[s].env EXCEPT
              !.mid = IF slot[s].arg # 0 THEN slot[s].arg ELSE store[TaskOf(s)].mid]]

\* Mutant: the message is acknowledged on delivery.
StartAcks(s) ==
  /\ slot[s].pc = "start"
  /\ Persists(s)
  /\ Acks(slot[s].got)
  /\ Goes(s, "run")
  /\ UNCHANGED <<stream, delivered, reserved, mids, call, counts>>

\* HSET of the running envelope; the handler is called with it.
Start(s) ==
  /\ slot[s].pc = "start"
  /\ Persists(s)
  /\ Goes(s, "run")
  /\ UNCHANGED <<stream, delivered, pending, stale, reserved, mids, call, counts>>

-----------------------------------------------------------------------------
(* TaskWorker._process_task(), then complete(), retry() or dead_letter().  *)

\* The slot keeps the verdict in the state of its envelope.
Verdict(s) == slot[s].env.state

Decides(s, verdict) ==
  /\ Carries(s, "settleLoad", InState(slot[s].env, verdict, slot[s].env.delayed), 0)
  /\ UNCHANGED <<redis, mids, call, counts>>

HandlerReturns(s) ==
  /\ slot[s].pc = "run"
  /\ TaskOf(s) \in Handled
  /\ Decides(s, "completed")

HandlerRaises(s) ==
  /\ slot[s].pc = "run"
  /\ TaskOf(s) \in Handled
  /\ IF slot[s].env.attempts < MaxAttempts
     THEN MayPublish /\ Decides(s, "queued")
     ELSE Decides(s, "dead_lettered")

NoHandler(s) ==
  /\ slot[s].pc = "run"
  /\ TaskOf(s) \notin Handled
  /\ Decides(s, "dead_lettered")

\* HGETALL of complete(), retry() and dead_letter(): the new state is put on the
\* envelope as it is stored now, not as it was delivered.
SettleLoad(s) ==
  LET env == store[TaskOf(s)]
  IN /\ slot[s].pc = "settleLoad"
     /\ SetMid(s, MidAfterLoad(s))
     /\ \E delayed \in IF Verdict(s) = "queued" THEN RetryDelays ELSE {env.delayed} :
          Carries(s, "settlePersist", InState(env, Verdict(s), delayed), MidAfterLoad(s))
     /\ UNCHANGED <<redis, call, counts>>

\* HSET; the id to acknowledge is looked up again afterwards, and _ack() does
\* nothing when another slot of the process has popped it.
SettlePersist(s) ==
  /\ slot[s].pc = "settlePersist"
  /\ Persists(s)
  /\ IF MidOf(s) # 0
     THEN Carries(s, "settleAck", slot[s].env, MidOf(s))
     ELSE IF Verdict(s) = "queued" THEN Goes(s, "settlePublish") ELSE Rests(s)
  /\ UNCHANGED <<stream, delivered, pending, stale, reserved, mids, call, counts>>

\* Mutant: retry() acknowledges and does not publish.
SettleAckOnly(s) ==
  /\ slot[s].pc = "settleAck"
  /\ Acks(slot[s].arg)
  /\ Rests(s)
  /\ UNCHANGED <<stream, delivered, store, reserved, mids, call, counts>>

\* XACK; retry() alone forgets the message id.
SettleAck(s) ==
  /\ slot[s].pc = "settleAck"
  /\ Acks(slot[s].arg)
  /\ IF Verdict(s) = "queued"
     THEN Goes(s, "settlePublish") /\ SetMid(s, 0)
     ELSE Rests(s) /\ UNCHANGED mids
  /\ UNCHANGED <<stream, delivered, store, reserved, call, counts>>

\* XADD of retry()
SettlePublish(s) ==
  /\ slot[s].pc = "settlePublish"
  /\ stream' = Append(stream, TaskOf(s))
  /\ Rests(s)
  /\ UNCHANGED <<delivered, pending, stale, store, reserved, mids, call, counts>>

Work(s) ==
  \/ Claim(s) \/ ReadNew(s) \/ Load(s) \/ AckDropped(s) \/ Republish(s) \/ Start(s)
  \/ HandlerReturns(s) \/ HandlerRaises(s) \/ NoHandler(s)
  \/ SettleLoad(s) \/ SettlePersist(s) \/ SettleAck(s) \/ SettlePublish(s)

-----------------------------------------------------------------------------
(* Time and failures                                                       *)

Holds(s, id) == slot[s].got = id

\* A pending message has been idle for pending_min_idle_ms.
GrowStale(id) ==
  /\ id \in pending \ stale
  /\ \/ /\ \A s \in Slots : ~Holds(s, id)
        /\ UNCHANGED overruns
     \/ /\ \E s \in Slots : Holds(s, id)
        /\ overruns < MaxOverruns
        /\ overruns' = overruns + 1
  /\ stale' = stale \cup {id}
  /\ UNCHANGED <<stream, delivered, pending, store, reserved, mids, slot, call, crashes>>

\* available_at of a task is reached, in Redis and in every loaded copy.
Elapse(t) ==
  /\ store[t].delayed
  /\ store' = [store EXCEPT ![t].delayed = FALSE]
  /\ slot' = [s \in Slots |->
       IF slot[s].got # 0 /\ TaskOf(s) = t THEN [slot[s] EXCEPT !.env.delayed = FALSE]
       ELSE slot[s]]
  /\ UNCHANGED <<stream, delivered, pending, stale, reserved, mids, call, counts>>

\* A worker process dies and is restarted with a new queue object.
Crash(p) ==
  /\ crashes < MaxCrashes
  /\ crashes' = crashes + 1
  /\ slot' = [s \in Slots |-> IF ProcOf[s] = p THEN IdleSlot ELSE slot[s]]
  /\ mids' = [mids EXCEPT ![p] = [t \in Tasks |-> 0]]
  /\ UNCHANGED <<redis, call, overruns>>

\* The process that called enqueue() dies between two calls.
EnqueueCrash(t) ==
  /\ crashes < MaxCrashes
  /\ call[t].pc \in {"persist", "publish"}
  /\ crashes' = crashes + 1
  /\ EnqueueGoes(t, "crashed")
  /\ UNCHANGED <<redis, mids, slot, overruns>>

Next ==
  \/ \E t \in Tasks : Enqueue(t) \/ Elapse(t) \/ EnqueueCrash(t)
  \/ \E s \in Slots : Work(s)
  \/ \E id \in pending : GrowStale(id)
  \/ \E p \in Procs : Batch(p) \/ Crash(p)

Spec == Init /\ [][Next]_vars

\* A call of enqueue() may never come, one that has stored its task goes on; a
\* worker loops as long as its process lives and its handlers return; time passes.
Fairness ==
  /\ \A t \in Tasks : WF_vars(EnqueuePublish(t)) /\ WF_vars(Elapse(t))
  /\ \A s \in Slots : WF_vars(Work(s))
  /\ \A p \in Procs : WF_vars(Batch(p))
  /\ \A id \in 1 .. MaxMessages : WF_vars(GrowStale(id))

FairSpec == Spec /\ Fairness

-----------------------------------------------------------------------------
(* Properties                                                              *)

\* enqueue() of a repeated idempotency key creates no second task: the race
\* between GET and SET NX leaves one stored task for each key.
OneTaskPerKey ==
  \A t, u \in Tasks :
    /\ KeyOf[t] = KeyOf[u] /\ KeyOf[t] # NoKey
    /\ store[t].state # "absent" /\ store[u].state # "absent"
    => t = u

\* Every message leads to a stored task, so that _load() in dequeue() never
\* meets an empty hash (a KeyError there ends the worker at every delivery).
MessagesHaveTasks == \A id \in 1 .. Len(stream) : store[stream[id]].state # "absent"

\* A task that is not settled is on its way: a message of it is unread or pending,
\* or some coroutine is yet to publish one or to settle the task.
Underway(t) ==
  \/ \E id \in 1 .. Len(stream) : stream[id] = t /\ (id > delivered \/ id \in pending)
  \/ call[t].pc = "publish"
  \/ \E s \in Slots : slot[s].got # 0 /\ TaskOf(s) = t

\* The messages of t after the one that its hash names.
Retries(t) ==
  {id \in 1 .. Len(stream) : stream[id] = t /\ store[t].mid # 0 /\ id > store[t].mid}

\* No message of t has been in two hands: none was held past pending_min_idle_ms, and t was
\* published again once at most since its first delivery.  The message of a retry is not
\* acknowledged, since _load() brings back the id in the hash, so the next retry is a double.
Undoubled(t) == overruns = 0 /\ \A i, j \in Retries(t) : i = j

\* Unless a process dies, no interleaving of deliveries, retries and
\* acknowledgements, late ones included, leaves an unsettled task without message.
NoTaskLost ==
  crashes = 0 => \A t \in Tasks : store[t].state \in Live => Underway(t)

\* Only the death of a process between two Redis calls loses a task: of a caller
\* of enqueue() before XADD, or of a worker between the XACK and the XADD with
\* which a delayed or failed task is published again.
LosesTask(t) ==
  store[t].state \in Live /\ Underway(t) /\ ~Underway(t)' /\ Undoubled(t)
OnlyGapsLoseTasks ==
  [][\A t \in Tasks : LosesTask(t) =>
       \/ EnqueueCrash(t)
       \/ \E s \in Slots : /\ slot[s].pc \in {"republish", "settlePublish"}
                           /\ TaskOf(s) = t
                           /\ Crash(ProcOf[s])]_vars

\* The handler of a task runs in one coroutine at a time, as long as the task is not doubled.
OneRunner ==
  \A r, s \in Slots :
    /\ slot[r].pc = "run" /\ slot[s].pc = "run"
    /\ TaskOf(r) = TaskOf(s) /\ Undoubled(TaskOf(r))
    => r = s

\* After a crash too, a task that is still underway is settled in the end, unless a
\* later crash loses it: pending messages of dead workers are recovered.
UnderwayTasksSettle ==
  \A t \in Tasks :
    store[t].state \in Live /\ Underway(t) ~> store[t].state \in Settled \/ ~Underway(t)

\* The retry policy bounds the deliveries: docs/plugins.md:1526.
AttemptsWithinMax == \A t \in Tasks : store[t].attempts <= MaxAttempts

\* docs/plugins.md:1523: a repeated key returns the original task.
RepeatedKeyReturnsTask == \A t \in Tasks : call[t].pc # "keyError"

\* The hash of a task goes through the states TaskLifecycle allows.
StateOf == [t \in Tasks |-> store[t].state]
AttemptsOf == [t \in Tasks |-> store[t].attempts]
ExactlyOnce == INSTANCE TaskLifecycle
  WITH state <- StateOf, attempts <- AttemptsOf, Redelivery <- FALSE
AtLeastOnce == INSTANCE TaskLifecycle
  WITH state <- StateOf, attempts <- AttemptsOf, Redelivery <- TRUE
ImplementsLifecycle == ExactlyOnce!Spec
ImplementsRedelivery == AtLeastOnce!Spec

\* A stored task is settled in the end.
EveryTaskSettles == \A t \in Tasks : store[t].state \in Live ~> store[t].state \in Settled
=============================================================================
