-------------------------- MODULE BrokerTaskQueue --------------------------
(***************************************************************************)
(* BrokerTaskQueue (plugins/tasks/adapters/_broker.py) over SQS, Kafka or  *)
(* Celery: worker processes whose coroutines share a cache of tasks and of *)
(* receipts, and a broker whose messages carry the envelope.  An SQS       *)
(* message is hidden for a while by each delivery; a Celery message until  *)
(* its connection closes; Kafka redelivers, after a restart, what comes    *)
(* after the committed position, if there is one: kafka.py leaves          *)
(* auto_offset_reset at its default, by which a group that has committed   *)
(* nothing begins at the end of the topic.  A step is a call to the broker *)
(* with the code up to the next one.                                       *)
(***************************************************************************)
EXTENDS Naturals, Sequences, FiniteSets

CONSTANTS
  Jobs,          \* tasks: enqueue() is called once for each
  Known,         \* the tasks whose name has a handler
  Procs, Coros,  \* worker processes and their coroutines
  Deployments,   \* [kind, home]: a broker and the process of each coroutine, "none" if
                 \* unused; Celery and Kafka (one partition) are given one process
  MaxTries,      \* TaskEnvelope.max_attempts
  MaxSends,      \* bound on messages
  MaxFaults      \* bound on crashes, and on expiries in the middle of a handler

VARIABLES
  deployed,   \* the member of Deployments
  log,        \* the bodies of the messages in the order sent; ids are indices
  last,       \* the coroutine each was last delivered to, which has its valid receipt
  held,       \* messages that are hidden
  gone,       \* messages deleted, acknowledged or committed
  position,   \* of the Kafka consumer
  joined,     \* the consumer has been given its position
  skipped,    \* the first messages of the log, which it began behind
  recent,     \* FIFO: tasks whose deduplication id is remembered
  cache,      \* attempts of the envelopes in _tasks, for each process
  receipts,   \* _receipts
  coro,       \* what each coroutine does: its pc, envelope and receipt
  settled,    \* tasks completed or dead-lettered
  runs,       \* how often each task was given to its handler since the last fault
  overruns,   \* deliveries that expired in the middle of a handler
  crashes     \* deaths of a process

offsets == <<position, joined, skipped>>
broker == <<log, last, held, gone, offsets, recent>>
past == <<runs, overruns, crashes>>
queueVars == <<deployed, broker, cache, receipts, coro, settled, past>>

kind == deployed.kind
Home(c) == deployed.home[c]
Ids == 1 .. Len(log)

NoReceipt == [id |-> 0, by |-> "none"]
Body(t, tries, delayed) == [task |-> t, attempts |-> tries, delayed |-> delayed]
NoRuns == [t \in Jobs |-> 0]
Idle == [pc |-> "rest", body |-> <<>>, receipt |-> NoReceipt]

Init ==
  /\ deployed \in Deployments
  /\ log = <<>> /\ last = [i \in 1 .. MaxSends |-> "none"]
  /\ held = {} /\ gone = {} /\ recent = {}
  /\ position = 0 /\ joined = FALSE /\ skipped = 0
  /\ cache = [p \in Procs |-> [t \in Jobs |-> 0]]
  /\ receipts = [p \in Procs |-> [t \in Jobs |-> NoReceipt]]
  /\ coro = [c \in Coros |-> Idle]
  /\ settled = {} /\ runs = NoRuns /\ overruns = 0 /\ crashes = 0

-----------------------------------------------------------------------------
(* The broker                                                              *)

\* A FIFO queue drops a message whose deduplication id it remembers: the key or id
\* of the task.
Sends(body) ==
  /\ Len(log) < MaxSends
  /\ log' = IF body.task \in recent THEN log ELSE Append(log, body)
  /\ recent' = IF kind = "fifo" THEN recent \cup {body.task} ELSE recent

Visible ==
  CASE kind = "kafka" -> IF joined THEN {position + 1} \cap Ids ELSE {}
    [] kind = "fifo" -> {i \in Ids \ gone : held \subseteq gone /\ 1 .. i - 1 \subseteq gone}
    [] OTHER -> Ids \ (held \cup gone)

\* Kafka commits the position of the consumer, whatever the receipt; SQS may or may
\* not delete a message by a handle that is not its last.
Acks(receipt) ==
  IF kind = "kafka" THEN gone' = 1 .. position
  ELSE \/ gone' = gone \cup {receipt.id}
       \/ last[receipt.id] # receipt.by /\ gone' = gone

-----------------------------------------------------------------------------
(* BrokerTaskQueue and the worker                                          *)

Does(c, pc, body, receipt) ==
  coro' = [coro EXCEPT ![c] = [pc |-> pc, body |-> body, receipt |-> receipt]]
Rests(c) == coro' = [coro EXCEPT ![c] = Idle]

Job(c) == coro[c].body.task
SetReceipt(c, t, receipt) == receipts' = [receipts EXCEPT ![Home(c)][t] = receipt]

\* enqueue(), in any process; on Kafka in the workers' own, since the queue object of a
\* process that only sends joins the consumer group too and may be given the partition.
Submit(t) ==
  /\ \A i \in Ids : log[i].task # t
  /\ \E delay \in IF kind = "fifo" THEN {FALSE} ELSE BOOLEAN : Sends(Body(t, 0, delay))
  /\ UNCHANGED <<deployed, last, held, gone, offsets, cache, receipts, coro, settled, past>>

\* _ensure_started() starts the Kafka consumer, which takes up what has been committed.
Start(c) ==
  /\ kind = "kafka" /\ ~joined
  /\ coro[c].pc = "rest" /\ Home(c) # "none"
  /\ joined' = TRUE
  /\ position' = IF gone = {} THEN Len(log) ELSE Cardinality(gone)
  /\ skipped' = IF gone = {} THEN Len(log) ELSE skipped
  /\ UNCHANGED <<deployed, log, last, held, gone, recent, cache, receipts, coro, settled, past>>

\* Of the messages that come while its Consumer closes _receive_sync() returns the first;
\* the others have been received too, and nobody handles or acknowledges them.
Dropped(i) == IF kind = "celery" THEN SUBSET (Visible \ {i}) ELSE {{}}

\* dequeue(); every body says "queued".  A task that came too early is deferred.
Receive(c) ==
  /\ coro[c].pc = "rest" /\ Home(c) # "none"
  /\ \E i \in Visible :
       LET t == log[i].task
           receipt == [id |-> i, by |-> c]
           tries == log[i].attempts + 1 IN
       /\ last' = [last EXCEPT ![i] = c]
       /\ IF kind = "kafka"
          THEN position' = i /\ UNCHANGED held
          ELSE UNCHANGED position /\ \E others \in Dropped(i) : held' = held \cup {i} \cup others
       /\ SetReceipt(c, t, receipt)
       /\ IF log[i].delayed
          THEN Does(c, "defer", log[i], receipt) /\ UNCHANGED <<cache, runs>>
          ELSE /\ cache' = [cache EXCEPT ![Home(c)][t] = tries]
               /\ runs' = [runs EXCEPT ![t] = @ + 1]
               /\ Does(c, "run", Body(t, tries, FALSE), receipt)
  /\ UNCHANGED <<deployed, log, gone, joined, skipped, recent, settled, overruns, crashes>>

\* The wait for a message ends without one, and those that come then are dropped.
Miss(c) ==
  /\ kind = "celery" /\ coro[c].pc = "rest" /\ Home(c) # "none"
  /\ \E others \in SUBSET Visible : held' = held \cup others
  /\ UNCHANGED <<deployed, log, last, gone, offsets, recent, cache, receipts, coro, settled, past>>

\* Mutant: a deferred task is acknowledged and not sent again.
DeferDrops(c) ==
  /\ coro[c].pc = "defer"
  /\ Does(c, "deferred", coro[c].body, coro[c].receipt)
  /\ UNCHANGED <<deployed, broker, cache, receipts, settled, past>>

\* _defer(): SQS changes the visibility of the message; it is sent again otherwise.
Defer(c) ==
  /\ coro[c].pc = "defer"
  /\ IF kind \in {"sqs", "fifo"}
     THEN SetReceipt(c, Job(c), NoReceipt) /\ Rests(c) /\ UNCHANGED broker
     ELSE /\ Sends(coro[c].body)
          /\ Does(c, "deferred", coro[c].body, coro[c].receipt)
          /\ UNCHANGED <<last, held, gone, offsets, receipts>>
  /\ UNCHANGED <<deployed, cache, settled, past>>

Deferred(c) ==
  /\ coro[c].pc = "deferred"
  /\ Acks(coro[c].receipt)
  /\ SetReceipt(c, Job(c), NoReceipt)
  /\ Rests(c)
  /\ UNCHANGED <<deployed, log, last, held, offsets, recent, cache, settled, past>>

\* Mutant: the receipt is forgotten and the message not acknowledged.
AckTaskForgets(c) == SetReceipt(c, Job(c), NoReceipt) /\ Rests(c)

\* _ack_task(): the receipt is the one _receipts has for the task by now.
AckTask(c) ==
  LET receipt == receipts[Home(c)][Job(c)] IN
  /\ SetReceipt(c, Job(c), NoReceipt)
  /\ IF receipt = NoReceipt THEN Rests(c) ELSE Does(c, "ack", coro[c].body, receipt)

Complete(c) ==
  /\ coro[c].pc = "run" /\ Job(c) \in Known
  /\ settled' = settled \cup {Job(c)}
  /\ AckTask(c)
  /\ UNCHANGED <<deployed, broker, cache, past>>

\* The handler raises: retry() sends the envelope _tasks has by now.
Raise(c) ==
  /\ coro[c].pc = "run" /\ Job(c) \in Known
  /\ coro[c].body.attempts < MaxTries
  /\ \E delay \in IF kind = "fifo" THEN {FALSE} ELSE BOOLEAN :
       Does(c, "retry", Body(Job(c), cache[Home(c)][Job(c)], delay), coro[c].receipt)
  /\ UNCHANGED <<deployed, broker, cache, receipts, settled, past>>

\* Mutant: the failed message is acknowledged before the next one is sent.
AckBeforeRetry(c) ==
  /\ coro[c].pc = "retry"
  /\ IF coro[c].receipt.id \in gone
     THEN Sends(coro[c].body) /\ Rests(c) /\ UNCHANGED gone
     ELSE Acks(coro[c].receipt) /\ UNCHANGED <<log, recent, coro>>
  /\ UNCHANGED <<deployed, last, held, offsets, cache, receipts, settled, past>>

SendRetry(c) ==
  /\ coro[c].pc = "retry"
  /\ Sends(coro[c].body)
  /\ AckTask(c)
  /\ UNCHANGED <<deployed, last, held, gone, offsets, cache, settled, past>>

\* dead_letter(): the copy is sent to the dead-letter queue first.
DeadLetter(c) ==
  /\ coro[c].pc = "run"
  /\ Job(c) \in Known => coro[c].body.attempts >= MaxTries
  /\ Does(c, "dead", coro[c].body, coro[c].receipt)
  /\ UNCHANGED <<deployed, broker, cache, receipts, settled, past>>

SendDead(c) ==
  /\ coro[c].pc = "dead"
  /\ settled' = settled \cup {Job(c)}
  /\ AckTask(c)
  /\ UNCHANGED <<deployed, broker, cache, past>>

Ack(c) ==
  /\ coro[c].pc = "ack"
  /\ Acks(coro[c].receipt)
  /\ Rests(c)
  /\ UNCHANGED <<deployed, log, last, held, offsets, recent, cache, receipts, settled, past>>

-----------------------------------------------------------------------------
(* Time and faults                                                         *)

\* The visibility timeout of an SQS message ends, with its handler running or not.
Expire(i) ==
  /\ kind \in {"sqs", "fifo"} /\ i \in held \ gone
  /\ held' = held \ {i}
  /\ IF \E c \in Coros : coro[c].pc # "rest" /\ coro[c].receipt.id = i
     THEN overruns + crashes < MaxFaults /\ overruns' = overruns + 1 /\ runs' = NoRuns
     ELSE UNCHANGED <<overruns, runs>>
  /\ UNCHANGED <<deployed, log, last, gone, offsets, recent, cache, receipts, coro, settled, crashes>>

Elapse(i) ==
  /\ i \in Ids \ gone /\ log[i].delayed
  /\ log' = [log EXCEPT ![i].delayed = FALSE]
  /\ UNCHANGED <<deployed, last, held, gone, offsets, recent, cache, receipts, coro, settled, past>>

Forget(t) ==
  /\ t \in recent
  /\ recent' = recent \ {t}
  /\ UNCHANGED <<deployed, log, last, held, gone, offsets, cache, receipts, coro, settled, past>>

\* A process dies and is started again; its Celery connection closes with it, and its
\* Kafka consumer has to be given a position anew.
Crash(p) ==
  /\ \E c \in Coros : Home(c) = p /\ coro[c].pc # "rest"
  /\ overruns + crashes < MaxFaults
  /\ crashes' = crashes + 1 /\ runs' = NoRuns
  /\ coro' = [c \in Coros |-> IF Home(c) = p THEN Idle ELSE coro[c]]
  /\ cache' = [cache EXCEPT ![p] = [t \in Jobs |-> 0]]
  /\ receipts' = [receipts EXCEPT ![p] = [t \in Jobs |-> NoReceipt]]
  /\ held' = IF kind = "celery" THEN {} ELSE held
  /\ joined' = FALSE
  /\ UNCHANGED <<deployed, log, last, gone, position, skipped, recent, settled, overruns>>

Work(c) ==
  \/ Start(c) \/ Receive(c) \/ Defer(c) \/ Deferred(c) \/ Complete(c) \/ Raise(c) \/ SendRetry(c)
  \/ DeadLetter(c) \/ SendDead(c) \/ Ack(c)

Next ==
  \/ \E t \in Jobs : Submit(t) \/ Forget(t)
  \/ \E c \in Coros : Work(c) \/ Miss(c)
  \/ \E i \in Ids : Expire(i) \/ Elapse(i)
  \/ \E p \in Procs : Crash(p)

Spec == Init /\ [][Next]_queueVars

\* A worker polls on as long as its process lives, handlers return and time passes.
Fairness ==
  /\ \A c \in Coros : WF_queueVars(Work(c))
  /\ \A i \in 1 .. MaxSends : WF_queueVars(Expire(i)) /\ WF_queueVars(i \in Ids /\ Elapse(i))

FairSpec == Spec /\ Fairness

-----------------------------------------------------------------------------
(* Properties                                                              *)

Working(c) == coro[c].pc # "rest"
OnBroker(t) == \E i \in Ids \ gone : i > skipped /\ log[i].task = t
Submitted(t) == \E i \in Ids : log[i].task = t

\* The Kafka consumer began behind a message of the task.
Skipped(t) == \E i \in 1 .. skipped : log[i].task = t

\* A message of the task was received and dropped, until the Celery connection closes.
Stranded(t) ==
  kind = "celery" /\ \E i \in held \ gone : log[i].task = t /\ \A c \in Coros : coro[c].receipt.id # i

\* Coroutines that share a process, and so its cache and receipts.
Concurrent == \E b, c \in Coros : b # c /\ Home(b) = Home(c) /\ Home(b) # "none"
Undisturbed == overruns = 0 /\ crashes = 0

QueueTypeOK ==
  /\ log \in Seq([task: Jobs, attempts: Nat, delayed: BOOLEAN])
  /\ held \cup gone \subseteq Ids /\ settled \subseteq Jobs
  /\ \A c \in Coros :
       /\ coro[c].pc \in {"rest", "run", "defer", "deferred", "retry", "dead", "ack"}
       /\ Working(c) => coro[c].receipt.id \in Ids /\ log[coro[c].receipt.id].task = Job(c)

\* A task stays on the broker until it is settled, whatever crashes or expires, but for
\* Kafka.  There a task is skipped if its message was sent, or received and not yet
\* acknowledged, when a consumer started and nothing had ever been committed: before the
\* first start and after a crash before the first commit.  And when coroutines share a
\* consumer the commit of one covers the messages the others work on, which a crash then
\* loses.
NoJobLost ==
  \A t \in Jobs : Submitted(t) /\ t \notin settled /\ ~OnBroker(t) =>
    /\ kind = "kafka"
    /\ \/ Skipped(t)
       \/ Concurrent /\ (crashes > 0 \/ \E c \in Coros : Working(c) /\ Job(c) = t)

\* Where every process runs one coroutine, a handler is given an envelope whose attempts
\* are within max_attempts, whatever crashes.  A delivery that is repeated counts from the
\* attempts of its body again, so with a crash or an overrun handlers may run oftener.
TriesWithinMax ==
  ~Concurrent => \A c \in Coros : coro[c].pc = "run" => coro[c].body.attempts <= MaxTries

\* Without a crash or overrun, where every process runs one coroutine, all the messages of
\* a task, the first and those of its retries and deferrals, run its handler max_attempts
\* times at most.
RunsWithinMax == Undisturbed /\ ~Concurrent => \A t \in Jobs : runs[t] <= MaxTries

\* Without crash or overrun a settled task is not run again; on SQS that takes one
\* coroutine for each process, because _ack_task() after retry() may take the receipt
\* of the retry that another coroutine has received meanwhile.
SettledStaysSettled ==
  Undisturbed /\ (kind = "sqs" => ~Concurrent) =>
    \A c \in Coros : coro[c].pc = "run" => Job(c) \notin settled

\* Redelivery and retries run a task as the retry policy and the broker allow.
JobsRunAsPromised == QueueTypeOK /\ TriesWithinMax /\ RunsWithinMax /\ SettledStaysSettled

\* A submitted task is settled in the end, where none is lost as above or received by
\* Celery's client and dropped.
EveryJobSettles ==
  \A t \in Jobs :
    Submitted(t) ~> \/ t \in settled
                    \/ kind = "kafka" /\ (Concurrent \/ Skipped(t))
                    \/ Stranded(t)
                    \/ Len(log) = MaxSends

\* docs/plugins.md:1526: a task whose handler has raised is retried until max_attempts.
FailedJobsAreRetried ==
  \A t \in Jobs : Submitted(t) /\ t \notin settled => OnBroker(t)
=============================================================================
