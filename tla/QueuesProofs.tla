---------------------------- MODULE QueuesProofs ----------------------------
(***************************************************************************)
(* The queues on a broker, for any number of tasks, processes and          *)
(* coroutines, with any number of crashes and overruns: which tasks the    *)
(* broker keeps, and what handlers are given and how often.                *)
(***************************************************************************)
EXTENDS Queues, FiniteSetTheorems, TLAPS

Bodies == [task: Jobs, attempts: Nat, delayed: BOOLEAN]
Receipts == [id: Nat, by: Coros \cup {"none"}]
Handling == {"run", "defer", "retry", "dead"}
Acknowledging == {"ack", "deferred"}
Works == [pc: Handling \cup Acknowledging, body: Bodies, receipt: Receipts]

\* The receipt r of a process for task t is that of a message of t in the log q.
ReceiptOK(r, t, q) ==
  r = Broker!NoReceipt \/ (r \in Receipts /\ r.id \in 1 .. Len(q) /\ q[r.id].task = t)

\* A coroutine rests, or works on a message of its task.
WorkOK(k, q) ==
  \/ k = Broker!Idle
  \/ k \in Works /\ k.receipt.id \in 1 .. Len(q) /\ q[k.receipt.id].task = k.body.task

LogOK ==
  /\ log \in Seq(Bodies) /\ Len(log) <= MaxSends
  /\ held \subseteq Broker!Ids /\ gone \subseteq Broker!Ids /\ position \in 0 .. Len(log)
  /\ joined \in BOOLEAN /\ skipped \in 0 .. Len(log) /\ (Broker!kind # "kafka" => skipped = 0)
  /\ last \in [1 .. MaxSends -> Coros \cup {"none"}]
  /\ Broker!kind # "fifo" => recent = {}
  /\ \A t \in settled : t \in Jobs /\ Broker!Submitted(t)

WorkersOK ==
  /\ deployed \in Deployments
  /\ cache \in [Procs -> [Jobs -> Nat]]
  /\ receipts \in [Procs -> [Jobs -> Receipts]]
  /\ \A p \in Procs, t \in Jobs : ReceiptOK(receipts[p][t], t, log)
  /\ coro \in [Coros -> {Broker!Idle} \cup Works]
  /\ \A c \in Coros : WorkOK(coro[c], log)
  /\ \A c \in Coros : Broker!Working(c) => Broker!Home(c) \in Procs
  /\ runs \in [Jobs -> Nat] /\ overruns \in Nat /\ crashes \in Nat

BrokerTypeOK == LogOK /\ WorkersOK

-----------------------------------------------------------------------------
(* What the steps do, field by field                                       *)

\* The coroutine alone has changed what it does.
Alone(c) == coro' \in [Coros -> {Broker!Idle} \cup Works] /\ \A d \in Coros \ {c} : coro'[d] = coro[d]

\* Messages are added; those that are there keep task and attempts.
Grows(q, r) ==
  /\ r \in Seq(Bodies) /\ Len(q) <= Len(r) /\ Len(r) <= MaxSends
  /\ \A i \in 1 .. Len(q) : r[i].task = q[i].task /\ r[i].attempts = q[i].attempts

\* The process has receipt r of task t, and its others as before.
Keeps(p, t, r) ==
  /\ receipts' \in [Procs -> [Jobs -> Receipts]]
  /\ receipts'[p][t] = r
  /\ \A o \in Procs, u \in Jobs : o # p \/ u # t => receipts'[o][u] = receipts[o][u]

\* A message with this body is the last one now, unless it was dropped.
Sent(body) ==
  \/ log' = log /\ body.task \in recent
  \/ log' = Append(log, body) /\ Len(log') = Len(log) + 1 /\ log'[Len(log')] = body

LEMMA WorkTypes ==
  ASSUME BrokerTypeOK, NEW c \in Coros, coro[c].pc # "rest"
  PROVE  /\ coro[c] \in Works /\ Broker!Job(c) \in Jobs /\ Broker!Home(c) \in Procs
         /\ coro[c].body \in Bodies /\ coro[c].body.task = Broker!Job(c)
         /\ coro[c].receipt.id \in Broker!Ids /\ log[coro[c].receipt.id].task = Broker!Job(c)
         /\ coro[c].receipt \in Receipts
<1>1. coro[c] # Broker!Idle
  BY DEF Broker!Idle
<1>2. coro[c] \in Works /\ WorkOK(coro[c], log)
  BY <1>1 DEF BrokerTypeOK, WorkersOK
<1>3. Broker!Home(c) \in Procs
  BY DEF BrokerTypeOK, WorkersOK, Broker!Working
<1> QED
  BY <1>1, <1>2, <1>3 DEF WorkOK, Works, Bodies, Broker!Job, Broker!Ids

LEMMA SameGrows == ASSUME BrokerTypeOK PROVE Grows(log, log)
BY DEF BrokerTypeOK, LogOK, Grows

LEMMA AppendGrows ==
  ASSUME BrokerTypeOK, NEW body \in Bodies, Len(log) < MaxSends
  PROVE  /\ Grows(log, Append(log, body))
         /\ Len(Append(log, body)) = Len(log) + 1
         /\ Append(log, body)[Len(log) + 1] = body
<1>1. log \in Seq(Bodies) /\ Len(log) \in Nat /\ MaxSends \in Nat
  BY TriesAssumption DEF BrokerTypeOK, LogOK
<1>2. Append(log, body) \in Seq(Bodies) /\ Len(Append(log, body)) = Len(log) + 1
  BY <1>1
<1>3. \A i \in 1 .. Len(log) : Append(log, body)[i] = log[i]
  BY <1>1
<1> QED
  BY <1>1, <1>2, <1>3 DEF Grows

LEMMA SendsDoes ==
  ASSUME BrokerTypeOK, NEW body \in Bodies, Broker!Sends(body)
  PROVE  /\ Grows(log, log') /\ Sent(body)
         /\ Broker!kind # "fifo" => recent' = {} /\ log' = Append(log, body)
<1>1. Broker!kind # "fifo" => recent = {} /\ recent' = recent
  BY DEF BrokerTypeOK, LogOK, Broker!Sends
<1>2. CASE body.task \in recent
  <2>1. log' = log
    BY <1>2 DEF Broker!Sends
  <2> QED
    BY <1>1, <1>2, <2>1, SameGrows DEF Sent
<1>3. CASE body.task \notin recent
  <2>1. log' = Append(log, body) /\ Len(log) < MaxSends
    BY <1>3 DEF Broker!Sends
  <2> QED
    BY <1>1, <2>1, AppendGrows DEF Sent
<1> QED
  BY <1>2, <1>3

\* Of a coroutine at work: what it does next.
LEMMA DoesDoes ==
  ASSUME BrokerTypeOK, NEW c \in Coros, NEW pc \in Handling \cup Acknowledging,
         NEW body \in Bodies, NEW receipt \in Receipts, Broker!Does(c, pc, body, receipt)
  PROVE  /\ Alone(c) /\ coro'[c] = [pc |-> pc, body |-> body, receipt |-> receipt]
         /\ coro'[c].pc = pc /\ coro'[c].body = body /\ coro'[c].receipt = receipt
<1>1. [pc |-> pc, body |-> body, receipt |-> receipt] \in Works
  BY DEF Works
<1> QED
  BY <1>1 DEF BrokerTypeOK, WorkersOK, Broker!Does, Alone

LEMMA RestsDoes ==
  ASSUME BrokerTypeOK, NEW c \in Coros, Broker!Rests(c)
  PROVE  Alone(c) /\ coro'[c] = Broker!Idle /\ coro'[c].pc = "rest"
BY DEF BrokerTypeOK, WorkersOK, Broker!Rests, Broker!Idle, Alone

LEMMA SetReceiptDoes ==
  ASSUME BrokerTypeOK, NEW c \in Coros, NEW t \in Jobs, NEW r \in Receipts,
         Broker!Home(c) \in Procs, Broker!SetReceipt(c, t, r)
  PROVE  Keeps(Broker!Home(c), t, r)
<1> DEFINE p == Broker!Home(c)
<1>1. receipts \in [Procs -> [Jobs -> Receipts]] /\ p \in Procs
  BY DEF BrokerTypeOK, WorkersOK
<1>2. receipts' = [receipts EXCEPT ![p] = [receipts[p] EXCEPT ![t] = r]]
  BY DEF Broker!SetReceipt
<1>3. [receipts[p] EXCEPT ![t] = r] \in [Jobs -> Receipts]
  BY <1>1
<1> QED
  BY <1>1, <1>2, <1>3 DEF Keeps

LEMMA NoReceiptType == Broker!NoReceipt \in Receipts /\ Broker!NoReceipt.id = 0
BY DEF Broker!NoReceipt, Receipts

\* _ack_task(): the coroutine rests, or acknowledges the receipt that its process has.
AckTakes(c) ==
  /\ Alone(c) /\ Keeps(Broker!Home(c), Broker!Job(c), Broker!NoReceipt)
  /\ \/ coro'[c] = Broker!Idle /\ receipts[Broker!Home(c)][Broker!Job(c)] = Broker!NoReceipt
     \/ /\ receipts[Broker!Home(c)][Broker!Job(c)] # Broker!NoReceipt
        /\ coro'[c] \in Works /\ coro'[c].pc = "ack" /\ coro'[c].body = coro[c].body
        /\ coro'[c].receipt = receipts[Broker!Home(c)][Broker!Job(c)]

LEMMA AckTaskDoes ==
  ASSUME BrokerTypeOK, NEW c \in Coros, coro[c].pc # "rest", Broker!AckTask(c)
  PROVE  AckTakes(c)
<1>1. PICK p, t : p = Broker!Home(c) /\ t = Broker!Job(c)
  OBVIOUS
<1>2. p \in Procs /\ t \in Jobs /\ coro[c].body \in Bodies
  BY <1>1, WorkTypes
<1>3. PICK r : r = receipts[p][t]
  OBVIOUS
<1>4. r \in Receipts
  BY <1>2, <1>3 DEF BrokerTypeOK, WorkersOK
<1>5. Keeps(p, t, Broker!NoReceipt)
  BY <1>1, <1>2, NoReceiptType, SetReceiptDoes DEF Broker!AckTask
<1>6. CASE r = Broker!NoReceipt
  <2>1. Broker!Rests(c)
    BY <1>1, <1>3, <1>6 DEF Broker!AckTask
  <2> QED
    BY <1>1, <1>3, <1>5, <1>6, <2>1, RestsDoes DEF AckTakes
<1>7. CASE r # Broker!NoReceipt
  <2>1. Broker!Does(c, "ack", coro[c].body, r)
    BY <1>1, <1>3, <1>7 DEF Broker!AckTask
  <2>2. /\ Alone(c) /\ coro'[c] = [pc |-> "ack", body |-> coro[c].body, receipt |-> r]
        /\ coro'[c].pc = "ack" /\ coro'[c].body = coro[c].body /\ coro'[c].receipt = r
    BY <1>2, <1>4, <2>1, DoesDoes DEF Acknowledging
  <2>3. coro'[c] \in Works
    BY <1>2, <1>4, <2>2 DEF Works, Acknowledging
  <2> QED
    BY <1>1, <1>3, <1>5, <1>7, <2>2, <2>3 DEF AckTakes
<1> QED
  BY <1>6, <1>7

\* What is not of the broker, but for the coroutines and receipts.
Apart == UNCHANGED <<deployed, cache, settled, runs, overruns, crashes>>

\* The message is hidden, others too by the client of Celery, or the position behind it.
TakesOff(i) ==
  /\ Broker!kind = "kafka" => joined /\ position' = i /\ held' = held
  /\ Broker!kind # "kafka" => position' = position /\ held \cup {i} \subseteq held'
  /\ Broker!kind \notin {"kafka", "celery"} => held' = held \cup {i}
  /\ held' \subseteq Broker!Ids

\* dequeue(): the coroutine has a message that was visible.
Takes(c, i) ==
  /\ coro[c].pc = "rest" /\ Broker!Home(c) \in Procs
  /\ i \in Broker!Visible /\ i \in Broker!Ids /\ log[i] \in Bodies
  /\ Alone(c) /\ coro'[c].receipt = [id |-> i, by |-> c] /\ Broker!Job(c)' = log[i].task
  /\ coro'[c] \in Works
  /\ last' \in [1 .. MaxSends -> Coros \cup {"none"}] /\ last'[i] = c
  /\ \A j \in 1 .. MaxSends : j # i => last'[j] = last[j]
  /\ TakesOff(i)
  /\ Keeps(Broker!Home(c), log[i].task, [id |-> i, by |-> c])
  /\ cache' \in [Procs -> [Jobs -> Nat]]
  /\ \A p \in Procs, t \in Jobs :
       p # Broker!Home(c) \/ t # log[i].task => cache'[p][t] = cache[p][t]
  /\ \/ /\ coro'[c].pc = "defer" /\ cache' = cache
        /\ coro'[c].body.attempts = log[i].attempts
     \/ /\ coro'[c].pc = "run"
        /\ coro'[c].body.attempts = log[i].attempts + 1
        /\ cache'[Broker!Home(c)][log[i].task] = log[i].attempts + 1
  /\ runs' = IF coro'[c].pc = "run" THEN [runs EXCEPT ![log[i].task] = @ + 1] ELSE runs
  /\ UNCHANGED <<deployed, log, gone, joined, skipped, recent, settled, overruns, crashes>>

LEMMA VisibleIds == ASSUME BrokerTypeOK PROVE Broker!Visible \subseteq Broker!Ids
BY DEF Broker!Visible

LEMMA ReceiveTakes ==
  ASSUME BrokerTypeOK, NEW i \in Broker!Visible,
         IF Broker!kind = "kafka"
         THEN position' = i /\ UNCHANGED held
         ELSE UNCHANGED position /\ \E others \in Broker!Dropped(i) : held' = held \cup {i} \cup others
  PROVE  TakesOff(i)
<1>1. held \subseteq Broker!Ids /\ i \in Broker!Ids /\ (Broker!kind = "kafka" => joined)
  BY VisibleIds DEF BrokerTypeOK, LogOK, Broker!Visible
<1>2. CASE Broker!kind = "kafka"
  BY <1>1, <1>2 DEF TakesOff
<1>3. CASE Broker!kind # "kafka"
  <2>1. PICK others \in Broker!Dropped(i) : held' = held \cup {i} \cup others
    BY <1>3
  <2>2. others \subseteq Broker!Ids /\ (Broker!kind # "celery" => others = {})
    BY <2>1, VisibleIds DEF Broker!Dropped
  <2> QED
    BY <1>1, <1>3, <2>1, <2>2 DEF TakesOff
<1> QED
  BY <1>2, <1>3

LEMMA ReceiveDoes ==
  ASSUME BrokerTypeOK, NEW c \in Coros, Broker!Receive(c)
  PROVE  \E i \in Broker!Ids : Takes(c, i)
<1>1. coro[c].pc = "rest" /\ Broker!Home(c) # "none"
  BY DEF Broker!Receive
<1>2. PICK p : p = Broker!Home(c)
  OBVIOUS
<1>3. p \in Procs
  BY <1>1, <1>2, DeploymentsAssumption DEF Broker!Home, BrokerTypeOK, WorkersOK
<1>4. PICK i \in Broker!Visible :
        /\ last' = [last EXCEPT ![i] = c]
        /\ IF Broker!kind = "kafka"
           THEN position' = i /\ UNCHANGED held
           ELSE /\ UNCHANGED position
                /\ \E others \in Broker!Dropped(i) : held' = held \cup {i} \cup others
        /\ Broker!SetReceipt(c, log[i].task, [id |-> i, by |-> c])
        /\ IF log[i].delayed
           THEN Broker!Does(c, "defer", log[i], [id |-> i, by |-> c]) /\ UNCHANGED <<cache, runs>>
           ELSE /\ runs' = [runs EXCEPT ![log[i].task] = @ + 1]
                /\ cache' = [cache EXCEPT ![p][log[i].task] = log[i].attempts + 1]
                /\ Broker!Does(c, "run", Broker!Body(log[i].task, log[i].attempts + 1, FALSE),
                               [id |-> i, by |-> c])
  BY <1>2 DEF Broker!Receive
<1>5. /\ UNCHANGED <<deployed, log, gone, joined, skipped, recent, settled, overruns, crashes>>
      /\ i \in Broker!Ids /\ i \in 1 .. MaxSends /\ i \in Nat /\ log[i] \in Bodies
  BY VisibleIds, TriesAssumption
  DEF Broker!Receive, Broker!past, Broker!offsets, Broker!Ids, BrokerTypeOK, LogOK
<1>6. PICK t, tries : t = log[i].task /\ tries = log[i].attempts
  OBVIOUS
<1>7. t \in Jobs /\ tries \in Nat
  BY <1>5, <1>6 DEF Bodies
<1>8. [id |-> i, by |-> c] \in Receipts
  BY <1>5 DEF Receipts
<1>9. Keeps(p, t, [id |-> i, by |-> c])
  BY <1>2, <1>3, <1>4, <1>6, <1>7, <1>8, SetReceiptDoes
<1>10. /\ last' \in [1 .. MaxSends -> Coros \cup {"none"}] /\ last'[i] = c
       /\ \A j \in 1 .. MaxSends : j # i => last'[j] = last[j]
  BY <1>4, <1>5 DEF BrokerTypeOK, LogOK
<1>13. TakesOff(i)
  BY <1>4, ReceiveTakes
<1>11. CASE log[i].delayed
  <2>1. /\ Alone(c) /\ coro'[c].pc = "defer" /\ coro'[c].body = log[i]
        /\ coro'[c].receipt = [id |-> i, by |-> c]
        /\ coro'[c] = [pc |-> "defer", body |-> log[i], receipt |-> [id |-> i, by |-> c]]
    BY <1>4, <1>5, <1>8, <1>11, DoesDoes DEF Handling
  <2>2. coro'[c] \in Works
    BY <1>5, <1>8, <2>1 DEF Works, Handling
  <2>3. cache' = cache /\ runs' = runs /\ cache \in [Procs -> [Jobs -> Nat]]
    BY <1>4, <1>11 DEF BrokerTypeOK, WorkersOK
  <2>4. Broker!Job(c)' = log[i].task
    BY <2>1 DEF Broker!Job
  <2> QED
    BY <1>1, <1>2, <1>3, <1>4, <1>5, <1>6, <1>9, <1>10, <1>13, <2>1, <2>2, <2>3, <2>4 DEF Takes
<1>12. CASE ~log[i].delayed
  <2>0. PICK body : body = Broker!Body(t, tries + 1, FALSE)
    OBVIOUS
  <2>1. body \in Bodies /\ body.task = t /\ body.attempts = tries + 1
    BY <1>7, <2>0 DEF Broker!Body, Bodies
  <2>6. Broker!Does(c, "run", body, [id |-> i, by |-> c])
    BY <1>4, <1>6, <1>12, <2>0
  <2>2. /\ Alone(c) /\ coro'[c].pc = "run" /\ coro'[c].body = body
        /\ coro'[c].receipt = [id |-> i, by |-> c]
        /\ coro'[c] = [pc |-> "run", body |-> body, receipt |-> [id |-> i, by |-> c]]
    BY <1>8, <2>1, <2>6, DoesDoes DEF Handling
  <2>3. coro'[c] \in Works
    BY <1>8, <2>1, <2>2 DEF Works, Handling
  <2>4. /\ cache' \in [Procs -> [Jobs -> Nat]] /\ cache'[p][t] = tries + 1
        /\ \A o \in Procs, u \in Jobs : o # p \/ u # t => cache'[o][u] = cache[o][u]
    <3>1. cache \in [Procs -> [Jobs -> Nat]]
      BY DEF BrokerTypeOK, WorkersOK
    <3>2. cache' = [cache EXCEPT ![p] = [cache[p] EXCEPT ![t] = tries + 1]]
      BY <1>4, <1>6, <1>12
    <3>3. [cache[p] EXCEPT ![t] = tries + 1] \in [Jobs -> Nat]
      BY <1>3, <1>7, <3>1
    <3> QED
      BY <1>3, <1>7, <3>1, <3>2, <3>3
  <2>5. Broker!Job(c)' = t
    BY <2>1, <2>2 DEF Broker!Job
  <2>7. /\ coro'[c].pc = "run" /\ coro'[c].body.attempts = log[i].attempts + 1
        /\ cache'[p][log[i].task] = log[i].attempts + 1
        /\ \A o \in Procs, u \in Jobs : o # p \/ u # log[i].task => cache'[o][u] = cache[o][u]
    BY <1>6, <2>1, <2>2, <2>4
  <2>8. Keeps(p, log[i].task, [id |-> i, by |-> c]) /\ Broker!Job(c)' = log[i].task
    BY <1>6, <1>9, <2>5
  <2>9. runs' = [runs EXCEPT ![log[i].task] = @ + 1]
    BY <1>4, <1>12
  <2> QED
    BY <1>1, <1>2, <1>3, <1>5, <1>10, <1>13, <2>2, <2>3, <2>4, <2>7, <2>8, <2>9 DEF Takes
<1> QED
  BY <1>11, <1>12

\* The client of Celery drops messages.
LEMMA MissDoes ==
  ASSUME BrokerTypeOK, NEW c \in Coros, Broker!Miss(c)
  PROVE  /\ Broker!kind = "celery" /\ held \subseteq held' /\ held' \subseteq Broker!Ids
         /\ Apart /\ UNCHANGED <<log, last, gone, position, joined, skipped, recent, receipts, coro>>
<1>1. held \subseteq Broker!Ids /\ Broker!Visible \subseteq Broker!Ids
  BY VisibleIds DEF BrokerTypeOK, LogOK
<1>2. PICK others \in SUBSET Broker!Visible : held' = held \cup others
  BY DEF Broker!Miss
<1> QED
  BY <1>1, <1>2 DEF Broker!Miss, Broker!offsets, Broker!past, Apart

\* The coroutine goes to pc, on the message it has.
GoesTo(c, pc) ==
  /\ Alone(c) /\ coro'[c].pc = pc /\ coro'[c] \in Works
  /\ coro'[c].receipt = coro[c].receipt /\ coro'[c].body.task = coro[c].body.task

\* _ensure_started() of the Kafka consumer
LEMMA StartDoes ==
  ASSUME BrokerTypeOK, NEW c \in Coros, Broker!Start(c)
  PROVE  /\ Broker!kind = "kafka" /\ ~joined /\ joined' = TRUE
         /\ gone = {} => position' = Len(log) /\ skipped' = Len(log)
         /\ gone # {} => position' = Broker!Cardinality(gone) /\ skipped' = skipped
         /\ Apart /\ UNCHANGED <<log, last, held, gone, recent, receipts, coro>>
BY DEF Broker!Start, Broker!past, Apart

\* What the broker has is as before.
Unsent == UNCHANGED <<log, last, held, gone, position, joined, skipped, recent>>

\* enqueue()
LEMMA SubmitDoes ==
  ASSUME BrokerTypeOK, NEW t \in Jobs, Broker!Submit(t)
  PROVE  /\ \A i \in Broker!Ids : log[i].task # t
         /\ \E body \in Bodies : body.task = t /\ body.attempts = 0 /\ Sent(body)
         /\ Grows(log, log') /\ (Broker!kind # "fifo" => recent' = {} /\ log' # log)
         /\ Apart /\ UNCHANGED <<last, held, gone, position, joined, skipped, receipts, coro>>
<1>1. PICK delay \in BOOLEAN : Broker!Sends(Broker!Body(t, 0, delay))
  BY DEF Broker!Submit
<1>2. PICK body : body = Broker!Body(t, 0, delay)
  OBVIOUS
<1>3. body \in Bodies /\ body.task = t /\ body.attempts = 0
  BY <1>2 DEF Broker!Body, Bodies
<1>4. /\ Grows(log, log') /\ Sent(body)
      /\ Broker!kind # "fifo" => recent' = {} /\ log' = Append(log, body)
  BY <1>1, <1>2, <1>3, SendsDoes
<1>5. log \in Seq(Bodies)
  BY DEF BrokerTypeOK, LogOK
<1>6. Append(log, body) # log
  BY <1>3, <1>5
<1> QED
  BY <1>3, <1>4, <1>6 DEF Broker!Submit, Broker!past, Broker!offsets, Apart

\* _defer()
LEMMA DeferDoes ==
  ASSUME BrokerTypeOK, NEW c \in Coros, Broker!Defer(c)
  PROVE  /\ coro[c].pc = "defer" /\ Apart
         /\ \/ /\ Broker!kind \in {"sqs", "fifo"} /\ Unsent
               /\ Alone(c) /\ coro'[c] = Broker!Idle
               /\ Keeps(Broker!Home(c), Broker!Job(c), Broker!NoReceipt)
            \/ /\ Broker!kind \notin {"sqs", "fifo"} /\ recent' = {}
               /\ Grows(log, log') /\ log' = Append(log, coro[c].body)
               /\ GoesTo(c, "deferred")
               /\ UNCHANGED <<last, held, gone, position, joined, skipped, receipts>>
<1>1. coro[c].pc = "defer" /\ Apart
  BY DEF Broker!Defer, Broker!past, Broker!offsets, Apart
<1>2. PICK t : t = Broker!Job(c)
  OBVIOUS
<1>3. /\ t \in Jobs /\ Broker!Home(c) \in Procs /\ coro[c].body \in Bodies
      /\ coro[c].receipt \in Receipts
  BY <1>1, <1>2, WorkTypes
<1>4. CASE Broker!kind \in {"sqs", "fifo"}
  <2>1. Broker!SetReceipt(c, t, Broker!NoReceipt) /\ Broker!Rests(c) /\ Unsent
    BY <1>2, <1>4 DEF Broker!Defer, Broker!broker, Broker!offsets, Unsent
  <2> QED
    BY <1>1, <1>2, <1>3, <1>4, <2>1, RestsDoes, SetReceiptDoes, NoReceiptType
<1>5. CASE Broker!kind \notin {"sqs", "fifo"}
  <2>1. /\ Broker!Sends(coro[c].body)
        /\ Broker!Does(c, "deferred", coro[c].body, coro[c].receipt)
        /\ UNCHANGED <<last, held, gone, position, joined, skipped, receipts>>
    BY <1>5 DEF Broker!Defer, Broker!offsets
  <2>2. /\ Alone(c) /\ coro'[c].pc = "deferred" /\ coro'[c].body = coro[c].body
        /\ coro'[c].receipt = coro[c].receipt
        /\ coro'[c] = [pc |-> "deferred", body |-> coro[c].body, receipt |-> coro[c].receipt]
    BY <1>3, <2>1, DoesDoes DEF Acknowledging
  <2>3. coro'[c] \in Works
    BY <1>3, <2>2 DEF Works, Acknowledging
  <2> QED
    BY <1>1, <1>3, <1>5, <2>1, <2>2, <2>3, SendsDoes DEF GoesTo
<1> QED
  BY <1>4, <1>5

\* A message is acknowledged: by its receipt, or on Kafka by the position.
Acknowledged(receipt) ==
  /\ Broker!kind = "kafka" => gone' = 1 .. position
  /\ Broker!kind # "kafka" =>
       gone' = gone \cup {receipt.id} \/ (gone' = gone /\ last[receipt.id] # receipt.by)

LEMMA DeferredDoes ==
  ASSUME BrokerTypeOK, NEW c \in Coros, Broker!Deferred(c)
  PROVE  /\ coro[c].pc = "deferred" /\ Acknowledged(coro[c].receipt) /\ Apart
         /\ Alone(c) /\ coro'[c] = Broker!Idle
         /\ Keeps(Broker!Home(c), Broker!Job(c), Broker!NoReceipt)
         /\ UNCHANGED <<log, last, held, position, joined, skipped, recent>>
<1>1. coro[c].pc = "deferred" /\ Broker!Rests(c)
  BY DEF Broker!Deferred
<1>2. Broker!Job(c) \in Jobs /\ Broker!Home(c) \in Procs
  BY <1>1, WorkTypes
<1>3. Keeps(Broker!Home(c), Broker!Job(c), Broker!NoReceipt)
  BY <1>2, SetReceiptDoes, NoReceiptType DEF Broker!Deferred
<1>4. Acknowledged(coro[c].receipt)
  BY DEF Broker!Deferred, Broker!Acks, Acknowledged
<1> QED
  BY <1>1, <1>3, <1>4, RestsDoes DEF Broker!Deferred, Broker!past, Broker!offsets, Apart

LEMMA AckDoes ==
  ASSUME BrokerTypeOK, NEW c \in Coros, Broker!Ack(c)
  PROVE  /\ coro[c].pc = "ack" /\ Acknowledged(coro[c].receipt) /\ Apart
         /\ Alone(c) /\ coro'[c] = Broker!Idle
         /\ UNCHANGED <<log, last, held, position, joined, skipped, recent, receipts>>
<1>1. coro[c].pc = "ack" /\ Broker!Rests(c)
  BY DEF Broker!Ack
<1>2. Acknowledged(coro[c].receipt)
  BY DEF Broker!Ack, Broker!Acks, Acknowledged
<1> QED
  BY <1>1, <1>2, RestsDoes DEF Broker!Ack, Broker!past, Broker!offsets, Apart

\* complete() and, behind the copy, dead_letter()
SettlesJob(c) ==
  /\ settled' = settled \cup {Broker!Job(c)} /\ AckTakes(c) /\ Unsent
  /\ UNCHANGED <<deployed, cache, runs, overruns, crashes>>

LEMMA SettleDoes ==
  ASSUME BrokerTypeOK, NEW c \in Coros, Broker!Complete(c) \/ Broker!SendDead(c)
  PROVE  coro[c].pc \in {"run", "dead"} /\ SettlesJob(c)
<1>1. coro[c].pc \in {"run", "dead"} /\ Broker!AckTask(c)
  BY DEF Broker!Complete, Broker!SendDead
<1>2. AckTakes(c)
  BY <1>1, AckTaskDoes
<1> QED
  BY <1>1, <1>2 DEF Broker!Complete, Broker!SendDead, Broker!broker, Broker!past, Broker!offsets, SettlesJob, Unsent

LEMMA RaiseDoes ==
  ASSUME BrokerTypeOK, NEW c \in Coros, Broker!Raise(c)
  PROVE  /\ coro[c].pc = "run" /\ coro[c].body.attempts < MaxTries
         /\ GoesTo(c, "retry") /\ Apart /\ Unsent /\ UNCHANGED receipts
         /\ coro'[c].body.attempts = cache[Broker!Home(c)][Broker!Job(c)]
<1>1. coro[c].pc = "run" /\ coro[c].body.attempts < MaxTries
  BY DEF Broker!Raise
<1>2. PICK p, t : p = Broker!Home(c) /\ t = Broker!Job(c)
  OBVIOUS
<1>3. p \in Procs /\ t \in Jobs /\ coro[c].receipt \in Receipts /\ coro[c].body.task = t
  BY <1>1, <1>2, WorkTypes
<1>4. cache[p][t] \in Nat
  BY <1>3 DEF BrokerTypeOK, WorkersOK
<1>5. PICK delay \in BOOLEAN :
        Broker!Does(c, "retry", Broker!Body(t, cache[p][t], delay), coro[c].receipt)
  BY <1>2 DEF Broker!Raise
<1>6. PICK body : body = Broker!Body(t, cache[p][t], delay)
  OBVIOUS
<1>7. body \in Bodies /\ body.task = t /\ body.attempts = cache[p][t]
  BY <1>3, <1>4, <1>6 DEF Broker!Body, Bodies
<1>8. /\ Alone(c) /\ coro'[c].pc = "retry" /\ coro'[c].body = body
      /\ coro'[c].receipt = coro[c].receipt
      /\ coro'[c] = [pc |-> "retry", body |-> body, receipt |-> coro[c].receipt]
  BY <1>3, <1>5, <1>6, <1>7, DoesDoes DEF Handling
<1>9. coro'[c] \in Works
  BY <1>3, <1>7, <1>8 DEF Works, Handling
<1> QED
  BY <1>1, <1>2, <1>3, <1>7, <1>8, <1>9
  DEF Broker!Raise, Broker!broker, Broker!past, Broker!offsets, GoesTo, Apart, Unsent

\* retry()
LEMMA SendRetryDoes ==
  ASSUME BrokerTypeOK, NEW c \in Coros, Broker!SendRetry(c)
  PROVE  /\ coro[c].pc = "retry" /\ AckTakes(c) /\ Apart
         /\ Grows(log, log') /\ Sent(coro[c].body)
         /\ Broker!kind # "fifo" => recent' = {} /\ log' = Append(log, coro[c].body)
         /\ UNCHANGED <<last, held, gone, position, joined, skipped>>
<1>1. coro[c].pc = "retry" /\ Broker!AckTask(c) /\ Broker!Sends(coro[c].body)
  BY DEF Broker!SendRetry
<1>2. coro[c].body \in Bodies
  BY <1>1, WorkTypes
<1> QED
  BY <1>1, <1>2, AckTaskDoes, SendsDoes DEF Broker!SendRetry, Broker!past, Broker!offsets, Apart

LEMMA DeadLetterDoes ==
  ASSUME BrokerTypeOK, NEW c \in Coros, Broker!DeadLetter(c)
  PROVE  coro[c].pc = "run" /\ GoesTo(c, "dead") /\ Apart /\ Unsent /\ UNCHANGED receipts
<1>1. coro[c].pc = "run" /\ Broker!Does(c, "dead", coro[c].body, coro[c].receipt)
  BY DEF Broker!DeadLetter
<1>2. coro[c].receipt \in Receipts /\ coro[c].body \in Bodies
  BY <1>1, WorkTypes
<1>3. /\ Alone(c) /\ coro'[c].pc = "dead" /\ coro'[c].body = coro[c].body
      /\ coro'[c].receipt = coro[c].receipt
      /\ coro'[c] = [pc |-> "dead", body |-> coro[c].body, receipt |-> coro[c].receipt]
  BY <1>1, <1>2, DoesDoes DEF Handling
<1>4. coro'[c] \in Works
  BY <1>2, <1>3 DEF Works, Handling
<1> QED
  BY <1>1, <1>3, <1>4
  DEF Broker!DeadLetter, Broker!broker, Broker!past, Broker!offsets, GoesTo, Apart, Unsent

\* A message is visible again.
LEMMA ExpireDoes ==
  ASSUME BrokerTypeOK, NEW i \in Broker!Ids, Broker!Expire(i)
  PROVE  /\ Broker!kind \in {"sqs", "fifo"} /\ held' = held \ {i}
         /\ overruns' \in Nat /\ runs' \in [Jobs -> Nat] /\ (overruns' = 0 => runs' = runs)
         /\ overruns' # 0 \/ \A c \in Coros : coro[c].pc # "rest" => coro[c].receipt.id # i
         /\ UNCHANGED <<deployed, log, last, gone, position, joined, skipped, recent, cache, receipts, coro,
                        settled, crashes>>
         /\ overruns' = 0 => overruns = 0
<1>1. overruns \in Nat /\ runs \in [Jobs -> Nat]
  BY DEF BrokerTypeOK, WorkersOK
<1>2. Broker!NoRuns \in [Jobs -> Nat]
  BY DEF Broker!NoRuns
<1>3. \/ overruns' = overruns + 1 /\ runs' = Broker!NoRuns
      \/ /\ overruns' = overruns /\ runs' = runs
         /\ \A c \in Coros : coro[c].pc # "rest" => coro[c].receipt.id # i
  BY DEF Broker!Expire
<1> QED
  BY <1>1, <1>2, <1>3 DEF Broker!Expire, Broker!offsets

\* A delay is over, and a deduplication id forgotten.
LEMMA ElapseDoes ==
  ASSUME BrokerTypeOK, NEW i \in Broker!Ids, Broker!Elapse(i)
  PROVE  /\ Grows(log, log') /\ Len(log') = Len(log) /\ Apart
         /\ UNCHANGED <<last, held, gone, position, joined, skipped, recent, receipts, coro>>
<1>1. log \in Seq(Bodies) /\ log[i] \in Bodies /\ log' = [log EXCEPT ![i].delayed = FALSE]
  BY DEF BrokerTypeOK, LogOK, Broker!Ids, Broker!Elapse
<1>2. PICK body : body = [log[i] EXCEPT !.delayed = FALSE]
  OBVIOUS
<1>3. body \in Bodies /\ body.task = log[i].task /\ body.attempts = log[i].attempts
  BY <1>1, <1>2 DEF Bodies
<1>4. log' = [log EXCEPT ![i] = body]
  BY <1>1, <1>2
<1>5. /\ log' \in Seq(Bodies) /\ Len(log') = Len(log)
      /\ \A j \in 1 .. Len(log) : log'[j] = IF j = i THEN body ELSE log[j]
  <2>1. log \in [1 .. Len(log) -> Bodies] /\ Len(log) \in Nat /\ i \in 1 .. Len(log)
    BY <1>1 DEF Broker!Ids
  <2>2. log' \in [1 .. Len(log) -> Bodies]
    BY <1>3, <1>4, <2>1
  <2> QED
    BY <1>4, <2>1, <2>2
<1>6. Len(log) \in Nat /\ Len(log) <= MaxSends
  BY <1>1 DEF BrokerTypeOK, LogOK
<1> QED
  BY <1>3, <1>5, <1>6 DEF Grows, Broker!Elapse, Broker!past, Broker!offsets, Apart

\* A process dies: its coroutines rest, and its cache and receipts are lost.
Dies(p) ==
  /\ crashes' = crashes + 1 /\ overruns' = overruns
  /\ coro' \in [Coros -> {Broker!Idle} \cup Works]
  /\ \A c \in Coros : coro'[c] = IF Broker!Home(c) = p THEN Broker!Idle ELSE coro[c]
  /\ \E c \in Coros : Broker!Home(c) = p /\ coro[c].pc # "rest"
  /\ cache' \in [Procs -> [Jobs -> Nat]] /\ receipts' \in [Procs -> [Jobs -> Receipts]]
  /\ \A o \in Procs, t \in Jobs :
       /\ cache'[o][t] = IF o = p THEN 0 ELSE cache[o][t]
       /\ receipts'[o][t] = IF o = p THEN Broker!NoReceipt ELSE receipts[o][t]
  /\ held' \subseteq held
  /\ joined' = FALSE /\ runs' \in [Jobs -> Nat]
  /\ UNCHANGED <<deployed, log, last, gone, position, skipped, recent, settled>>

LEMMA CrashDoes ==
  ASSUME BrokerTypeOK, NEW p \in Procs, Broker!Crash(p) PROVE Dies(p)
<1>1. /\ cache \in [Procs -> [Jobs -> Nat]] /\ receipts \in [Procs -> [Jobs -> Receipts]]
      /\ coro \in [Coros -> {Broker!Idle} \cup Works] /\ held \subseteq Broker!Ids
  BY DEF BrokerTypeOK, WorkersOK, LogOK
<1>2. PICK zeros, nothing :
        /\ zeros = [t \in Jobs |-> 0] /\ nothing = [t \in Jobs |-> Broker!NoReceipt]
  OBVIOUS
<1>3. zeros \in [Jobs -> Nat] /\ nothing \in [Jobs -> Receipts]
  BY <1>2, NoReceiptType
<1>4. cache' = [cache EXCEPT ![p] = zeros] /\ receipts' = [receipts EXCEPT ![p] = nothing]
  BY <1>2 DEF Broker!Crash
<1>5. /\ cache' \in [Procs -> [Jobs -> Nat]] /\ receipts' \in [Procs -> [Jobs -> Receipts]]
      /\ \A o \in Procs, t \in Jobs :
           /\ cache'[o][t] = IF o = p THEN 0 ELSE cache[o][t]
           /\ receipts'[o][t] = IF o = p THEN Broker!NoReceipt ELSE receipts[o][t]
  BY <1>1, <1>2, <1>3, <1>4
<1>6. coro' = [c \in Coros |-> IF Broker!Home(c) = p THEN Broker!Idle ELSE coro[c]]
  BY DEF Broker!Crash
<1>7. /\ coro' \in [Coros -> {Broker!Idle} \cup Works]
      /\ \A c \in Coros : coro'[c] = IF Broker!Home(c) = p THEN Broker!Idle ELSE coro[c]
  BY <1>1, <1>6
<1> QED
  <2>1. runs' \in [Jobs -> Nat]
    BY DEF Broker!Crash, Broker!NoRuns
  <2>2. /\ held' \subseteq held /\ joined' = FALSE
        /\ UNCHANGED <<deployed, log, last, gone, position, skipped, recent, settled>>
    BY <1>1 DEF Broker!Crash
  <2>3. /\ crashes' = crashes + 1 /\ overruns' = overruns
        /\ \E c \in Coros : Broker!Home(c) = p /\ coro[c].pc # "rest"
    BY DEF Broker!Crash
  <2> QED
    BY <1>5, <1>7, <2>1, <2>2, <2>3 DEF Dies

-----------------------------------------------------------------------------
(* Types                                                                   *)

\* The log has grown: what was true of a message in it still is.
LEMMA GrowsKeeps ==
  ASSUME BrokerTypeOK, Grows(log, log')
  PROVE  /\ Broker!Ids \subseteq Broker!Ids' /\ Len(log) \in Nat /\ Len(log') \in Nat
         /\ \A t : Broker!Submitted(t) => Broker!Submitted(t)'
         /\ \A r, t : ReceiptOK(r, t, log) => ReceiptOK(r, t, log')
         /\ \A k : WorkOK(k, log) => WorkOK(k, log')
         /\ \A i \in Broker!Ids : log'[i].task = log[i].task /\ log'[i].attempts = log[i].attempts
<1>1. log \in Seq(Bodies) /\ log' \in Seq(Bodies) /\ Len(log) <= Len(log')
  BY DEF BrokerTypeOK, LogOK, Grows
<1>2. Len(log) \in Nat /\ Len(log') \in Nat /\ 1 .. Len(log) \subseteq 1 .. Len(log')
  BY <1>1
<1>3. \A i \in 1 .. Len(log) : log'[i].task = log[i].task /\ log'[i].attempts = log[i].attempts
  BY DEF Grows
<1>4. Broker!Ids = 1 .. Len(log) /\ Broker!Ids' = 1 .. Len(log')
  BY DEF Broker!Ids
<1>5. \A t : Broker!Submitted(t) => Broker!Submitted(t)'
  BY <1>2, <1>3, <1>4 DEF Broker!Submitted
<1>6. \A r, t : ReceiptOK(r, t, log) => ReceiptOK(r, t, log')
  BY <1>2, <1>3 DEF ReceiptOK
<1>7. \A k : WorkOK(k, log) => WorkOK(k, log')
  BY <1>2, <1>3 DEF WorkOK
<1> QED
  BY <1>2, <1>3, <1>4, <1>5, <1>6, <1>7

\* What a step has to leave in order for the types to hold.
LEMMA TypeKept ==
  ASSUME BrokerTypeOK, Grows(log, log'), deployed' = deployed,
         held' \subseteq Broker!Ids', gone' \subseteq Broker!Ids', position' \in 0 .. Len(log'),
         joined' \in BOOLEAN, skipped' = skipped \/ (Broker!kind = "kafka" /\ skipped' = Len(log)),
         last' \in [1 .. MaxSends -> Coros \cup {"none"}],
         Broker!kind # "fifo" => recent' = {},
         \A t \in settled' : t \in settled \/ (t \in Jobs /\ Broker!Submitted(t)),
         cache' \in [Procs -> [Jobs -> Nat]], receipts' \in [Procs -> [Jobs -> Receipts]],
         \A p \in Procs, t \in Jobs :
           receipts'[p][t] = receipts[p][t] \/ ReceiptOK(receipts'[p][t], t, log),
         coro' \in [Coros -> {Broker!Idle} \cup Works],
         \A c \in Coros :
           \/ coro'[c] = coro[c]
           \/ WorkOK(coro'[c], log) /\ (coro'[c].pc # "rest" => Broker!Home(c) \in Procs),
         runs' \in [Jobs -> Nat], overruns' \in Nat, crashes' \in Nat
  PROVE  BrokerTypeOK'
<1>1. /\ \A t : Broker!Submitted(t) => Broker!Submitted(t)'
      /\ \A r, t : ReceiptOK(r, t, log) => ReceiptOK(r, t, log')
      /\ \A k : WorkOK(k, log) => WorkOK(k, log')
  BY GrowsKeeps
<1>2. log' \in Seq(Bodies) /\ Len(log') <= MaxSends
  BY DEF Grows
<1>3. \A t \in settled' : t \in Jobs /\ Broker!Submitted(t)'
  BY <1>1 DEF BrokerTypeOK, LogOK
<1>4. Broker!kind' = Broker!kind /\ \A c \in Coros : Broker!Home(c)' = Broker!Home(c)
  BY DEF Broker!kind, Broker!Home
<1>11. skipped' \in 0 .. Len(log') /\ (Broker!kind' # "kafka" => skipped' = 0)
  <2>1. /\ skipped \in 0 .. Len(log) /\ (Broker!kind # "kafka" => skipped = 0)
        /\ Len(log) \in Nat /\ Len(log') \in Nat /\ Len(log) <= Len(log')
    BY GrowsKeeps DEF BrokerTypeOK, LogOK, Grows
  <2> QED
    BY <1>4, <2>1
<1>5. LogOK'
  BY <1>2, <1>3, <1>4, <1>11 DEF LogOK
<1>6. \A p \in Procs, t \in Jobs : ReceiptOK(receipts'[p][t], t, log')
  BY <1>1 DEF BrokerTypeOK, WorkersOK
<1>7. \A c \in Coros : WorkOK(coro'[c], log')
  BY <1>1 DEF BrokerTypeOK, WorkersOK
<1>8. \A c \in Coros : coro'[c].pc # "rest" => Broker!Home(c)' \in Procs
  BY <1>4 DEF BrokerTypeOK, WorkersOK, Broker!Working
<1>9. deployed' \in Deployments
  BY DEF BrokerTypeOK, WorkersOK
<1>10. WorkersOK'
  BY <1>6, <1>7, <1>8, <1>9 DEF WorkersOK, Broker!Working
<1> QED
  BY <1>5, <1>10 DEF BrokerTypeOK

\* The parts of the types, for a step that leaves a part alone.
LEMMA TypeParts ==
  ASSUME BrokerTypeOK
  PROVE  /\ held \subseteq Broker!Ids /\ gone \subseteq Broker!Ids /\ position \in 0 .. Len(log)
         /\ last \in [1 .. MaxSends -> Coros \cup {"none"}]
         /\ Broker!kind # "fifo" => recent = {}
         /\ cache \in [Procs -> [Jobs -> Nat]] /\ receipts \in [Procs -> [Jobs -> Receipts]]
         /\ coro \in [Coros -> {Broker!Idle} \cup Works]
         /\ runs \in [Jobs -> Nat] /\ overruns \in Nat /\ crashes \in Nat /\ Len(log) \in Nat
         /\ joined \in BOOLEAN /\ skipped \in 0 .. Len(log) /\ (Broker!kind # "kafka" => skipped = 0)
         /\ \A p \in Procs, t \in Jobs : ReceiptOK(receipts[p][t], t, log)
         /\ Broker!Ids = 1 .. Len(log) /\ MaxSends \in Nat
<1>1. log \in Seq(Bodies)
  BY DEF BrokerTypeOK, LogOK
<1>2. Len(log) \in Nat
  BY <1>1
<1> QED
  BY <1>2, TriesAssumption DEF BrokerTypeOK, LogOK, WorkersOK, Broker!Ids

\* The receipts of a process, but for one that is cleared or is that of a message.
LEMMA KeptReceipts ==
  ASSUME BrokerTypeOK, NEW p, NEW t, NEW r, Keeps(p, t, r),
         ReceiptOK(r, t, log)
  PROVE  /\ receipts' \in [Procs -> [Jobs -> Receipts]]
         /\ \A o \in Procs, u \in Jobs :
              receipts'[o][u] = receipts[o][u] \/ ReceiptOK(receipts'[o][u], u, log)
BY DEF Keeps

LEMMA IdleOK == \A t, q : WorkOK(Broker!Idle, q) /\ ReceiptOK(Broker!NoReceipt, t, q)
BY DEF WorkOK, ReceiptOK

\* A coroutine that acknowledges has the receipt of a message of its task.
LEMMA AckTakesOK ==
  ASSUME BrokerTypeOK, NEW c \in Coros, coro[c].pc # "rest", AckTakes(c)
  PROVE  /\ WorkOK(coro'[c], log) /\ Alone(c)
         /\ coro'[c].pc # "rest" =>
              /\ coro'[c].pc = "ack" /\ Broker!Job(c)' = Broker!Job(c)
              /\ coro'[c].receipt.id \in Broker!Ids
              /\ log[coro'[c].receipt.id].task = Broker!Job(c)
              /\ coro'[c].receipt = receipts[Broker!Home(c)][Broker!Job(c)]
<1>1. CASE coro'[c] = Broker!Idle
  BY <1>1, IdleOK DEF AckTakes, Broker!Idle
<1>2. CASE coro'[c] # Broker!Idle
  <2>1. PICK p, t : p = Broker!Home(c) /\ t = Broker!Job(c)
    OBVIOUS
  <2>2. p \in Procs /\ t \in Jobs /\ coro[c].body.task = t
    BY <2>1, WorkTypes
  <2>3. /\ receipts[p][t] # Broker!NoReceipt
        /\ coro'[c] \in Works /\ coro'[c].pc = "ack" /\ coro'[c].body = coro[c].body
        /\ coro'[c].receipt = receipts[p][t] /\ Alone(c)
    BY <1>2, <2>1 DEF AckTakes
  <2>4. receipts[p][t].id \in 1 .. Len(log) /\ log[receipts[p][t].id].task = t
    BY <2>2, <2>3, TypeParts DEF ReceiptOK
  <2>5. WorkOK(coro'[c], log)
    BY <2>2, <2>3, <2>4 DEF WorkOK
  <2>6. Broker!Job(c)' = t
    BY <2>2, <2>3 DEF Broker!Job
  <2> QED
    BY <2>1, <2>3, <2>4, <2>5, <2>6 DEF Broker!Ids
<1> QED
  BY <1>1, <1>2

\* A coroutine that goes on has the message it had.
LEMMA GoesToOK ==
  ASSUME BrokerTypeOK, NEW c \in Coros, NEW pc, coro[c].pc # "rest", GoesTo(c, pc)
  PROVE  /\ WorkOK(coro'[c], log) /\ Alone(c) /\ Broker!Home(c) \in Procs
         /\ Broker!Job(c)' = Broker!Job(c)
BY WorkTypes DEF GoesTo, WorkOK, Broker!Ids, Broker!Job

\* What is acknowledged is in the log.
LEMMA AcknowledgedIds ==
  ASSUME BrokerTypeOK, NEW c \in Coros, coro[c].pc # "rest", Acknowledged(coro[c].receipt)
  PROVE  gone' \subseteq Broker!Ids
<1>1. coro[c].receipt.id \in Broker!Ids
  BY WorkTypes
<1>2. 1 .. position \subseteq Broker!Ids
  BY TypeParts
<1> QED
  BY <1>1, <1>2, TypeParts DEF Acknowledged


LEMMA TypeInit == ASSUME Broker!Init PROVE BrokerTypeOK
<1>1. deployed \in Deployments /\ log = <<>> /\ MaxSends \in Nat
  BY TriesAssumption DEF Broker!Init
<1>2. log \in Seq(Bodies) /\ Len(log) = 0
  BY <1>1
<1>10. skipped = 0 /\ joined = FALSE /\ position = 0
  BY DEF Broker!Init
<1>12. position \in 0 .. Len(log) /\ skipped \in 0 .. Len(log) /\ Len(log) <= MaxSends
  BY <1>1, <1>2, <1>10
<1>13. last \in [1 .. MaxSends -> Coros \cup {"none"}] /\ held = {} /\ gone = {}
  BY DEF Broker!Init
<1>14. recent = {} /\ settled = {}
  BY DEF Broker!Init
<1>3. LogOK
  BY <1>2, <1>10, <1>12, <1>13, <1>14 DEF LogOK
<1>4. \A t : ReceiptOK(Broker!NoReceipt, t, log) /\ WorkOK(Broker!Idle, log)
  BY IdleOK
<1>5. \A c \in Coros : coro[c] = Broker!Idle /\ coro[c].pc = "rest"
  BY DEF Broker!Init, Broker!Idle
<1>6. \A p \in Procs, t \in Jobs : receipts[p][t] = Broker!NoReceipt
  BY DEF Broker!Init
<1>7. cache \in [Procs -> [Jobs -> Nat]] /\ receipts \in [Procs -> [Jobs -> Receipts]]
  BY NoReceiptType DEF Broker!Init
<1>8. coro \in [Coros -> {Broker!Idle} \cup Works] /\ overruns \in Nat /\ crashes \in Nat
  BY DEF Broker!Init
<1>11. runs \in [Jobs -> Nat]
  BY DEF Broker!Init, Broker!NoRuns
<1>9. WorkersOK
  BY <1>1, <1>4, <1>5, <1>6, <1>7, <1>8, <1>11 DEF WorkersOK, Broker!Working
<1> QED
  BY <1>3, <1>9 DEF BrokerTypeOK

LEMMA TypeSubmit ==
  ASSUME BrokerTypeOK, NEW t \in Jobs, Broker!Submit(t) PROVE BrokerTypeOK'
<1>1. /\ Grows(log, log') /\ (Broker!kind # "fifo" => recent' = {})
      /\ Apart /\ UNCHANGED <<last, held, gone, position, joined, skipped, receipts, coro>>
  BY SubmitDoes
<1>2. Broker!Ids \subseteq Broker!Ids' /\ position' \in 0 .. Len(log')
  BY <1>1, GrowsKeeps, TypeParts DEF Grows
<1> QED
  BY <1>1, <1>2, TypeParts, TypeKept DEF Apart

LEMMA TypeReceive ==
  ASSUME BrokerTypeOK, NEW c \in Coros, Broker!Receive(c) PROVE BrokerTypeOK'
<1>1. PICK i \in Broker!Ids : Takes(c, i)
  BY ReceiveDoes
<1>2. PICK r, t : r = [id |-> i, by |-> c] /\ t = log[i].task
  OBVIOUS
<1>3. ReceiptOK(r, t, log) /\ i \in 1 .. Len(log)
  <2>1. i \in 1 .. Len(log) /\ i \in Nat
    BY TypeParts
  <2> QED
    BY <1>2, <2>1 DEF ReceiptOK, Receipts
<1>4. /\ receipts' \in [Procs -> [Jobs -> Receipts]]
      /\ \A o \in Procs, u \in Jobs :
           receipts'[o][u] = receipts[o][u] \/ ReceiptOK(receipts'[o][u], u, log)
  BY <1>1, <1>2, <1>3, KeptReceipts DEF Takes
<1>5. WorkOK(coro'[c], log) /\ Broker!Home(c) \in Procs
  <2>1. coro'[c] \in Works /\ coro'[c].receipt = r /\ coro'[c].body.task = t
    BY <1>1, <1>2 DEF Takes, Broker!Job
  <2> QED
    BY <1>1, <1>2, <1>3, <2>1 DEF Takes, WorkOK
<1>6. /\ coro' \in [Coros -> {Broker!Idle} \cup Works]
      /\ \A d \in Coros :
           \/ coro'[d] = coro[d]
           \/ WorkOK(coro'[d], log) /\ (coro'[d].pc # "rest" => Broker!Home(d) \in Procs)
  BY <1>1, <1>5 DEF Takes, Alone
<1>10. log' = log /\ gone' = gone /\ TakesOff(i)
  BY <1>1 DEF Takes
<1>7. held' \subseteq Broker!Ids' /\ gone' \subseteq Broker!Ids' /\ position' \in 0 .. Len(log')
  BY <1>3, <1>10, TypeParts DEF TakesOff, Broker!Ids
<1>11. runs' \in [Jobs -> Nat]
  <2>1. PICK tries : tries = runs[t]
    OBVIOUS
  <2>2. log[i] \in Bodies /\ runs \in [Jobs -> Nat]
    BY <1>1, TypeParts DEF Takes
  <2>3. t \in Jobs /\ tries \in Nat
    BY <1>2, <2>1, <2>2 DEF Bodies
  <2>4. runs' = [runs EXCEPT ![t] = tries + 1] \/ runs' = runs
    BY <1>1, <1>2, <2>1 DEF Takes
  <2> QED
    BY <2>2, <2>3, <2>4
<1>8. Grows(log, log')
  BY <1>1, SameGrows DEF Takes
<1>9. /\ UNCHANGED <<deployed, log, gone, joined, skipped, recent, settled, overruns, crashes>>
      /\ last' \in [1 .. MaxSends -> Coros \cup {"none"}] /\ cache' \in [Procs -> [Jobs -> Nat]]
  BY <1>1 DEF Takes
<1> QED
  BY <1>4, <1>6, <1>7, <1>8, <1>9, <1>11, TypeParts, TypeKept

\* Of the steps that add no fault and leave the cache, the types need only this.
LEMMA TypeWork ==
  ASSUME BrokerTypeOK, NEW c \in Coros, coro[c].pc # "rest", Grows(log, log'),
         UNCHANGED <<deployed, cache, runs, overruns, crashes>>,
         UNCHANGED <<last, held, position, joined, skipped>>,
         gone' \subseteq Broker!Ids, Broker!kind # "fifo" => recent' = {},
         settled' \subseteq settled \cup {Broker!Job(c)},
         \/ receipts' = receipts
         \/ Keeps(Broker!Home(c), Broker!Job(c), Broker!NoReceipt),
         Alone(c), WorkOK(coro'[c], log)
  PROVE  BrokerTypeOK'
<1>1. Broker!Ids \subseteq Broker!Ids' /\ Len(log) <= Len(log')
  BY GrowsKeeps DEF Grows
<1>2. held' \subseteq Broker!Ids' /\ gone' \subseteq Broker!Ids' /\ position' \in 0 .. Len(log')
  BY <1>1, TypeParts, GrowsKeeps
<1>3. /\ receipts' \in [Procs -> [Jobs -> Receipts]]
      /\ \A o \in Procs, u \in Jobs :
           receipts'[o][u] = receipts[o][u] \/ ReceiptOK(receipts'[o][u], u, log)
  BY TypeParts, KeptReceipts, IdleOK
<1>4. Broker!Home(c) \in Procs /\ Broker!Job(c) \in Jobs /\ Broker!Submitted(Broker!Job(c))
  BY WorkTypes DEF Broker!Submitted
<1>5. /\ coro' \in [Coros -> {Broker!Idle} \cup Works]
      /\ \A d \in Coros :
           \/ coro'[d] = coro[d]
           \/ WorkOK(coro'[d], log) /\ (coro'[d].pc # "rest" => Broker!Home(d) \in Procs)
  BY <1>4 DEF Alone
<1>6. \A t \in settled' : t \in settled \/ (t \in Jobs /\ Broker!Submitted(t))
  BY <1>4
<1> QED
  BY <1>2, <1>3, <1>5, <1>6, TypeParts, TypeKept

LEMMA TypeHandle ==
  ASSUME BrokerTypeOK, NEW c \in Coros,
         \/ Broker!Defer(c) \/ Broker!Deferred(c) \/ Broker!Complete(c) \/ Broker!Raise(c)
         \/ Broker!SendRetry(c) \/ Broker!DeadLetter(c) \/ Broker!SendDead(c) \/ Broker!Ack(c)
  PROVE  BrokerTypeOK'
<1>1. Grows(log, log) /\ gone \subseteq Broker!Ids /\ (Broker!kind # "fifo" => recent = {})
  BY SameGrows, TypeParts
<1>2. WorkOK(Broker!Idle, log)
  BY IdleOK
<1>3. CASE Broker!Defer(c)
  <2>1. coro[c].pc = "defer" /\ Apart
    BY <1>3, DeferDoes
  <2>2. CASE Broker!kind \in {"sqs", "fifo"}
    <3>1. /\ Unsent /\ Alone(c) /\ coro'[c] = Broker!Idle
          /\ Keeps(Broker!Home(c), Broker!Job(c), Broker!NoReceipt)
      BY <1>3, <2>2, DeferDoes
    <3> QED
      BY <1>1, <1>2, <2>1, <3>1, TypeWork DEF Apart, Unsent
  <2>3. CASE Broker!kind \notin {"sqs", "fifo"}
    <3>1. /\ Grows(log, log') /\ recent' = {} /\ GoesTo(c, "deferred")
          /\ UNCHANGED <<last, held, gone, position, joined, skipped, receipts>>
      BY <1>3, <2>3, DeferDoes
    <3>2. WorkOK(coro'[c], log) /\ Alone(c)
      BY <2>1, <3>1, GoesToOK
    <3> QED
      BY <1>1, <2>1, <3>1, <3>2, TypeWork DEF Apart
  <2> QED
    BY <2>2, <2>3
<1>4. CASE Broker!Deferred(c)
  <2>1. /\ coro[c].pc = "deferred" /\ Acknowledged(coro[c].receipt) /\ Apart
        /\ Alone(c) /\ coro'[c] = Broker!Idle
        /\ Keeps(Broker!Home(c), Broker!Job(c), Broker!NoReceipt)
        /\ UNCHANGED <<log, last, held, position, joined, skipped, recent>>
    BY <1>4, DeferredDoes
  <2>2. gone' \subseteq Broker!Ids
    BY <2>1, AcknowledgedIds
  <2> QED
    BY <1>1, <1>2, <2>1, <2>2, TypeWork DEF Apart
<1>5. CASE Broker!Ack(c)
  <2>1. /\ coro[c].pc = "ack" /\ Acknowledged(coro[c].receipt) /\ Apart
        /\ Alone(c) /\ coro'[c] = Broker!Idle
        /\ UNCHANGED <<log, last, held, position, joined, skipped, recent, receipts>>
    BY <1>5, AckDoes
  <2>2. gone' \subseteq Broker!Ids
    BY <2>1, AcknowledgedIds
  <2> QED
    BY <1>1, <1>2, <2>1, <2>2, TypeWork DEF Apart
<1>6. CASE Broker!Complete(c) \/ Broker!SendDead(c)
  <2>1. coro[c].pc \in {"run", "dead"} /\ SettlesJob(c)
    BY <1>6, SettleDoes
  <2>2. WorkOK(coro'[c], log) /\ Alone(c)
    BY <2>1, AckTakesOK DEF SettlesJob
  <2> QED
    BY <1>1, <2>1, <2>2, TypeWork DEF SettlesJob, AckTakes, Unsent
<1>7. CASE Broker!Raise(c) \/ Broker!DeadLetter(c)
  <2>1. PICK pc : /\ coro[c].pc = "run" /\ GoesTo(c, pc) /\ Apart /\ Unsent
                  /\ UNCHANGED receipts
    BY <1>7, RaiseDoes, DeadLetterDoes
  <2>2. WorkOK(coro'[c], log) /\ Alone(c)
    BY <2>1, GoesToOK
  <2> QED
    BY <1>1, <2>1, <2>2, TypeWork DEF Apart, Unsent
<1>8. CASE Broker!SendRetry(c)
  <2>1. /\ coro[c].pc = "retry" /\ AckTakes(c) /\ Apart /\ Grows(log, log')
        /\ Broker!kind # "fifo" => recent' = {}
        /\ UNCHANGED <<last, held, gone, position, joined, skipped>>
    BY <1>8, SendRetryDoes
  <2>2. WorkOK(coro'[c], log) /\ Alone(c)
    BY <2>1, AckTakesOK
  <2> QED
    BY <1>1, <2>1, <2>2, TypeWork DEF Apart, AckTakes
<1> QED
  BY <1>3, <1>4, <1>5, <1>6, <1>7, <1>8

LEMMA TypeTime ==
  ASSUME BrokerTypeOK, NEW i \in Broker!Ids, Broker!Expire(i) \/ Broker!Elapse(i)
  PROVE  BrokerTypeOK'
<1>1. CASE Broker!Expire(i)
  <2>1. /\ held' = held \ {i} /\ overruns' \in Nat /\ runs' \in [Jobs -> Nat]
        /\ UNCHANGED <<deployed, log, last, gone, position, joined, skipped, recent, cache, receipts, coro,
                       settled, crashes>>
    BY <1>1, ExpireDoes
  <2>2. Grows(log, log') /\ Broker!Ids' = Broker!Ids
    BY <2>1, SameGrows DEF Broker!Ids
  <2> QED
    BY <2>1, <2>2, TypeParts, TypeKept
<1>2. CASE Broker!Elapse(i)
  <2>1. /\ Grows(log, log') /\ Len(log') = Len(log) /\ Apart
        /\ UNCHANGED <<last, held, gone, position, joined, skipped, recent, receipts, coro>>
    BY <1>2, ElapseDoes
  <2>2. Broker!Ids' = Broker!Ids
    BY <2>1 DEF Broker!Ids
  <2> QED
    BY <2>1, <2>2, TypeParts, TypeKept DEF Apart
<1> QED
  BY <1>1, <1>2

LEMMA ForgetDoes ==
  ASSUME BrokerTypeOK, NEW t, Broker!Forget(t)
  PROVE  /\ Apart /\ UNCHANGED <<log, last, held, gone, position, joined, skipped, receipts, coro>>
         /\ Broker!kind # "fifo" => recent' = {}
BY TypeParts DEF Broker!Forget, Broker!past, Broker!offsets, Apart

LEMMA TypeForget == ASSUME BrokerTypeOK, NEW t, Broker!Forget(t) PROVE BrokerTypeOK'
<1>1. Grows(log, log') /\ Broker!Ids' = Broker!Ids
  BY ForgetDoes, SameGrows DEF Broker!Ids
<1> QED
  BY <1>1, ForgetDoes, TypeParts, TypeKept DEF Apart

LEMMA TypeMiss == ASSUME BrokerTypeOK, NEW c \in Coros, Broker!Miss(c) PROVE BrokerTypeOK'
<1>1. Grows(log, log') /\ Broker!Ids' = Broker!Ids
  BY MissDoes, SameGrows DEF Broker!Ids
<1> QED
  BY <1>1, MissDoes, TypeParts, TypeKept DEF Apart

\* What a consumer has committed is the start of the log.  One that has no position has
\* nobody at work, and has committed nothing if it never had one.
Committed ==
  Broker!kind = "kafka" =>
    /\ \E g \in 0 .. position : gone = 1 .. g
    /\ ~joined => \A c \in Coros : ~Broker!Working(c)
    /\ ~joined /\ crashes = 0 => gone = {}

LEMMA CommittedCounts ==
  ASSUME BrokerTypeOK, Committed, Broker!kind = "kafka"
  PROVE  /\ Broker!Cardinality(gone) \in 0 .. position
         /\ gone = 1 .. Broker!Cardinality(gone)
<1>1. PICK g \in 0 .. position : gone = 1 .. g
  BY DEF Committed
<1>2. g \in Nat
  BY <1>1, TypeParts
<1>3. Cardinality(1 .. g) = g
  BY <1>2, FS_Interval
<1>4. Broker!Cardinality(gone) = Cardinality(gone)
  BY DEF Broker!Cardinality, Cardinality
<1> QED
  BY <1>1, <1>3, <1>4

LEMMA TypeCrash ==
  ASSUME BrokerTypeOK, NEW p \in Procs, Broker!Crash(p) PROVE BrokerTypeOK'
<1>1. /\ crashes' = crashes + 1 /\ overruns' = overruns
      /\ coro' \in [Coros -> {Broker!Idle} \cup Works]
      /\ \A c \in Coros : coro'[c] = IF Broker!Home(c) = p THEN Broker!Idle ELSE coro[c]
      /\ cache' \in [Procs -> [Jobs -> Nat]] /\ receipts' \in [Procs -> [Jobs -> Receipts]]
      /\ \A o \in Procs, t \in Jobs :
           receipts'[o][t] = IF o = p THEN Broker!NoReceipt ELSE receipts[o][t]
      /\ held' \subseteq held /\ joined' = FALSE /\ runs' \in [Jobs -> Nat]
      /\ UNCHANGED <<deployed, log, last, gone, position, skipped, recent, settled>>
  <2>1. Dies(p)
    BY CrashDoes
  <2> QED
    BY <2>1 DEF Dies
<1>2. Grows(log, log') /\ Broker!Ids' = Broker!Ids
  BY <1>1, SameGrows DEF Broker!Ids
<1>4. \A c \in Coros :
        \/ coro'[c] = coro[c]
        \/ WorkOK(coro'[c], log) /\ (coro'[c].pc # "rest" => Broker!Home(c) \in Procs)
  BY <1>1, IdleOK DEF Broker!Idle
<1>5. \A o \in Procs, t \in Jobs :
        receipts'[o][t] = receipts[o][t] \/ ReceiptOK(receipts'[o][t], t, log)
  BY <1>1, IdleOK
<1>6. crashes' \in Nat /\ overruns' \in Nat
  BY <1>1, TypeParts
<1> QED
  BY <1>1, <1>2, <1>4, <1>5, <1>6, TypeParts, TypeKept

LEMMA TypeStart ==
  ASSUME BrokerTypeOK, Committed, NEW c \in Coros, Broker!Start(c) PROVE BrokerTypeOK'
<1>1. /\ Broker!kind = "kafka" /\ ~joined /\ joined' = TRUE
      /\ gone = {} => position' = Len(log) /\ skipped' = Len(log)
      /\ gone # {} => position' = Broker!Cardinality(gone) /\ skipped' = skipped
      /\ Apart /\ UNCHANGED <<log, last, held, gone, recent, receipts, coro>>
  BY StartDoes
<1>2. Grows(log, log') /\ Broker!Ids' = Broker!Ids
  BY <1>1, SameGrows DEF Broker!Ids
<1>3. position' \in 0 .. Len(log') /\ (skipped' = skipped \/ skipped' = Len(log'))
  BY <1>1, CommittedCounts, TypeParts
<1>4. UNCHANGED <<deployed, cache, settled, runs, overruns, crashes>>
  BY <1>1 DEF Apart
<1> QED
  BY <1>1, <1>2, <1>3, <1>4, TypeParts, TypeKept

-----------------------------------------------------------------------------
(* The steps of a coroutine at work, by what they do                       *)

\* Raise, DeadLetter: it goes on with its message.
GoesOn(c) ==
  /\ coro[c].pc = "run" /\ coro'[c].pc \in {"retry", "dead"}
  /\ coro'[c].receipt = coro[c].receipt /\ Broker!Job(c)' = Broker!Job(c)
  /\ coro'[c].pc = "retry" =>
       /\ coro[c].body.attempts < MaxTries
       /\ coro'[c].body.attempts = cache[Broker!Home(c)][Broker!Job(c)]
  /\ UNCHANGED <<log, gone, settled, receipts, recent>>

\* Defer on SQS: it leaves its message hidden.
Leaves(c) ==
  /\ Broker!kind \in {"sqs", "fifo"} /\ coro[c].pc = "defer" /\ coro'[c] = Broker!Idle
  /\ Keeps(Broker!Home(c), Broker!Job(c), Broker!NoReceipt)
  /\ UNCHANGED <<log, gone, settled, recent>>

\* Defer: it has sent its message again.
SendsAgain(c) ==
  /\ Broker!kind \notin {"sqs", "fifo"} /\ coro[c].pc = "defer" /\ coro'[c].pc = "deferred"
  /\ coro'[c].receipt = coro[c].receipt /\ Broker!Job(c)' = Broker!Job(c)
  /\ log' = Append(log, coro[c].body) /\ UNCHANGED <<gone, settled, receipts>>

\* Complete, SendDead: the task is settled.
SettlesTask(c) ==
  /\ coro[c].pc \in {"run", "dead"} /\ settled' = settled \cup {Broker!Job(c)} /\ AckTakes(c)
  /\ UNCHANGED <<log, gone, recent>>

\* SendRetry
Retries(c) ==
  /\ coro[c].pc = "retry" /\ Sent(coro[c].body) /\ AckTakes(c)
  /\ Broker!kind # "fifo" => log' = Append(log, coro[c].body)
  /\ UNCHANGED <<gone, settled>>

\* Ack, Deferred: its message is acknowledged.
Finishes(c) ==
  /\ coro[c].pc \in Acknowledging /\ coro'[c] = Broker!Idle /\ Acknowledged(coro[c].receipt)
  /\ receipts' = receipts \/ Keeps(Broker!Home(c), Broker!Job(c), Broker!NoReceipt)
  /\ UNCHANGED <<log, settled, recent>>

Handles(c) ==
  /\ coro[c].pc # "rest" /\ Alone(c) /\ Grows(log, log') /\ WorkOK(coro'[c], log)
  /\ UNCHANGED <<deployed, cache, runs, overruns, crashes, last, held, position, joined, skipped>>
  /\ \/ GoesOn(c) \/ Leaves(c) \/ SendsAgain(c) \/ SettlesTask(c) \/ Retries(c) \/ Finishes(c)

LEMMA WorkDoes ==
  ASSUME BrokerTypeOK, NEW c \in Coros,
         \/ Broker!Defer(c) \/ Broker!Deferred(c) \/ Broker!Complete(c) \/ Broker!Raise(c)
         \/ Broker!SendRetry(c) \/ Broker!DeadLetter(c) \/ Broker!SendDead(c) \/ Broker!Ack(c)
  PROVE  Handles(c)
<1>1. Grows(log, log) /\ WorkOK(Broker!Idle, log)
  BY SameGrows, IdleOK
<1>2. CASE Broker!Defer(c)
  <2>1. coro[c].pc = "defer" /\ Apart
    BY <1>2, DeferDoes
  <2>2. CASE Broker!kind \in {"sqs", "fifo"}
    BY <1>1, <1>2, <2>1, <2>2, DeferDoes DEF Apart, Unsent, Leaves, Handles
  <2>3. CASE Broker!kind \notin {"sqs", "fifo"}
    <3>1. /\ Grows(log, log') /\ log' = Append(log, coro[c].body)
          /\ GoesTo(c, "deferred") /\ UNCHANGED <<last, held, gone, position, joined, skipped, receipts>>
      BY <1>2, <2>3, DeferDoes
    <3>2. WorkOK(coro'[c], log) /\ Alone(c) /\ Broker!Job(c)' = Broker!Job(c)
      BY <2>1, <3>1, GoesToOK
    <3>3. SendsAgain(c)
      BY <2>1, <2>3, <3>1, <3>2 DEF GoesTo, SendsAgain, Apart
    <3> QED
      BY <2>1, <3>1, <3>2, <3>3 DEF Apart, Handles
  <2> QED
    BY <2>2, <2>3
<1>3. CASE Broker!Deferred(c)
  <2>1. /\ coro[c].pc = "deferred" /\ Acknowledged(coro[c].receipt) /\ Apart
        /\ Alone(c) /\ coro'[c] = Broker!Idle
        /\ Keeps(Broker!Home(c), Broker!Job(c), Broker!NoReceipt)
        /\ UNCHANGED <<log, last, held, position, joined, skipped, recent>>
    BY <1>3, DeferredDoes
  <2>2. Finishes(c)
    BY <2>1 DEF Finishes, Acknowledging, Apart
  <2> QED
    BY <1>1, <2>1, <2>2 DEF Apart, Handles
<1>4. CASE Broker!Ack(c)
  <2>1. /\ coro[c].pc = "ack" /\ Acknowledged(coro[c].receipt) /\ Apart
        /\ Alone(c) /\ coro'[c] = Broker!Idle
        /\ UNCHANGED <<log, last, held, position, joined, skipped, recent, receipts>>
    BY <1>4, AckDoes
  <2>2. Finishes(c)
    BY <2>1 DEF Finishes, Acknowledging, Apart
  <2> QED
    BY <1>1, <2>1, <2>2 DEF Apart, Handles
<1>5. CASE Broker!Complete(c) \/ Broker!SendDead(c)
  <2>1. coro[c].pc \in {"run", "dead"} /\ SettlesJob(c)
    BY <1>5, SettleDoes
  <2>2. WorkOK(coro'[c], log) /\ Alone(c)
    BY <2>1, AckTakesOK DEF SettlesJob
  <2>3. SettlesTask(c)
    BY <2>1 DEF SettlesJob, SettlesTask, Unsent
  <2> QED
    BY <1>1, <2>1, <2>2, <2>3 DEF SettlesJob, Unsent, Handles
<1>6. CASE Broker!Raise(c) \/ Broker!DeadLetter(c)
  <2>1. PICK pc \in {"retry", "dead"} :
          /\ coro[c].pc = "run" /\ GoesTo(c, pc) /\ Apart /\ Unsent /\ UNCHANGED receipts
          /\ pc = "retry" =>
               /\ coro[c].body.attempts < MaxTries
               /\ coro'[c].body.attempts = cache[Broker!Home(c)][Broker!Job(c)]
    BY <1>6, RaiseDoes, DeadLetterDoes
  <2>2. WorkOK(coro'[c], log) /\ Alone(c) /\ Broker!Job(c)' = Broker!Job(c)
    BY <2>1, GoesToOK
  <2>3. GoesOn(c)
    BY <2>1, <2>2 DEF GoesTo, GoesOn, Apart, Unsent
  <2> QED
    BY <1>1, <2>1, <2>2, <2>3 DEF Apart, Unsent, Handles
<1>7. CASE Broker!SendRetry(c)
  <2>1. /\ coro[c].pc = "retry" /\ AckTakes(c) /\ Apart
        /\ Grows(log, log') /\ Sent(coro[c].body)
        /\ Broker!kind # "fifo" => log' = Append(log, coro[c].body)
        /\ UNCHANGED <<last, held, gone, position, joined, skipped>>
    BY <1>7, SendRetryDoes
  <2>2. WorkOK(coro'[c], log) /\ Alone(c)
    BY <2>1, AckTakesOK
  <2>3. Retries(c)
    BY <2>1 DEF Retries, Apart
  <2> QED
    BY <2>1, <2>2, <2>3 DEF Apart, Handles
<1> QED
  BY <1>2, <1>3, <1>4, <1>5, <1>6, <1>7

-----------------------------------------------------------------------------
(* Kafka: positions                                                        *)

\* On Kafka and Celery those who work share a process.
LEMMA OneHome ==
  ASSUME BrokerTypeOK, Broker!kind \in {"celery", "kafka"},
         NEW b \in Coros, NEW c \in Coros, Broker!Working(b), Broker!Working(c)
  PROVE  Broker!Home(b) = Broker!Home(c)
<1>1. Broker!Home(b) \in Procs /\ Broker!Home(c) \in Procs /\ deployed \in Deployments
  BY DEF BrokerTypeOK, WorkersOK
<1> QED
  BY <1>1, DeploymentsAssumption DEF Broker!Home, Broker!kind

LEMMA CommittedStep ==
  ASSUME BrokerTypeOK, Committed, [Broker!Next]_(Broker!queueVars)
  PROVE  Committed'
<1> DEFINE Commits == \E g \in 0 .. position : gone = 1 .. g
           Unmanned == ~joined => \A c \in Coros : ~Broker!Working(c)
           Fresh == ~joined /\ crashes = 0 => gone = {}
<1> SUFFICES ASSUME Broker!kind' = "kafka" PROVE Commits' /\ Unmanned' /\ Fresh'
  BY DEF Committed
<1>1. deployed' = deployed => Broker!kind = "kafka" /\ Commits /\ Unmanned /\ Fresh
  BY DEF Broker!kind, Committed
<1>2. position \in Nat /\ crashes \in Nat
  BY TypeParts
<1>3. ASSUME UNCHANGED <<deployed, gone, position, joined, coro, crashes>>
      PROVE  Commits' /\ Unmanned' /\ Fresh'
  BY <1>1, <1>3 DEF Broker!Working
<1>4. ASSUME NEW t \in Jobs, Broker!Submit(t) \/ Broker!Forget(t)
      PROVE  Commits' /\ Unmanned' /\ Fresh'
  <2>1. UNCHANGED <<deployed, gone, position, joined, coro, crashes>>
    BY <1>4, SubmitDoes, ForgetDoes DEF Apart
  <2> QED
    BY <1>3, <2>1
<1>5. ASSUME NEW i \in Broker!Ids, Broker!Expire(i) \/ Broker!Elapse(i)
      PROVE  Commits' /\ Unmanned' /\ Fresh'
  <2>1. UNCHANGED <<deployed, gone, position, joined, coro, crashes>>
    BY <1>5, ExpireDoes, ElapseDoes DEF Apart
  <2> QED
    BY <1>3, <2>1
<1>6. ASSUME NEW p \in Procs, Broker!Crash(p)
      PROVE  Commits' /\ Unmanned' /\ Fresh'
  <2>1. /\ UNCHANGED <<deployed, gone, position>> /\ crashes' = crashes + 1
        /\ \A c \in Coros : coro'[c] = IF Broker!Home(c) = p THEN Broker!Idle ELSE coro[c]
    BY <1>6, CrashDoes DEF Dies
  <2>2. PICK c \in Coros : Broker!Home(c) = p /\ Broker!Working(c)
    BY <1>6, CrashDoes DEF Broker!Working, Dies
  <2>3. \A b \in Coros : Broker!Working(b) => Broker!Home(b) = p
    BY <1>1, <2>1, <2>2, OneHome
  <2>4. \A b \in Coros : ~Broker!Working(b)'
    BY <2>1, <2>3 DEF Broker!Working, Broker!Idle
  <2>5. crashes' # 0
    BY <1>2, <2>1
  <2> QED
    BY <1>1, <2>1, <2>4, <2>5
<1>7. ASSUME NEW c \in Coros, Broker!Receive(c)
      PROVE  Commits' /\ Unmanned' /\ Fresh'
  <2>1. PICK i \in Broker!Ids : Takes(c, i)
    BY <1>7, ReceiveDoes
  <2>2. deployed' = deployed /\ gone' = gone /\ joined' = joined /\ i \in Broker!Visible /\ TakesOff(i)
    BY <2>1 DEF Takes
  <2>3. i = position + 1 /\ joined /\ position' = i
    BY <1>1, <2>2 DEF Broker!Visible, TakesOff
  <2>4. PICK g \in 0 .. position : gone = 1 .. g
    BY <1>1, <2>2
  <2>5. g \in 0 .. position'
    BY <1>2, <2>3
  <2> QED
    BY <2>2, <2>3, <2>4, <2>5
<1>8. ASSUME NEW c \in Coros, Handles(c)
      PROVE  Commits' /\ Unmanned' /\ Fresh'
  <2>1. UNCHANGED <<deployed, position, joined>> /\ coro[c].pc # "rest"
    BY <1>8 DEF Handles
  <2>2. gone' = gone \/ gone' = 1 .. position
    BY <1>1, <1>8, <2>1
    DEF Handles, GoesOn, Leaves, SendsAgain, SettlesTask, Retries, Finishes, Acknowledged
  <2>3. joined /\ joined'
    BY <1>1, <2>1 DEF Broker!Working
  <2>4. \E g \in 0 .. position : gone' = 1 .. g
    BY <1>1, <1>2, <2>1, <2>2
  <2> QED
    BY <2>1, <2>3, <2>4
<1>10. ASSUME NEW c \in Coros, Broker!Start(c)
       PROVE  Commits' /\ Unmanned' /\ Fresh'
  <2>1. /\ joined' = TRUE /\ gone' = gone /\ deployed' = deployed
        /\ gone = {} => position' = Len(log)
        /\ gone # {} => position' = Broker!Cardinality(gone)
    BY <1>10, StartDoes DEF Apart
  <2>2. CASE gone = {}
    <3>1. Len(log) \in Nat /\ gone = 1 .. 0 /\ 0 \in 0 .. Len(log)
      BY <2>2, TypeParts
    <3> QED
      BY <2>1, <2>2, <3>1
  <2>3. CASE gone # {}
    <3>1. PICK n : n = Broker!Cardinality(gone)
      OBVIOUS
    <3>2. n \in Nat /\ gone = 1 .. n
      BY <1>1, <1>2, <2>1, <3>1, CommittedCounts
    <3>3. n \in 0 .. n
      BY <3>2
    <3> QED
      BY <2>1, <2>3, <3>1, <3>2, <3>3
  <2> QED
    BY <2>2, <2>3
<1>11. ASSUME NEW c \in Coros, Broker!Miss(c)
       PROVE  Commits' /\ Unmanned' /\ Fresh'
  <2>1. UNCHANGED <<deployed, gone, position, joined, coro, crashes>>
    BY <1>11, MissDoes DEF Apart
  <2> QED
    BY <1>3, <2>1
<1>9. CASE UNCHANGED Broker!queueVars
  <2>1. UNCHANGED <<deployed, gone, position, joined, coro, crashes>>
    BY <1>9 DEF Broker!queueVars, Broker!broker, Broker!offsets, Broker!past
  <2> QED
    BY <1>3, <2>1
<1> QED
  BY <1>4, <1>5, <1>6, <1>7, <1>8, <1>9, <1>10, <1>11, WorkDoes DEF Broker!Next, Broker!Work

LEMMA TypeStep ==
  ASSUME BrokerTypeOK, Committed, [Broker!Next]_(Broker!queueVars) PROVE BrokerTypeOK'
<1>1. CASE UNCHANGED Broker!queueVars
  <2>1. /\ UNCHANGED <<deployed, log, last, held, gone, position, joined, skipped, recent, cache, receipts, coro>>
        /\ UNCHANGED <<settled, runs, overruns, crashes>>
    BY <1>1 DEF Broker!queueVars, Broker!broker, Broker!past, Broker!offsets
  <2>2. Grows(log, log') /\ Broker!Ids' = Broker!Ids
    BY <2>1, SameGrows DEF Broker!Ids
  <2> QED
    BY <2>1, <2>2, TypeParts, TypeKept
<1> QED
  BY <1>1, TypeSubmit, TypeForget, TypeStart, TypeReceive, TypeMiss, TypeHandle, TypeTime, TypeCrash
  DEF Broker!Next, Broker!Work


-----------------------------------------------------------------------------
(* Processes of one coroutine                                              *)

\* Where no two coroutines share a process, a working one is alone there; on Kafka
\* and Celery it is the only one.
LEMMA OneWorks ==
  ASSUME BrokerTypeOK, ~Broker!Concurrent,
         NEW b \in Coros, NEW c \in Coros, b # c, Broker!Home(c) \in Procs
  PROVE  /\ Broker!Home(b) # Broker!Home(c)
         /\ Broker!kind \in {"celery", "kafka"} => ~Broker!Working(b)
<1>1. Broker!Home(c) # "none"
  BY DeploymentsAssumption
<1>2. Broker!Home(b) # Broker!Home(c)
  BY <1>1 DEF Broker!Concurrent
<1>3. ASSUME Broker!kind \in {"celery", "kafka"}, Broker!Working(b) PROVE FALSE
  <2>1. Broker!Home(b) \in Procs
    BY <1>3 DEF BrokerTypeOK, WorkersOK
  <2>2. Broker!Home(b) # "none"
    BY <2>1, DeploymentsAssumption
  <2>3. deployed \in Deployments
    BY DEF BrokerTypeOK, WorkersOK
  <2> QED
    BY <1>1, <1>2, <1>3, <2>2, <2>3, DeploymentsAssumption DEF Broker!Home, Broker!kind
<1> QED
  BY <1>2, <1>3

\* The coroutine has the receipt of its message in the table of its process.
OwnReceipt(c) ==
  coro[c].pc # "ack" => receipts[Broker!Home(c)][Broker!Job(c)] = coro[c].receipt

\* What a consumer will not read again, for it has been committed or skipped.
Passed == gone \cup 1 .. skipped

\* A consumer with one coroutine takes a message when the ones before are committed, if they
\* were not skipped; the first commit covers these.
InTurn ==
  /\ \A c \in Coros : Broker!Working(c) =>
       /\ coro[c].receipt.id = position /\ Passed = 1 .. position - 1 /\ OwnReceipt(c)
  /\ joined /\ (\A c \in Coros : ~Broker!Working(c)) => Passed = 1 .. position
  /\ gone # {} => 1 .. skipped \subseteq gone

InOrder == Broker!kind = "kafka" /\ ~Broker!Concurrent => InTurn

\* With the receipt of its message a coroutine acknowledges that message.
LEMMA AcksOwn ==
  ASSUME BrokerTypeOK, NEW c \in Coros, coro[c].pc \in Handling, OwnReceipt(c), AckTakes(c)
  PROVE  /\ coro'[c].pc = "ack" /\ coro'[c].receipt = coro[c].receipt
         /\ Broker!Job(c)' = Broker!Job(c)
<1>1. coro[c].pc # "rest" /\ coro[c].pc # "ack"
  BY DEF Handling
<1>2. coro[c].receipt.id \in 1 .. Len(log)
  BY <1>1, WorkTypes, TypeParts
<1>3. coro[c].receipt # Broker!NoReceipt
  BY <1>2, NoReceiptType, TypeParts
<1>4. receipts[Broker!Home(c)][Broker!Job(c)] = coro[c].receipt
  BY <1>1 DEF OwnReceipt
<1> QED
  BY <1>3, <1>4 DEF AckTakes, Broker!Job

LEMMA InOrderStep ==
  ASSUME BrokerTypeOK, Committed, InOrder, [Broker!Next]_(Broker!queueVars)
  PROVE  InOrder'
<1> SUFFICES ASSUME Broker!kind' = "kafka", ~Broker!Concurrent' PROVE InTurn'
  BY DEF InOrder
<1>1. ASSUME deployed' = deployed
      PROVE  /\ Broker!kind = "kafka" /\ ~Broker!Concurrent
             /\ \A c \in Coros : Broker!Home(c)' = Broker!Home(c)
             /\ \A c \in Coros : Broker!Working(c) =>
                  /\ coro[c].receipt.id = position /\ Passed = 1 .. position - 1 /\ OwnReceipt(c)
             /\ joined /\ (\A c \in Coros : ~Broker!Working(c)) => Passed = 1 .. position
             /\ gone # {} => 1 .. skipped \subseteq gone
  BY <1>1 DEF InOrder, InTurn, Broker!kind, Broker!Concurrent, Broker!Home
<1>2. ASSUME UNCHANGED <<deployed, coro, receipts, gone, position, joined, skipped>>
      PROVE  InTurn'
  <2>1. Passed' = Passed /\ \A c \in Coros : Broker!Working(c)' = Broker!Working(c)
    BY <1>2 DEF Passed, Broker!Working
  <2>2. \A c \in Coros : OwnReceipt(c)' = OwnReceipt(c)
    BY <1>1, <1>2 DEF OwnReceipt, Broker!Job
  <2> QED
    BY <1>1, <1>2, <2>1, <2>2 DEF InTurn
<1>3. ASSUME NEW t \in Jobs, Broker!Submit(t) \/ Broker!Forget(t) PROVE InTurn'
  BY <1>2, <1>3, SubmitDoes, ForgetDoes DEF Apart
<1>4. ASSUME NEW i \in Broker!Ids, Broker!Expire(i) \/ Broker!Elapse(i) PROVE InTurn'
  BY <1>2, <1>4, ExpireDoes, ElapseDoes DEF Apart
<1>5. ASSUME NEW p \in Procs, Broker!Crash(p) PROVE InTurn'
  <2>1. /\ deployed' = deployed /\ gone' = gone /\ skipped' = skipped /\ joined' = FALSE
        /\ \A c \in Coros : coro'[c] = IF Broker!Home(c) = p THEN Broker!Idle ELSE coro[c]
    BY <1>5, CrashDoes DEF Dies
  <2>2. PICK c \in Coros : Broker!Home(c) = p /\ Broker!Working(c)
    BY <1>5, CrashDoes DEF Broker!Working, Dies
  <2>3. \A b \in Coros : b # c => ~Broker!Working(b)
    BY <1>1, <2>1, <2>2, OneWorks
  <2>4. \A b \in Coros : ~Broker!Working(b)'
    BY <2>1, <2>2, <2>3 DEF Broker!Working, Broker!Idle
  <2> QED
    BY <1>1, <2>1, <2>4 DEF InTurn
<1>6. ASSUME NEW c \in Coros, Broker!Receive(c) PROVE InTurn'
  <2>1. PICK i \in Broker!Ids : Takes(c, i)
    BY <1>6, ReceiveDoes
  <2>2. /\ coro[c].pc = "rest" /\ Broker!Home(c) \in Procs /\ Alone(c)
        /\ deployed' = deployed /\ gone' = gone /\ i \in Broker!Visible
        /\ coro'[c].receipt = [id |-> i, by |-> c] /\ Broker!Job(c)' = log[i].task
        /\ Keeps(Broker!Home(c), log[i].task, [id |-> i, by |-> c])
        /\ TakesOff(i) /\ joined' = joined /\ skipped' = skipped
    BY <2>1 DEF Takes
  <2>3. i = position + 1 /\ position' = i /\ joined /\ Passed' = Passed
    BY <1>1, <2>2 DEF Broker!Visible, TakesOff, Passed
  <2>4. \A b \in Coros : b # c => ~Broker!Working(b)
    BY <1>1, <2>2, OneWorks
  <2>5. \A b \in Coros : b # c => ~Broker!Working(b)'
    BY <2>2, <2>4 DEF Alone, Broker!Working
  <2>6. Passed' = 1 .. position' - 1
    BY <1>1, <2>2, <2>3, <2>4, TypeParts DEF Broker!Working
  <2>7. receipts'[Broker!Home(c)][Broker!Job(c)'] = coro'[c].receipt
    BY <2>2 DEF Keeps
  <2>8. OwnReceipt(c)' /\ coro'[c].receipt.id = position'
    BY <1>1, <2>2, <2>3, <2>7 DEF OwnReceipt
  <2>9. Broker!Working(c)'
    BY <2>1 DEF Takes, Broker!Working
  <2> QED
    BY <1>1, <2>2, <2>5, <2>6, <2>8, <2>9 DEF InTurn
<1>7. ASSUME NEW c \in Coros, Handles(c) PROVE InTurn'
  <2>1. /\ coro[c].pc # "rest" /\ Alone(c)
        /\ UNCHANGED <<deployed, position, joined, skipped>>
    BY <1>7 DEF Handles
  <2>2. Broker!Home(c) \in Procs /\ Broker!Job(c) \in Jobs
    BY <2>1, WorkTypes
  <2>3. \A b \in Coros : b # c => ~Broker!Working(b)
    BY <1>1, <2>1, <2>2, OneWorks
  <2>4. \A b \in Coros : b # c => ~Broker!Working(b)'
    BY <2>1, <2>3 DEF Alone, Broker!Working
  <2>5. coro[c].receipt.id = position /\ Passed = 1 .. position - 1 /\ OwnReceipt(c)
    BY <1>1, <2>1 DEF Broker!Working
  <2>6. ASSUME coro'[c].receipt = coro[c].receipt, gone' = gone, coro'[c].pc # "rest",
               OwnReceipt(c)'
        PROVE  InTurn'
    <3>1. Passed' = Passed /\ Broker!Working(c)'
      BY <2>1, <2>6 DEF Passed, Broker!Working
    <3> QED
      BY <1>1, <2>1, <2>4, <2>5, <2>6, <3>1 DEF InTurn
  <2>7. CASE GoesOn(c) \/ SendsAgain(c)
    <3>1. /\ coro'[c].pc \in {"retry", "dead", "deferred"} /\ coro[c].pc # "ack"
          /\ coro'[c].receipt = coro[c].receipt /\ Broker!Job(c)' = Broker!Job(c)
          /\ gone' = gone /\ receipts' = receipts
      BY <2>7 DEF GoesOn, SendsAgain
    <3>2. OwnReceipt(c)'
      BY <1>1, <2>1, <2>5, <3>1 DEF OwnReceipt
    <3> QED
      BY <2>6, <3>1, <3>2
  <2>8. CASE SettlesTask(c) \/ Retries(c)
    <3>1. coro[c].pc \in Handling /\ AckTakes(c) /\ gone' = gone
      BY <2>8 DEF SettlesTask, Retries, Handling
    <3>2. coro'[c].pc = "ack" /\ coro'[c].receipt = coro[c].receipt
      BY <2>5, <3>1, AcksOwn
    <3>3. OwnReceipt(c)'
      BY <3>2 DEF OwnReceipt
    <3> QED
      BY <2>6, <3>1, <3>2, <3>3
  <2>9. CASE Finishes(c)
    <3>1. coro'[c] = Broker!Idle /\ gone' = 1 .. position
      BY <1>1, <2>1, <2>9 DEF Finishes, Acknowledged
    <3>2. ~Broker!Working(c)'
      BY <3>1 DEF Broker!Working, Broker!Idle
    <3>3. 1 .. skipped \subseteq 1 .. position - 1
      BY <2>5 DEF Passed
    <3>4. 1 .. skipped \subseteq gone' /\ Passed' = 1 .. position'
      <4>1. position \in Nat /\ skipped \in Nat /\ skipped' = skipped /\ position' = position
        BY <2>1, TypeParts
      <4>2. 1 .. skipped \subseteq 1 .. position
        BY <3>3, <4>1
      <4> QED
        BY <3>1, <4>1, <4>2 DEF Passed
    <3> QED
      BY <2>1, <2>4, <3>2, <3>4 DEF InTurn
  <2>10. ~Leaves(c)
    BY <1>1, <2>1 DEF Leaves
  <2> QED
    BY <1>7, <2>7, <2>8, <2>9, <2>10 DEF Handles
<1>10. ASSUME NEW c \in Coros, Broker!Start(c) PROVE InTurn'
  <2>1. /\ ~joined /\ deployed' = deployed /\ UNCHANGED <<gone, coro>>
        /\ gone = {} => position' = Len(log) /\ skipped' = Len(log)
        /\ gone # {} => position' = Broker!Cardinality(gone) /\ skipped' = skipped
    BY <1>10, StartDoes DEF Apart
  <2>2. \A b \in Coros : ~Broker!Working(b)'
    BY <1>1, <2>1 DEF Committed, Broker!Working
  <2>3. Passed' = 1 .. position'
    <3>1. CASE gone = {}
      BY <2>1, <3>1 DEF Passed
    <3>2. CASE gone # {}
      <4>1. gone = 1 .. Broker!Cardinality(gone)
        BY <1>1, <2>1, CommittedCounts
      <4> QED
        BY <1>1, <2>1, <3>2, <4>1 DEF Passed
    <3> QED
      BY <3>1, <3>2
  <2> QED
    BY <1>1, <2>1, <2>2, <2>3 DEF InTurn
<1>8. CASE UNCHANGED Broker!queueVars
  <2>1. UNCHANGED <<deployed, coro, receipts, gone, position, joined, skipped>>
    BY <1>8 DEF Broker!queueVars, Broker!broker, Broker!offsets
  <2> QED
    BY <1>2, <2>1
<1>9. ASSUME NEW c \in Coros, Broker!Work(c) PROVE InTurn'
  BY <1>6, <1>7, <1>9, <1>10, WorkDoes DEF Broker!Work
<1>11. ASSUME NEW c \in Coros, Broker!Miss(c) PROVE InTurn'
  BY <1>2, <1>11, MissDoes DEF Apart
<1> QED
  BY <1>3, <1>4, <1>5, <1>8, <1>9, <1>11 DEF Broker!Next


-----------------------------------------------------------------------------
(* Which tasks the broker keeps                                            *)

Unsettled(t) == Broker!Submitted(t) /\ t \notin settled

\* A message of the task is on the broker, and nobody is about to acknowledge it.
Kept(t) ==
  \E i \in Broker!Ids \ gone :
    /\ i > skipped /\ log[i].task = t
    /\ \A c \in Coros : coro[c].pc \in Acknowledging => coro[c].receipt.id # i

TasksKept ==
  Broker!kind # "fifo" /\ (Broker!kind = "kafka" => ~Broker!Concurrent) =>
    \A t \in Jobs : Unsettled(t) /\ ~Broker!Skipped(t) => Kept(t)

\* A consumer that never died has a message of the task ahead, or a coroutine at work on it.
Ahead(t) ==
  \E i \in Broker!Ids :
    /\ log[i].task = t
    /\ i > position \/ \E c \in Coros : coro[c].pc \in Handling /\ coro[c].receipt.id = i

TasksAhead ==
  Broker!kind = "kafka" /\ crashes = 0 =>
    \A t \in Jobs : Unsettled(t) /\ ~Broker!Skipped(t) => Ahead(t)

LEMMA SkippedStays ==
  ASSUME BrokerTypeOK, Grows(log, log'), skipped' = skipped, NEW t
  PROVE  Broker!Skipped(t)' <=> Broker!Skipped(t)
<1>1. skipped \in 0 .. Len(log) /\ Len(log) \in Nat
  BY TypeParts
<1>2. \A i \in 1 .. skipped : log'[i].task = log[i].task
  BY <1>1 DEF Grows
<1> QED
  BY <1>2 DEF Broker!Skipped

\* A consumer that finds nothing committed begins behind all the tasks that were sent.
LEMMA StartSkips ==
  ASSUME BrokerTypeOK, NEW c \in Coros, Broker!Start(c), NEW t, Broker!Submitted(t)'
  PROVE  /\ Broker!Submitted(t)
         /\ gone = {} => Broker!Skipped(t)'
         /\ gone # {} => UNCHANGED skipped
<1>1. /\ log' = log
      /\ gone = {} => skipped' = Len(log)
      /\ gone # {} => skipped' = skipped
  BY StartDoes
<1>2. PICK i \in 1 .. Len(log) : log[i].task = t
  BY <1>1 DEF Broker!Submitted, Broker!Ids
<1> QED
  BY <1>1, <1>2 DEF Broker!Submitted, Broker!Ids, Broker!Skipped

\* The message that was sent last.
LEMMA NewKept ==
  ASSUME BrokerTypeOK, NEW body \in Bodies, Grows(log, log'), log' = Append(log, body),
         gone' = gone, skipped' = skipped,
         \A c \in Coros : coro'[c].pc \in Acknowledging => coro'[c].receipt.id \in Broker!Ids
  PROVE  Kept(body.task)'
<1>1. log \in Seq(Bodies) /\ Len(log) \in Nat /\ Broker!Ids = 1 .. Len(log) /\ gone \subseteq Broker!Ids
  BY TypeParts DEF BrokerTypeOK, LogOK
<1>2. PICK n : n = Len(log) + 1
  OBVIOUS
<1>3. Len(log') = n /\ log'[n] = body /\ n \in Nat
  BY <1>1, <1>2
<1>4. n \in Broker!Ids' /\ n \notin Broker!Ids /\ n > skipped'
  BY <1>1, <1>2, <1>3, TypeParts DEF Broker!Ids
<1>5. n \in Broker!Ids' \ gone' /\ log'[n].task = body.task
  BY <1>1, <1>3, <1>4
<1> QED
  BY <1>4, <1>5 DEF Kept

LEMMA NewAhead ==
  ASSUME BrokerTypeOK, NEW body \in Bodies, log' = Append(log, body), position' = position
  PROVE  Ahead(body.task)'
<1>1. log \in Seq(Bodies) /\ Len(log) \in Nat /\ position \in 0 .. Len(log)
  BY TypeParts DEF BrokerTypeOK, LogOK
<1>2. PICK n : n = Len(log) + 1
  OBVIOUS
<1>3. Len(log') = n /\ log'[n] = body /\ n \in Nat /\ n > position
  BY <1>1, <1>2
<1>4. n \in Broker!Ids'
  BY <1>3, <1>1, <1>2 DEF Broker!Ids
<1> QED
  BY <1>3, <1>4 DEF Ahead

\* A task that is not the one just sent was submitted before.
LEMMA OldSubmitted ==
  ASSUME BrokerTypeOK, Grows(log, log'), NEW t, Broker!Submitted(t)',
         \/ Len(log') = Len(log)
         \/ \E body \in Bodies : log' = Append(log, body) /\ body.task # t
  PROVE  Broker!Submitted(t)
<1>1. log \in Seq(Bodies) /\ Len(log) \in Nat
  BY TypeParts DEF BrokerTypeOK, LogOK
<1>2. PICK i \in Broker!Ids' : log'[i].task = t
  BY DEF Broker!Submitted
<1>3. i \in 1 .. Len(log') /\ \A j \in 1 .. Len(log) : log'[j].task = log[j].task
  BY <1>2 DEF Grows, Broker!Ids
<1>4. i \in 1 .. Len(log)
  <2>1. CASE Len(log') = Len(log)
    BY <1>3, <2>1
  <2>2. ASSUME NEW body \in Bodies, log' = Append(log, body), body.task # t
        PROVE  i \in 1 .. Len(log)
    <3>1. Len(log') = Len(log) + 1 /\ log'[Len(log) + 1] = body
      BY <1>1, <2>2
    <3>2. i # Len(log) + 1
      BY <1>2, <2>2, <3>1
    <3> QED
      BY <1>1, <1>3, <3>1, <3>2
  <2> QED
    BY <2>1, <2>2
<1> QED
  BY <1>2, <1>3, <1>4 DEF Broker!Submitted, Broker!Ids

\* The messages of the task stay, and nobody new acknowledges them.
LEMMA KeptStays ==
  ASSUME BrokerTypeOK, Grows(log, log'), skipped' = skipped, NEW t, Kept(t),
         \A i \in Broker!Ids \ gone :
           (/\ i > skipped /\ log[i].task = t
            /\ \A c \in Coros : coro[c].pc \in Acknowledging => coro[c].receipt.id # i)
             => /\ i \notin gone'
                /\ \A c \in Coros : coro'[c].pc \in Acknowledging => coro'[c].receipt.id # i
  PROVE  Kept(t)'
<1>1. PICK i \in Broker!Ids \ gone :
        /\ i > skipped /\ log[i].task = t
        /\ \A c \in Coros : coro[c].pc \in Acknowledging => coro[c].receipt.id # i
  BY DEF Kept
<1>2. i \in Broker!Ids' /\ log'[i].task = t
  BY <1>1, GrowsKeeps
<1> QED
  BY <1>1, <1>2 DEF Kept

LEMMA AheadStays ==
  ASSUME BrokerTypeOK, Grows(log, log'), NEW t, Ahead(t),
         \A i \in Broker!Ids :
           /\ log[i].task = t
           /\ i > position \/ \E c \in Coros : coro[c].pc \in Handling /\ coro[c].receipt.id = i
           => i > position' \/ \E c \in Coros : coro'[c].pc \in Handling /\ coro'[c].receipt.id = i
  PROVE  Ahead(t)'
<1>1. PICK i \in Broker!Ids :
           /\ log[i].task = t
           /\ i > position \/ \E c \in Coros : coro[c].pc \in Handling /\ coro[c].receipt.id = i
  BY DEF Ahead
<1>2. i \in Broker!Ids' /\ log'[i].task = t
  BY <1>1, GrowsKeeps
<1> QED
  BY <1>1, <1>2 DEF Ahead

\* A coroutine at work on its task does not touch another's messages.
LEMMA OthersKept ==
  ASSUME BrokerTypeOK, NEW c \in Coros, Handles(c), NEW t \in Jobs, Unsettled(t)',
         t # Broker!Job(c)
  PROVE  /\ Unsettled(t)
         /\ coro'[c].pc \in Acknowledging =>
              coro'[c].receipt.id \in Broker!Ids /\ log[coro'[c].receipt.id].task # t
<1>1. coro[c].pc # "rest" /\ Grows(log, log') /\ WorkOK(coro'[c], log)
  BY DEF Handles
<1>2. coro[c].body \in Bodies /\ coro[c].body.task = Broker!Job(c)
  BY <1>1, WorkTypes
<1>3. settled \subseteq settled'
  BY DEF Handles, GoesOn, Leaves, SendsAgain, SettlesTask, Retries, Finishes
<1>4. log' = log \/ log' = Append(log, coro[c].body)
  BY DEF Handles, GoesOn, Leaves, SendsAgain, SettlesTask, Retries, Finishes, Sent
<1>5. Broker!Submitted(t)
  BY <1>1, <1>2, <1>4, OldSubmitted DEF Unsettled
<1>6. ASSUME coro'[c].pc \in Acknowledging
      PROVE  coro'[c].receipt.id \in Broker!Ids /\ log[coro'[c].receipt.id].task = Broker!Job(c)
  <2>1. coro'[c].pc \in {"ack", "deferred"}
    BY <1>6 DEF Acknowledging
  <2>2. CASE SendsAgain(c)
    BY <1>1, <2>2, WorkTypes DEF SendsAgain
  <2>3. CASE AckTakes(c)
    BY <1>1, <2>1, <2>3, AckTakesOK
  <2>4. CASE GoesOn(c) \/ Leaves(c) \/ Finishes(c)
    BY <2>1, <2>4 DEF GoesOn, Leaves, Finishes, Broker!Idle
  <2> QED
    BY <2>2, <2>3, <2>4 DEF Handles, SettlesTask, Retries
<1> QED
  BY <1>3, <1>5, <1>6 DEF Unsettled


\* What a coroutine acknowledges is its own message; on Kafka, if it is alone, with those
\* that were skipped.
LEMMA FinishesOwn ==
  ASSUME BrokerTypeOK, NEW c \in Coros, Handles(c), Finishes(c),
         Broker!kind = "kafka" => ~Broker!Concurrent, InOrder
  PROVE  \A i \in gone' : i \in gone \/ i <= skipped \/ i = coro[c].receipt.id
<1>1. CASE Broker!kind = "kafka"
  <2>1. coro[c].receipt.id = position /\ gone \cup 1 .. skipped = 1 .. position - 1
    BY <1>1 DEF Handles, InOrder, InTurn, Broker!Working, Passed
  <2>2. gone' = 1 .. position /\ position \in Nat /\ skipped \in Nat
    BY <1>1, TypeParts DEF Finishes, Acknowledged
  <2>3. \A i \in gone' : i \in 1 .. position - 1 \/ i = position
    BY <2>2
  <2> QED
    BY <2>1, <2>2, <2>3
<1>2. CASE Broker!kind # "kafka"
  BY <1>2 DEF Finishes, Acknowledged
<1> QED
  BY <1>1, <1>2

LEMMA TasksKeptWork ==
  ASSUME BrokerTypeOK, InOrder, TasksKept, NEW c \in Coros, Handles(c)
  PROVE  TasksKept'
<1>1. /\ coro[c].pc # "rest" /\ Alone(c) /\ Grows(log, log')
      /\ deployed' = deployed /\ skipped' = skipped
  BY DEF Handles
<1> SUFFICES ASSUME Broker!kind # "fifo", Broker!kind = "kafka" => ~Broker!Concurrent,
                    NEW t \in Jobs, Unsettled(t)', ~Broker!Skipped(t)'
             PROVE  Kept(t)'
  BY <1>1 DEF TasksKept, Broker!kind, Broker!Concurrent, Broker!Home
<1>6. ~Broker!Skipped(t) /\ skipped' = skipped
  BY <1>1, SkippedStays
<1>7. \A i \in Broker!Ids : i > skipped => ~(i <= skipped)
  BY TypeParts
<1>2. /\ coro[c].body \in Bodies /\ coro[c].body.task = Broker!Job(c) /\ Broker!Job(c) \in Jobs
      /\ coro[c].receipt.id \in Broker!Ids /\ log[coro[c].receipt.id].task = Broker!Job(c)
  BY <1>1, WorkTypes
<1>3. \A d \in Coros \ {c} : coro'[d] = coro[d]
  BY <1>1 DEF Alone
<1>4. CASE t # Broker!Job(c)
  <2>1. /\ Unsettled(t)
        /\ coro'[c].pc \in Acknowledging =>
             coro'[c].receipt.id \in Broker!Ids /\ log[coro'[c].receipt.id].task # t
    BY <1>4, OthersKept
  <2>2. Kept(t)
    BY <1>6, <2>1 DEF TasksKept
  <2>3. \A i \in gone' : i \in gone \/ i <= skipped \/ i = coro[c].receipt.id
    BY FinishesOwn DEF Handles, GoesOn, Leaves, SendsAgain, SettlesTask, Retries
  <2>4. ASSUME NEW i \in Broker!Ids \ gone, i > skipped, log[i].task = t,
               \A d \in Coros : coro[d].pc \in Acknowledging => coro[d].receipt.id # i
        PROVE  /\ i \notin gone'
               /\ \A d \in Coros : coro'[d].pc \in Acknowledging => coro'[d].receipt.id # i
    <3>1. i \notin gone'
      BY <1>2, <1>4, <1>7, <2>3, <2>4
    <3> QED
      BY <1>3, <2>1, <2>4, <3>1
  <2> QED
    BY <1>1, <2>2, <2>4, KeptStays
<1>5. CASE t = Broker!Job(c)
  <2>1. CASE SendsAgain(c) \/ Retries(c)
    <3>1. log' = Append(log, coro[c].body) /\ gone' = gone
      BY <2>1 DEF SendsAgain, Retries
    <3>2. coro'[c].pc \in Acknowledging => coro'[c].receipt.id \in Broker!Ids
      BY <1>1, <1>2, <2>1, AckTakesOK DEF SendsAgain, Retries, Acknowledging
    <3>3. \A d \in Coros : coro'[d].pc \in Acknowledging => coro'[d].receipt.id \in Broker!Ids
      BY <1>3, <3>2, WorkTypes DEF Acknowledging
    <3> QED
      BY <1>1, <1>2, <1>5, <3>1, <3>3, NewKept
  <2>2. CASE SettlesTask(c)
    BY <1>5, <2>2 DEF SettlesTask, Unsettled
  <2>3. CASE GoesOn(c) \/ Leaves(c) \/ Finishes(c)
    <3>1. log' = log /\ settled' = settled /\ coro'[c].pc \notin Acknowledging
      BY <2>3 DEF GoesOn, Leaves, Finishes, Broker!Idle, Acknowledging
    <3>2. Unsettled(t)
      BY <3>1 DEF Unsettled, Broker!Submitted, Broker!Ids
    <3>3. Kept(t)
      BY <1>6, <3>2 DEF TasksKept
    <3>4. \/ gone' = gone
          \/ /\ coro[c].pc \in Acknowledging
             /\ \A i \in gone' : i \in gone \/ i <= skipped \/ i = coro[c].receipt.id
      BY <2>3, FinishesOwn DEF GoesOn, Leaves, Finishes
    <3>5. ASSUME NEW i \in Broker!Ids \ gone, i > skipped, log[i].task = t,
                 \A d \in Coros : coro[d].pc \in Acknowledging => coro[d].receipt.id # i
          PROVE  /\ i \notin gone'
                 /\ \A d \in Coros : coro'[d].pc \in Acknowledging => coro'[d].receipt.id # i
      <4>1. i \notin gone'
        BY <1>7, <3>4, <3>5
      <4> QED
        BY <1>3, <3>1, <3>5, <4>1
    <3> QED
      BY <1>1, <3>3, <3>5, KeptStays
  <2> QED
    BY <2>1, <2>2, <2>3 DEF Handles
<1> QED
  BY <1>4, <1>5

LEMMA TasksKeptStep ==
  ASSUME BrokerTypeOK, InOrder, TasksKept, [Broker!Next]_(Broker!queueVars)
  PROVE  TasksKept'
<1>1. ASSUME deployed' = deployed, Grows(log, log'), Len(log') = Len(log), settled' = settled,
             gone' = gone, skipped' = skipped,
             \A c \in Coros :
               \/ coro'[c].pc \notin Acknowledging
               \/ coro'[c] = coro[c]
      PROVE  TasksKept'
  <2> SUFFICES ASSUME Broker!kind # "fifo", Broker!kind = "kafka" => ~Broker!Concurrent,
                      NEW t \in Jobs, Unsettled(t)', ~Broker!Skipped(t)'
               PROVE  Kept(t)'
    BY <1>1 DEF TasksKept, Broker!kind, Broker!Concurrent, Broker!Home
  <2>1. Unsettled(t) /\ ~Broker!Skipped(t)
    BY <1>1, OldSubmitted, SkippedStays DEF Unsettled
  <2>2. Kept(t)
    BY <2>1 DEF TasksKept
  <2> QED
    BY <1>1, <2>2, KeptStays
<1>2. ASSUME NEW u \in Jobs, Broker!Submit(u) PROVE TasksKept'
  <2>1. PICK body \in Bodies : body.task = u /\ Sent(body)
    BY <1>2, SubmitDoes
  <2>2. /\ Grows(log, log') /\ (Broker!kind # "fifo" => log' # log)
        /\ Apart /\ UNCHANGED <<last, held, gone, position, joined, skipped, receipts, coro>>
    BY <1>2, SubmitDoes
  <2> SUFFICES ASSUME Broker!kind # "fifo", Broker!kind = "kafka" => ~Broker!Concurrent,
                      NEW t \in Jobs, Unsettled(t)', ~Broker!Skipped(t)'
               PROVE  Kept(t)'
    BY <2>2 DEF TasksKept, Apart, Broker!kind, Broker!Concurrent, Broker!Home
  <2>3. log' = Append(log, body)
    BY <2>1, <2>2 DEF Sent
  <2>4. CASE t = u
    <3>1. \A c \in Coros : coro'[c].pc \in Acknowledging => coro'[c].receipt.id \in Broker!Ids
      BY <2>2, WorkTypes DEF Acknowledging
    <3> QED
      BY <2>1, <2>2, <2>3, <2>4, <3>1, NewKept
  <2>5. CASE t # u
    <3>1. Unsettled(t) /\ ~Broker!Skipped(t)
      BY <2>1, <2>2, <2>3, <2>5, OldSubmitted, SkippedStays DEF Unsettled, Apart
    <3>2. Kept(t)
      BY <3>1 DEF TasksKept
    <3> QED
      BY <2>2, <3>2, KeptStays
  <2> QED
    BY <2>4, <2>5
<1>3. ASSUME NEW t \in Jobs, Broker!Forget(t) PROVE TasksKept'
  BY <1>1, <1>3, ForgetDoes, SameGrows DEF Apart
<1>4. ASSUME NEW i \in Broker!Ids, Broker!Expire(i) \/ Broker!Elapse(i) PROVE TasksKept'
  BY <1>1, <1>4, ExpireDoes, ElapseDoes, SameGrows DEF Apart
<1>5. ASSUME NEW p \in Procs, Broker!Crash(p) PROVE TasksKept'
  <2>1. /\ \A c \in Coros : coro'[c] = IF Broker!Home(c) = p THEN Broker!Idle ELSE coro[c]
        /\ UNCHANGED <<deployed, log, gone, skipped, settled>>
    BY <1>5, CrashDoes DEF Dies
  <2>2. \A c \in Coros : coro'[c].pc \notin Acknowledging \/ coro'[c] = coro[c]
    BY <2>1 DEF Broker!Idle, Acknowledging
  <2> QED
    BY <1>1, <2>1, <2>2, SameGrows
<1>6. ASSUME NEW c \in Coros, Broker!Receive(c) PROVE TasksKept'
  <2>1. PICK i \in Broker!Ids : Takes(c, i)
    BY <1>6, ReceiveDoes
  <2>2. /\ UNCHANGED <<deployed, log, gone, joined, skipped, recent, settled, overruns, crashes>>
        /\ coro'[c].pc \in {"defer", "run"} /\ Alone(c)
    BY <2>1 DEF Takes
  <2>3. \A d \in Coros : coro'[d].pc \notin Acknowledging \/ coro'[d] = coro[d]
    BY <2>2 DEF Alone, Acknowledging
  <2> QED
    BY <1>1, <2>2, <2>3, SameGrows
<1>7. CASE UNCHANGED Broker!queueVars
  <2>1. UNCHANGED <<deployed, log, gone, skipped, settled, coro>>
    BY <1>7 DEF Broker!queueVars, Broker!broker, Broker!offsets
  <2> QED
    BY <1>1, <2>1, SameGrows
<1>9. ASSUME NEW c \in Coros, Broker!Start(c) PROVE TasksKept'
  <2>1. UNCHANGED <<deployed, log, gone, settled, coro>>
    BY <1>9, StartDoes DEF Apart
  <2>2. CASE gone = {}
    <3>1. \A t \in Jobs : Broker!Submitted(t)' => Broker!Skipped(t)'
      BY <1>9, <2>2, StartSkips
    <3> QED
      BY <3>1 DEF TasksKept, Unsettled
  <2>3. CASE gone # {}
    <3>1. skipped' = skipped
      BY <1>9, <2>3, StartDoes
    <3> QED
      BY <1>1, <2>1, <3>1, SameGrows
  <2> QED
    BY <2>2, <2>3
<1>8. ASSUME NEW c \in Coros, Broker!Work(c) PROVE TasksKept'
  BY <1>6, <1>8, <1>9, WorkDoes, TasksKeptWork DEF Broker!Work
<1>10. ASSUME NEW c \in Coros, Broker!Miss(c) PROVE TasksKept'
  BY <1>1, <1>10, MissDoes, SameGrows DEF Apart
<1> QED
  BY <1>2, <1>3, <1>4, <1>5, <1>7, <1>8, <1>10 DEF Broker!Next


LEMMA TasksAheadWork ==
  ASSUME BrokerTypeOK, TasksAhead, NEW c \in Coros, Handles(c)
  PROVE  TasksAhead'
<1>1. /\ coro[c].pc # "rest" /\ Alone(c) /\ Grows(log, log')
      /\ UNCHANGED <<deployed, crashes, position, joined, skipped>>
  BY DEF Handles
<1> SUFFICES ASSUME Broker!kind = "kafka", crashes = 0,
                    NEW t \in Jobs, Unsettled(t)', ~Broker!Skipped(t)'
             PROVE  Ahead(t)'
  BY <1>1 DEF TasksAhead, Broker!kind
<1>6. ~Broker!Skipped(t)
  BY <1>1, SkippedStays
<1>2. /\ coro[c].body \in Bodies /\ coro[c].body.task = Broker!Job(c)
      /\ log[coro[c].receipt.id].task = Broker!Job(c)
  BY <1>1, WorkTypes
<1>3. \A d \in Coros \ {c} : coro'[d] = coro[d]
  BY <1>1 DEF Alone
<1>4. CASE t # Broker!Job(c)
  <2>1. Ahead(t)
    BY <1>4, <1>6, OthersKept DEF TasksAhead
  <2> QED
    BY <1>1, <1>2, <1>3, <1>4, <2>1, AheadStays
<1>5. CASE t = Broker!Job(c)
  <2>1. CASE SendsAgain(c) \/ Retries(c)
    <3>1. log' = Append(log, coro[c].body)
      BY <2>1 DEF SendsAgain, Retries
    <3> QED
      BY <1>1, <1>2, <1>5, <3>1, NewAhead
  <2>2. CASE SettlesTask(c)
    BY <1>5, <2>2 DEF SettlesTask, Unsettled
  <2>3. CASE GoesOn(c) \/ Leaves(c) \/ Finishes(c)
    <3>1. log' = log /\ settled' = settled
      BY <2>3 DEF GoesOn, Leaves, Finishes
    <3>2. Ahead(t)
      BY <1>6, <3>1 DEF TasksAhead, Unsettled, Broker!Submitted, Broker!Ids
    <3>3. \/ coro'[c].pc \in Handling /\ coro'[c].receipt = coro[c].receipt
          \/ coro[c].pc \notin Handling
      BY <2>3 DEF GoesOn, Leaves, Finishes, Handling, Acknowledging
    <3> QED
      BY <1>1, <1>3, <3>2, <3>3, AheadStays
  <2> QED
    BY <2>1, <2>2, <2>3 DEF Handles
<1> QED
  BY <1>4, <1>5

LEMMA TasksAheadStep ==
  ASSUME BrokerTypeOK, Committed, TasksAhead, [Broker!Next]_(Broker!queueVars)
  PROVE  TasksAhead'
<1>1. ASSUME deployed' = deployed, crashes' = crashes,
             Grows(log, log'), Len(log') = Len(log), settled' = settled,
             position' = position, skipped' = skipped, coro' = coro
      PROVE  TasksAhead'
  <2> SUFFICES ASSUME Broker!kind = "kafka", crashes = 0,
                      NEW t \in Jobs, Unsettled(t)', ~Broker!Skipped(t)'
               PROVE  Ahead(t)'
    BY <1>1 DEF TasksAhead, Broker!kind
  <2>1. Ahead(t)
    BY <1>1, OldSubmitted, SkippedStays DEF TasksAhead, Unsettled
  <2> QED
    BY <1>1, <2>1, AheadStays
<1>2. ASSUME NEW u \in Jobs, Broker!Submit(u) PROVE TasksAhead'
  <2>1. PICK body \in Bodies : body.task = u /\ Sent(body)
    BY <1>2, SubmitDoes
  <2>2. /\ Grows(log, log') /\ (Broker!kind # "fifo" => log' # log)
        /\ Apart /\ UNCHANGED <<last, held, gone, position, joined, skipped, receipts, coro>>
    BY <1>2, SubmitDoes
  <2> SUFFICES ASSUME Broker!kind = "kafka", crashes = 0,
                      NEW t \in Jobs, Unsettled(t)', ~Broker!Skipped(t)'
               PROVE  Ahead(t)'
    BY <2>2 DEF TasksAhead, Apart, Broker!kind
  <2>3. log' = Append(log, body)
    BY <2>1, <2>2 DEF Sent
  <2>4. CASE t = u
    BY <2>1, <2>2, <2>3, <2>4, NewAhead
  <2>5. CASE t # u
    <3>1. Ahead(t)
      BY <2>1, <2>2, <2>3, <2>5, OldSubmitted, SkippedStays DEF TasksAhead, Unsettled, Apart
    <3> QED
      BY <2>2, <3>1, AheadStays
  <2> QED
    BY <2>4, <2>5
<1>3. ASSUME NEW t \in Jobs, Broker!Forget(t) PROVE TasksAhead'
  BY <1>1, <1>3, ForgetDoes, SameGrows DEF Apart
<1>4. ASSUME NEW i \in Broker!Ids, Broker!Expire(i) \/ Broker!Elapse(i) PROVE TasksAhead'
  BY <1>1, <1>4, ExpireDoes, ElapseDoes, SameGrows DEF Apart
<1>5. ASSUME NEW p \in Procs, Broker!Crash(p) PROVE TasksAhead'
  <2>1. crashes' = crashes + 1 /\ crashes \in Nat
    BY <1>5, CrashDoes, TypeParts DEF Dies
  <2> QED
    BY <2>1 DEF TasksAhead
<1>6. ASSUME NEW c \in Coros, Broker!Receive(c) PROVE TasksAhead'
  <2>1. PICK i \in Broker!Ids : Takes(c, i)
    BY <1>6, ReceiveDoes
  <2>2. /\ UNCHANGED <<deployed, log, gone, joined, skipped, recent, settled, overruns, crashes>>
        /\ coro[c].pc = "rest" /\ coro'[c].pc \in Handling /\ coro'[c].receipt.id = i /\ Alone(c)
        /\ i \in Broker!Visible /\ (Broker!kind = "kafka" => position' = i)
    BY <2>1 DEF Takes, TakesOff, Handling
  <2> SUFFICES ASSUME Broker!kind = "kafka", crashes = 0,
                      NEW t \in Jobs, Unsettled(t)', ~Broker!Skipped(t)'
               PROVE  Ahead(t)'
    BY <2>2 DEF TasksAhead, Broker!kind
  <2>3. i = position + 1 /\ position' = i /\ position \in Nat
    BY <2>2, TypeParts DEF Broker!Visible
  <2>7. ~Broker!Skipped(t)
    BY <2>2, SameGrows, SkippedStays
  <2>4. Ahead(t)
    BY <2>2, <2>7 DEF TasksAhead, Unsettled, Broker!Submitted, Broker!Ids
  <2>5. \A d \in Coros : coro[d].pc \in Handling => coro'[d] = coro[d]
    BY <2>2 DEF Alone, Handling
  <2>6. \A j \in Broker!Ids : j > position => j = i \/ j > position'
    BY <2>3, TypeParts
  <2> QED
    BY <2>2, <2>4, <2>5, <2>6, SameGrows, AheadStays
<1>7. CASE UNCHANGED Broker!queueVars
  <2>1. UNCHANGED <<deployed, log, position, joined, skipped, settled, coro, crashes>>
    BY <1>7 DEF Broker!queueVars, Broker!broker, Broker!past, Broker!offsets
  <2> QED
    BY <1>1, <2>1, SameGrows
<1>9. ASSUME NEW c \in Coros, Broker!Start(c) PROVE TasksAhead'
  <2>1. crashes' = crashes /\ deployed' = deployed /\ Broker!kind = "kafka" /\ ~joined
    BY <1>9, StartDoes DEF Apart
  <2> SUFFICES ASSUME crashes = 0, NEW t \in Jobs, Broker!Submitted(t)'
               PROVE  Broker!Skipped(t)'
    BY <2>1 DEF TasksAhead, Unsettled
  <2>2. gone = {}
    BY <2>1 DEF Committed
  <2> QED
    BY <1>9, <2>2, StartSkips
<1>8. ASSUME NEW c \in Coros, Broker!Work(c) PROVE TasksAhead'
  BY <1>6, <1>8, <1>9, WorkDoes, TasksAheadWork DEF Broker!Work
<1>10. ASSUME NEW c \in Coros, Broker!Miss(c) PROVE TasksAhead'
  BY <1>1, <1>10, MissDoes, SameGrows DEF Apart
<1> QED
  BY <1>2, <1>3, <1>4, <1>5, <1>7, <1>8, <1>10 DEF Broker!Next

\* Together they say what the broker keeps.
KeepsInv == BrokerTypeOK /\ Committed /\ InOrder /\ TasksKept /\ TasksAhead

LEMMA KeepsInit == ASSUME Broker!Init PROVE KeepsInv
<1>1. BrokerTypeOK
  BY TypeInit
<1>2. Broker!Ids = {} /\ position = 0 /\ gone = {} /\ joined = FALSE
  BY DEF Broker!Init, Broker!Ids
<1>3. \A c \in Coros : ~Broker!Working(c)
  BY DEF Broker!Init, Broker!Idle, Broker!Working
<1>6. gone = 1 .. 0 /\ 0 \in 0 .. position
  BY <1>2
<1>4. Committed /\ InOrder
  BY <1>2, <1>3, <1>6 DEF Committed, InOrder, InTurn
<1>5. TasksKept /\ TasksAhead
  BY <1>2 DEF TasksKept, TasksAhead, Unsettled, Broker!Submitted
<1> QED
  BY <1>1, <1>4, <1>5 DEF KeepsInv

LEMMA KeepsStep ==
  ASSUME KeepsInv, [Broker!Next]_(Broker!queueVars) PROVE KeepsInv'
BY TypeStep, CommittedStep, InOrderStep, TasksKeptStep, TasksAheadStep DEF KeepsInv

LEMMA KeepsJobs ==
  ASSUME KeepsInv, Broker!kind # "fifo" PROVE NoJobLost
<1> SUFFICES ASSUME NEW t \in Jobs, Broker!Submitted(t), t \notin settled, ~Broker!OnBroker(t)
             PROVE  /\ Broker!kind = "kafka"
                    /\ \/ Broker!Skipped(t)
                       \/ /\ Broker!Concurrent
                          /\ crashes > 0 \/ \E c \in Coros : Broker!Working(c) /\ Broker!Job(c) = t
  BY DEF NoJobLost, Broker!NoJobLost
<1>5. CASE Broker!Skipped(t)
  <2>1. skipped # 0
    BY <1>5 DEF Broker!Skipped
  <2> QED
    BY <1>5, <2>1, TypeParts DEF KeepsInv
<1> SUFFICES ASSUME ~Broker!Skipped(t)
             PROVE  /\ Broker!kind = "kafka" /\ Broker!Concurrent
                    /\ crashes > 0 \/ \E c \in Coros : Broker!Working(c) /\ Broker!Job(c) = t
  BY <1>5
<1>1. ~Kept(t)
  BY DEF Kept, Broker!OnBroker
<1>2. Broker!kind = "kafka" /\ Broker!Concurrent
  BY <1>1 DEF KeepsInv, TasksKept, Unsettled
<1>3. ASSUME crashes = 0
      PROVE  \E c \in Coros : Broker!Working(c) /\ Broker!Job(c) = t
  <2>1. PICK i \in Broker!Ids :
          /\ log[i].task = t
          /\ i > position \/ \E c \in Coros : coro[c].pc \in Handling /\ coro[c].receipt.id = i
    BY <1>2, <1>3 DEF KeepsInv, TasksAhead, Unsettled, Ahead
  <2>9. i > skipped
    BY <2>1, TypeParts DEF KeepsInv, Broker!Skipped
  <2>2. i \in gone
    BY <2>1, <2>9 DEF Broker!OnBroker
  <2>3. PICK g \in 0 .. position : gone = 1 .. g
    BY <1>2 DEF KeepsInv, Committed
  <2>4. position \in Nat
    BY TypeParts DEF KeepsInv
  <2>5. ~(i > position)
    BY <2>2, <2>3, <2>4
  <2>6. PICK c \in Coros : coro[c].pc \in Handling /\ coro[c].receipt.id = i
    BY <2>1, <2>5
  <2>7. coro[c].pc # "rest"
    BY <2>6 DEF Handling
  <2>8. Broker!Job(c) = t
    BY <2>1, <2>6, <2>7, WorkTypes DEF KeepsInv
  <2> QED
    BY <2>7, <2>8 DEF Broker!Working
<1>4. crashes \in Nat
  BY TypeParts DEF KeepsInv
<1> QED
  BY <1>2, <1>3, <1>4

\* Where the broker does not drop a message by its deduplication id, as the FIFO queues of
\* SQS do, a task stays on it until it is settled, whatever crashes and whatever is
\* delivered again.  Kafka is the exception in two ways: a task is lost if a consumer with
\* nothing committed starts behind its message, before the first commit, or if coroutines
\* share a consumer, whose commit covers the messages of them all (_broker.py's dequeue,
\* _defer, retry, dead_letter and _ack_task; kafka.py's consumer).
THEOREM BrokerKeepsJobs ==
  ASSUME \A d \in Deployments : d.kind # "fifo"
  PROVE  Broker!Spec => []NoJobLost
<1>1. KeepsInv => NoJobLost
  <2>1. KeepsInv => Broker!kind # "fifo"
    BY DEF KeepsInv, BrokerTypeOK, WorkersOK, Broker!kind
  <2> QED
    BY <2>1, KeepsJobs
<1>2. Broker!Init => KeepsInv
  BY KeepsInit
<1>3. KeepsInv /\ [Broker!Next]_(Broker!queueVars) => KeepsInv'
  BY KeepsStep
<1> QED
  BY <1>1, <1>2, <1>3, PTL DEF Broker!Spec


-----------------------------------------------------------------------------
(* How often a handler runs                                                *)

TriesBounded ==
  /\ \A i \in Broker!Ids : log[i].attempts < MaxTries
  /\ \A c \in Coros :
       /\ coro[c].pc = "run" =>
            /\ coro[c].body.attempts <= MaxTries
            /\ cache[Broker!Home(c)][Broker!Job(c)] = coro[c].body.attempts
       /\ coro[c].pc \in {"retry", "defer"} => coro[c].body.attempts < MaxTries

\* Where no coroutines share a process the cache has the attempts of the one running.
TriesInv == ~Broker!Concurrent => TriesBounded

LEMMA SentTries ==
  ASSUME BrokerTypeOK, NEW body \in Bodies, Sent(body), body.attempts < MaxTries,
         \A i \in Broker!Ids : log[i].attempts < MaxTries
  PROVE  \A i \in Broker!Ids' : log'[i].attempts < MaxTries
<1>1. log \in Seq(Bodies) /\ Len(log) \in Nat
  BY TypeParts DEF BrokerTypeOK, LogOK
<1>2. CASE log' = log
  BY <1>2 DEF Broker!Ids
<1>3. CASE log' = Append(log, body)
  <2>1. Len(log') = Len(log) + 1 /\ log'[Len(log) + 1] = body
    BY <1>1, <1>3
  <2>2. \A i \in 1 .. Len(log) : log'[i] = log[i]
    BY <1>1, <1>3
  <2>3. \A i \in 1 .. Len(log') : i \in 1 .. Len(log) \/ i = Len(log) + 1
    BY <1>1, <2>1
  <2> QED
    BY <2>1, <2>2, <2>3 DEF Broker!Ids
<1> QED
  BY <1>2, <1>3 DEF Sent

LEMMA TriesWork ==
  ASSUME BrokerTypeOK, TriesBounded, NEW c \in Coros, Handles(c)
  PROVE  TriesBounded'
<1>1. /\ coro[c].pc # "rest" /\ Alone(c) /\ Grows(log, log')
      /\ UNCHANGED <<deployed, cache>>
  BY DEF Handles
<1>2. \A d \in Coros : Broker!Home(d)' = Broker!Home(d)
  BY <1>1 DEF Broker!Home
<1>3. \A d \in Coros \ {c} : coro'[d] = coro[d] /\ Broker!Job(d)' = Broker!Job(d)
  BY <1>1 DEF Alone, Broker!Job
<1>4. coro[c].body \in Bodies
  BY <1>1, WorkTypes
<1>5. /\ coro'[c].pc # "run" /\ coro'[c].pc # "defer"
      /\ coro'[c].pc = "retry" => coro'[c].body.attempts < MaxTries
  <2>1. CASE GoesOn(c)
    BY <2>1 DEF GoesOn, TriesBounded
  <2>2. CASE Leaves(c) \/ Finishes(c) \/ SendsAgain(c)
    BY <2>2 DEF Leaves, Finishes, SendsAgain, Broker!Idle
  <2>3. CASE AckTakes(c)
    BY <2>3 DEF AckTakes, Broker!Idle
  <2> QED
    BY <2>1, <2>2, <2>3 DEF Handles, SettlesTask, Retries
<1>6. \A i \in Broker!Ids' : log'[i].attempts < MaxTries
  <2>1. CASE log' = log
    BY <2>1 DEF TriesBounded, Broker!Ids
  <2>2. CASE SendsAgain(c) \/ Retries(c)
    <3>1. coro[c].body.attempts < MaxTries
      BY <2>2 DEF SendsAgain, Retries, TriesBounded
    <3>2. Sent(coro[c].body)
      <4>1. log \in Seq(Bodies)
        BY DEF BrokerTypeOK, LogOK
      <4>2. CASE SendsAgain(c)
        BY <1>4, <4>1, <4>2 DEF SendsAgain, Sent
      <4> QED
        BY <2>2, <4>2 DEF Retries
    <3> QED
      BY <1>4, <3>1, <3>2, SentTries DEF TriesBounded
  <2> QED
    BY <2>1, <2>2 DEF Handles, GoesOn, Leaves, SettlesTask, Finishes
<1>7. \A d \in Coros :
        /\ coro'[d].pc = "run" =>
             /\ coro'[d].body.attempts <= MaxTries
             /\ cache'[Broker!Home(d)'][Broker!Job(d)'] = coro'[d].body.attempts
        /\ coro'[d].pc \in {"retry", "defer"} => coro'[d].body.attempts < MaxTries
  BY <1>1, <1>2, <1>3, <1>5 DEF TriesBounded
<1> QED
  BY <1>6, <1>7 DEF TriesBounded

LEMMA TriesReceive ==
  ASSUME BrokerTypeOK, TriesBounded, ~Broker!Concurrent, NEW c \in Coros, Broker!Receive(c)
  PROVE  TriesBounded'
<1>1. PICK i \in Broker!Ids : Takes(c, i)
  BY ReceiveDoes
<1>2. /\ Broker!Home(c) \in Procs /\ log[i] \in Bodies /\ Alone(c)
      /\ Broker!Job(c)' = log[i].task
      /\ UNCHANGED <<deployed, log, gone, joined, skipped, recent, settled, overruns, crashes>>
      /\ \/ /\ coro'[c].pc = "defer" /\ coro'[c].body.attempts = log[i].attempts
         \/ /\ coro'[c].pc = "run"
            /\ coro'[c].body.attempts = log[i].attempts + 1
            /\ cache'[Broker!Home(c)][log[i].task] = log[i].attempts + 1
      /\ \A p \in Procs, t \in Jobs :
           p # Broker!Home(c) \/ t # log[i].task => cache'[p][t] = cache[p][t]
  BY <1>1 DEF Takes
<1>3. \A d \in Coros : Broker!Home(d)' = Broker!Home(d)
  BY <1>2 DEF Broker!Home
<1>4. log[i].attempts \in Nat /\ log[i].attempts < MaxTries
  BY <1>2 DEF Bodies, TriesBounded
<1>5. /\ coro'[c].pc \in {"run", "defer"}
      /\ coro'[c].pc = "run" =>
           /\ coro'[c].body.attempts <= MaxTries
           /\ cache'[Broker!Home(c)'][Broker!Job(c)'] = coro'[c].body.attempts
      /\ coro'[c].pc = "defer" => coro'[c].body.attempts < MaxTries
  BY <1>2, <1>3, <1>4, TriesAssumption
<1>6. ASSUME NEW d \in Coros, d # c
      PROVE  /\ coro'[d].pc = "run" =>
                  /\ coro'[d].body.attempts <= MaxTries
                  /\ cache'[Broker!Home(d)'][Broker!Job(d)'] = coro'[d].body.attempts
             /\ coro'[d].pc \in {"retry", "defer"} => coro'[d].body.attempts < MaxTries
  <2>1. coro'[d] = coro[d] /\ Broker!Job(d)' = Broker!Job(d)
    BY <1>2, <1>6 DEF Alone, Broker!Job
  <2>2. Broker!Home(d) # Broker!Home(c)
    BY <1>2, <1>6, OneWorks
  <2>3. coro[d].pc # "rest" => cache'[Broker!Home(d)][Broker!Job(d)] = cache[Broker!Home(d)][Broker!Job(d)]
    BY <1>2, <2>2, WorkTypes
  <2> QED
    BY <1>3, <2>1, <2>3 DEF TriesBounded
<1>7. \A j \in Broker!Ids' : log'[j].attempts < MaxTries
  BY <1>2 DEF TriesBounded, Broker!Ids
<1> QED
  BY <1>5, <1>6, <1>7 DEF TriesBounded

LEMMA TriesStep ==
  ASSUME BrokerTypeOK, TriesInv, [Broker!Next]_(Broker!queueVars)
  PROVE  TriesInv'
<1>1. ASSUME deployed' = deployed, TriesBounded => TriesBounded' PROVE TriesInv'
  BY <1>1 DEF TriesInv, Broker!Concurrent, Broker!Home
<1>2. ASSUME UNCHANGED <<deployed, cache, coro>>,
             \A i \in Broker!Ids' : log'[i].attempts < MaxTries
                                    \/ (i \in Broker!Ids /\ log'[i].attempts = log[i].attempts)
      PROVE  TriesInv'
  <2>1. TriesBounded => TriesBounded'
    BY <1>2 DEF TriesBounded, Broker!Home, Broker!Job
  <2> QED
    BY <1>1, <1>2, <2>1
<1>3. ASSUME NEW t \in Jobs, Broker!Submit(t) PROVE TriesInv'
  <2>1. PICK body \in Bodies : body.task = t /\ body.attempts = 0 /\ Sent(body)
    BY <1>3, SubmitDoes
  <2>2. UNCHANGED <<deployed, cache, coro>>
    BY <1>3, SubmitDoes DEF Apart
  <2>3. body.attempts < MaxTries
    BY <2>1, TriesAssumption
  <2>4. TriesBounded => TriesBounded'
    <3>1. ASSUME TriesBounded PROVE \A i \in Broker!Ids' : log'[i].attempts < MaxTries
      BY <2>1, <2>3, <3>1, SentTries DEF TriesBounded
    <3> QED
      BY <2>2, <3>1 DEF TriesBounded, Broker!Home, Broker!Job
  <2> QED
    BY <1>1, <2>2, <2>4
<1>4. ASSUME NEW t \in Jobs, Broker!Forget(t) PROVE TriesInv'
  BY <1>2, <1>4, ForgetDoes DEF Apart, Broker!Ids
<1>5. ASSUME NEW i \in Broker!Ids, Broker!Expire(i) PROVE TriesInv'
  BY <1>2, <1>5, ExpireDoes DEF Broker!Ids
<1>6. ASSUME NEW i \in Broker!Ids, Broker!Elapse(i) PROVE TriesInv'
  <2>1. Grows(log, log') /\ Len(log') = Len(log) /\ UNCHANGED <<deployed, cache, coro>>
    BY <1>6, ElapseDoes DEF Apart
  <2>2. Broker!Ids' = Broker!Ids
    BY <2>1 DEF Broker!Ids
  <2>3. \A j \in Broker!Ids : log'[j].attempts = log[j].attempts
    BY <2>1, GrowsKeeps
  <2> QED
    BY <1>2, <2>1, <2>2, <2>3
<1>7. ASSUME NEW p \in Procs, Broker!Crash(p) PROVE TriesInv'
  <2>1. /\ \A c \in Coros : coro'[c] = IF Broker!Home(c) = p THEN Broker!Idle ELSE coro[c]
        /\ UNCHANGED <<deployed, log>>
        /\ \A o \in Procs, t \in Jobs : cache'[o][t] = IF o = p THEN 0 ELSE cache[o][t]
    <3>1. Dies(p)
      BY <1>7, CrashDoes
    <3> QED
      BY <3>1 DEF Dies
  <2>2. \A c \in Coros : Broker!Home(c)' = Broker!Home(c)
    BY <2>1 DEF Broker!Home
  <2>3. ASSUME TriesBounded, NEW c \in Coros
        PROVE  /\ coro'[c].pc = "run" =>
                    /\ coro'[c].body.attempts <= MaxTries
                    /\ cache'[Broker!Home(c)'][Broker!Job(c)'] = coro'[c].body.attempts
               /\ coro'[c].pc \in {"retry", "defer"} => coro'[c].body.attempts < MaxTries
    <3>1. CASE Broker!Home(c) = p
      BY <2>1, <3>1 DEF Broker!Idle
    <3>2. CASE Broker!Home(c) # p
      <4>1. coro'[c] = coro[c] /\ Broker!Job(c)' = Broker!Job(c)
        BY <2>1, <3>2 DEF Broker!Job
      <4>2. coro[c].pc # "rest" =>
              cache'[Broker!Home(c)][Broker!Job(c)] = cache[Broker!Home(c)][Broker!Job(c)]
        BY <2>1, <3>2, WorkTypes
      <4> QED
        BY <2>2, <2>3, <4>1, <4>2 DEF TriesBounded
    <3> QED
      BY <3>1, <3>2
  <2>4. TriesBounded => \A i \in Broker!Ids' : log'[i].attempts < MaxTries
    BY <2>1 DEF TriesBounded, Broker!Ids
  <2>5. TriesBounded => TriesBounded'
    BY <2>3, <2>4 DEF TriesBounded
  <2> QED
    BY <1>1, <2>1, <2>5
<1>8. ASSUME NEW c \in Coros, Broker!Receive(c) PROVE TriesInv'
  <2>1. deployed' = deployed
    BY <1>8, ReceiveDoes DEF Takes
  <2> QED
    BY <1>8, <2>1, TriesReceive DEF TriesInv, Broker!Concurrent, Broker!Home
<1>11. ASSUME NEW c \in Coros, Broker!Start(c) PROVE TriesInv'
  BY <1>2, <1>11, StartDoes DEF Apart, Broker!Ids
<1>9. ASSUME NEW c \in Coros, Broker!Work(c) PROVE TriesInv'
  <2>1. CASE Handles(c)
    BY <1>1, <2>1, TriesWork DEF Handles
  <2> QED
    BY <1>8, <1>9, <1>11, <2>1, WorkDoes DEF Broker!Work
<1>10. CASE UNCHANGED Broker!queueVars
  <2>1. UNCHANGED <<deployed, log, cache, coro>>
    BY <1>10 DEF Broker!queueVars, Broker!broker, Broker!offsets
  <2> QED
    BY <1>2, <2>1 DEF Broker!Ids
<1>12. ASSUME NEW c \in Coros, Broker!Miss(c) PROVE TriesInv'
  BY <1>2, <1>12, MissDoes DEF Apart, Broker!Ids
<1> QED
  BY <1>3, <1>4, <1>5, <1>6, <1>7, <1>9, <1>10, <1>12 DEF Broker!Next


-----------------------------------------------------------------------------
(* When a task is run again                                                *)

Leasing == Broker!kind \in {"sqs", "fifo"}

Holds(c, i) == coro[c].pc \in Handling /\ coro[c].receipt.id = i

\* Nobody has the message, so that it will be delivered.
Untaken(i) ==
  /\ Broker!kind = "kafka" => i > position
  /\ Broker!kind = "celery" => i \notin held \cup gone
  /\ Leasing => i \notin gone /\ \A c \in Coros : Broker!Working(c) => coro[c].receipt.id # i

\* The message will be handled, or is.
Active(i) == Untaken(i) \/ \E c \in Coros : Holds(c, i)

\* A task has one such message until it is settled, which one coroutine handles.
RunsOnce ==
  /\ \A i, j \in Broker!Ids : Active(i) /\ Active(j) /\ log[i].task = log[j].task => i = j
  /\ \A i \in Broker!Ids : Active(i) => log[i].task \notin settled
  /\ \A c, d \in Coros, i \in Broker!Ids : Holds(c, i) /\ Holds(d, i) => c = d
  /\ \A c \in Coros, i \in Broker!Ids : Holds(c, i) => ~Untaken(i)

\* On SQS a coroutine works on a hidden message with the last receipt of it.
Leases(c) ==
  /\ coro[c].receipt.id \in held \ gone
  /\ coro[c].receipt.by = c /\ last[coro[c].receipt.id] = c
  /\ OwnReceipt(c) /\ coro[c].pc # "deferred"
  /\ Broker!kind = "fifo" => \A d \in Coros : Broker!Working(d) => d = c

Leased == Leasing => \A c \in Coros : Broker!Working(c) => Leases(c)

\* Nothing has died or come too late, and no two coroutines of SQS share a process.
Calm == Broker!Undisturbed /\ (Broker!kind = "sqs" => ~Broker!Concurrent)

OnceInv == Calm => RunsOnce /\ Leased

LEMMA Kinds == ASSUME BrokerTypeOK PROVE Broker!kind \in {"sqs", "fifo", "celery", "kafka"}
BY DeploymentsAssumption DEF BrokerTypeOK, WorkersOK, Broker!kind

\* A message that is active is message n of task t, or was active and is of another task.
OnlyNew(t, n) ==
  \A i \in Broker!Ids' :
    Active(i)' => \/ i \in Broker!Ids /\ Active(i) /\ log[i].task # t
                  \/ i = n /\ log'[i].task = t /\ t \notin settled'

\* No message becomes active, but one of a task that has no other.
LEMMA OnceKept ==
  ASSUME BrokerTypeOK, RunsOnce, Grows(log, log'), NEW t, NEW n, OnlyNew(t, n),
         settled' \subseteq settled \cup {t}
  PROVE  /\ \A i, j \in Broker!Ids' : Active(i)' /\ Active(j)' /\ log'[i].task = log'[j].task => i = j
         /\ \A i \in Broker!Ids' : Active(i)' => log'[i].task \notin settled'
BY GrowsKeeps DEF RunsOnce, OnlyNew

LEMMA OnceSame ==
  ASSUME BrokerTypeOK, RunsOnce, Grows(log, log'),
         \A i \in Broker!Ids' : Active(i)' => i \in Broker!Ids /\ Active(i),
         settled' = settled
  PROVE  /\ \A i, j \in Broker!Ids' : Active(i)' /\ Active(j)' /\ log'[i].task = log'[j].task => i = j
         /\ \A i \in Broker!Ids' : Active(i)' => log'[i].task \notin settled'
BY GrowsKeeps DEF RunsOnce

\* Where the coroutines stay what they are.
LEMMA OnceTime ==
  ASSUME BrokerTypeOK, RunsOnce, Leased, Grows(log, log'),
         UNCHANGED <<deployed, last, gone, position, joined, skipped, receipts, coro, settled>>,
         \/ held' = held
         \/ \E i : /\ Leasing /\ held' = held \ {i}
                   /\ \A c \in Coros : Broker!Working(c) => coro[c].receipt.id # i
         \/ Broker!kind = "celery" /\ held \subseteq held',
         \/ Len(log') = Len(log)
         \/ \E body \in Bodies : log' = Append(log, body) /\ ~Broker!Submitted(body.task)
  PROVE  RunsOnce' /\ Leased'
<1>1. /\ Broker!kind' = Broker!kind /\ Leasing' = Leasing
      /\ \A c \in Coros : /\ Broker!Home(c)' = Broker!Home(c) /\ Broker!Job(c)' = Broker!Job(c)
                          /\ Broker!Working(c)' = Broker!Working(c)
  BY DEF Broker!kind, Broker!Home, Broker!Job, Broker!Working, Leasing
<1>2. \A i : Untaken(i)' => Untaken(i)
  BY <1>1 DEF Untaken, Leasing
<1>3. \A c \in Coros : \A i : Holds(c, i)' = Holds(c, i)
  BY DEF Holds
<1>4. \A i : Active(i)' => Active(i)
  BY <1>2, <1>3 DEF Active
<1>5. ASSUME NEW c \in Coros, NEW i \in Broker!Ids', Holds(c, i)' PROVE i \in Broker!Ids
  <2>1. coro[c].pc # "rest" /\ coro[c].receipt.id = i
    BY <1>5 DEF Holds, Handling, Acknowledging
  <2> QED
    BY <2>1, WorkTypes
<1>6. /\ \A c, d \in Coros, i \in Broker!Ids' : Holds(c, i)' /\ Holds(d, i)' => c = d
      /\ \A c \in Coros, i \in Broker!Ids' : Holds(c, i)' => ~Untaken(i)'
  BY <1>2, <1>3, <1>5 DEF RunsOnce
<1>7. /\ \A i, j \in Broker!Ids' : Active(i)' /\ Active(j)' /\ log'[i].task = log'[j].task => i = j
      /\ \A i \in Broker!Ids' : Active(i)' => log'[i].task \notin settled'
  <2>1. CASE Len(log') = Len(log)
    <3>1. Broker!Ids' = Broker!Ids
      BY <2>1 DEF Broker!Ids
    <3> QED
      BY <1>4, <3>1, OnceSame
  <2>2. ASSUME NEW body \in Bodies, log' = Append(log, body), ~Broker!Submitted(body.task)
        PROVE  /\ \A i, j \in Broker!Ids' :
                    Active(i)' /\ Active(j)' /\ log'[i].task = log'[j].task => i = j
               /\ \A i \in Broker!Ids' : Active(i)' => log'[i].task \notin settled'
    <3>1. log \in Seq(Bodies) /\ Len(log) \in Nat
      BY TypeParts DEF BrokerTypeOK, LogOK
    <3>2. Len(log') = Len(log) + 1 /\ log'[Len(log) + 1] = body
      BY <2>2, <3>1
    <3>3. \A i \in Broker!Ids' : i \in Broker!Ids \/ i = Len(log) + 1
      BY <3>1, <3>2 DEF Broker!Ids
    <3>4. \A i \in Broker!Ids : log[i].task # body.task
      BY <2>2 DEF Broker!Submitted
    <3>5. body.task \notin settled'
      BY <2>2 DEF BrokerTypeOK, LogOK
    <3>6. PICK n, t : n = Len(log) + 1 /\ t = body.task
      OBVIOUS
    <3>7. OnlyNew(t, n)
      BY <1>4, <3>2, <3>3, <3>4, <3>5, <3>6 DEF OnlyNew
    <3>8. settled' \subseteq settled \cup {t}
      OBVIOUS
    <3> QED
      BY <3>7, <3>8, OnceKept
  <2> QED
    BY <2>1, <2>2
<1>8. RunsOnce'
  BY <1>6, <1>7 DEF RunsOnce
<1>9. ASSUME Leasing, NEW c \in Coros, Broker!Working(c) PROVE Leases(c)'
  <2>1. Leases(c)
    BY <1>9 DEF Leased
  <2>2. coro[c].receipt.id \in held' \ gone'
    BY <1>9, <2>1 DEF Leases
  <2>3. OwnReceipt(c)'
    BY <1>1, <2>1 DEF Leases, OwnReceipt
  <2>4. Broker!kind' = "fifo" => \A d \in Coros : Broker!Working(d)' => d = c
    BY <1>1, <2>1 DEF Leases
  <2> QED
    BY <2>1, <2>2, <2>3, <2>4 DEF Leases
<1>10. Leased'
  BY <1>1, <1>9 DEF Leased
<1> QED
  BY <1>8, <1>10


\* Whom SQS lets work: nobody else in the process, nobody else at all on a FIFO queue.
LEMMA OthersApart ==
  ASSUME BrokerTypeOK, Leasing, Leased, Calm,
         NEW c \in Coros, NEW d \in Coros, d # c, Broker!Working(d), Broker!Home(c) \in Procs,
         Broker!kind = "fifo" => Broker!Working(c) \/ held \subseteq gone
  PROVE  Broker!Home(d) # Broker!Home(c) /\ Broker!kind = "sqs"
<1>1. Leases(d)
  BY DEF Leased
<1>2. Broker!kind # "fifo"
  BY <1>1 DEF Leases
<1>3. Broker!kind = "sqs"
  BY <1>2 DEF Leasing
<1> QED
  BY <1>3, OneWorks DEF Calm

\* The message that is received was to be delivered, and is no longer.
LEMMA ReceiveUntaken ==
  ASSUME BrokerTypeOK, Leased, NEW c \in Coros, NEW i \in Broker!Ids, Takes(c, i)
  PROVE  Untaken(i) /\ \A j \in Broker!Ids : Untaken(j)' => Untaken(j) /\ j # i
<1>2. /\ coro[c].pc = "rest" /\ Broker!Home(c) \in Procs /\ Alone(c) /\ i \in Broker!Visible
      /\ coro'[c].receipt = [id |-> i, by |-> c] /\ coro'[c].receipt.id = i
      /\ coro'[c].receipt.by = c /\ Broker!Job(c)' = log[i].task
      /\ coro'[c].pc \in {"run", "defer"}
      /\ last'[i] = c /\ \A j \in 1 .. MaxSends : j # i => last'[j] = last[j]
      /\ TakesOff(i)
      /\ Keeps(Broker!Home(c), log[i].task, [id |-> i, by |-> c])
      /\ UNCHANGED <<deployed, log, gone, joined, skipped, recent, settled, overruns, crashes>>
  <2>1. /\ coro[c].pc = "rest" /\ Broker!Home(c) \in Procs /\ Alone(c) /\ i \in Broker!Visible
        /\ coro'[c].receipt = [id |-> i, by |-> c] /\ Broker!Job(c)' = log[i].task
        /\ coro'[c].pc = "run" \/ coro'[c].pc = "defer"
        /\ last'[i] = c /\ \A j \in 1 .. MaxSends : j # i => last'[j] = last[j]
        /\ TakesOff(i) /\ Keeps(Broker!Home(c), log[i].task, [id |-> i, by |-> c])
        /\ UNCHANGED <<deployed, log, gone, joined, skipped, recent, settled, overruns, crashes>>
    BY Zenon DEF Takes
  <2> QED
    BY <2>1
<1>3. /\ Broker!kind' = Broker!kind /\ Leasing' = Leasing /\ Broker!Ids' = Broker!Ids
      /\ \A d \in Coros : Broker!Home(d)' = Broker!Home(d)
  BY <1>2 DEF Broker!kind, Broker!Home, Leasing, Broker!Ids
<1>4. \A d \in Coros : d # c =>
        /\ coro'[d] = coro[d] /\ Broker!Job(d)' = Broker!Job(d)
        /\ Broker!Working(d)' = Broker!Working(d) /\ \A j : Holds(d, j)' = Holds(d, j)
  BY <1>2 DEF Alone, Broker!Job, Broker!Working, Holds
<1>5. /\ position \in Nat /\ Broker!Ids = 1 .. Len(log) /\ Len(log) \in Nat
      /\ Broker!Ids \subseteq 1 .. MaxSends
  BY TypeParts DEF BrokerTypeOK, LogOK
<1>6. Leasing => /\ i \notin held \cup gone \/ (i \notin gone /\ held \subseteq gone)
                 /\ Broker!kind = "fifo" => held \subseteq gone
  BY <1>2 DEF Broker!Visible, Leasing
<1>7. Untaken(i)
  <2>1. Broker!kind = "kafka" => i > position
    BY <1>2, <1>5 DEF Broker!Visible
  <2>2. Broker!kind = "celery" => i \notin held \cup gone
    BY <1>2 DEF Broker!Visible
  <2>3. Leasing => i \notin gone /\ \A d \in Coros : Broker!Working(d) => coro[d].receipt.id # i
    BY <1>6 DEF Leased, Leases
  <2> QED
    BY <2>1, <2>2, <2>3 DEF Untaken
<1>8. \A j \in Broker!Ids : Untaken(j)' => Untaken(j) /\ j # i
  <2> SUFFICES ASSUME NEW j \in Broker!Ids, Untaken(j)' PROVE Untaken(j) /\ j # i
    OBVIOUS
  <2>1. CASE Broker!kind = "kafka"
    <3>1. j > position' /\ position' = i /\ i > position
      BY <1>2, <1>3, <1>7, <2>1 DEF Untaken, TakesOff
    <3> QED
      BY <1>5, <2>1, <3>1 DEF Untaken, Leasing
  <2>2. CASE Broker!kind = "celery"
    BY <1>2, <1>3, <2>2 DEF Untaken, Leasing, TakesOff
  <2>3. CASE Leasing
    <3>1. j \notin gone' /\ \A d \in Coros : Broker!Working(d)' => coro'[d].receipt.id # j
      BY <1>3, <2>3 DEF Untaken
    <3>2. Broker!Working(c)' /\ ~Broker!Working(c)
      BY <1>2 DEF Broker!Working
    <3> QED
      BY <1>2, <1>4, <2>3, <3>1, <3>2 DEF Untaken, Leasing
  <2> QED
    BY <2>1, <2>2, <2>3, Kinds DEF Leasing
<1> QED
  BY <1>7, <1>8

LEMMA OnceReceive ==
  ASSUME BrokerTypeOK, RunsOnce, Leased, Calm, NEW c \in Coros, Broker!Receive(c)
  PROVE  RunsOnce' /\ Leased'
<1>1. PICK i \in Broker!Ids : Takes(c, i)
  BY ReceiveDoes
<1>2. /\ coro[c].pc = "rest" /\ Broker!Home(c) \in Procs /\ Alone(c) /\ i \in Broker!Visible
      /\ coro'[c].receipt = [id |-> i, by |-> c] /\ coro'[c].receipt.id = i
      /\ coro'[c].receipt.by = c /\ Broker!Job(c)' = log[i].task
      /\ coro'[c].pc \in {"run", "defer"}
      /\ last'[i] = c /\ \A j \in 1 .. MaxSends : j # i => last'[j] = last[j]
      /\ TakesOff(i)
      /\ Keeps(Broker!Home(c), log[i].task, [id |-> i, by |-> c])
      /\ UNCHANGED <<deployed, log, gone, joined, skipped, recent, settled, overruns, crashes>>
  BY <1>1 DEF Takes
<1>3. /\ Broker!kind' = Broker!kind /\ Leasing' = Leasing /\ Broker!Ids' = Broker!Ids
      /\ \A d \in Coros : Broker!Home(d)' = Broker!Home(d)
  BY <1>2 DEF Broker!kind, Broker!Home, Leasing, Broker!Ids
<1>4. \A d \in Coros : d # c =>
        /\ coro'[d] = coro[d] /\ Broker!Job(d)' = Broker!Job(d)
        /\ Broker!Working(d)' = Broker!Working(d) /\ \A j : Holds(d, j)' = Holds(d, j)
  BY <1>2 DEF Alone, Broker!Job, Broker!Working, Holds
<1>5. /\ position \in Nat /\ Broker!Ids = 1 .. Len(log) /\ Len(log) \in Nat
      /\ Broker!Ids \subseteq 1 .. MaxSends
  BY TypeParts DEF BrokerTypeOK, LogOK
<1>6. Leasing => /\ i \notin held \cup gone \/ (i \notin gone /\ held \subseteq gone)
                 /\ Broker!kind = "fifo" => held \subseteq gone
  BY <1>2 DEF Broker!Visible, Leasing
<1>7. Untaken(i)
  BY <1>1, ReceiveUntaken
<1>8. \A j \in Broker!Ids : Untaken(j)' => Untaken(j) /\ j # i
  BY <1>1, ReceiveUntaken
<1>9. \A j : Holds(c, j)' => j = i
  BY <1>2 DEF Holds
<1>10. \A j \in Broker!Ids : Active(j)' => Active(j)
  <2>1. \A j \in Broker!Ids : (\E d \in Coros : Holds(d, j)') => Active(j)
    BY <1>4, <1>7, <1>9 DEF Active
  <2> QED
    BY <1>8, <2>1 DEF Active
<1>11. Grows(log, log')
  BY <1>2, SameGrows
<1>12. /\ \A j, k \in Broker!Ids' : Active(j)' /\ Active(k)' /\ log'[j].task = log'[k].task => j = k
       /\ \A j \in Broker!Ids' : Active(j)' => log'[j].task \notin settled'
  BY <1>2, <1>3, <1>10, <1>11, OnceSame
<1>13. ASSUME NEW d \in Coros, NEW j \in Broker!Ids, Holds(d, j)'
       PROVE  ~Untaken(j)' /\ (d = c \/ (Holds(d, j) /\ j # i))
  <2>1. CASE d = c
    BY <1>8, <1>9, <1>13, <2>1
  <2>2. CASE d # c
    <3>1. Holds(d, j)
      BY <1>4, <1>13, <2>2
    <3>2. ~Untaken(j)
      BY <3>1 DEF RunsOnce
    <3> QED
      BY <1>7, <1>8, <3>1, <3>2
  <2> QED
    BY <2>1, <2>2
<1>14. \A d, e \in Coros, j \in Broker!Ids : Holds(d, j)' /\ Holds(e, j)' => d = e
  BY <1>9, <1>13 DEF RunsOnce
<1>15. RunsOnce'
  BY <1>3, <1>12, <1>13, <1>14 DEF RunsOnce
<1>16. ASSUME Leasing PROVE Leases(c)'
  <2>1. i \in held' \ gone' /\ i \in 1 .. MaxSends
    BY <1>2, <1>5, <1>7, <1>16 DEF Leasing, Untaken, TakesOff
  <2>2. OwnReceipt(c)'
    <3>1. receipts'[Broker!Home(c)][log[i].task] = coro'[c].receipt
      BY <1>2 DEF Keeps
    <3> QED
      BY <1>2, <1>3, <3>1 DEF OwnReceipt
  <2>3. Broker!kind' = "fifo" => \A d \in Coros : Broker!Working(d)' => d = c
    BY <1>3, <1>4, <1>6, <1>16 DEF Leased, Leases
  <2> QED
    BY <1>2, <2>1, <2>2, <2>3 DEF Leases
<1>17. ASSUME Leasing, NEW d \in Coros, d # c, Broker!Working(d) PROVE Leases(d)'
  <2>1. Leases(d) /\ coro'[d] = coro[d] /\ Broker!Job(d)' = Broker!Job(d)
    BY <1>4, <1>17 DEF Leased
  <2>2. Broker!Home(d) # Broker!Home(c) /\ Broker!kind = "sqs"
    BY <1>2, <1>6, <1>17, OthersApart
  <2>3. coro[d].receipt.id # i /\ coro[d].receipt.id \in Broker!Ids
    BY <1>7, <1>17, WorkTypes DEF Untaken, Broker!Working
  <2>4. last'[coro[d].receipt.id] = last[coro[d].receipt.id]
    BY <1>2, <1>5, <2>3
  <2>5. coro[d].receipt.id \in held' \ gone'
    BY <1>2, <2>1, <2>2 DEF Leases, TakesOff
  <2>6. Broker!Home(d) \in Procs /\ Broker!Job(d) \in Jobs
    BY <1>17, WorkTypes DEF Broker!Working
  <2>7. receipts'[Broker!Home(d)][Broker!Job(d)] = receipts[Broker!Home(d)][Broker!Job(d)]
    BY <1>2, <2>2, <2>6 DEF Keeps
  <2>8. OwnReceipt(d)'
    BY <1>3, <2>1, <2>7 DEF Leases, OwnReceipt
  <2> QED
    BY <1>3, <2>1, <2>2, <2>4, <2>5, <2>8 DEF Leases
<1>18. Leased'
  <2> SUFFICES ASSUME Leasing, NEW d \in Coros, Broker!Working(d)' PROVE Leases(d)'
    BY <1>3 DEF Leased
  <2>1. CASE d = c
    BY <1>16, <2>1
  <2>2. CASE d # c
    BY <1>4, <1>17, <2>2
  <2> QED
    BY <2>1, <2>2
<1> QED
  BY <1>15, <1>18


\* What a step of a coroutine at work does to the messages.
LEMMA OnceHandles ==
  ASSUME BrokerTypeOK, RunsOnce, Leased, Calm, NEW c \in Coros, Handles(c),
         NEW i \in Broker!Ids
  PROVE  /\ \A d \in Coros : Holds(d, i)' => Holds(d, i) /\ (d = c => GoesOn(c))
         /\ Untaken(i)' => Untaken(i) \/ (Leaves(c) /\ Holds(c, i))
<1>1. /\ coro[c].pc # "rest" /\ Alone(c)
      /\ UNCHANGED <<deployed, cache, overruns, crashes, last, held, position, joined, skipped>>
  BY DEF Handles
<1>2. Broker!kind' = Broker!kind /\ Leasing' = Leasing
  BY <1>1 DEF Broker!kind, Leasing
<1>3. \A d \in Coros \ {c} : coro'[d] = coro[d]
  BY <1>1 DEF Alone
<1>4. ASSUME coro'[c].pc \in Handling
      PROVE  GoesOn(c) /\ coro'[c].receipt = coro[c].receipt /\ coro[c].pc \in Handling
  <2>1. ~Leaves(c) /\ ~SendsAgain(c) /\ ~SettlesTask(c) /\ ~Retries(c) /\ ~Finishes(c)
    BY <1>4 DEF Leaves, SendsAgain, SettlesTask, Retries, Finishes, AckTakes, Broker!Idle, Handling
  <2> QED
    BY <2>1 DEF Handles, GoesOn, Handling
<1>5. \A d \in Coros : Holds(d, i)' => Holds(d, i) /\ (d = c => GoesOn(c))
  BY <1>3, <1>4 DEF Holds
<1>6. ASSUME Untaken(i)' PROVE Untaken(i) \/ (Leaves(c) /\ Holds(c, i))
  <2>1. CASE Broker!kind = "kafka"
    BY <1>1, <1>2, <1>6, <2>1 DEF Untaken, Leasing
  <2>2. CASE Broker!kind # "kafka"
    <3>1. gone \subseteq gone' /\ i \notin gone
      <4>1. gone \subseteq gone'
        BY <2>2 DEF Handles, GoesOn, Leaves, SendsAgain, SettlesTask, Retries, Finishes, Acknowledged
      <4>2. i \notin gone'
        BY <1>2, <1>6, <2>2, Kinds DEF Untaken, Leasing
      <4> QED
        BY <4>1, <4>2
    <3>2. CASE Broker!kind = "celery"
      BY <1>1, <1>2, <1>6, <3>1, <3>2 DEF Untaken, Leasing
    <3>3. CASE Leasing
      <4>1. \A d \in Coros : d # c /\ Broker!Working(d) => coro[d].receipt.id # i
        BY <1>2, <1>3, <1>6, <3>3 DEF Untaken, Broker!Working
      <4>2. coro'[c].pc # "rest" => coro'[c].receipt.id # i
        BY <1>2, <1>6, <3>3 DEF Untaken, Broker!Working
      <4>3. i \notin gone'
        BY <1>2, <1>6, <3>3 DEF Untaken
      <4>4. Leases(c)
        BY <1>1, <3>3 DEF Leased, Broker!Working
      <4>5. CASE coro[c].receipt.id # i
        BY <3>1, <3>3, <4>1, <4>5 DEF Untaken, Leasing
      <4>6. CASE coro[c].receipt.id = i
        <5>1. CASE Leaves(c)
          BY <4>6, <5>1 DEF Leaves, Holds, Handling
        <5>2. ~GoesOn(c)
          BY <4>2, <4>6 DEF GoesOn
        <5>3. ~SendsAgain(c)
          BY <3>3 DEF SendsAgain, Leasing
        <5>4. ~SettlesTask(c) /\ ~Retries(c)
          <6>1. AckTakes(c) /\ coro[c].pc \in Handling =>
                  coro'[c].pc = "ack" /\ coro'[c].receipt = coro[c].receipt
            BY <4>4, AcksOwn DEF Leases
          <6> QED
            BY <4>2, <4>6, <6>1 DEF SettlesTask, Retries, Handling
        <5>5. ~Finishes(c)
          BY <2>2, <4>3, <4>4, <4>6 DEF Finishes, Acknowledged, Leases
        <5> QED
          BY <5>1, <5>2, <5>3, <5>4, <5>5 DEF Handles
      <4> QED
        BY <4>5, <4>6
    <3> QED
      BY <2>2, <3>2, <3>3, Kinds DEF Leasing
  <2> QED
    BY <2>1, <2>2
<1> QED
  BY <1>5, <1>6

LEMMA OnceWork ==
  ASSUME BrokerTypeOK, RunsOnce, Leased, Calm, NEW c \in Coros, Handles(c)
  PROVE  RunsOnce'
<1>1. coro[c].pc # "rest" /\ Grows(log, log')
  BY DEF Handles
<1>2. PICK t, m : t = Broker!Job(c) /\ m = coro[c].receipt.id
  OBVIOUS
<1>3. m \in Broker!Ids /\ log[m].task = t /\ coro[c].body \in Bodies /\ coro[c].body.task = t
  BY <1>1, <1>2, WorkTypes
<1>4. \A i \in Broker!Ids :
        /\ \A d \in Coros : Holds(d, i)' => Holds(d, i) /\ (d = c => GoesOn(c))
        /\ Untaken(i)' => Untaken(i) \/ (Leaves(c) /\ Holds(c, i))
  BY OnceHandles
<1>5. \A i \in Broker!Ids : Active(i)' => Active(i)
  BY <1>4 DEF Active
<1>6. ASSUME NEW d \in Coros, NEW i \in Broker!Ids', Holds(d, i)'
      PROVE  i \in Broker!Ids
  <2>1. coro'[d].pc # "rest" /\ coro'[d].receipt.id = i
    BY <1>6 DEF Holds, Handling
  <2>2. CASE d = c
    <3>1. WorkOK(coro'[c], log) /\ coro'[c].pc # "rest"
      BY <2>1, <2>2 DEF Handles
    <3> QED
      BY <2>1, <2>2, <3>1 DEF WorkOK, Broker!Ids, Broker!Idle
  <2>3. CASE d # c
    <3>1. coro'[d] = coro[d]
      BY <2>3 DEF Handles, Alone
    <3> QED
      BY <2>1, <3>1, WorkTypes
  <2> QED
    BY <2>2, <2>3
<1>7. /\ \A d, e \in Coros, i \in Broker!Ids' : Holds(d, i)' /\ Holds(e, i)' => d = e
      /\ \A d \in Coros, i \in Broker!Ids' : Holds(d, i)' => ~Untaken(i)'
  <2>1. \A d, e \in Coros, i \in Broker!Ids' : Holds(d, i)' /\ Holds(e, i)' => d = e
    BY <1>4, <1>6 DEF RunsOnce
  <2>2. ASSUME NEW d \in Coros, NEW i \in Broker!Ids', Holds(d, i)', Untaken(i)' PROVE FALSE
    <3>1. i \in Broker!Ids /\ Holds(d, i) /\ (d = c => GoesOn(c))
      BY <1>4, <1>6, <2>2
    <3>2. Leaves(c) /\ Holds(c, i)
      BY <1>4, <2>2, <3>1 DEF RunsOnce
    <3>3. d = c
      BY <3>1, <3>2 DEF RunsOnce
    <3> QED
      BY <3>1, <3>2, <3>3 DEF GoesOn, Leaves
  <2> QED
    BY <2>1, <2>2
<1>8. CASE GoesOn(c) \/ Leaves(c) \/ Finishes(c)
  <2>1. log' = log /\ settled' = settled
    BY <1>8 DEF GoesOn, Leaves, Finishes
  <2>2. Broker!Ids' = Broker!Ids
    BY <2>1 DEF Broker!Ids
  <2>3. /\ \A i, j \in Broker!Ids' : Active(i)' /\ Active(j)' /\ log'[i].task = log'[j].task => i = j
        /\ \A i \in Broker!Ids' : Active(i)' => log'[i].task \notin settled'
    BY <1>1, <1>5, <2>1, <2>2, OnceSame
  <2> QED
    BY <1>7, <2>3 DEF RunsOnce
<1>9. CASE SendsAgain(c) \/ SettlesTask(c) \/ Retries(c)
  <2>1. coro[c].pc \in Handling /\ ~GoesOn(c) /\ ~Leaves(c)
    <3>1. CASE SendsAgain(c)
      BY <3>1 DEF SendsAgain, GoesOn, Leaves, Handling
    <3>2. CASE AckTakes(c) /\ coro[c].pc \in {"run", "dead", "retry"}
      BY <3>2 DEF AckTakes, GoesOn, Leaves, Handling, Broker!Idle
    <3> QED
      BY <1>9, <3>1, <3>2 DEF SettlesTask, Retries
  <2>2. Holds(c, m)
    BY <1>2, <2>1 DEF Holds
  <2>3. t \notin settled /\ Active(m)
    BY <1>3, <2>2 DEF RunsOnce, Active
  <2>4. ~Active(m)'
    <3>1. ~Untaken(m)'
      BY <1>3, <1>4, <2>1, <2>2 DEF RunsOnce
    <3>2. \A d \in Coros : ~Holds(d, m)'
      BY <1>3, <1>4, <2>1, <2>2 DEF RunsOnce
    <3> QED
      BY <3>1, <3>2 DEF Active
  <2>5. \A i \in Broker!Ids : Active(i)' => Active(i) /\ log[i].task # t
    BY <1>3, <1>5, <2>3, <2>4 DEF RunsOnce
  <2>6. PICK n : n = Len(log) + 1
    OBVIOUS
  <2>7. \A i \in Broker!Ids' :
          i \in Broker!Ids \/ (i = n /\ log'[i].task = t /\ t \notin settled')
    <3>1. CASE log' = log
      BY <3>1 DEF Broker!Ids
    <3>2. CASE log' # log
      <4>1. log' = Append(log, coro[c].body) /\ settled' = settled
        BY <1>9, <3>2 DEF SendsAgain, SettlesTask, Retries, Sent
      <4>2. log \in Seq(Bodies) /\ Len(log) \in Nat
        BY TypeParts DEF BrokerTypeOK, LogOK
      <4>3. Len(log') = n /\ log'[n] = coro[c].body
        BY <1>3, <2>6, <4>1, <4>2
      <4>4. \A i \in Broker!Ids' : i \in Broker!Ids \/ i = n
        BY <2>6, <4>2, <4>3 DEF Broker!Ids
      <4> QED
        BY <1>3, <2>3, <4>1, <4>3, <4>4
    <3> QED
      BY <3>1, <3>2
  <2>8. settled' \subseteq settled \cup {t}
    BY <1>2, <1>9 DEF SendsAgain, SettlesTask, Retries
  <2>9. OnlyNew(t, n)
    BY <2>5, <2>7 DEF OnlyNew
  <2>10. /\ \A i, j \in Broker!Ids' : Active(i)' /\ Active(j)' /\ log'[i].task = log'[j].task => i = j
         /\ \A i \in Broker!Ids' : Active(i)' => log'[i].task \notin settled'
    BY <1>1, <2>8, <2>9, OnceKept
  <2> QED
    BY <1>7, <2>10 DEF RunsOnce
<1> QED
  BY <1>8, <1>9 DEF Handles

LEMMA LeasedWork ==
  ASSUME BrokerTypeOK, RunsOnce, Leased, Calm, NEW c \in Coros, Handles(c)
  PROVE  Leased'
<1>1. /\ coro[c].pc # "rest" /\ Alone(c)
      /\ UNCHANGED <<deployed, cache, overruns, crashes, last, held, position, joined, skipped>>
  BY DEF Handles
<1>2. /\ Broker!kind' = Broker!kind /\ Leasing' = Leasing
      /\ \A d \in Coros : Broker!Home(d)' = Broker!Home(d)
  BY <1>1 DEF Broker!kind, Broker!Home, Leasing
<1>3. \A d \in Coros : d # c =>
        /\ coro'[d] = coro[d] /\ Broker!Job(d)' = Broker!Job(d)
        /\ Broker!Working(d)' = Broker!Working(d)
  BY <1>1 DEF Alone, Broker!Job, Broker!Working
<1> SUFFICES ASSUME Leasing, NEW d \in Coros, Broker!Working(d)' PROVE Leases(d)'
  BY <1>2 DEF Leased
<1>4. Broker!Working(c) /\ Leases(c) /\ Broker!kind # "kafka"
  BY <1>1 DEF Leased, Broker!Working, Leasing
<1>5. Broker!Home(c) \in Procs /\ Broker!Job(c) \in Jobs
  BY <1>1, WorkTypes
<1>6. Broker!kind = "fifo" => \A e \in Coros : Broker!Working(e)' => e = c
  BY <1>3, <1>4 DEF Leases
<1>7. CASE d = c
  <2>1. ~Leaves(c) /\ ~Finishes(c) /\ ~SendsAgain(c)
    BY <1>7 DEF Leaves, Finishes, SendsAgain, Leasing, Broker!Idle, Broker!Working
  <2>2. CASE GoesOn(c)
    <3>1. /\ coro'[c].receipt = coro[c].receipt /\ Broker!Job(c)' = Broker!Job(c)
          /\ coro[c].pc = "run" /\ coro'[c].pc \in {"retry", "dead"} /\ UNCHANGED <<gone, receipts>>
      BY <2>2 DEF GoesOn
    <3>2. OwnReceipt(c)'
      BY <1>2, <1>4, <3>1 DEF Leases, OwnReceipt
    <3> QED
      BY <1>1, <1>2, <1>4, <1>6, <1>7, <3>1, <3>2 DEF Leases
  <2>3. CASE SettlesTask(c) \/ Retries(c)
    <3>1. coro[c].pc \in Handling /\ AckTakes(c) /\ gone' = gone
      BY <2>3 DEF SettlesTask, Retries, Handling
    <3>2. coro'[c].pc = "ack" /\ coro'[c].receipt = coro[c].receipt
      BY <1>4, <3>1, AcksOwn DEF Leases
    <3>3. OwnReceipt(c)'
      BY <3>2 DEF OwnReceipt
    <3> QED
      BY <1>1, <1>2, <1>4, <1>6, <1>7, <3>1, <3>2, <3>3 DEF Leases
  <2> QED
    BY <2>1, <2>2, <2>3 DEF Handles
<1>8. CASE d # c
  <2>1. Broker!Working(d) /\ Leases(d) /\ coro'[d] = coro[d] /\ Broker!Job(d)' = Broker!Job(d)
    BY <1>3, <1>8 DEF Leased
  <2>2. Broker!Home(d) # Broker!Home(c) /\ Broker!kind = "sqs"
    BY <1>4, <1>5, <1>8, <2>1, OthersApart
  <2>3. coro[d].receipt.id # coro[c].receipt.id
    BY <1>4, <1>8, <2>1 DEF Leases
  <2>4. gone' \subseteq gone \cup {coro[c].receipt.id}
    BY <1>4 DEF Handles, GoesOn, Leaves, SendsAgain, SettlesTask, Retries, Finishes, Acknowledged
  <2>5. coro'[d].receipt.id \in held' \ gone'
    BY <1>1, <2>1, <2>3, <2>4 DEF Leases
  <2>6. receipts' = receipts \/ Keeps(Broker!Home(c), Broker!Job(c), Broker!NoReceipt)
    BY DEF Handles, GoesOn, Leaves, SendsAgain, SettlesTask, Retries, Finishes, AckTakes
  <2>7. Broker!Home(d) \in Procs /\ Broker!Job(d) \in Jobs
    BY <2>1, WorkTypes DEF Broker!Working
  <2>8. receipts'[Broker!Home(d)][Broker!Job(d)] = receipts[Broker!Home(d)][Broker!Job(d)]
    BY <2>2, <2>6, <2>7 DEF Keeps
  <2>9. OwnReceipt(d)'
    BY <1>2, <2>1, <2>8 DEF Leases, OwnReceipt
  <2> QED
    BY <1>1, <1>2, <2>1, <2>2, <2>5, <2>9 DEF Leases
<1> QED
  BY <1>7, <1>8


\* A Kafka consumer that never had a position begins behind all messages.
LEMMA OnceStart ==
  ASSUME BrokerTypeOK, Committed, RunsOnce, Leased, crashes = 0, NEW c \in Coros, Broker!Start(c)
  PROVE  /\ RunsOnce' /\ Leased'
         /\ \A i \in Broker!Ids' : ~Untaken(i)'
<1>1. /\ Broker!kind = "kafka" /\ ~joined
      /\ gone = {} => position' = Len(log)
      /\ UNCHANGED <<deployed, log, coro, settled>>
  BY StartDoes DEF Apart
<1>2. gone = {} /\ \A d \in Coros : ~Broker!Working(d)
  BY <1>1 DEF Committed
<1>3. Broker!kind' = Broker!kind /\ Broker!Ids' = Broker!Ids
  BY <1>1 DEF Broker!kind, Broker!Ids
<1>4. \A i \in Broker!Ids' : ~Untaken(i)'
  BY <1>1, <1>2, <1>3, TypeParts DEF Untaken
<1>5. \A d \in Coros, i \in Broker!Ids' : ~Holds(d, i)'
  BY <1>1, <1>2 DEF Holds, Handling, Broker!Working
<1>6. RunsOnce'
  BY <1>4, <1>5 DEF RunsOnce, Active
<1>7. Leased'
  BY <1>1, <1>3 DEF Leased, Leasing
<1> QED
  BY <1>4, <1>6, <1>7

LEMMA OnceStep ==
  ASSUME BrokerTypeOK, Committed, OnceInv, [Broker!Next]_(Broker!queueVars)
  PROVE  OnceInv'
<1>1. overruns \in Nat /\ crashes \in Nat
  BY TypeParts
<1>2. ASSUME deployed' = deployed, overruns' = 0 => overruns = 0, crashes' = 0 => crashes = 0,
             RunsOnce /\ Leased /\ Calm => RunsOnce' /\ Leased'
      PROVE  OnceInv'
  <2>1. Calm' => Calm
    BY <1>2 DEF Calm, Broker!Undisturbed, Broker!kind, Broker!Concurrent, Broker!Home
  <2> QED
    BY <1>2, <2>1 DEF OnceInv
<1>3. ASSUME Grows(log, log'), UNCHANGED <<held, overruns, crashes>>,
             UNCHANGED <<deployed, last, gone, position, joined, skipped, receipts, coro, settled>>,
             \/ Len(log') = Len(log)
             \/ \E body \in Bodies : log' = Append(log, body) /\ ~Broker!Submitted(body.task)
      PROVE  OnceInv'
  BY <1>2, <1>3, OnceTime
<1>4. ASSUME NEW t \in Jobs, Broker!Submit(t) PROVE OnceInv'
  <2>1. PICK body \in Bodies : body.task = t /\ Sent(body)
    BY <1>4, SubmitDoes
  <2>2. /\ \A i \in Broker!Ids : log[i].task # t
        /\ Grows(log, log') /\ Apart /\ UNCHANGED <<last, held, gone, position, joined, skipped, receipts, coro>>
    BY <1>4, SubmitDoes
  <2>3. ~Broker!Submitted(body.task)
    BY <2>1, <2>2 DEF Broker!Submitted
  <2> QED
    BY <1>3, <2>1, <2>2, <2>3 DEF Apart, Sent
<1>5. ASSUME NEW t \in Jobs, Broker!Forget(t) PROVE OnceInv'
  BY <1>3, <1>5, ForgetDoes, SameGrows DEF Apart
<1>6. ASSUME NEW i \in Broker!Ids, Broker!Elapse(i) PROVE OnceInv'
  BY <1>3, <1>6, ElapseDoes DEF Apart
<1>7. ASSUME NEW i \in Broker!Ids, Broker!Expire(i) PROVE OnceInv'
  <2>1. /\ Leasing /\ held' = held \ {i} /\ overruns' \in Nat
        /\ overruns' # 0 \/ \A c \in Coros : coro[c].pc # "rest" => coro[c].receipt.id # i
        /\ UNCHANGED <<deployed, log, last, gone, position, joined, skipped, recent, cache, receipts, coro,
                       settled, crashes>>
        /\ overruns' = 0 => overruns = 0
    BY <1>7, ExpireDoes DEF Leasing
  <2>2. CASE overruns' # 0
    BY <2>2 DEF OnceInv, Calm, Broker!Undisturbed
  <2>3. CASE \A c \in Coros : coro[c].pc # "rest" => coro[c].receipt.id # i
    <3>1. RunsOnce /\ Leased => RunsOnce' /\ Leased'
      BY <2>1, <2>3, SameGrows, OnceTime DEF Broker!Working
    <3> QED
      BY <1>2, <2>1, <3>1
  <2> QED
    BY <2>1, <2>2, <2>3
<1>8. ASSUME NEW p \in Procs, Broker!Crash(p) PROVE OnceInv'
  <2>1. crashes' # 0
    <3>1. Dies(p)
      BY <1>8, CrashDoes
    <3> QED
      BY <1>1, <3>1 DEF Dies
  <2> QED
    BY <2>1 DEF OnceInv, Calm, Broker!Undisturbed
<1>9. ASSUME NEW c \in Coros, Broker!Receive(c) PROVE OnceInv'
  <2>1. UNCHANGED <<deployed, overruns, crashes>>
    BY <1>9, ReceiveDoes DEF Takes
  <2> QED
    BY <1>2, <1>9, <2>1, OnceReceive
<1>12. ASSUME NEW c \in Coros, Broker!Start(c) PROVE OnceInv'
  <2>1. UNCHANGED <<deployed, overruns, crashes>>
    BY <1>12, StartDoes DEF Apart
  <2>2. Calm => crashes = 0
    BY DEF Calm, Broker!Undisturbed
  <2> QED
    BY <1>2, <1>12, <2>1, <2>2, OnceStart
<1>10. ASSUME NEW c \in Coros, Broker!Work(c) PROVE OnceInv'
  <2>1. CASE Handles(c)
    <3>1. UNCHANGED <<deployed, overruns, crashes>>
      BY <2>1 DEF Handles
    <3> QED
      BY <1>2, <2>1, <3>1, OnceWork, LeasedWork
  <2> QED
    BY <1>9, <1>10, <1>12, <2>1, WorkDoes DEF Broker!Work
<1>11. CASE UNCHANGED Broker!queueVars
  <2>1. /\ UNCHANGED <<deployed, last, gone, position, joined, skipped, receipts, coro, settled>>
        /\ UNCHANGED <<log, held, overruns, crashes>>
    BY <1>11 DEF Broker!queueVars, Broker!broker, Broker!past, Broker!offsets
  <2> QED
    BY <1>3, <2>1, SameGrows
<1>13. ASSUME NEW c \in Coros, Broker!Miss(c) PROVE OnceInv'
  <2>1. /\ Broker!kind = "celery" /\ held \subseteq held' /\ log' = log
        /\ UNCHANGED <<deployed, last, gone, position, joined, skipped, receipts, coro, settled>>
        /\ UNCHANGED <<overruns, crashes>>
    BY <1>13, MissDoes DEF Apart
  <2>2. RunsOnce /\ Leased => RunsOnce' /\ Leased'
    BY <2>1, SameGrows, OnceTime
  <2> QED
    BY <1>2, <2>1, <2>2
<1> QED
  BY <1>4, <1>5, <1>6, <1>7, <1>8, <1>10, <1>11, <1>13 DEF Broker!Next

-----------------------------------------------------------------------------
(* How often the handler of a task has run                                 *)

\* The attempts that coroutine c has for its task are the runs of it.
Counted(c) ==
  /\ coro[c].pc \in {"run", "retry", "defer"} => runs[Broker!Job(c)] = coro[c].body.attempts
  /\ coro[c].pc = "defer" => log[coro[c].receipt.id].attempts = coro[c].body.attempts

\* So are those of a message that will be delivered.
Counts ==
  /\ \A t \in Jobs : runs[t] <= MaxTries
  /\ \A i \in Broker!Ids : Untaken(i) => runs[log[i].task] = log[i].attempts
  /\ \A c \in Coros : Counted(c)
  /\ \A t \in Jobs : ~Broker!Submitted(t) => runs[t] = 0

CountInv == Broker!Undisturbed /\ ~Broker!Concurrent => Counts

\* Where nobody is given a task.
LEMMA CountSame ==
  ASSUME BrokerTypeOK, Counts, Grows(log, log'), runs' = runs,
         \A i \in Broker!Ids' :
           Untaken(i)' => \/ i \in Broker!Ids /\ Untaken(i)
                          \/ runs[log'[i].task] = log'[i].attempts,
         \A c \in Coros : coro'[c] = coro[c] \/ Counted(c)'
  PROVE  Counts'
<1>1. /\ \A i \in Broker!Ids : log'[i].task = log[i].task /\ log'[i].attempts = log[i].attempts
      /\ \A t : Broker!Submitted(t) => Broker!Submitted(t)'
  BY GrowsKeeps
<1>2. \A i \in Broker!Ids' : Untaken(i)' => runs'[log'[i].task] = log'[i].attempts
  BY <1>1 DEF Counts
<1>3. ASSUME NEW c \in Coros PROVE Counted(c)'
  <2>1. CASE coro'[c] = coro[c]
    <3>1. Counted(c) /\ Broker!Job(c)' = Broker!Job(c)
      BY <2>1 DEF Counts, Broker!Job
    <3>2. coro[c].pc = "defer" => log'[coro[c].receipt.id].attempts = log[coro[c].receipt.id].attempts
      BY <1>1, WorkTypes
    <3> QED
      BY <2>1, <3>1, <3>2 DEF Counted
  <2> QED
    BY <2>1
<1>4. \A t \in Jobs : runs'[t] <= MaxTries
  BY DEF Counts
<1>5. \A t \in Jobs : ~Broker!Submitted(t)' => runs'[t] = 0
  BY <1>1 DEF Counts
<1> QED
  BY <1>2, <1>3, <1>4, <1>5 DEF Counts

LEMMA CountWork ==
  ASSUME BrokerTypeOK, TriesBounded, RunsOnce, Leased, Calm, Counts, NEW c \in Coros, Handles(c)
  PROVE  Counts'
<1>1. coro[c].pc # "rest" /\ Alone(c) /\ Grows(log, log') /\ runs' = runs
  BY DEF Handles
<1>2. coro[c].body \in Bodies /\ coro[c].body.task = Broker!Job(c) /\ Counted(c)
  BY <1>1, WorkTypes DEF Counts
<1>3. Counted(c)'
  <2>1. CASE GoesOn(c)
    <3>1. /\ coro[c].pc = "run" /\ coro'[c].pc \in {"retry", "dead"}
          /\ Broker!Job(c)' = Broker!Job(c)
          /\ coro'[c].pc = "retry" => coro'[c].body.attempts = cache[Broker!Home(c)][Broker!Job(c)]
      BY <2>1 DEF GoesOn
    <3>2. cache[Broker!Home(c)][Broker!Job(c)] = coro[c].body.attempts
      BY <3>1 DEF TriesBounded
    <3> QED
      BY <1>1, <1>2, <3>1, <3>2 DEF Counted
  <2>2. CASE coro'[c].pc \notin {"run", "retry", "defer"}
    BY <2>2 DEF Counted
  <2>3. CASE AckTakes(c)
    BY <2>2, <2>3 DEF AckTakes, Broker!Idle
  <2>4. CASE Leaves(c) \/ SendsAgain(c) \/ Finishes(c)
    BY <2>2, <2>4 DEF Leaves, SendsAgain, Finishes, Broker!Idle
  <2> QED
    BY <2>1, <2>3, <2>4 DEF Handles, SettlesTask, Retries
<1>4. \A d \in Coros : coro'[d] = coro[d] \/ Counted(d)'
  BY <1>1, <1>3 DEF Alone
<1>5. ASSUME NEW i \in Broker!Ids', Untaken(i)'
      PROVE  (i \in Broker!Ids /\ Untaken(i)) \/ runs[log'[i].task] = log'[i].attempts
  <2>1. CASE i \in Broker!Ids
    <3>1. Untaken(i) \/ (Leaves(c) /\ Holds(c, i))
      BY <1>5, <2>1, OnceHandles
    <3>2. ASSUME Leaves(c), Holds(c, i) PROVE runs[log'[i].task] = log'[i].attempts
      <4>1. log' = log /\ coro[c].pc = "defer" /\ coro[c].receipt.id = i
        BY <3>2 DEF Leaves, Holds
      <4>2. log[i].task = Broker!Job(c)
        BY <1>1, <4>1, WorkTypes
      <4> QED
        BY <1>2, <4>1, <4>2 DEF Counted
    <3> QED
      BY <2>1, <3>1, <3>2
  <2>2. CASE i \notin Broker!Ids
    <3>1. log' # log
      BY <1>5, <2>2 DEF Broker!Ids
    <3>2. /\ coro[c].pc \in {"retry", "defer"} /\ log' = Append(log, coro[c].body)
      BY <3>1 DEF Handles, GoesOn, Leaves, SendsAgain, SettlesTask, Retries, Finishes, Sent
    <3>3. log \in Seq(Bodies) /\ Len(log) \in Nat
      BY TypeParts DEF BrokerTypeOK, LogOK
    <3>4. Len(log') = Len(log) + 1 /\ log'[Len(log) + 1] = coro[c].body
      BY <1>2, <3>2, <3>3
    <3>5. i = Len(log) + 1
      BY <1>5, <2>2, <3>3, <3>4 DEF Broker!Ids
    <3>6. log'[i] = coro[c].body
      BY <3>4, <3>5
    <3>7. runs[Broker!Job(c)] = coro[c].body.attempts
      BY <1>2, <3>2 DEF Counted
    <3> QED
      BY <1>2, <3>6, <3>7
  <2> QED
    BY <2>1, <2>2
<1> QED
  BY <1>1, <1>4, <1>5, CountSame

LEMMA CountReceive ==
  ASSUME BrokerTypeOK, TriesBounded, RunsOnce, Leased, Calm, Counts,
         NEW c \in Coros, Broker!Receive(c)
  PROVE  Counts'
<1>1. PICK i \in Broker!Ids : Takes(c, i)
  BY ReceiveDoes
<1>2. PICK t : t = log[i].task
  OBVIOUS
<1>3. /\ log[i] \in Bodies /\ log' = log /\ Alone(c) /\ Broker!Job(c)' = t
      /\ coro'[c].receipt.id = i
      /\ \/ coro'[c].pc = "defer" /\ coro'[c].body.attempts = log[i].attempts /\ runs' = runs
         \/ /\ coro'[c].pc = "run" /\ coro'[c].body.attempts = log[i].attempts + 1
            /\ runs' = [runs EXCEPT ![t] = @ + 1]
  BY <1>1, <1>2 DEF Takes
<1>4. /\ t \in Jobs /\ runs \in [Jobs -> Nat] /\ log[i].attempts \in Nat
      /\ log[i].attempts < MaxTries /\ Broker!Ids' = Broker!Ids /\ MaxTries \in Nat
  BY <1>2, <1>3, TypeParts, TriesAssumption DEF Bodies, TriesBounded, Broker!Ids
<1>5. Untaken(i) /\ \A j \in Broker!Ids : Untaken(j)' => Untaken(j) /\ j # i
  BY <1>1, ReceiveUntaken
<1>6. runs[t] = log[i].attempts
  BY <1>2, <1>5 DEF Counts
<1>7. /\ \A u \in Jobs : u # t => runs'[u] = runs[u]
      /\ runs'[t] <= MaxTries
      /\ coro'[c].pc = "defer" => runs'[t] = log[i].attempts
      /\ coro'[c].pc = "run" => runs'[t] = coro'[c].body.attempts
  <2>1. CASE runs' = runs /\ coro'[c].pc = "defer"
    BY <1>4, <1>6, <2>1
  <2>2. CASE coro'[c].pc = "run" /\ coro'[c].body.attempts = log[i].attempts + 1
             /\ runs' = [runs EXCEPT ![t] = @ + 1]
    BY <1>4, <1>6, <2>2
  <2> QED
    BY <1>3, <2>1, <2>2
<1>8. \A u \in Jobs : runs'[u] <= MaxTries
  BY <1>7 DEF Counts
<1>9. ASSUME NEW j \in Broker!Ids', Untaken(j)' PROVE runs'[log'[j].task] = log'[j].attempts
  <2>1. Untaken(j) /\ j # i /\ log[j] \in Bodies
    BY <1>4, <1>5, <1>9, TypeParts DEF BrokerTypeOK, LogOK
  <2>2. log[j].task # t /\ log[j].task \in Jobs
    BY <1>2, <1>4, <1>5, <1>9, <2>1 DEF RunsOnce, Active, Bodies
  <2> QED
    BY <1>3, <1>4, <1>7, <1>9, <2>1, <2>2 DEF Counts
<1>10. Counted(c)'
  BY <1>3, <1>7 DEF Counted
<1>11. ASSUME NEW d \in Coros, d # c PROVE Counted(d)'
  <2>1. coro'[d] = coro[d] /\ Broker!Job(d)' = Broker!Job(d) /\ Counted(d)
    BY <1>3, <1>11 DEF Alone, Broker!Job, Counts
  <2>2. ASSUME coro[d].pc \in {"run", "retry", "defer"} PROVE runs'[Broker!Job(d)] = runs[Broker!Job(d)]
    <3>1. PICK m : m = coro[d].receipt.id
      OBVIOUS
    <3>2. m \in Broker!Ids /\ log[m].task = Broker!Job(d) /\ Broker!Job(d) \in Jobs
      BY <2>2, <3>1, WorkTypes
    <3>3. Holds(d, m)
      BY <2>2, <3>1 DEF Holds, Handling
    <3>4. m # i /\ Active(m) /\ Active(i)
      BY <1>5, <3>2, <3>3 DEF RunsOnce, Active
    <3>5. Broker!Job(d) # t
      BY <1>2, <3>2, <3>4 DEF RunsOnce
    <3> QED
      BY <1>7, <3>2, <3>5
  <2> QED
    BY <1>3, <2>1, <2>2 DEF Counted
<1>12. \A u \in Jobs : ~Broker!Submitted(u)' => runs'[u] = 0
  <2>1. \A u : Broker!Submitted(u)' = Broker!Submitted(u)
    BY <1>3, <1>4 DEF Broker!Submitted
  <2>2. Broker!Submitted(t)
    BY <1>2 DEF Broker!Submitted
  <2> QED
    BY <1>7, <2>1, <2>2 DEF Counts
<1> QED
  BY <1>8, <1>9, <1>10, <1>11, <1>12 DEF Counts

LEMMA CountStep ==
  ASSUME BrokerTypeOK, Committed, TriesInv, OnceInv, CountInv, [Broker!Next]_(Broker!queueVars)
  PROVE  CountInv'
<1>1. overruns \in Nat /\ crashes \in Nat
  BY TypeParts
<1> DEFINE Quiet == Broker!Undisturbed /\ ~Broker!Concurrent
           Known4 == Quiet => Calm /\ Counts /\ TriesBounded /\ RunsOnce /\ Leased /\ crashes = 0
<1>13. Known4
  BY DEF CountInv, TriesInv, OnceInv, Calm, Broker!Undisturbed
<1> HIDE DEF Known4
<1>2. ASSUME deployed' = deployed, overruns' = 0 => overruns = 0, crashes' = 0 => crashes = 0,
             Quiet => Counts'
      PROVE  CountInv'
  BY <1>2 DEF CountInv, Broker!Undisturbed, Broker!Concurrent, Broker!Home
<1>3. ASSUME Grows(log, log'), UNCHANGED <<deployed, gone, position, coro, runs>>,
             \/ held' = held
             \/ Leasing
             \/ held \subseteq held',
             overruns' = 0 => overruns = 0, crashes' = 0 => crashes = 0,
             \/ Len(log') = Len(log)
             \/ \E body \in Bodies :
                  log' = Append(log, body) /\ ~Broker!Submitted(body.task) /\ body.attempts = 0
      PROVE  CountInv'
  <2>1. \A i : Untaken(i)' => Untaken(i)
    BY <1>3 DEF Untaken, Leasing, Broker!kind, Broker!Working
  <2>2. ASSUME Counts, NEW i \in Broker!Ids'
        PROVE  i \in Broker!Ids \/ runs[log'[i].task] = log'[i].attempts
    <3>1. CASE Len(log') = Len(log)
      BY <2>2, <3>1 DEF Broker!Ids
    <3>2. ASSUME NEW body \in Bodies, log' = Append(log, body), ~Broker!Submitted(body.task),
                 body.attempts = 0
          PROVE  i \in Broker!Ids \/ runs[log'[i].task] = log'[i].attempts
      <4>1. log \in Seq(Bodies) /\ Len(log) \in Nat
        BY TypeParts DEF BrokerTypeOK, LogOK
      <4>2. Len(log') = Len(log) + 1 /\ log'[Len(log) + 1] = body
        BY <3>2, <4>1
      <4>3. i \in Broker!Ids \/ log'[i] = body
        BY <2>2, <4>1, <4>2 DEF Broker!Ids
      <4>4. runs[body.task] = 0
        BY <2>2, <3>2 DEF Counts, Bodies
      <4> QED
        BY <3>2, <4>3, <4>4
    <3> QED
      BY <1>3, <3>1, <3>2
  <2>3. Counts => Counts'
    BY <1>3, <2>1, <2>2, CountSame
  <2> QED
    BY <1>2, <1>3, <1>13, <2>3 DEF Known4
<1>4. ASSUME NEW t \in Jobs, Broker!Submit(t) PROVE CountInv'
  <2>1. PICK body \in Bodies : body.task = t /\ body.attempts = 0 /\ Sent(body)
    BY <1>4, SubmitDoes
  <2>2. /\ \A i \in Broker!Ids : log[i].task # t
        /\ Grows(log, log') /\ Apart /\ UNCHANGED <<held, gone, position, coro>>
    BY <1>4, SubmitDoes
  <2>3. ~Broker!Submitted(body.task)
    BY <2>1, <2>2 DEF Broker!Submitted
  <2> QED
    BY <1>3, <2>1, <2>2, <2>3 DEF Apart, Sent
<1>5. ASSUME NEW t \in Jobs, Broker!Forget(t) PROVE CountInv'
  BY <1>3, <1>5, ForgetDoes, SameGrows DEF Apart
<1>6. ASSUME NEW i \in Broker!Ids, Broker!Elapse(i) PROVE CountInv'
  BY <1>3, <1>6, ElapseDoes DEF Apart
<1>7. ASSUME NEW i \in Broker!Ids, Broker!Expire(i) PROVE CountInv'
  <2>1. /\ Leasing /\ overruns' \in Nat /\ UNCHANGED <<deployed, log, gone, position, coro, crashes>>
        /\ overruns' = 0 => overruns = 0 /\ runs' = runs
    BY <1>7, ExpireDoes DEF Leasing
  <2>2. CASE overruns' # 0
    BY <2>2 DEF CountInv, Broker!Undisturbed
  <2>3. CASE overruns' = 0
    BY <1>3, <2>1, <2>3, SameGrows
  <2> QED
    BY <2>2, <2>3
<1>8. ASSUME NEW p \in Procs, Broker!Crash(p) PROVE CountInv'
  <2>1. crashes' # 0
    <3>1. Dies(p)
      BY <1>8, CrashDoes
    <3> QED
      BY <1>1, <3>1 DEF Dies
  <2> QED
    BY <2>1 DEF CountInv, Broker!Undisturbed
<1>9. ASSUME NEW c \in Coros, Broker!Receive(c) PROVE CountInv'
  <2>1. UNCHANGED <<deployed, overruns, crashes>>
    BY <1>9, ReceiveDoes DEF Takes
  <2> QED
    BY <1>2, <1>9, <1>13, <2>1, CountReceive DEF Known4
<1>10. ASSUME NEW c \in Coros, Handles(c) PROVE CountInv'
  <2>1. UNCHANGED <<deployed, overruns, crashes>>
    BY <1>10 DEF Handles
  <2> QED
    BY <1>2, <1>10, <1>13, <2>1, CountWork DEF Known4
<1>11. ASSUME NEW c \in Coros, Broker!Start(c) PROVE CountInv'
  <2>1. UNCHANGED <<deployed, overruns, crashes, log, coro, runs>>
    BY <1>11, StartDoes DEF Apart
  <2>2. ASSUME Quiet PROVE Counts'
    <3>1. Counts /\ \A i \in Broker!Ids' : ~Untaken(i)'
      BY <1>11, <1>13, <2>2, OnceStart DEF Known4
    <3> QED
      BY <2>1, <3>1, SameGrows, CountSame
  <2> QED
    BY <1>2, <2>1, <2>2
<1>12. CASE UNCHANGED Broker!queueVars
  <2>1. UNCHANGED <<deployed, log, held, gone, position, coro, runs, overruns, crashes>>
    BY <1>12 DEF Broker!queueVars, Broker!broker, Broker!past, Broker!offsets
  <2> QED
    BY <1>3, <2>1, SameGrows
<1>15. ASSUME NEW c \in Coros, Broker!Miss(c) PROVE CountInv'
  BY <1>3, <1>15, MissDoes, SameGrows DEF Apart
<1>14. ASSUME NEW c \in Coros, Broker!Work(c) PROVE CountInv'
  BY <1>9, <1>10, <1>11, <1>14, WorkDoes DEF Broker!Work
<1> QED
  BY <1>4, <1>5, <1>6, <1>7, <1>8, <1>12, <1>14, <1>15 DEF Broker!Next

\* Together they say how often handlers run.
RunsInv == BrokerTypeOK /\ Committed /\ TriesInv /\ OnceInv /\ CountInv

LEMMA RunsInit == ASSUME Broker!Init PROVE RunsInv
<1>1. BrokerTypeOK
  BY TypeInit
<1>2. Broker!Ids = {} /\ position = 0 /\ gone = {}
  BY DEF Broker!Init, Broker!Ids
<1>3. \A c \in Coros : coro[c].pc = "rest"
  BY DEF Broker!Init, Broker!Idle
<1>7. gone = 1 .. 0 /\ 0 \in 0 .. position
  BY <1>2
<1>4. Committed
  BY <1>2, <1>3, <1>7 DEF Committed, Broker!Working
<1>5. TriesInv
  BY <1>2, <1>3 DEF TriesInv, TriesBounded
<1>6. OnceInv
  BY <1>2, <1>3 DEF OnceInv, RunsOnce, Leased, Broker!Working
<1>8. \A t \in Jobs : runs[t] = 0
  BY DEF Broker!Init, Broker!NoRuns
<1>9. CountInv
  BY <1>2, <1>3, <1>8, TriesAssumption DEF CountInv, Counts, Counted
<1> QED
  BY <1>1, <1>4, <1>5, <1>6, <1>9 DEF RunsInv

LEMMA RunsStep ==
  ASSUME RunsInv, [Broker!Next]_(Broker!queueVars) PROVE RunsInv'
BY TypeStep, CommittedStep, TriesStep, OnceStep, CountStep DEF RunsInv

LEMMA RunsJobs == ASSUME RunsInv PROVE JobsRunAsPromised
<1>1. BrokerTypeOK
  BY DEF RunsInv
<1>2. \A c \in Coros : coro[c] = Broker!Idle \/ coro[c] \in Works
  BY <1>1 DEF BrokerTypeOK, WorkersOK
<1>3. Broker!QueueTypeOK
  <2>1. log \in Seq([task: Jobs, attempts: Nat, delayed: BOOLEAN])
    BY <1>1 DEF BrokerTypeOK, LogOK, Bodies
  <2>2. held \cup gone \subseteq Broker!Ids /\ settled \subseteq Jobs
    BY <1>1 DEF BrokerTypeOK, LogOK
  <2>3. \A c \in Coros : coro[c].pc \in {"rest", "run", "defer", "deferred", "retry", "dead", "ack"}
    BY <1>2 DEF Works, Handling, Acknowledging, Broker!Idle
  <2>4. \A c \in Coros : Broker!Working(c) =>
          coro[c].receipt.id \in Broker!Ids /\ log[coro[c].receipt.id].task = Broker!Job(c)
    BY <1>1, WorkTypes DEF Broker!Working
  <2> QED
    BY <2>1, <2>2, <2>3, <2>4 DEF Broker!QueueTypeOK
<1>4. Broker!TriesWithinMax
  BY DEF RunsInv, TriesInv, TriesBounded, Broker!TriesWithinMax
<1>5. Broker!SettledStaysSettled
  <2> SUFFICES ASSUME Calm, NEW c \in Coros, coro[c].pc = "run"
               PROVE  Broker!Job(c) \notin settled
    BY DEF Broker!SettledStaysSettled, Calm
  <2>1. RunsOnce
    BY DEF RunsInv, OnceInv
  <2>2. PICK i : i = coro[c].receipt.id
    OBVIOUS
  <2>3. i \in Broker!Ids /\ log[i].task = Broker!Job(c)
    BY <1>1, <2>2, WorkTypes
  <2>4. Active(i)
    BY <2>2 DEF Active, Holds, Handling
  <2> QED
    BY <2>1, <2>3, <2>4 DEF RunsOnce
<1>6. Broker!RunsWithinMax
  BY DEF RunsInv, CountInv, Counts, Broker!RunsWithinMax
<1> QED
  BY <1>3, <1>4, <1>5, <1>6 DEF JobsRunAsPromised, Broker!JobsRunAsPromised

\* On every broker where each process runs one coroutine: no handler is given an envelope
\* with more than max_attempts attempts, whatever crashes or is delivered again; and as long
\* as nothing crashes or overruns a task's handler has run max_attempts times at most, over
\* all the messages of its retries and deferrals, and not again once the task is settled
\* (_broker.py's dequeue, retry, complete, dead_letter and _ack_task, with the cache and
\* receipts they share).  A delivery that is repeated counts from the attempts in its body.
THEOREM HandlersRunAsPromised == Broker!Spec => []JobsRunAsPromised
<1>1. RunsInv => JobsRunAsPromised
  BY RunsJobs
<1>2. Broker!Init => RunsInv
  BY RunsInit
<1>3. RunsInv /\ [Broker!Next]_(Broker!queueVars) => RunsInv'
  BY RunsStep
<1> QED
  BY <1>1, <1>2, <1>3, PTL DEF Broker!Spec
=============================================================================
