----------------------------- MODULE MCQueues -----------------------------
(* Small instances of the queues of Queues, checked in one run. *)
EXTENDS Queues, TLC

CONSTANTS t1, t2, t3, t4, k, a, b, p, q

brokerVars == <<deployed, log, last, held, gone, position, joined, skipped, recent, cache,
                receipts, coro, settled, runs, overruns, crashes>>

\* t1 and t3 have one key.
Keys == (t1 :> k) @@ (t2 :> NoKey) @@ (t3 :> k) @@ (t4 :> NoKey)

One == (a :> p) @@ (b :> "none")
Both == (a :> p) @@ (b :> p)
Apart == (a :> p) @@ (b :> q)
Everywhere ==
  [kind: {"sqs", "celery", "kafka"}, home: {One, Both}] \cup {[kind |-> "sqs", home |-> Apart]}

Fifo == {[kind |-> "fifo", home |-> One]}

\* A behaviour is one of the memory queue or one of a broker.
VARIABLE part

MCInit ==
  /\ Init /\ Broker!Init
  /\ \/ part = "memory" /\ deployed = [kind |-> "sqs", home |-> One]
     \/ part = "broker"

\* Only tasks that have a handler are delayed, one message at a time; faults and dropped
\* messages are checked where none is.
Delayed == {i \in 1 .. Len(log) : log[i].delayed /\ i \notin gone}
Delaying == {c \in Coros : coro[c].pc = "retry" /\ coro[c].body.delayed}

Simple ==
  /\ \A i \in Delayed : log[i].task \in Known
  /\ Cardinality(Delayed) + Cardinality(Delaying) <= 1
  /\ Delayed \cup Delaying # {} =>
       overruns + crashes = 0 /\ \A t \in Jobs : ~Broker!Stranded(t)

MCNext ==
  \/ part = "memory" /\ Next /\ UNCHANGED <<part, brokerVars>>
  \/ part = "broker" /\ Broker!Next /\ Simple' /\ UNCHANGED <<part, vars>>

MCSpec ==
  /\ MCInit /\ [][MCNext]_<<vars, brokerVars, part>>
  /\ Fairness /\ Broker!Fairness
=============================================================================
