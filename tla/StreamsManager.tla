--------------------------- MODULE StreamsManager ---------------------------
(***************************************************************************)
(* StreamsManager (streaming/streams_manager.py): the consumer loops of a  *)
(* group on one stream.                                                    *)
(*                                                                         *)
(* The client comes from DatabaseManager, which always sets                *)
(* decode_responses (database/manager.py:367): ids arrive as text, which   *)
(* has no decode().  So _claim_pending_messages() raises at the first      *)
(* entry it looks at, and _consume_loop() at the first message it has      *)
(* read; both log the exception.  What follows in the source, the handler, *)
(* the acknowledgement, XCLAIM, nack_message() and the dead-letter stream, *)
(* is not reached.                                                         *)
(***************************************************************************)
EXTENDS Naturals, FiniteSetsExt

CONSTANTS
  Consumers,     \* processes, each with one manager
  Messages,      \* bound on the messages published
  BatchSize,     \* count of XREADGROUP
  StreamLength,  \* max_len
  MaxStops       \* bound on consumers that stop or die

VARIABLES
  published,   \* the messages 1 .. published have been added to the stream
  trimmed,     \* those that MAXLEN has removed since
  delivered,   \* the group's last delivered id
  pending,     \* its pending entries
  pc,          \* where the loop of each consumer is
  stops

streamVars == <<published, trimmed, delivered, pending, pc, stops>>

Init ==
  /\ published = 0 /\ trimmed = {} /\ delivered = 0 /\ pending = {}
  /\ pc = [c \in Consumers |-> "stopped"]
  /\ stops = 0

Goes(c, from, to) == pc[c] = from /\ pc' = [pc EXCEPT ![c] = to]

\* XADD with an approximate MAXLEN: Redis may trim the oldest messages, read or not.
Publish ==
  /\ published < Messages
  /\ published' = published + 1
  /\ trimmed' \in {trimmed, trimmed \cup 1 .. published + 1 - StreamLength}
  /\ UNCHANGED <<delivered, pending, pc, stops>>

StartConsumer(c) ==
  /\ Goes(c, "stopped", "poll")
  /\ UNCHANGED <<published, trimmed, delivered, pending, stops>>

\* stop_consumer() cancels the loop wherever it is; so does the death of the process.
StopConsumer(c) ==
  /\ pc[c] # "stopped" /\ Goes(c, pc[c], "stopped")
  /\ stops < MaxStops /\ stops' = stops + 1
  /\ UNCHANGED <<published, trimmed, delivered, pending>>

\* XPENDING: with nothing pending there is nothing to do, else the first id raises.
ClaimPending(c) ==
  /\ Goes(c, "poll", "read")
  /\ UNCHANGED <<published, trimmed, delivered, pending, stops>>

\* The next messages that the stream still has.
New == {m \in delivered + 1 .. published : m \notin trimmed}
Batch == {m \in New : Cardinality({n \in New : n < m}) < BatchSize}

\* XREADGROUP makes them pending; the id of the first one raises, and the loop sleeps.
ReadNew(c) ==
  /\ IF Batch = {}
     THEN Goes(c, "read", "poll") /\ UNCHANGED delivered
     ELSE Goes(c, "read", "sleep") /\ delivered' = Max(Batch)
  /\ pending' = pending \cup Batch
  /\ UNCHANGED <<published, trimmed, stops>>

Wake(c) ==
  /\ Goes(c, "sleep", "poll")
  /\ UNCHANGED <<published, trimmed, delivered, pending, stops>>

Loop(c) == ClaimPending(c) \/ ReadNew(c) \/ Wake(c)

Next ==
  \/ Publish
  \/ \E c \in Consumers : StartConsumer(c) \/ StopConsumer(c) \/ Loop(c)

\* Loops go on, and consumers that stopped are started again.
Fairness ==
  \A c \in Consumers : WF_streamVars(Loop(c)) /\ WF_streamVars(StartConsumer(c))

Spec == Init /\ [][Next]_streamVars /\ Fairness

-----------------------------------------------------------------------------

\* The class promises automatic acknowledgement, retries, a dead-letter queue and the
\* recovery of pending messages (streams_manager.py:102-106): a message that a consumer
\* has read is acknowledged in the end, being handled or moved.
PendingTakenUp == \A m \in 1 .. Messages : m \in pending ~> m \notin pending
=============================================================================
