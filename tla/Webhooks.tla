------------------------------ MODULE Webhooks ------------------------------
(***************************************************************************)
(* receive_webhook() (plugins/webhooks/routes.py) with its event store and *)
(* dispatcher, under a provider that delivers an event until it gets a 200 *)
(* (external).  Requests of one event may overlap.  Signatures are data.   *)
(***************************************************************************)
EXTENDS Naturals

CONSTANTS
  Events, Requests,
  Handlers,    \* len(_handlers): they run in the order 1 .. Handlers
  MaxFaults    \* bound on handlers and stores that raise, and on restarts

VARIABLES
  durable,   \* SqlWebhookStore; the other store is in memory
  recorded,  \* the events in the store
  answered,  \* the events for which the provider got a 200
  ran,       \* how often each handler has returned for an event
  request,   \* [pc, event, at]
  damaged,   \* recorded events whose request was cut short
  restarts, faults

webhookVars == <<durable, recorded, answered, ran, request, damaged, restarts, faults>>

NoEvent == "none"
Free == [pc |-> "idle", event |-> NoEvent, at |-> 1]

Init ==
  /\ durable \in BOOLEAN
  /\ recorded = {} /\ answered = {} /\ damaged = {}
  /\ ran = [e \in Events |-> [h \in 1 .. Handlers |-> 0]]
  /\ request = [r \in Requests |-> Free]
  /\ restarts = 0 /\ faults = 0

Becomes(r, state) == request' = [request EXCEPT ![r] = state]

Faulty == faults < MaxFaults /\ faults' = faults + 1

Deliver(r, e) ==
  /\ request[r].pc = "idle" /\ e \notin answered
  /\ Becomes(r, [pc |-> "record", event |-> e, at |-> 1])
  /\ UNCHANGED <<durable, recorded, answered, ran, damaged, restarts, faults>>

RecordOnce(r) ==
  /\ request[r].pc = "record" /\ request[r].event \notin recorded
  /\ recorded' = recorded \cup {request[r].event}
  /\ Becomes(r, [request[r] EXCEPT !.pc = "dispatch"])
  /\ UNCHANGED <<durable, answered, ran, damaged, restarts, faults>>

\* record_once() is False: the answer is a 200, whatever became of the first request.
Duplicate(r) ==
  /\ request[r].pc = "record" /\ request[r].event \in recorded
  /\ answered' = answered \cup {request[r].event}
  /\ Becomes(r, Free)
  /\ UNCHANGED <<durable, recorded, ran, damaged, restarts, faults>>

\* The INSERT raises, before or after the row is committed: a 500.
StoreFails(r) ==
  /\ durable /\ request[r].pc = "record" /\ request[r].event \notin recorded
  /\ Faulty
  /\ recorded' \in {recorded, recorded \cup {request[r].event}}
  /\ damaged' = damaged \cup (recorded' \ recorded)
  /\ Becomes(r, Free)
  /\ UNCHANGED <<durable, answered, ran, restarts>>

HandlerReturns(r) ==
  /\ request[r].pc = "dispatch" /\ request[r].at <= Handlers
  /\ ran' = [ran EXCEPT ![request[r].event][request[r].at] = @ + 1]
  /\ Becomes(r, [request[r] EXCEPT !.at = @ + 1])
  /\ UNCHANGED <<durable, recorded, answered, damaged, restarts, faults>>

\* Mutant: the record is taken back, so that a redelivery runs the handlers again.
HandlerErrorForgets(r) ==
  /\ request[r].pc = "dispatch" /\ request[r].at <= Handlers
  /\ Faulty
  /\ recorded' = recorded \ {request[r].event}
  /\ Becomes(r, Free)
  /\ UNCHANGED <<durable, answered, ran, damaged, restarts>>

\* A handler raises: a 500, and the handlers after it do not run.
HandlerRaises(r) ==
  /\ request[r].pc = "dispatch" /\ request[r].at <= Handlers
  /\ Faulty
  /\ damaged' = damaged \cup {request[r].event}
  /\ Becomes(r, Free)
  /\ UNCHANGED <<durable, recorded, answered, ran, restarts>>

\* The 200 of a processed event, which may not reach the provider.
Processed(r) ==
  /\ request[r].pc = "dispatch" /\ request[r].at > Handlers
  /\ answered' \in {answered, answered \cup {request[r].event}}
  /\ Becomes(r, Free)
  /\ UNCHANGED <<durable, recorded, ran, damaged, restarts, faults>>

\* A process dies with its requests, and with its store if that is in memory; processes
\* that share a table may die one by one.
Restart ==
  /\ Faulty
  /\ restarts' = restarts + 1
  /\ \E lost \in IF durable THEN SUBSET Requests ELSE {Requests} :
       /\ damaged' = damaged \cup
            {request[r].event : r \in {q \in lost : request[q].pc = "dispatch"}}
       /\ request' = [r \in Requests |-> IF r \in lost THEN Free ELSE request[r]]
  /\ recorded' = IF durable THEN recorded ELSE {}
  /\ UNCHANGED <<durable, answered, ran>>

Next ==
  \/ \E r \in Requests :
       \/ \E e \in Events : Deliver(r, e)
       \/ RecordOnce(r) \/ Duplicate(r) \/ StoreFails(r)
       \/ HandlerReturns(r) \/ HandlerRaises(r) \/ Processed(r)
  \/ Restart

Spec == Init /\ [][Next]_webhookVars

-----------------------------------------------------------------------------

\* Deliveries that repeat or overlap run a handler once for each event; with the store in
\* memory, once more after each restart.
HandledOnce ==
  \A e \in Events, h \in 1 .. Handlers : ran[e][h] <= 1 + IF durable THEN 0 ELSE restarts

\* An answered event has been through all its handlers, or a request still works on it,
\* or it is one whose first request failed: that one is not processed again.
AnsweredIsHandled ==
  \A e \in answered :
    \/ \A h \in 1 .. Handlers : ran[e][h] > 0
    \/ e \in damaged
    \/ \E r \in Requests : request[r].pc = "dispatch" /\ request[r].event = e

\* An answered event has been handled, and by each handler once.
EventsHandled == HandledOnce /\ AnsweredIsHandled
=============================================================================
