------------------------------ MODULE Payments ------------------------------
(***************************************************************************)
(* PaymentService (plugins/payment/service.py) with StripePaymentProvider  *)
(* (stripe.py), its retries (plugins/retry.py) and a store (store.py).     *)
(* Requests and replies may be lost, calls overlap and their processes     *)
(* die.  Stripe is external: it keeps the first reply to an idempotency    *)
(* key and gives it again, and the customer pays when he likes.  Amounts   *)
(* and addresses are data.                                                 *)
(***************************************************************************)
EXTENDS Naturals, Sequences

CONSTANTS
  Callers,
  References,   \* of create_checkout() and create_refund()
  NoReference,
  MaxAttempts,
  MaxCalls,     \* bound on the calls
  MaxFaults     \* bound on requests, replies, saves and processes that are lost

VARIABLES
  checkouts,  \* at Stripe: [key, origin, payment, session, of]
  refunds,    \* at Stripe: the same, of being the checkout
  stored,     \* checkout ids and the status stored of them
  storedRefunds,
  returned,   \* <<kind, id>> of the objects a call has returned
  call,       \* [pc, op, ref, id, number, attempt, status, alone]
  calls, faults

paymentVars == <<checkouts, refunds, stored, storedRefunds, returned, call, calls, faults>>

Away == [pc |-> "idle", op |-> "none", ref |-> NoReference, id |-> 0, number |-> 0,
         attempt |-> 1, status |-> "none", alone |-> TRUE]

Init ==
  /\ checkouts = << >> /\ refunds = << >>
  /\ stored = [i \in {} |-> "none"] /\ storedRefunds = {} /\ returned = {}
  /\ call = [c \in Callers |-> Away]
  /\ calls = 0 /\ faults = 0

Becomes(c, state) == call' = [call EXCEPT ![c] = state]

Faulty == faults < MaxFaults /\ faults' = faults + 1

-----------------------------------------------------------------------------
(* The service and the provider                                            *)

Operations ==
  [op: {"checkout"}, ref: References \cup {NoReference}, id: {0}] \cup
  [op: {"get"}, ref: {NoReference}, id: DOMAIN stored] \cup
  [op: {"refund"}, ref: References \cup {NoReference}, id: DOMAIN stored]

\* alone is whether no other call is under way; create_refund() first looks up the checkout.
Call(c) ==
  /\ call[c].pc = "idle"
  /\ calls < MaxCalls /\ calls' = calls + 1
  /\ \E o \in Operations :
       call' = [d \in Callers |->
                  IF d = c
                  THEN [Away EXCEPT !.pc = IF o.op = "refund" THEN "lookup" ELSE "send",
                                    !.op = o.op, !.ref = o.ref, !.id = o.id, !.number = calls + 1,
                                    !.alone = \A e \in Callers \ {c} : call[e].pc = "idle"]
                  ELSE [call[d] EXCEPT !.alone = call[d].pc = "idle"]]
  /\ UNCHANGED <<checkouts, refunds, stored, storedRefunds, returned, faults>>

\* What a call is to create once: what its reference names, or what is its own.
Origin(c) ==
  IF call[c].ref # NoReference THEN [ref |-> call[c].ref, number |-> 0]
  ELSE [ref |-> NoReference, number |-> call[c].number]

\* Mutant: a key is made for each request, instead of each call.
KeyPerRequest(c) ==
  IF call[c].ref # NoReference THEN Origin(c)
  ELSE [ref |-> NoReference, number |-> call[c].number * 10 + call[c].attempt]

\* _idempotency_key()
Key(c) == Origin(c)

\* _map_status(): a complete session counts as paid even if the payment is to follow.
MapStatus(o) ==
  CASE o.payment = "paid" \/ o.session = "complete" -> "paid"
    [] o.session = "expired" -> "expired"
    [] OTHER -> "pending"

Known(c, objects) == \E i \in DOMAIN objects : objects[i].key = Key(c)

\* Stripe has had the key of this creation.
Replays(c) ==
  \/ call[c].op = "checkout" /\ Known(c, checkouts)
  \/ call[c].op = "refund" /\ Known(c, refunds)

New(c) ==
  [key |-> Key(c), origin |-> Origin(c), payment |-> "unpaid", session |-> "open", of |-> call[c].id]

Made(c, objects) == CHOOSE i \in DOMAIN objects : objects[i].key = Key(c)

\* Stripe refuses a key that came with another refund.
Conflicts(c) ==
  call[c].op = "refund" /\ Known(c, refunds) /\ refunds[Made(c, refunds)].of # call[c].id

\* Stripe executes the request.
Executed(c) ==
  /\ ~Conflicts(c)
  /\ checkouts' = IF call[c].op = "checkout" /\ ~Replays(c) THEN Append(checkouts, New(c))
                  ELSE checkouts
  /\ refunds' = IF call[c].op = "refund" /\ ~Replays(c) THEN Append(refunds, New(c))
                ELSE refunds

\* The reply to a creation has the state at the creation.
Reply(c) ==
  CASE call[c].op = "checkout" -> [id |-> Made(c, checkouts'), status |-> "pending"]
    [] call[c].op = "refund" -> [id |-> Made(c, refunds'), status |-> "none"]
    [] call[c].op = "get" -> [id |-> call[c].id, status |-> MapStatus(checkouts[call[c].id])]

Answered(c) ==
  /\ call[c].pc = "send"
  /\ Executed(c)
  /\ Becomes(c, [call[c] EXCEPT !.pc = "save", !.id = Reply(c).id, !.status = Reply(c).status])
  /\ UNCHANGED <<stored, storedRefunds, returned, calls, faults>>

Refused(c) ==
  /\ call[c].pc = "send" /\ Conflicts(c)
  /\ Becomes(c, Away)
  /\ UNCHANGED <<checkouts, refunds, stored, storedRefunds, returned, calls, faults>>

\* Mutant: a refund takes its checkout back to pending.
LookedUpResets(c) ==
  /\ call[c].pc = "lookup" /\ checkouts[call[c].id].session = "complete"
  /\ Becomes(c, [call[c] EXCEPT !.pc = "send", !.attempt = 1])
  /\ stored' = [stored EXCEPT ![call[c].id] = "pending"]
  /\ UNCHANGED <<checkouts, refunds, storedRefunds, returned, calls, faults>>

\* The refund needs the payment of a session that is complete.
LookedUp(c) ==
  /\ call[c].pc = "lookup"
  /\ Becomes(c, IF checkouts[call[c].id].session = "complete"
                THEN [call[c] EXCEPT !.pc = "send", !.attempt = 1] ELSE Away)
  /\ UNCHANGED <<checkouts, refunds, stored, storedRefunds, returned, calls, faults>>

\* retry_provider_operation(): a transport error or a status to retry, unless the attempts
\* are used up; any other error is raised.
NextAttempt(c) ==
  \/ /\ call[c].attempt < MaxAttempts
     /\ Becomes(c, [call[c] EXCEPT !.attempt = @ + 1])
  \/ Becomes(c, Away)

RequestFails(c) ==
  /\ call[c].pc \in {"lookup", "send"}
  /\ Faulty
  /\ NextAttempt(c)
  /\ UNCHANGED <<checkouts, refunds, stored, storedRefunds, returned, calls>>

ReplyLost(c) ==
  /\ call[c].pc = "send"
  /\ Faulty
  /\ Executed(c)
  /\ NextAttempt(c)
  /\ UNCHANGED <<stored, storedRefunds, returned, calls>>

\* INSERT ... ON DUPLICATE KEY UPDATE
Write(c) ==
  IF call[c].op = "refund"
  THEN storedRefunds' = storedRefunds \cup {call[c].id} /\ UNCHANGED stored
  ELSE /\ stored' = [i \in DOMAIN stored \cup {call[c].id} |->
                       IF i = call[c].id THEN call[c].status ELSE stored[i]]
       /\ UNCHANGED storedRefunds

Kind(c) == IF call[c].op = "refund" THEN "refund" ELSE "checkout"

Save(c) ==
  /\ call[c].pc = "save"
  /\ Write(c)
  /\ returned' = returned \cup {<<Kind(c), call[c].id>>}
  /\ Becomes(c, Away)
  /\ UNCHANGED <<checkouts, refunds, calls, faults>>

\* The store raises, or the process dies: the object stays with Stripe alone.
SaveFails(c) ==
  /\ call[c].pc = "save"
  /\ Faulty
  /\ Becomes(c, Away)
  /\ UNCHANGED <<checkouts, refunds, stored, storedRefunds, returned, calls>>

-----------------------------------------------------------------------------
(* The customer (external)                                                 *)

Session(i, payment, session) ==
  /\ checkouts' = [checkouts EXCEPT ![i].payment = payment, ![i].session = session]
  /\ UNCHANGED <<refunds, stored, storedRefunds, returned, call, calls, faults>>

Pay(i) == checkouts[i].session = "open" /\ Session(i, "paid", "complete")
PayLater(i) == checkouts[i].session = "open" /\ Session(i, "unpaid", "complete")
Expire(i) == checkouts[i].session = "open" /\ Session(i, "unpaid", "expired")

Next ==
  \/ \E c \in Callers :
       \/ Call(c) \/ Answered(c) \/ Refused(c) \/ LookedUp(c) \/ Save(c)
       \/ RequestFails(c) \/ ReplyLost(c) \/ SaveFails(c)
  \/ \E i \in DOMAIN checkouts : Pay(i) \/ PayLater(i) \/ Expire(i)

Spec == Init /\ [][Next]_paymentVars

-----------------------------------------------------------------------------

\* However often requests are sent, calls repeated and processes lost, there is one checkout
\* and one refund for each reference, and one for each call without a reference.
OncePerOrigin ==
  /\ \A i, j \in DOMAIN checkouts : checkouts[i].origin = checkouts[j].origin => i = j
  /\ \A i, j \in DOMAIN refunds : refunds[i].origin = refunds[j].origin => i = j

\* What a call has returned is in the store, even if the object was made by an earlier call
\* that could not save it.
ReturnedIsStored ==
  \A r \in returned :
    r[2] \in IF r[1] = "refund" THEN storedRefunds ELSE DOMAIN stored

\* The stored status of a checkout has been that of its session.
StoredIsTrue ==
  \A i \in DOMAIN stored :
    /\ stored[i] = "paid" => checkouts[i].session = "complete"
    /\ stored[i] = "expired" => checkouts[i].session = "expired"

\* Stripe, the store and the callers agree on what has been created and what became of it.
StoreAgrees == OncePerOrigin /\ ReturnedIsStored /\ StoredIsTrue

\* A checkout stored as paid or expired is taken back to pending only by calls that overlap,
\* or by create_checkout() with the same reference, whose reply is that of the creation.
StoreRegresses(i) == stored[i] # "pending" /\ stored'[i] = "pending"

StoreNeverRegresses ==
  [][\A i \in DOMAIN stored : StoreRegresses(i) =>
       \E c \in Callers :
         call[c].pc = "save" /\ call[c].id = i /\ (~call[c].alone \/ call[c].op = "checkout")
    ]_paymentVars
=============================================================================
