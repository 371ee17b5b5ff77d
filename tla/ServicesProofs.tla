---------------------------- MODULE ServicesProofs ----------------------------
(***************************************************************************)
(* Proofs about the components of Services, for every value of the         *)
(* constants: each about the specification of one component.               *)
(***************************************************************************)
EXTENDS Services, Sequences, FiniteSetTheorems, SequenceTheorems, TLAPS, WellFoundedInduction

-----------------------------------------------------------------------------
(* SagaCoordinator, for any number of operations.                          *)

\* The operations whose compensation has been called.
Called == compensated \cup compensation_failures

\* Those and the ones on the stack are the completed operations with a compensation, the
\* later ones first.
StackInv ==
  /\ Called \cup compensation_stack = completed \cap reversible
  /\ Called \cap compensation_stack = {}
  /\ \A op \in compensation_stack, later \in Called : op < later

\* While operations run, those before at have ended, nothing has been compensated, and
\* one has failed only if errors are ignored.
ProgressInv ==
  /\ phase = "execute" =>
       /\ \A op \in completed \cup failed : op < at
       /\ Called = {}
       /\ failed # {} => continue_on_error
  /\ phase = "done" /\ failed # {} /\ ~continue_on_error => compensation_stack = {}

SagaInv == TypeOK /\ ProgressInv /\ StackInv /\ ReportIsTrue

\* A stack that is not empty has a last operation.
LEMMA LastOfStack ==
  ASSUME NEW S \in SUBSET Operations, S # {}
  PROVE  Last(S) \in S /\ \A other \in S : other <= Last(S)
<1> DEFINE T == {Length - op : op \in S}
           R == OpToRel(<, Nat)
<1>1. T \subseteq Nat /\ T # {}
  <2>1. \A op \in S : Length - op \in Nat
    BY LengthAssumption DEF Operations
  <2> QED  BY <2>1
<1>2. \E x \in T : \A y \in T : ~(<<y, x>> \in R)
  <2> HIDE DEF T
  <2>1. IsWellFoundedOn(R, Nat)
    BY NatLessThanWellFounded
  <2> HIDE DEF R
  <2> QED  BY <1>1, <2>1, WFMin
<1>3. PICK x \in T : \A y \in T : ~(<<y, x>> \in R)
  BY <1>2
<1>4. \A y \in T : x <= y
  <2> HIDE DEF T
  <2>1. \A y \in T : ~(y < x)
    BY <1>1, <1>3, Zenon DEF OpToRel
  <2> HIDE DEF R
  <2> QED  BY <2>1, <1>1
<1>5. PICK op \in S : x = Length - op
  BY <1>3
<1>6. \A other \in S : other <= op
  BY <1>4, <1>5, LengthAssumption DEF Operations
<1> QED  BY <1>5, <1>6 DEF Last

-----------------------------------------------------------------------------

LEMMA SagaInitially == Init => SagaInv
BY LengthAssumption
   DEF Init, SagaInv, TypeOK, ProgressInv, StackInv, ReportIsTrue, Called, Operations,
       Doubtful

LEMMA SagaStep == SagaInv /\ [Next]_vars => SagaInv'
<1> SUFFICES ASSUME SagaInv, [Next]_vars  PROVE SagaInv'
  OBVIOUS
<1> USE DEF SagaInv, ProgressInv, StackInv, ReportIsTrue, Called, Doubtful, config, report
<1>1. CASE OperationReturns
  <2>1. TypeOK'
    BY <1>1, LengthAssumption DEF OperationReturns, Executing, TypeOK, Operations
  <2>2. at \notin completed \cup failed
    BY <1>1 DEF OperationReturns, Executing, TypeOK, Operations
  <2>3. \A op \in completed' \cup failed' : op < at'
    BY <1>1, LengthAssumption DEF OperationReturns, Executing, TypeOK, Operations
  <2> QED  BY <1>1, <2>1, <2>2, <2>3 DEF OperationReturns, Executing
<1>2. CASE OperationFails
  <2>1. TypeOK'
    BY <1>2, LengthAssumption DEF OperationFails, Executing, TypeOK, Operations
  <2>2. phase' = "execute" => \A op \in completed' \cup failed' : op < at'
    BY <1>2, LengthAssumption DEF OperationFails, Executing, TypeOK, Operations
  <2> QED  BY <1>2, <2>1, <2>2 DEF OperationFails, Executing
<1>3. CASE AllExecuted
  <2>1. TypeOK'
    BY <1>3 DEF AllExecuted, TypeOK
  <2> QED  BY <1>3, <2>1 DEF AllExecuted
<1>4. ASSUME Compensating
      PROVE  LET op == Last(compensation_stack) IN
               /\ op \in compensation_stack
               /\ \A other \in compensation_stack \ {op} : other < op
  <2>1. compensation_stack \in SUBSET Operations /\ compensation_stack # {}
    BY <1>4 DEF Compensating, TypeOK
  <2> HIDE DEF SagaInv
  <2>2. \A op, other \in Operations : other <= op /\ other # op => other < op
    BY DEF Operations
  <2> QED  BY <2>1, <2>2, LastOfStack
<1>5. CASE CompensationReturns
  <2> DEFINE op == Last(compensation_stack)
  <2>1. op \in compensation_stack /\ \A other \in compensation_stack \ {op} : other < op
    BY <1>4, <1>5 DEF CompensationReturns
  <2>2. /\ phase = "compensate" /\ phase' = phase
        /\ compensation_stack' = compensation_stack \ {op}
        /\ compensated' = compensated \cup {op}
        /\ effects' = effects \ {op}
        /\ UNCHANGED <<config, at, completed, failed, compensation_failures>>
    BY <1>5 DEF CompensationReturns, Compensating
  <2> HIDE DEF op
  <2>3. TypeOK'
    BY <2>1, <2>2 DEF TypeOK
  <2> QED  BY <2>1, <2>2, <2>3
<1>6. CASE CompensationFails
  <2> DEFINE op == Last(compensation_stack)
  <2>1. op \in compensation_stack /\ \A other \in compensation_stack \ {op} : other < op
    BY <1>4, <1>6 DEF CompensationFails
  <2>2. /\ phase = "compensate" /\ phase' = phase
        /\ compensation_stack' = compensation_stack \ {op}
        /\ compensation_failures' = compensation_failures \cup {op}
        /\ effects' \in {effects, effects \ {op}}
        /\ UNCHANGED <<config, at, completed, failed, compensated>>
    BY <1>6 DEF CompensationFails, Compensating
  <2> HIDE DEF op
  <2>3. TypeOK'
    BY <2>1, <2>2 DEF TypeOK
  <2> QED  BY <2>1, <2>2, <2>3
<1>7. CASE AllCompensated
  <2>1. TypeOK'
    BY <1>7 DEF AllCompensated, TypeOK
  <2> QED  BY <1>7, <2>1 DEF AllCompensated
<1>8. CASE Cancel
  <2>1. TypeOK'
    BY <1>8 DEF Cancel, Executing, Compensating, TypeOK, Operations
  <2> QED  BY <1>8, <2>1 DEF Cancel
<1>9. CASE UNCHANGED vars
  BY <1>9 DEF vars, TypeOK
<1> QED  BY <1>1, <1>2, <1>3, <1>5, <1>6, <1>7, <1>8, <1>9 DEF Next

THEOREM SagaInvariance == Spec => []SagaInv
BY SagaInitially, SagaStep, PTL DEF Spec

-----------------------------------------------------------------------------

\* The report tells what the operations have done, whichever of them fail, time out or
\* cannot be compensated.
THEOREM Reports == Spec => []ReportIsTrue
<1>1. SagaInv => ReportIsTrue
  BY DEF SagaInv
<1> QED  BY <1>1, SagaInvariance, PTL

\* A saga that failed has called every compensation it owes, and has left only what the
\* report calls failed or in doubt.
THEOREM Atomicity == Spec => []AllOrNothing
<1>1. SagaInv => AllOrNothing
  BY DEF SagaInv, AllOrNothing, ProgressInv, StackInv, ReportIsTrue, Called
<1> QED  BY <1>1, SagaInvariance, PTL

\* Compensations are called from the last operation to the first.
THEOREM Order == Spec => []ReverseOrder
<1>1. SagaInv => ReverseOrder
  BY DEF SagaInv, ReverseOrder, StackInv, TypeOK, Called, Operations
<1> QED  BY <1>1, SagaInvariance, PTL

\* All three together.
THEOREM Compensation == Spec => []CompensatesAsReported
BY Reports, Atomicity, Order, PTL DEF CompensatesAsReported

-----------------------------------------------------------------------------
(* Webhooks, for any number of events, overlapping requests, handlers,     *)
(* failures and restarts.                                                  *)

HooksTypeOK ==
  /\ durable \in BOOLEAN
  /\ recorded \subseteq Events /\ answered \subseteq Events
  /\ ran \in [Events -> [1 .. Handlers -> Nat]]
  /\ request \in [Requests -> [pc: {"idle", "record", "dispatch"},
                               event: Events \cup {Hooks!NoEvent}, at: Nat \ {0}]]
  /\ \A r \in Requests : request[r].pc # "idle" => request[r].event \in Events
  /\ restarts \in Nat

\* How often an event may have been through the handlers before it was recorded: a table
\* remembers it for good, memory until a restart.
Before == IF durable THEN 0 ELSE restarts

Dispatches(r, e) == request[r].pc = "dispatch" /\ request[r].event = e

\* record_once() lets one request of a recorded event go on.
OneDispatcher ==
  /\ \A r \in Requests : request[r].pc = "dispatch" => request[r].event \in recorded
  /\ \A r, s \in Requests :
       request[r].pc = "dispatch" /\ Dispatches(s, request[r].event) => r = s

\* The handlers that a request is still to run have not run since the event was recorded,
\* and those it has run have.
CountsInv ==
  /\ \A e \in Events, h \in 1 .. Handlers :
       ran[e][h] <= IF e \in recorded THEN 1 + Before ELSE Before
  /\ \A r \in Requests : request[r].pc = "record" => request[r].at = 1
  /\ \A r \in Requests, h \in 1 .. Handlers :
       request[r].pc = "dispatch" =>
         IF h < request[r].at THEN ran[request[r].event][h] > 0
                              ELSE ran[request[r].event][h] <= Before

\* A recorded or answered event is handled, being handled or damaged.
HandledInv ==
  \A e \in recorded \cup answered :
    \/ \A h \in 1 .. Handlers : ran[e][h] > 0
    \/ e \in damaged
    \/ \E r \in Requests : Dispatches(r, e)

HookInv == HooksTypeOK /\ OneDispatcher /\ CountsInv /\ HandledInv

-----------------------------------------------------------------------------

LEMMA HooksInitially == ASSUME Handlers \in Nat, Hooks!Init PROVE HookInv
<1> USE DEF Hooks!Init, Hooks!Free
<1>1. HooksTypeOK
  BY DEF HooksTypeOK
<1>2. OneDispatcher /\ CountsInv /\ HandledInv
  BY DEF OneDispatcher, CountsInv, HandledInv, Dispatches, Before
<1> QED  BY <1>1, <1>2 DEF HookInv

\* What a step that changes one request makes of it.
LEMMA OneChanges ==
  ASSUME NEW r \in Requests, NEW new, HooksTypeOK, Hooks!Becomes(r, new)
  PROVE  /\ request'[r] = new
         /\ \A q \in Requests \ {r} : request'[q] = request[q]
         /\ DOMAIN request' = Requests
BY DEF HooksTypeOK, Hooks!Becomes

\* The one count that a handler's return changes.
LEMMA Counted ==
  ASSUME Handlers \in Nat, HooksTypeOK, NEW r \in Requests, Hooks!HandlerReturns(r)
  PROVE  /\ request[r].event \in Events /\ request[r].at \in 1 .. Handlers
         /\ ran' \in [Events -> [1 .. Handlers -> Nat]]
         /\ \A e \in Events, h \in 1 .. Handlers :
              ran'[e][h] = IF e = request[r].event /\ h = request[r].at
                           THEN ran[e][h] + 1 ELSE ran[e][h]
<1> DEFINE e0 == request[r].event
           h0 == request[r].at
<1>1. e0 \in Events /\ h0 \in 1 .. Handlers
  BY DEF HooksTypeOK, Hooks!HandlerReturns
<1>2. ran \in [Events -> [1 .. Handlers -> Nat]] /\ ran' = [ran EXCEPT ![e0][h0] = @ + 1]
  BY DEF HooksTypeOK, Hooks!HandlerReturns
<1> HIDE DEF e0, h0
<1>3. /\ ran' \in [Events -> [1 .. Handlers -> Nat]]
      /\ \A e \in Events, h \in 1 .. Handlers :
           ran'[e][h] = IF e = e0 /\ h = h0 THEN ran[e][h] + 1 ELSE ran[e][h]
  BY <1>1, <1>2
<1> QED  BY <1>1, <1>3 DEF e0, h0

LEMMA HooksTypeKept ==
  ASSUME Handlers \in Nat, HooksTypeOK, [Hooks!Next]_(Hooks!webhookVars) PROVE HooksTypeOK'
<1> USE DEF HooksTypeOK
<1> DEFINE Record ==
      [pc: {"idle", "record", "dispatch"}, event: Events \cup {Hooks!NoEvent}, at: Nat \ {0}]
<1>1. Hooks!Free \in Record
  BY DEF Hooks!Free
<1>2. CASE UNCHANGED Hooks!webhookVars
  BY <1>2 DEF Hooks!webhookVars
<1>3. ASSUME NEW r \in Requests, NEW e \in Events, Hooks!Deliver(r, e) PROVE HooksTypeOK'
  BY <1>3 DEF Hooks!Deliver, Hooks!Becomes
<1>4. ASSUME NEW r \in Requests, Hooks!RecordOnce(r) PROVE HooksTypeOK'
  BY <1>4 DEF Hooks!RecordOnce, Hooks!Becomes
<1>5. ASSUME NEW r \in Requests, Hooks!Duplicate(r) PROVE HooksTypeOK'
  BY <1>5, <1>1 DEF Hooks!Duplicate, Hooks!Becomes, Hooks!Free
<1>6. ASSUME NEW r \in Requests, Hooks!StoreFails(r) PROVE HooksTypeOK'
  BY <1>6, <1>1 DEF Hooks!StoreFails, Hooks!Becomes, Hooks!Free
<1>7. ASSUME NEW r \in Requests, Hooks!HandlerReturns(r) PROVE HooksTypeOK'
  <2>1. ran' \in [Events -> [1 .. Handlers -> Nat]]
    BY <1>7, Counted
  <2>2. /\ [request[r] EXCEPT !.at = @ + 1] \in Record
        /\ [request[r] EXCEPT !.at = @ + 1].event = request[r].event
        /\ request[r].event \in Events
    <3>1. request[r] \in Record /\ request[r].pc # "idle"
      BY <1>7 DEF Hooks!HandlerReturns
    <3>2. request[r].event \in Events
      BY <3>1
    <3>3. request[r] \in Record => [request[r] EXCEPT !.at = @ + 1] \in Record
      <4> HIDE DEF HooksTypeOK
      <4> QED  OBVIOUS
    <3> QED  BY <3>1, <3>2, <3>3
  <2>3. request' = [request EXCEPT ![r] = [request[r] EXCEPT !.at = @ + 1]]
    BY <1>7 DEF Hooks!HandlerReturns, Hooks!Becomes
  <2>4. UNCHANGED <<durable, recorded, answered, restarts>>
    BY <1>7 DEF Hooks!HandlerReturns
  <2> QED  BY <2>1, <2>2, <2>3, <2>4
<1>8. ASSUME NEW r \in Requests, Hooks!HandlerRaises(r) PROVE HooksTypeOK'
  BY <1>8, <1>1 DEF Hooks!HandlerRaises, Hooks!Becomes, Hooks!Free
<1>9. ASSUME NEW r \in Requests, Hooks!Processed(r) PROVE HooksTypeOK'
  BY <1>9, <1>1 DEF Hooks!Processed, Hooks!Becomes, Hooks!Free
<1>10. CASE Hooks!Restart
  BY <1>10, <1>1 DEF Hooks!Restart, Hooks!Free
<1> QED
  BY <1>2, <1>3, <1>4, <1>5, <1>6, <1>7, <1>8, <1>9, <1>10 DEF Hooks!Next

-----------------------------------------------------------------------------

\* What every step keeps of the counts: they do not shrink.
LEMMA OneDispatcherKept ==
  ASSUME Handlers \in Nat, HookInv, [Hooks!Next]_(Hooks!webhookVars) PROVE OneDispatcher'
<1> USE DEF HookInv, HooksTypeOK, OneDispatcher, Dispatches
<1>1. CASE UNCHANGED Hooks!webhookVars
  BY <1>1 DEF Hooks!webhookVars
<1>2. ASSUME NEW r \in Requests, NEW e \in Events, Hooks!Deliver(r, e) PROVE OneDispatcher'
  BY <1>2 DEF Hooks!Deliver, Hooks!Becomes
<1>3. ASSUME NEW r \in Requests, Hooks!RecordOnce(r) PROVE OneDispatcher'
  BY <1>3 DEF Hooks!RecordOnce, Hooks!Becomes
<1>4. ASSUME NEW r \in Requests,
             Hooks!Duplicate(r) \/ Hooks!StoreFails(r) \/ Hooks!HandlerRaises(r) \/
             Hooks!Processed(r)
      PROVE  OneDispatcher'
  <2>1. Hooks!Becomes(r, Hooks!Free) /\ recorded \subseteq recorded'
    BY <1>4 DEF Hooks!Duplicate, Hooks!StoreFails, Hooks!HandlerRaises, Hooks!Processed
  <2> QED  BY <2>1 DEF Hooks!Becomes, Hooks!Free
<1>5. ASSUME NEW r \in Requests, Hooks!HandlerReturns(r) PROVE OneDispatcher'
  BY <1>5 DEF Hooks!HandlerReturns, Hooks!Becomes
<1>6. CASE Hooks!Restart
  <2>1. CASE durable
    BY <1>6, <2>1 DEF Hooks!Restart, Hooks!Free
  <2>2. CASE ~durable
    <3>1. \A q \in Requests : request'[q] = Hooks!Free
      BY <1>6, <2>2 DEF Hooks!Restart
    <3> QED  BY <3>1 DEF Hooks!Free
  <2> QED  BY <2>1, <2>2
<1> QED
  BY <1>1, <1>2, <1>3, <1>4, <1>5, <1>6 DEF Hooks!Next

\* The counts of an event that is neither recorded nor being handled may only be excused more.
LEMMA CountsKept ==
  ASSUME Handlers \in Nat, HookInv, [Hooks!Next]_(Hooks!webhookVars) PROVE CountsInv'
<1> USE DEF HookInv, CountsInv
<1>1. CASE UNCHANGED Hooks!webhookVars
  BY <1>1 DEF Hooks!webhookVars, Before
<1>2. ASSUME NEW r \in Requests, NEW e \in Events, Hooks!Deliver(r, e) PROVE CountsInv'
  BY <1>2 DEF Hooks!Deliver, Hooks!Becomes, HooksTypeOK, Before
<1>3. ASSUME NEW r \in Requests, Hooks!RecordOnce(r) PROVE CountsInv'
  <2>1. /\ request[r].event \in Events \ recorded /\ request[r].at = 1
        /\ recorded' = recorded \cup {request[r].event}
        /\ ran' = ran /\ Before' = Before
        /\ request[r].pc = "record" /\ Hooks!Becomes(r, [request[r] EXCEPT !.pc = "dispatch"])
    BY <1>3 DEF Hooks!RecordOnce, HooksTypeOK, Before
  <2>2. Before \in Nat
    BY DEF HooksTypeOK, Before
  <2>3. \A e \in Events, h \in 1 .. Handlers :
          ran'[e][h] <= IF e \in recorded' THEN 1 + Before' ELSE Before'
    BY <2>1, <2>2 DEF HooksTypeOK
  <2>4. \A q \in Requests \ {r} : request'[q] = request[q]
    BY <2>1, OneChanges
  <2>5. request'[r] = [request[r] EXCEPT !.pc = "dispatch"]
    BY <2>1, OneChanges
  <2>6. request'[r].pc = "dispatch" /\ request'[r].at = 1 /\ request'[r].event = request[r].event
    BY <2>1, <2>5 DEF HooksTypeOK
  <2>7. \A h \in 1 .. Handlers : ran'[request'[r].event][h] <= Before' /\ ~(h < request'[r].at)
    BY <2>1, <2>6
  <2> QED  BY <2>1, <2>3, <2>4, <2>6, <2>7
<1>4. ASSUME NEW r \in Requests,
             Hooks!Duplicate(r) \/ Hooks!StoreFails(r) \/ Hooks!HandlerRaises(r) \/
             Hooks!Processed(r)
      PROVE  CountsInv'
  <2>1. /\ Hooks!Becomes(r, Hooks!Free) /\ recorded \subseteq recorded'
        /\ ran' = ran /\ Before' = Before
    BY <1>4 DEF Hooks!Duplicate, Hooks!StoreFails, Hooks!HandlerRaises, Hooks!Processed, Before
  <2>2. Before \in Nat
    BY DEF HooksTypeOK, Before
  <2>3. \A e \in Events, h \in 1 .. Handlers :
          ran'[e][h] <= IF e \in recorded' THEN 1 + Before' ELSE Before'
    BY <2>1, <2>2 DEF HooksTypeOK
  <2>4. \A q \in Requests : request'[q] = IF q = r THEN Hooks!Free ELSE request[q]
    BY <2>1 DEF Hooks!Becomes, HooksTypeOK
  <2> QED  BY <2>1, <2>3, <2>4 DEF Hooks!Free
<1>5. ASSUME NEW r \in Requests, Hooks!HandlerReturns(r) PROVE CountsInv'
  <2> DEFINE e0 == request[r].event
             h0 == request[r].at
  <2>1. /\ e0 \in Events /\ h0 \in 1 .. Handlers
        /\ \A e \in Events, h \in 1 .. Handlers :
             ran'[e][h] = IF e = e0 /\ h = h0 THEN ran[e][h] + 1 ELSE ran[e][h]
    BY <1>5, Counted
  <2>2. /\ request[r].pc = "dispatch" /\ recorded' = recorded /\ Before' = Before
        /\ Hooks!Becomes(r, [request[r] EXCEPT !.at = @ + 1])
    BY <1>5 DEF Hooks!HandlerReturns, Before
  <2>3. /\ Before \in Nat /\ e0 \in recorded
        /\ \A e \in Events, h \in 1 .. Handlers : ran[e][h] \in Nat
    BY <2>2 DEF HooksTypeOK, Before, OneDispatcher
  <2>4. ran[e0][h0] <= Before
    BY <2>1, <2>2
  <2>5. \A e \in Events, h \in 1 .. Handlers :
          ran'[e][h] <= IF e \in recorded' THEN 1 + Before' ELSE Before'
    BY <2>1, <2>2, <2>3, <2>4
  <2>6. /\ \A q \in Requests \ {r} : request'[q] = request[q]
        /\ request'[r] = [request[r] EXCEPT !.at = @ + 1]
    BY <2>2, OneChanges
  <2>7. request'[r].pc = "dispatch" /\ request'[r].at = h0 + 1 /\ request'[r].event = e0
    BY <2>2, <2>6 DEF HooksTypeOK
  <2>8. \A q \in Requests \ {r} : request[q].pc = "dispatch" =>
          request[q].event \in Events \ {e0}
    BY <2>2 DEF OneDispatcher, Dispatches, HooksTypeOK
  <2>9. ASSUME NEW q \in Requests, NEW h \in 1 .. Handlers, request'[q].pc = "dispatch"
        PROVE  IF h < request'[q].at THEN ran'[request'[q].event][h] > 0
                                     ELSE ran'[request'[q].event][h] <= Before'
    <3>1. CASE q = r
      <4>1. h < h0 => ran[e0][h] > 0
        BY <2>2
      <4>2. ~(h < h0) => ran[e0][h] <= Before
        BY <2>2
      <4> HIDE DEF e0, h0
      <4> QED  BY <2>1, <2>2, <2>3, <2>7, <3>1, <4>1, <4>2
    <3>2. CASE q # r
      BY <2>1, <2>2, <2>6, <2>8, <2>9, <3>2
    <3> QED  BY <3>1, <3>2
  <2> QED  BY <2>2, <2>5, <2>6, <2>7, <2>9
<1>6. CASE Hooks!Restart
  <2>1. ran' = ran /\ restarts' = restarts + 1 /\ durable' = durable
    BY <1>6 DEF Hooks!Restart
  <2>2. CASE durable
    <3>1. recorded' = recorded /\ Before' = Before
      BY <1>6, <2>1, <2>2 DEF Hooks!Restart, Before
    <3>2. \A q \in Requests : request'[q] = Hooks!Free \/ request'[q] = request[q]
      BY <1>6 DEF Hooks!Restart
    <3> QED  BY <2>1, <3>1, <3>2 DEF Hooks!Free
  <2>3. CASE ~durable
    <3>1. recorded' = {} /\ Before' = Before + 1 /\ Before \in Nat
      BY <1>6, <2>1, <2>3 DEF Hooks!Restart, Before, HooksTypeOK
    <3>2. \A q \in Requests : request'[q] = Hooks!Free
      BY <1>6, <2>3 DEF Hooks!Restart
    <3>3. \A e \in Events, h \in 1 .. Handlers : ran[e][h] \in Nat /\ ran[e][h] <= 1 + Before
      BY <3>1 DEF HooksTypeOK
    <3> QED  BY <2>1, <3>1, <3>2, <3>3 DEF Hooks!Free
  <2> QED  BY <2>2, <2>3
<1> QED
  BY <1>1, <1>2, <1>3, <1>4, <1>5, <1>6 DEF Hooks!Next

LEMMA HandledKept ==
  ASSUME Handlers \in Nat, HookInv, [Hooks!Next]_(Hooks!webhookVars) PROVE HandledInv'
<1> USE DEF HookInv, HandledInv, Dispatches
<1>1. CASE UNCHANGED Hooks!webhookVars
  BY <1>1 DEF Hooks!webhookVars
<1>2. ASSUME NEW r \in Requests, NEW e \in Events, Hooks!Deliver(r, e) PROVE HandledInv'
  BY <1>2, OneChanges DEF Hooks!Deliver
<1>3. ASSUME NEW r \in Requests, Hooks!RecordOnce(r) PROVE HandledInv'
  <2>1. /\ recorded' = recorded \cup {request[r].event}
        /\ UNCHANGED <<ran, damaged, answered>>
        /\ request[r].pc = "record" /\ Hooks!Becomes(r, [request[r] EXCEPT !.pc = "dispatch"])
    BY <1>3 DEF Hooks!RecordOnce
  <2>2. /\ \A q \in Requests \ {r} : request'[q] = request[q]
        /\ request'[r] = [request[r] EXCEPT !.pc = "dispatch"]
    BY <2>1, OneChanges
  <2>3. request'[r].pc = "dispatch" /\ request'[r].event = request[r].event
    BY <2>2 DEF HooksTypeOK
  <2>4. ASSUME NEW e \in recorded' \cup answered'
        PROVE  \/ \A h \in 1 .. Handlers : ran'[e][h] > 0
               \/ e \in damaged'
               \/ \E q \in Requests : request'[q].pc = "dispatch" /\ request'[q].event = e
    <3>1. CASE e = request[r].event
      BY <2>3, <3>1
    <3>2. CASE e \in recorded \cup answered
      BY <2>1, <2>2, <3>2
    <3> QED  BY <2>1, <3>1, <3>2
  <2> QED  BY <2>4
<1>4. ASSUME NEW r \in Requests, Hooks!Duplicate(r) \/ Hooks!StoreFails(r) PROVE HandledInv'
  <2>1. /\ Hooks!Becomes(r, Hooks!Free) /\ ran' = ran /\ damaged \subseteq damaged'
        /\ recorded' \cup answered' \subseteq recorded \cup answered \cup damaged'
        /\ request[r].pc # "dispatch"
    BY <1>4 DEF Hooks!Duplicate, Hooks!StoreFails
  <2>2. \A q \in Requests : request[q].pc = "dispatch" => request'[q] = request[q]
    BY <2>1, OneChanges
  <2>3. ASSUME NEW e \in recorded' \cup answered'
        PROVE  \/ \A h \in 1 .. Handlers : ran'[e][h] > 0
               \/ e \in damaged'
               \/ \E q \in Requests : request'[q].pc = "dispatch" /\ request'[q].event = e
    <3>1. CASE e \in damaged'
      BY <3>1
    <3>2. CASE e \in recorded \cup answered
      BY <2>1, <2>2, <3>2
    <3> QED  BY <2>1, <3>1, <3>2
  <2> QED  BY <2>3
<1>5. ASSUME NEW r \in Requests, Hooks!HandlerReturns(r) PROVE HandledInv'
  <2>1. /\ UNCHANGED <<recorded, answered, damaged>>
        /\ request[r].pc = "dispatch" /\ Hooks!Becomes(r, [request[r] EXCEPT !.at = @ + 1])
    BY <1>5 DEF Hooks!HandlerReturns
  <2>2. ASSUME NEW e \in Events, NEW h \in 1 .. Handlers, ran[e][h] > 0 PROVE ran'[e][h] > 0
    <3>1. ran'[e][h] = ran[e][h] \/ ran'[e][h] = ran[e][h] + 1
      BY <1>5, Counted
    <3>2. ran[e][h] \in Nat
      BY DEF HooksTypeOK
    <3> QED  BY <2>2, <3>1, <3>2
  <2>3. /\ \A q \in Requests \ {r} : request'[q] = request[q]
        /\ request'[r] = [request[r] EXCEPT !.at = @ + 1]
    BY <2>1, OneChanges
  <2>4. request'[r].pc = "dispatch" /\ request'[r].event = request[r].event
    BY <2>1, <2>3 DEF HooksTypeOK
  <2>5. ASSUME NEW e \in recorded \cup answered
        PROVE  \/ \A h \in 1 .. Handlers : ran'[e][h] > 0
               \/ e \in damaged
               \/ \E q \in Requests : request'[q].pc = "dispatch" /\ request'[q].event = e
    <3>1. e \in Events
      BY DEF HooksTypeOK
    <3>2. CASE \A h \in 1 .. Handlers : ran[e][h] > 0
      BY <2>2, <3>1, <3>2
    <3>3. CASE \E q \in Requests : request[q].pc = "dispatch" /\ request[q].event = e
      BY <2>3, <2>4, <3>3
    <3> QED  BY <3>2, <3>3
  <2> QED  BY <2>1, <2>5
<1>6. ASSUME NEW r \in Requests, Hooks!HandlerRaises(r) PROVE HandledInv'
  <2>1. /\ UNCHANGED <<recorded, answered, ran>> /\ Hooks!Becomes(r, Hooks!Free)
        /\ damaged' = damaged \cup {request[r].event}
    BY <1>6 DEF Hooks!HandlerRaises
  <2>2. \A q \in Requests \ {r} : request'[q] = request[q]
    BY <2>1, OneChanges
  <2> QED  BY <2>1, <2>2
<1>7. ASSUME NEW r \in Requests, Hooks!Processed(r) PROVE HandledInv'
  <2>1. /\ UNCHANGED <<recorded, ran, damaged>> /\ Hooks!Becomes(r, Hooks!Free)
        /\ answered' \subseteq answered \cup {request[r].event}
        /\ request[r].pc = "dispatch" /\ request[r].at > Handlers
    BY <1>7 DEF Hooks!Processed
  <2>2. \A q \in Requests \ {r} : request'[q] = request[q]
    BY <2>1, OneChanges
  <2>3. \A h \in 1 .. Handlers : h < request[r].at
    BY <2>1 DEF HooksTypeOK
  <2>4. \A h \in 1 .. Handlers : ran[request[r].event][h] > 0
    BY <2>1, <2>3 DEF CountsInv
  <2> QED  BY <2>1, <2>2, <2>4
<1>8. CASE Hooks!Restart
  <2>1. PICK lost \in IF durable THEN SUBSET Requests ELSE {Requests} :
          /\ damaged' = damaged \cup
               {request[r].event : r \in {q \in lost : request[q].pc = "dispatch"}}
          /\ request' = [r \in Requests |-> IF r \in lost THEN Hooks!Free ELSE request[r]]
    BY <1>8 DEF Hooks!Restart
  <2>2. ran' = ran /\ answered' = answered /\ recorded' \subseteq recorded
    BY <1>8 DEF Hooks!Restart
  <2>3. ASSUME NEW r \in Requests, request[r].pc = "dispatch"
        PROVE  request[r].event \in damaged' \/ request'[r] = request[r]
    BY <2>1, <2>3
  <2>4. damaged \subseteq damaged'
    BY <2>1
  <2> QED  BY <2>2, <2>3, <2>4
<1> QED
  BY <1>1, <1>2, <1>3, <1>4, <1>5, <1>6, <1>7, <1>8 DEF Hooks!Next

-----------------------------------------------------------------------------

\* The invariant, with what it says of the counts of every handler of receive_webhook().
THEOREM HooksInvariance == Hooks!Spec => []HookInv
<1>1. Hooks!Init => HookInv
  BY HandlersAssumption, HooksInitially
<1>2. HookInv /\ [Hooks!Next]_(Hooks!webhookVars) => HookInv'
  BY HandlersAssumption, HooksTypeKept, OneDispatcherKept, CountsKept, HandledKept DEF HookInv
<1> QED  BY <1>1, <1>2, PTL DEF Hooks!Spec

\* However deliveries repeat, overlap and are cut short, each handler has returned at most
\* once for an event, with the store in memory once more for each restart, and an answered
\* event has been handled, is being handled, or is one whose first request was cut short.
THEOREM Handling == Hooks!Spec => []EventsHandled
<1>1. HookInv => Hooks!HandledOnce
  <2> SUFFICES ASSUME HookInv, NEW e \in Events, NEW h \in 1 .. Handlers
               PROVE  ran[e][h] <= 1 + IF durable THEN 0 ELSE restarts
    BY DEF Hooks!HandledOnce
  <2>1. ran[e][h] \in Nat /\ restarts \in Nat
    BY DEF HookInv, HooksTypeOK
  <2>2. ran[e][h] <= IF e \in recorded THEN 1 + Before ELSE Before
    BY DEF HookInv, CountsInv
  <2> QED  BY <2>1, <2>2 DEF Before
<1>2. HookInv => Hooks!AnsweredIsHandled
  BY DEF HookInv, HandledInv, Hooks!AnsweredIsHandled, Dispatches
<1>3. HookInv => EventsHandled
  BY <1>1, <1>2 DEF EventsHandled, Hooks!EventsHandled
<1> QED  BY HooksInvariance, <1>3, PTL

-----------------------------------------------------------------------------
(* HttpSessions, for any number of concurrent requests, attempts and       *)
(* sessions.                                                               *)

SenderType == [pc: {"idle", "send", "backoff"}, session: Nat, attempt: Nat, method: Http!Methods]

HttpTypeOK ==
  /\ closed \in BOOLEAN
  /\ made \in Nat /\ open \subseteq 1 .. made /\ table \in 0 .. made
  /\ used \in {"recent", "stale", "absent"}
  /\ sender \in [Senders -> SenderType]
  /\ cleanup \in {"none", "sleep", "close"}
  /\ closer \in {"none", "cancel", "sessions", "close"}

\* While a session is being closed the table may name it, or one made since, which is an
\* orphan; and only a client that is closed closes its sessions.
ClosingInv ==
  /\ cleanup = "close" => table \notin open \/ table \in orphaned
  /\ closer # "none" => closed
  /\ closer = "close" => table \notin open

\* A session not used for two intervals has only requests older than that.
StaleInv ==
  used = "stale" => \A s \in Senders : sender[s].pc # "idle" => s \in overlong

\* Who waits to repeat a request may repeat it.
BackoffInv ==
  \A s \in Senders :
    sender[s].pc = "backoff" =>
      sender[s].method \in Http!RetryMethods /\ sender[s].attempt < MaxAttempts

SessionInv == HttpTypeOK /\ ClosingInv /\ StaleInv /\ BackoffInv /\ Http!SessionsSound

-----------------------------------------------------------------------------

LEMMA HttpInitially == ASSUME MaxAttempts \in Nat \ {0}, Http!Init PROVE SessionInv
<1> USE DEF Http!Init, Http!NoSession
<1>0. Http!Resting \in SenderType /\ Http!Resting.pc = "idle" /\ Http!Resting.attempt = 0
  BY DEF Http!Resting, SenderType, Http!Methods, Http!RetryMethods
<1>1. HttpTypeOK
  <2>1. made \in Nat /\ open \subseteq 1 .. made /\ table \in 0 .. made
    OBVIOUS
  <2>2. sender \in [Senders -> SenderType]
    BY <1>0
  <2> QED  BY <2>1, <2>2 DEF HttpTypeOK
<1>2. ClosingInv /\ StaleInv /\ BackoffInv
  BY <1>0 DEF ClosingInv, StaleInv, BackoffInv
<1>3. Http!SessionsReachable /\ Http!SessionsOutliveRequests
  BY <1>0 DEF Http!SessionsReachable, Http!SessionsOutliveRequests
<1>4. Http!SentAtMost
  <2> SUFFICES ASSUME NEW s \in Senders PROVE sender[s].attempt <= 1
    BY DEF Http!SentAtMost
  <2>1. sender[s] = Http!Resting
    OBVIOUS
  <2> HIDE DEF Http!Init
  <2>2. Http!Resting.attempt <= 1
    BY <1>0
  <2> QED  BY <2>1, <2>2
<1> QED  BY <1>1, <1>2, <1>3, <1>4 DEF SessionInv, Http!SessionsSound

\* A request begins with an open session.
LEMMA RequestKeeps ==
  ASSUME MaxAttempts \in Nat \ {0}, SessionInv, NEW s \in Senders, NEW method \in Http!Methods,
         Http!Request(s, method)
  PROVE  SessionInv'
<1> USE DEF SessionInv, HttpTypeOK
<1> DEFINE new == [pc |-> "send", session |-> table', attempt |-> 1, method |-> method]
<1>1. /\ used' = "recent" /\ UNCHANGED <<closed, closer, overlong>>
      /\ ~closed /\ cleanup' \in {"sleep", "close"}
      /\ cleanup' = "close" => cleanup = "close"
  BY DEF Http!Request, Http!EnsureSession
<1>2. /\ made' \in Nat /\ made <= made' /\ open' \subseteq 1 .. made'
      /\ table' \in 0 .. made' /\ table' \in open' /\ open \subseteq open'
  <2>1. CASE Http!Reusable
    <3>1. UNCHANGED <<made, open, table>> /\ table \in open
      BY <2>1 DEF Http!Request, Http!EnsureSession, Http!Reusable
    <3> QED  BY <3>1
  <2>2. CASE ~Http!Reusable
    <3>1. made' = made + 1 /\ open' = open \cup {made + 1} /\ table' = made + 1
      BY <2>2 DEF Http!Request, Http!EnsureSession
    <3> QED  BY <3>1
  <2> QED  BY <2>1, <2>2
<1>3. /\ open' \subseteq {table'} \cup orphaned'
      /\ cleanup' = "close" => table' \notin open' \/ table' \in orphaned'
  <2> USE DEF Http!SessionsSound, Http!SessionsReachable, ClosingInv
  <2>1. CASE Http!Reusable
    BY <1>1, <2>1 DEF Http!Request, Http!EnsureSession, Http!Reusable
  <2>2. CASE ~Http!Reusable
    <3>1. /\ open' = open \cup {made + 1} /\ table' = made + 1
          /\ orphaned' = orphaned \cup IF cleanup = "close" THEN {made + 1} ELSE {}
      BY <2>2 DEF Http!Request, Http!EnsureSession
    <3> QED  BY <1>1, <2>2, <3>1 DEF Http!Reusable
  <2> QED  BY <2>1, <2>2
<1>4. sender' = [sender EXCEPT ![s] = new]
  BY DEF Http!Request, Http!Becomes
<1>5. new \in SenderType /\ new.pc = "send" /\ new.session = table' /\ new.attempt = 1
  BY <1>2 DEF SenderType
<1> HIDE DEF new
<1>6. \A q \in Senders : sender'[q] = IF q = s THEN new ELSE sender[q]
  BY <1>4
<1>7. HttpTypeOK'
  BY <1>1, <1>2, <1>4, <1>5
<1>8. ClosingInv' /\ StaleInv'
  BY <1>1, <1>3 DEF ClosingInv, StaleInv
<1>9. BackoffInv' /\ Http!SentAtMost'
  BY <1>5, <1>6 DEF BackoffInv, Http!SessionsSound, Http!SentAtMost
<1>10. Http!SessionsOutliveRequests'
  BY <1>1, <1>2, <1>5, <1>6 DEF Http!SessionsSound, Http!SessionsOutliveRequests
<1> QED  BY <1>3, <1>7, <1>8, <1>9, <1>10 DEF Http!SessionsSound, Http!SessionsReachable

\* What happens to one sender leaves the sessions alone.
LEMMA SenderKeeps ==
  ASSUME MaxAttempts \in Nat \ {0}, SessionInv, NEW s \in Senders,
         Http!RequestEnds(s) \/ Http!AttemptFails(s) \/ Http!Retry(s)
  PROVE  SessionInv'
<1> USE DEF SessionInv, HttpTypeOK
<1>1. UNCHANGED <<closed, made, open, table, used, cleanup, closer, orphaned>>
  BY DEF Http!RequestEnds, Http!AttemptFails, Http!Retry
<1>2. ClosingInv' /\ Http!SessionsReachable'
  BY <1>1 DEF ClosingInv, Http!SessionsSound, Http!SessionsReachable
<1>3. CASE Http!RequestEnds(s)
  <2>1. sender' = [sender EXCEPT ![s] = Http!Resting] /\ overlong' = overlong \ {s}
    BY <1>3 DEF Http!RequestEnds, Http!Ends, Http!Becomes
  <2>2. Http!Resting \in SenderType /\ Http!Resting.pc = "idle" /\ Http!Resting.attempt <= 1
    BY DEF Http!Resting, Http!NoSession, SenderType, Http!Methods, Http!RetryMethods
  <2>3. \A q \in Senders : sender'[q] = IF q = s THEN Http!Resting ELSE sender[q]
    BY <2>1
  <2> QED
    BY <1>1, <1>2, <2>1, <2>2, <2>3 DEF StaleInv, BackoffInv, Http!SessionsSound,
       Http!SessionsOutliveRequests, Http!SentAtMost
<1>4. CASE Http!AttemptFails(s) \/ Http!Retry(s)
  <2>1. PICK new :
          /\ sender' = [sender EXCEPT ![s] = new] /\ new \in SenderType
          /\ new.session = sender[s].session /\ new.method = sender[s].method
          /\ new.attempt \in {sender[s].attempt, sender[s].attempt + 1}
          /\ new.pc # "idle" /\ sender[s].pc # "idle"
          /\ new.pc = "backoff" => new.attempt = sender[s].attempt
    <3>1. sender[s] \in SenderType
      OBVIOUS
    <3>2. CASE Http!AttemptFails(s)
      <4> WITNESS [sender[s] EXCEPT !.pc = "backoff"]
      <4> QED  BY <3>1, <3>2 DEF Http!AttemptFails, Http!Becomes, SenderType
    <3>3. CASE Http!Retry(s)
      <4> DEFINE again == [sender[s] EXCEPT !.pc = "send", !.attempt = @ + 1]
      <4>1. /\ again \in SenderType /\ again.pc = "send"
            /\ again.session = sender[s].session /\ again.method = sender[s].method
            /\ again.attempt = sender[s].attempt + 1
        <5>1. sender[s].attempt \in Nat
          BY <3>1 DEF SenderType
        <5>2. sender[s].attempt + 1 \in Nat
          BY <5>1
        <5> HIDE DEF SessionInv, HttpTypeOK
        <5> QED  BY <3>1, <5>2 DEF SenderType
      <4>2. sender' = [sender EXCEPT ![s] = again] /\ sender[s].pc # "idle"
        BY <3>3 DEF Http!Retry, Http!Becomes
      <4> HIDE DEF again
      <4> WITNESS again
      <4> QED  BY <4>1, <4>2
    <3> QED  BY <1>4, <3>2, <3>3
  <2>2. sender[s].attempt < MaxAttempts /\ sender[s].method \in Http!RetryMethods
    BY <1>4 DEF Http!AttemptFails, Http!Retries, Http!Retry, BackoffInv
  <2>3. overlong' = overlong
    BY <1>4 DEF Http!AttemptFails, Http!Retry
  <2>4. \A q \in Senders : sender'[q] = IF q = s THEN new ELSE sender[q]
    BY <2>1
  <2>5. new.attempt \in Nat /\ new.attempt <= MaxAttempts
    BY <2>1, <2>2 DEF SenderType
  <2> QED
    BY <1>1, <1>2, <2>1, <2>2, <2>3, <2>4, <2>5 DEF StaleInv, BackoffInv, Http!SessionsSound,
       Http!SessionsOutliveRequests, Http!SentAtMost
<1> QED  BY <1>3, <1>4

\* The cleanup task closes what is not used and forgets what is closed, and so does close().
LEMMA CleanupKeeps ==
  ASSUME SessionInv,
         Http!Age \/ Http!Sweep \/ Http!Swept \/ Http!Close \/ Http!CleanupCancelled \/
         Http!CloseSessions \/ Http!CloseEnds
  PROVE  SessionInv'
<1> USE DEF SessionInv, HttpTypeOK, ClosingInv, StaleInv, BackoffInv, Http!SessionsSound,
            Http!SessionsReachable, Http!SessionsOutliveRequests, Http!SentAtMost, Http!NoSession
<1>1. CASE Http!Age
  BY <1>1 DEF Http!Age
<1>2. CASE Http!Sweep
  BY <1>2 DEF Http!Sweep
<1>3. CASE Http!Swept
  BY <1>3 DEF Http!Swept
<1>4. CASE Http!Close
  BY <1>4 DEF Http!Close
<1>5. CASE Http!CleanupCancelled
  BY <1>5 DEF Http!CleanupCancelled
<1>6. CASE Http!CloseSessions
  BY <1>6 DEF Http!CloseSessions
<1>7. CASE Http!CloseEnds
  BY <1>7 DEF Http!CloseEnds
<1> QED  BY <1>1, <1>2, <1>3, <1>4, <1>5, <1>6, <1>7

LEMMA StutterKeeps == ASSUME SessionInv, UNCHANGED Http!httpVars PROVE SessionInv'
BY DEF SessionInv, HttpTypeOK, ClosingInv, StaleInv, BackoffInv, Http!SessionsSound,
       Http!SessionsReachable, Http!SessionsOutliveRequests, Http!SentAtMost, Http!httpVars

-----------------------------------------------------------------------------

\* The invariant: the client's own table, its cleanup task and close() agree on which
\* session is being closed.
THEOREM HttpInvariance == Http!Spec => []SessionInv
<1>1. Http!Init => SessionInv
  BY AttemptsAssumption, HttpInitially
<1>2. SessionInv /\ [Http!Next]_(Http!httpVars) => SessionInv'
  BY AttemptsAssumption, RequestKeeps, SenderKeeps, CleanupKeeps, StutterKeeps DEF Http!Next
<1> QED  BY <1>1, <1>2, PTL DEF Http!Spec

\* HttpClient loses no session but one made while the cleanup task closes another, closes
\* none under a request younger than two intervals, and repeats only what may be repeated.
THEOREM Sessions == Http!Spec => []SessionsSound
<1>1. SessionInv => SessionsSound
  BY DEF SessionInv, SessionsSound
<1> QED  BY HttpInvariance, <1>1, PTL

-----------------------------------------------------------------------------
(* TaskWorkerRun, for any max_tasks and concurrency and any number of      *)
(* runs, stops, tasks and calls of the queue that raise.                   *)

\* The settings that TaskWorker accepts.
Positive == Nat \ {0}
SettingsOK == MaxTasks \ {Unlimited} \subseteq Positive /\ Concurrencies \subseteq Positive

WorkerTypeOK ==
  /\ max_tasks \in MaxTasks /\ concurrency \in Concurrencies
  /\ stopped \in BOOLEAN /\ pc \in {"idle", "loop", "batch", "sleep"}
  /\ processed \in Nat /\ taken \in Nat /\ orphans \in Nat /\ late \in Nat /\ errors \in Nat
  /\ batch \in [size: Nat, left: Nat, worked: Nat]

\* Between batches a run has counted all it took, and what is left of max_tasks is a whole
\* number of tasks: the batch that comes next is bounded by it.
BudgetInv ==
  /\ pc # "batch" => batch = Worker!NoBatch
  /\ pc # "idle" => processed + batch.worked = taken
  /\ max_tasks # Unlimited /\ pc \in {"loop", "sleep"} => processed < max_tasks

RunInv == WorkerTypeOK /\ BudgetInv /\ Worker!RunsWithinLimits

-----------------------------------------------------------------------------

LEMMA WorkerInitially == ASSUME SettingsOK, Worker!Init PROVE RunInv
<1> USE DEF Worker!Init, Worker!NoBatch
<1>1. max_tasks # Unlimited => max_tasks \in Nat /\ max_tasks > 0
  BY DEF SettingsOK, Positive
<1>2. WorkerTypeOK
  BY DEF WorkerTypeOK
<1>3. BudgetInv /\ Worker!StopEnds
  BY DEF BudgetInv, Worker!StopEnds
<1>4. Worker!TakesWithinMax
  BY <1>1 DEF Worker!TakesWithinMax
<1> QED  BY <1>2, <1>3, <1>4 DEF RunInv, Worker!RunsWithinLimits

LEMMA WorkerTypeKept ==
  ASSUME SettingsOK, WorkerTypeOK, [Worker!Next]_(Worker!runVars) PROVE WorkerTypeOK'
<1> USE DEF WorkerTypeOK, Worker!settings, Worker!bounds, Worker!NoBatch
<1>1. CASE UNCHANGED Worker!runVars
  BY <1>1 DEF Worker!runVars
<1>2. CASE Worker!Stopped \/ Worker!Wake
  BY <1>2 DEF Worker!Stopped, Worker!Wake
<1>3. CASE Worker!BeginBatch
  <2> DEFINE size == Worker!Smaller(concurrency, Worker!Budget)
  <2>1. concurrency \in Nat /\ (max_tasks # Unlimited => max_tasks \in Nat)
    BY DEF SettingsOK, Positive
  <2>2. size \in Nat
    BY <2>1 DEF Worker!Smaller, Worker!Budget, Worker!Larger
  <2>3. /\ batch' = [size |-> size, left |-> size, worked |-> 0] /\ pc' = "batch"
        /\ late' \in {late, late + 1}
        /\ UNCHANGED <<max_tasks, concurrency, stopped, processed, taken, orphans, errors>>
    BY <1>3 DEF Worker!BeginBatch
  <2> HIDE DEF size
  <2> QED  BY <2>2, <2>3
<1>4. CASE Worker!Idles \/ Worker!Processes
  <2>1. batch.left > 0 /\ batch.left - 1 \in Nat /\ batch.worked + 1 \in Nat
    BY <1>4 DEF Worker!Idles, Worker!Processes
  <2>2. /\ [batch EXCEPT !.left = @ - 1] \in [size: Nat, left: Nat, worked: Nat]
        /\ [batch EXCEPT !.left = @ - 1, !.worked = @ + 1] \in [size: Nat, left: Nat, worked: Nat]
    BY <2>1
  <2>3. /\ batch' \in {[batch EXCEPT !.left = @ - 1],
                     [batch EXCEPT !.left = @ - 1, !.worked = @ + 1]}
        /\ taken' \in {taken, taken + 1}
        /\ UNCHANGED <<max_tasks, concurrency, stopped, pc, processed, orphans, late, errors>>
    BY <1>4 DEF Worker!Idles, Worker!Processes
  <2>4. batch' \in [size: Nat, left: Nat, worked: Nat]
    BY <2>2, <2>3
  <2> QED  BY <2>3, <2>4
<1>5. CASE Worker!BatchEnds
  <2>1. Worker!NoBatch \in [size: Nat, left: Nat, worked: Nat] /\ batch.worked \in Nat
    OBVIOUS
  <2>2. /\ processed' = processed + batch.worked /\ batch' = Worker!NoBatch
        /\ pc' \in {"idle", "sleep"}
        /\ UNCHANGED <<max_tasks, concurrency, stopped, taken, orphans, late, errors>>
    BY <1>5 DEF Worker!BatchEnds, Worker!Count
  <2> HIDE DEF Worker!NoBatch
  <2> QED  BY <2>1, <2>2
<1>6. CASE Worker!Raises
  <2>1. orphans + batch.left - 1 \in Nat /\ Worker!NoBatch \in [size: Nat, left: Nat, worked: Nat]
    BY <1>6 DEF Worker!Raises
  <2>2. /\ orphans' = orphans + batch.left - 1 /\ errors' = errors + 1
        /\ batch' = Worker!NoBatch /\ pc' = "idle"
        /\ UNCHANGED <<max_tasks, concurrency, stopped, processed, taken, late>>
    BY <1>6 DEF Worker!Raises
  <2> HIDE DEF Worker!NoBatch
  <2> QED  BY <2>1, <2>2
<1>7. CASE Worker!OrphanEnds
  BY <1>7 DEF Worker!OrphanEnds
<1>8. CASE Worker!Run \/ Worker!Stop
  <2>1. stopped' \in BOOLEAN
    BY <1>8 DEF Worker!Run, Worker!Stop
  <2>2. /\ UNCHANGED <<max_tasks, concurrency, batch, orphans, errors>>
        /\ pc' \in {"loop", pc} /\ processed' \in {0, processed} /\ taken' \in {0, taken}
        /\ late' \in {0, late}
    BY <1>8 DEF Worker!Run, Worker!Stop
  <2> QED  BY <2>1, <2>2
<1> QED  BY <1>1, <1>2, <1>3, <1>4, <1>5, <1>6, <1>7, <1>8 DEF Worker!Next

LEMMA LimitsKept ==
  ASSUME SettingsOK, RunInv, [Worker!Next]_(Worker!runVars)
  PROVE  BudgetInv' /\ Worker!RunsWithinLimits'
<1> USE DEF RunInv, WorkerTypeOK, BudgetInv, Worker!RunsWithinLimits, Worker!TakesWithinMax,
            Worker!StopEnds,
            Worker!settings, Worker!bounds, Worker!NoBatch
<1>0. max_tasks # Unlimited => max_tasks \in Positive
  BY DEF SettingsOK
<1>1. CASE UNCHANGED Worker!runVars
  BY <1>1 DEF Worker!runVars
<1>2. CASE Worker!Run
  BY <1>0, <1>2 DEF Worker!Run, Positive
<1>3. CASE Worker!BeginBatch
  <2> DEFINE size == Worker!Smaller(concurrency, Worker!Budget)
  <2>1. size \in Nat /\ (max_tasks # Unlimited => processed + size <= max_tasks)
    BY <1>0, <1>3 DEF Worker!BeginBatch, Worker!Smaller, Worker!Budget, Worker!Larger, SettingsOK,
       Positive
  <2>2. /\ batch' = [size |-> size, left |-> size, worked |-> 0]
        /\ pc' = "batch" /\ late' = 0
        /\ UNCHANGED <<max_tasks, processed, taken, orphans, errors>>
        /\ processed = taken
    BY <1>3 DEF Worker!BeginBatch, Worker!GoesOn
  <2> HIDE DEF size
  <2> QED  BY <1>0, <2>1, <2>2 DEF Positive
<1>4. CASE Worker!Stopped \/ Worker!OrphanEnds \/ Worker!Wake \/ Worker!Stop
  BY <1>0, <1>4 DEF Worker!Stopped, Worker!OrphanEnds, Worker!Wake, Worker!Stop, Positive
<1>5. CASE Worker!Idles
  BY <1>0, <1>5 DEF Worker!Idles, Positive
<1>6. CASE Worker!Processes
  BY <1>0, <1>6 DEF Worker!Processes, Positive
<1>7. CASE Worker!Raises
  BY <1>0, <1>7 DEF Worker!Raises, Positive
<1>8. CASE Worker!BatchEnds
  BY <1>0, <1>8 DEF Worker!BatchEnds, Worker!Count, Worker!Enough, Positive
<1> QED  BY <1>1, <1>2, <1>3, <1>4, <1>5, <1>6, <1>7, <1>8 DEF Worker!Next

-----------------------------------------------------------------------------

\* The invariant: a run() between batches has counted what it took, and has room left.
THEOREM WorkerInvariance == Worker!Spec => []RunInv
<1>0. SettingsOK
  BY SettingsAssumption DEF SettingsOK, Positive
<1>1. Worker!Init => RunInv
  BY <1>0, WorkerInitially
<1>2. RunInv /\ [Worker!Next]_(Worker!runVars) => RunInv'
  BY <1>0, WorkerTypeKept, LimitsKept DEF RunInv
<1> QED  BY <1>1, <1>2, PTL DEF Worker!Spec

\* Whatever the concurrency, run() takes max_tasks tasks at most, reports those it took, and
\* after stop() begins no batch and leaves no coroutine, unless a call of the queue raised.
THEOREM Limits == Worker!Spec => []RunsWithinLimits
<1>1. RunInv => RunsWithinLimits
  BY DEF RunInv, RunsWithinLimits
<1> QED  BY WorkerInvariance, <1>1, PTL

-----------------------------------------------------------------------------
(* Payments, for any number of callers, attempts, calls and losses.        *)

Origins == [ref: References \cup {NoReference}, number: Nat]

Objects ==
  [key: Origins, origin: Origins, payment: {"unpaid", "paid"},
   session: {"open", "complete", "expired"}, of: Nat]

PayCalls ==
  [pc: {"idle", "lookup", "send", "save"}, op: {"none", "checkout", "get", "refund"},
   ref: References \cup {NoReference}, id: Nat, number: Nat, attempt: Nat,
   status: {"none", "pending", "paid", "expired"}, alone: BOOLEAN]

PayTypeOK ==
  /\ checkouts \in Seq(Objects) /\ refunds \in Seq(Objects)
  /\ DOMAIN stored \subseteq DOMAIN checkouts
  /\ returned \subseteq {"checkout", "refund"} \X Nat
  /\ payer \in [Callers -> PayCalls] /\ payments \in Nat

\* Stripe keeps one object of a key, and the key tells what the object was made for.
OnePerKey(objects) ==
  \A i, j \in DOMAIN objects :
    /\ objects[i].key = objects[i].origin
    /\ objects[i].key = objects[j].key => i = j

PaidIsComplete(objects) ==
  \A i \in DOMAIN objects : objects[i].payment = "paid" => objects[i].session = "complete"

\* A status tells what has become of the session of a checkout, for good.
Tells(objects, i, status) ==
  /\ i \in DOMAIN objects
  /\ status = "paid" => objects[i].session = "complete"
  /\ status = "expired" => objects[i].session = "expired"

CallsTell ==
  \A c \in Callers :
    /\ payer[c].pc = "lookup" => payer[c].op = "refund" /\ payer[c].id \in DOMAIN checkouts
    /\ payer[c].pc = "send" =>
         /\ payer[c].op \in {"checkout", "get", "refund"}
         /\ payer[c].op # "checkout" => payer[c].id \in DOMAIN checkouts
    /\ payer[c].pc = "save" /\ payer[c].op # "refund" => Tells(checkouts, payer[c].id, payer[c].status)

StoreTells == \A i \in DOMAIN stored : Tells(checkouts, i, stored[i])

PayInv ==
  /\ PayTypeOK
  /\ OnePerKey(checkouts) /\ OnePerKey(refunds) /\ PaidIsComplete(checkouts)
  /\ CallsTell /\ StoreTells
  /\ Stripe!ReturnedIsStored

LEMMA PayInitially == Stripe!Init => PayInv
<1> SUFFICES ASSUME Stripe!Init PROVE PayInv
  OBVIOUS
<1>1. checkouts = << >> /\ refunds = << >> /\ DOMAIN stored = {} /\ returned = {}
  BY DEF Stripe!Init
<1>2. payer = [c \in Callers |-> Stripe!Away] /\ payments = 0
  BY DEF Stripe!Init
<1>3. Stripe!Away \in PayCalls /\ Stripe!Away.pc = "idle"
  BY DEF Stripe!Away, PayCalls
<1>4. PayTypeOK
  BY <1>1, <1>2, <1>3 DEF PayTypeOK
<1>5. OnePerKey(checkouts) /\ OnePerKey(refunds) /\ PaidIsComplete(checkouts) /\ StoreTells
  BY <1>1 DEF OnePerKey, PaidIsComplete, StoreTells
<1>6. CallsTell
  BY <1>2, <1>3 DEF CallsTell
<1>7. Stripe!ReturnedIsStored
  BY <1>1 DEF Stripe!ReturnedIsStored
<1> QED
  BY <1>4, <1>5, <1>6, <1>7 DEF PayInv

\* Sequences only grow, and a session that has ended stays as it is.
GoOn ==
  \A i \in DOMAIN checkouts :
    /\ i \in DOMAIN checkouts'
    /\ checkouts[i].session # "open" => checkouts'[i].session = checkouts[i].session

LEMMA TellsForGood ==
  ASSUME GoOn, NEW i, NEW status, Tells(checkouts, i, status)
  PROVE  Tells(checkouts', i, status)
BY DEF GoOn, Tells

\* The sequence is one object longer, and the others are where they were.
Extended(objects, new, longer) ==
  /\ longer \in Seq(Objects) /\ OnePerKey(longer)
  /\ \A i \in DOMAIN objects : i \in DOMAIN longer /\ longer[i] = objects[i]
  /\ \A i \in DOMAIN longer \ DOMAIN objects : longer[i] = new
  /\ \E i \in DOMAIN longer : longer[i].key = new.key

\* An object with a new key leaves one object to each key.
LEMMA Appends ==
  ASSUME NEW objects \in Seq(Objects), OnePerKey(objects),
         NEW new \in Objects, new.key = new.origin,
         \A i \in DOMAIN objects : objects[i].key # new.key,
         NEW longer, longer = Append(objects, new)
  PROVE  Extended(objects, new, longer)
<1>1. longer \in Seq(Objects) /\ Len(longer) = Len(objects) + 1 /\ Len(objects) \in Nat
  OBVIOUS
<1>2. DOMAIN longer = 1 .. Len(objects) + 1 /\ DOMAIN objects = 1 .. Len(objects)
  BY <1>1
<1>3. \A i \in 1 .. Len(objects) : longer[i] = objects[i]
  OBVIOUS
<1>4. longer[Len(objects) + 1] = new
  OBVIOUS
<1>5. \A i \in DOMAIN longer \ DOMAIN objects : i = Len(objects) + 1
  BY <1>1, <1>2
<1>6. OnePerKey(longer)
  BY <1>1, <1>2, <1>3, <1>4, <1>5 DEF OnePerKey
<1> QED
  BY <1>1, <1>2, <1>3, <1>4, <1>5, <1>6 DEF Extended

\* What Stripe does with a request: it makes at most one object, for the key of the call, and
\* afterwards knows the key.
LEMMA Executes ==
  ASSUME PayInv, NEW c \in Callers, payer[c].pc = "send", Stripe!Executed(c)
  PROVE  /\ checkouts' \in Seq(Objects) /\ refunds' \in Seq(Objects)
         /\ OnePerKey(checkouts') /\ OnePerKey(refunds') /\ PaidIsComplete(checkouts')
         /\ GoOn
         /\ payer[c].op = "checkout" => Stripe!Known(c, checkouts')
         /\ payer[c].op = "refund" => Stripe!Known(c, refunds')
<1>0. PICK new : new = Stripe!New(c)
  OBVIOUS
<1>1. payer[c] \in PayCalls
  BY DEF PayInv, PayTypeOK
<1>2. Stripe!Origin(c) \in Origins
  BY <1>1 DEF Stripe!Origin, Origins, PayCalls
<1>3. new \in Objects /\ new.key = Stripe!Key(c) /\ new.key = new.origin
      /\ new.payment = "unpaid"
  BY <1>0, <1>1, <1>2 DEF Stripe!New, Stripe!Key, Objects, PayCalls
<1>4. /\ checkouts \in Seq(Objects) /\ refunds \in Seq(Objects)
      /\ OnePerKey(checkouts) /\ OnePerKey(refunds) /\ PaidIsComplete(checkouts)
  BY DEF PayInv, PayTypeOK
<1>5. CASE payer[c].op = "checkout" /\ ~Stripe!Known(c, checkouts)
  <2>1. checkouts' = Append(checkouts, new) /\ refunds' = refunds
    BY <1>0, <1>5 DEF Stripe!Executed, Stripe!Replays
  <2>2. \A i \in DOMAIN checkouts : checkouts[i].key # new.key
    BY <1>3, <1>5 DEF Stripe!Known
  <2>3. /\ checkouts' \in Seq(Objects) /\ OnePerKey(checkouts')
        /\ \A i \in DOMAIN checkouts : i \in DOMAIN checkouts' /\ checkouts'[i] = checkouts[i]
        /\ \A i \in DOMAIN checkouts' \ DOMAIN checkouts : checkouts'[i] = new
        /\ \E i \in DOMAIN checkouts' : checkouts'[i].key = new.key
    <3>1. PICK longer : longer = checkouts'
      OBVIOUS
    <3>3. longer = Append(checkouts, new)
      BY <3>1, <2>1
    <3>4. checkouts \in Seq(Objects) /\ OnePerKey(checkouts) /\ new \in Objects /\ new.key = new.origin
      BY <1>3, <1>4
    <3>2. Extended(checkouts, new, longer)
      BY <3>3, <3>4, <2>2, Appends
    <3> QED  BY <3>1, <3>2 DEF Extended
  <2>4. PaidIsComplete(checkouts')
    BY <2>3, <1>3, <1>4 DEF PaidIsComplete
  <2>5. GoOn
    BY <2>3 DEF GoOn
  <2>6. Stripe!Known(c, checkouts')
    BY <2>3, <1>3 DEF Stripe!Known
  <2> QED
    BY <2>1, <2>3, <2>4, <2>5, <2>6, <1>4, <1>5
<1>6. CASE payer[c].op = "refund" /\ ~Stripe!Known(c, refunds)
  <2>1. refunds' = Append(refunds, new) /\ checkouts' = checkouts
    BY <1>0, <1>6 DEF Stripe!Executed, Stripe!Replays
  <2>2. \A i \in DOMAIN refunds : refunds[i].key # new.key
    BY <1>3, <1>6 DEF Stripe!Known
  <2>3. /\ refunds' \in Seq(Objects) /\ OnePerKey(refunds')
        /\ \E i \in DOMAIN refunds' : refunds'[i].key = new.key
    <3>1. PICK longer : longer = refunds'
      OBVIOUS
    <3>3. longer = Append(refunds, new)
      BY <3>1, <2>1
    <3>4. refunds \in Seq(Objects) /\ OnePerKey(refunds) /\ new \in Objects /\ new.key = new.origin
      BY <1>3, <1>4
    <3>2. Extended(refunds, new, longer)
      BY <3>3, <3>4, <2>2, Appends
    <3> QED  BY <3>1, <3>2 DEF Extended
  <2>4. Stripe!Known(c, refunds')
    BY <2>3, <1>3 DEF Stripe!Known
  <2>5. GoOn
    BY <2>1 DEF GoOn
  <2> QED
    BY <2>1, <2>3, <2>4, <2>5, <1>4, <1>6
<1>7. CASE /\ payer[c].op = "checkout" => Stripe!Known(c, checkouts)
           /\ payer[c].op = "refund" => Stripe!Known(c, refunds)
  <2>1. checkouts' = checkouts /\ refunds' = refunds
    BY <1>7 DEF Stripe!Executed, Stripe!Replays
  <2>2. GoOn
    BY <2>1 DEF GoOn
  <2> QED
    BY <2>1, <2>2, <1>4, <1>7
<1> QED
  BY <1>5, <1>6, <1>7

\* What a call becomes when it ends or is tried again.
CallKept(c, next) ==
  /\ next \in PayCalls
  /\ \/ next.pc = "idle"
     \/ /\ payer[c].pc \in {"lookup", "send"}
        /\ next.pc \in {payer[c].pc, "send"}
        /\ next.op = payer[c].op /\ next.id = payer[c].id

\* A step that only ends a call, or tries it again, keeps what the calls tell.
LEMMA CallsGoOn ==
  ASSUME PayInv, GoOn, NEW c \in Callers, NEW next, CallKept(c, next),
         payer' = [payer EXCEPT ![c] = next]
  PROVE  payer' \in [Callers -> PayCalls] /\ CallsTell'
<1>1. payer \in [Callers -> PayCalls] /\ next \in PayCalls
  BY DEF PayInv, PayTypeOK, CallKept
<1>2. payer'[c] = next /\ \A d \in Callers \ {c} : payer'[d] = payer[d]
  BY <1>1
<1>3. \A i \in DOMAIN checkouts : i \in DOMAIN checkouts'
  BY DEF GoOn
<1>4. SUFFICES ASSUME NEW d \in Callers
      PROVE  /\ payer'[d].pc = "lookup" =>
                  payer'[d].op = "refund" /\ payer'[d].id \in DOMAIN checkouts'
             /\ payer'[d].pc = "send" =>
                  /\ payer'[d].op \in {"checkout", "get", "refund"}
                  /\ payer'[d].op # "checkout" => payer'[d].id \in DOMAIN checkouts'
             /\ payer'[d].pc = "save" /\ payer'[d].op # "refund" =>
                  Tells(checkouts', payer'[d].id, payer'[d].status)
  BY <1>1 DEF CallsTell
<1>5. CASE d = c
  BY <1>2, <1>3, <1>5 DEF PayInv, CallsTell, CallKept
<1>6. CASE d # c
  <2>1. payer'[d] = payer[d]
    BY <1>2, <1>6
  <2>2. payer[d].pc = "save" /\ payer[d].op # "refund" => Tells(checkouts', payer[d].id, payer[d].status)
    BY TellsForGood DEF PayInv, CallsTell
  <2> QED
    BY <2>1, <2>2, <1>3 DEF PayInv, CallsTell
<1> QED
  BY <1>5, <1>6

\* The parts of the invariant that the calls take no part in.
Rest ==
  /\ checkouts \in Seq(Objects) /\ refunds \in Seq(Objects)
  /\ OnePerKey(checkouts) /\ OnePerKey(refunds) /\ PaidIsComplete(checkouts)
  /\ DOMAIN stored \subseteq DOMAIN checkouts /\ StoreTells
  /\ returned \subseteq {"checkout", "refund"} \X Nat /\ Stripe!ReturnedIsStored
  /\ payments \in Nat

LEMMA PayParts == PayInv <=> Rest /\ payer \in [Callers -> PayCalls] /\ CallsTell
BY DEF PayInv, PayTypeOK, Rest

LEMMA PayPartsNext ==
  ASSUME Rest', payer' \in [Callers -> PayCalls], CallsTell'
  PROVE  PayInv'
BY DEF PayInv, PayTypeOK, Rest

\* While nothing is stored or returned, the rest follows from what Stripe has.
LEMMA RestGoesOn ==
  ASSUME PayInv, GoOn, UNCHANGED <<stored, storedRefunds, returned>>, payments' \in Nat,
         checkouts' \in Seq(Objects), refunds' \in Seq(Objects),
         OnePerKey(checkouts'), OnePerKey(refunds'), PaidIsComplete(checkouts')
  PROVE  Rest'
<1>1. DOMAIN stored' \subseteq DOMAIN checkouts'
  BY DEF PayInv, PayTypeOK, GoOn
<1>2. StoreTells'
  <2>1. \A i \in DOMAIN stored : Tells(checkouts', i, stored[i])
    BY TellsForGood DEF PayInv, StoreTells
  <2> QED
    BY <2>1 DEF StoreTells
<1>3. returned' \subseteq {"checkout", "refund"} \X Nat /\ Stripe!ReturnedIsStored'
  BY DEF PayInv, PayTypeOK, Stripe!ReturnedIsStored
<1> QED
  BY <1>1, <1>2, <1>3 DEF Rest

LEMMA StripeStays ==
  ASSUME PayInv, UNCHANGED <<checkouts, refunds>>
  PROVE  /\ GoOn
         /\ checkouts' \in Seq(Objects) /\ refunds' \in Seq(Objects)
         /\ OnePerKey(checkouts') /\ OnePerKey(refunds') /\ PaidIsComplete(checkouts')
BY DEF PayInv, PayTypeOK, GoOn

LEMMA CallTyped ==
  ASSUME PayInv, NEW c \in Callers
  PROVE  payer[c] \in PayCalls /\ Stripe!Away \in PayCalls /\ Stripe!Away.pc = "idle"
BY DEF PayInv, PayTypeOK, Stripe!Away, PayCalls

\* retry_provider_operation() sends the request again or gives up.
LEMMA NextAttemptKeeps ==
  ASSUME PayInv, NEW c \in Callers, Stripe!NextAttempt(c), payer[c].pc \in {"lookup", "send"}
  PROVE  \E next : CallKept(c, next) /\ payer' = [payer EXCEPT ![c] = next]
<1>1. CASE Stripe!Becomes(c, [payer[c] EXCEPT !.attempt = @ + 1])
  <2> DEFINE next == [payer[c] EXCEPT !.attempt = @ + 1]
  <2>1. CallKept(c, next)
    BY CallTyped DEF CallKept, PayCalls
  <2>2. payer' = [payer EXCEPT ![c] = next]
    BY <1>1 DEF Stripe!Becomes
  <2> HIDE DEF next
  <2> QED
    BY <2>1, <2>2
<1>2. CASE Stripe!Becomes(c, Stripe!Away)
  <2>1. CallKept(c, Stripe!Away)
    BY CallTyped DEF CallKept
  <2>2. payer' = [payer EXCEPT ![c] = Stripe!Away]
    BY <1>2 DEF Stripe!Becomes
  <2> QED
    BY <2>1, <2>2
<1> QED
  BY <1>1, <1>2 DEF Stripe!NextAttempt

LEMMA EndsKept ==
  ASSUME PayInv, NEW c \in Callers, Stripe!Becomes(c, Stripe!Away)
  PROVE  \E next : CallKept(c, next) /\ payer' = [payer EXCEPT ![c] = next]
<1>1. CallKept(c, Stripe!Away)
  BY CallTyped DEF CallKept
<1>2. payer' = [payer EXCEPT ![c] = Stripe!Away]
  BY DEF Stripe!Becomes
<1> QED
  BY <1>1, <1>2

\* Steps that end calls or repeat them, with or without an effect at Stripe.
LEMMA QuietKeeps ==
  ASSUME PayInv, NEW c \in Callers,
         \/ Stripe!Refused(c) \/ Stripe!LookedUp(c) \/ Stripe!RequestFails(c)
         \/ Stripe!ReplyLost(c) \/ Stripe!SaveFails(c)
  PROVE  PayInv'
<1>1. /\ GoOn
      /\ checkouts' \in Seq(Objects) /\ refunds' \in Seq(Objects)
      /\ OnePerKey(checkouts') /\ OnePerKey(refunds') /\ PaidIsComplete(checkouts')
  <2>1. CASE Stripe!ReplyLost(c)
    BY <2>1, Executes DEF Stripe!ReplyLost
  <2>2. CASE ~Stripe!ReplyLost(c)
    <3>1. UNCHANGED <<checkouts, refunds>>
      BY <2>2 DEF Stripe!Refused, Stripe!LookedUp, Stripe!RequestFails, Stripe!SaveFails
    <3> QED
      BY <3>1, StripeStays
  <2> QED
    BY <2>1, <2>2
<1>2. UNCHANGED <<stored, storedRefunds, returned, payments>>
  BY DEF Stripe!Refused, Stripe!LookedUp, Stripe!RequestFails, Stripe!ReplyLost,
         Stripe!SaveFails
<1>3. \E next : CallKept(c, next) /\ payer' = [payer EXCEPT ![c] = next]
  <2>1. CASE Stripe!Refused(c) \/ Stripe!SaveFails(c)
    BY <2>1, EndsKept DEF Stripe!Refused, Stripe!SaveFails
  <2>2. CASE Stripe!RequestFails(c) \/ Stripe!ReplyLost(c)
    BY <2>2, NextAttemptKeeps DEF Stripe!RequestFails, Stripe!ReplyLost
  <2>3. CASE Stripe!LookedUp(c)
    <3> DEFINE next == [payer[c] EXCEPT !.pc = "send", !.attempt = 1]
    <3>1. CASE Stripe!Becomes(c, Stripe!Away)
      BY <3>1, EndsKept
    <3>2. CASE Stripe!Becomes(c, next)
      <4>1. CallKept(c, next)
        BY <2>3, CallTyped DEF CallKept, PayCalls, Stripe!LookedUp
      <4>2. payer' = [payer EXCEPT ![c] = next]
        BY <3>2 DEF Stripe!Becomes
      <4> HIDE DEF next
      <4> QED
        BY <4>1, <4>2
    <3>3. Stripe!Becomes(c, next) \/ Stripe!Becomes(c, Stripe!Away)
      <4> HIDE DEF next
      <4>1. Stripe!Becomes(c, IF checkouts[payer[c].id].session = "complete"
                              THEN next ELSE Stripe!Away)
        BY <2>3 DEF Stripe!LookedUp, next
      <4> QED
        BY <4>1
    <3> QED
      BY <3>1, <3>2, <3>3
  <2> QED
    BY <2>1, <2>2, <2>3
<1>4. Rest'
  BY <1>1, <1>2, RestGoesOn DEF PayInv, PayTypeOK
<1>5. payer' \in [Callers -> PayCalls] /\ CallsTell'
  BY <1>1, <1>3, CallsGoOn
<1> QED
  BY <1>4, <1>5, PayPartsNext

\* A call that begins tells nothing yet, but for the checkout it is about.
LEMMA CallKeeps ==
  ASSUME PayInv, NEW c \in Callers, Stripe!Call(c)
  PROVE  PayInv'
<1>1. /\ payments' = payments + 1
      /\ UNCHANGED <<checkouts, refunds, stored, storedRefunds, returned>>
  BY DEF Stripe!Call
<1>2. payments' \in Nat
  BY <1>1 DEF PayInv, PayTypeOK
<1>3. GoOn /\ Rest'
  BY <1>1, <1>2, StripeStays, RestGoesOn
<1>4. PICK o \in Stripe!Operations :
        payer' = [d \in Callers |->
                    IF d = c
                    THEN [Stripe!Away EXCEPT !.pc = IF o.op = "refund" THEN "lookup" ELSE "send",
                                    !.op = o.op, !.ref = o.ref, !.id = o.id, !.number = payments + 1,
                                    !.alone = \A e \in Callers \ {c} : payer[e].pc = "idle"]
                    ELSE [payer[d] EXCEPT !.alone = payer[d].pc = "idle"]]
  BY DEF Stripe!Call
<1>5. /\ o.op \in {"checkout", "get", "refund"}
      /\ o.ref \in References \cup {NoReference}
      /\ o.id \in Nat
      /\ o.op # "checkout" => o.id \in DOMAIN checkouts
  <2>1. DOMAIN stored \subseteq DOMAIN checkouts /\ DOMAIN checkouts \subseteq Nat
    BY DEF PayInv, PayTypeOK
  <2> QED
    BY <2>1 DEF Stripe!Operations
<1>6. PICK first \in BOOLEAN : first = \A e \in Callers \ {c} : payer[e].pc = "idle"
  OBVIOUS
<1>7. PICK next : next = [Stripe!Away EXCEPT !.pc = IF o.op = "refund" THEN "lookup" ELSE "send",
                                    !.op = o.op, !.ref = o.ref, !.id = o.id, !.number = payments + 1,
                                    !.alone = first]
  OBVIOUS
<1>8. /\ next \in PayCalls
      /\ next.pc = IF o.op = "refund" THEN "lookup" ELSE "send"
      /\ next.op = o.op /\ next.id = o.id
  BY <1>1, <1>2, <1>5, <1>7 DEF Stripe!Away, PayCalls
<1>9. payer'[c] = next
  BY <1>4, <1>6, <1>7
<1>10. ASSUME NEW d \in Callers, d # c
       PROVE  /\ payer'[d] \in PayCalls
              /\ payer'[d].pc = payer[d].pc /\ payer'[d].op = payer[d].op
              /\ payer'[d].id = payer[d].id /\ payer'[d].status = payer[d].status
  <2>1. PICK b \in BOOLEAN : b = (payer[d].pc = "idle")
    OBVIOUS
  <2>2. payer'[d] = [payer[d] EXCEPT !.alone = b]
    BY <1>4, <1>10, <2>1
  <2>3. payer[d] \in PayCalls
    BY CallTyped
  <2> QED
    BY <2>2, <2>3 DEF PayCalls
<1>11. payer' \in [Callers -> PayCalls]
  <2>1. \A d \in Callers : payer'[d] \in PayCalls
    BY <1>8, <1>9, <1>10
  <2>2. \E f : payer' = [d \in Callers |-> f[d]]
    <3>1. payer' = [d \in Callers |-> payer'[d]]
      BY <1>4
    <3> QED
      BY <3>1
  <2> QED
    BY <2>1, <2>2
<1>12. CallsTell'
  <2>1. \A d \in Callers : payer'[d].pc = "lookup" =>
          payer'[d].op = "refund" /\ payer'[d].id \in DOMAIN checkouts
    BY <1>5, <1>8, <1>9, <1>10 DEF PayInv, CallsTell
  <2>2. \A d \in Callers : payer'[d].pc = "send" =>
          /\ payer'[d].op \in {"checkout", "get", "refund"}
          /\ payer'[d].op # "checkout" => payer'[d].id \in DOMAIN checkouts
    BY <1>5, <1>8, <1>9, <1>10 DEF PayInv, CallsTell
  <2>3. \A d \in Callers : payer'[d].pc = "save" /\ payer'[d].op # "refund" =>
          Tells(checkouts, payer'[d].id, payer'[d].status)
    BY <1>8, <1>9, <1>10 DEF PayInv, CallsTell
  <2> QED
    BY <1>1, <2>1, <2>2, <2>3 DEF CallsTell
<1> QED
  BY <1>3, <1>11, <1>12, PayPartsNext

\* The reply names an object that Stripe has, and a state of its session.
LEMMA AnsweredKeeps ==
  ASSUME PayInv, NEW c \in Callers, Stripe!Answered(c)
  PROVE  PayInv'
<1>1. /\ payer[c].pc = "send" /\ Stripe!Executed(c)
      /\ UNCHANGED <<stored, storedRefunds, returned, payments>>
  BY DEF Stripe!Answered
<1>2. /\ checkouts' \in Seq(Objects) /\ refunds' \in Seq(Objects)
      /\ OnePerKey(checkouts') /\ OnePerKey(refunds') /\ PaidIsComplete(checkouts')
      /\ GoOn
      /\ payer[c].op = "checkout" => Stripe!Known(c, checkouts')
      /\ payer[c].op = "refund" => Stripe!Known(c, refunds')
  BY <1>1, Executes
<1>3. Rest'
  BY <1>1, <1>2, RestGoesOn DEF PayInv, PayTypeOK
<1>4. PICK id, status : id = Stripe!Reply(c).id /\ status = Stripe!Reply(c).status
  OBVIOUS
<1>5. PICK next : next = [payer[c] EXCEPT !.pc = "save", !.id = id, !.status = status]
  OBVIOUS
<1>6. payer' = [payer EXCEPT ![c] = next]
  BY <1>4, <1>5 DEF Stripe!Answered, Stripe!Becomes
<1>7. payer[c].op \in {"checkout", "get", "refund"}
  BY <1>1 DEF PayInv, CallsTell
<1>8. /\ id \in Nat /\ status \in {"none", "pending", "paid", "expired"}
      /\ payer[c].op # "refund" => Tells(checkouts', id, status)
  <2>0. DOMAIN checkouts' \subseteq Nat /\ DOMAIN refunds' \subseteq Nat
    BY <1>2
  <2>1. CASE payer[c].op = "checkout"
    <3>1. id = Stripe!Made(c, checkouts') /\ status = "pending"
      BY <1>4, <2>1 DEF Stripe!Reply
    <3>2. id \in DOMAIN checkouts'
      BY <1>2, <2>1, <3>1 DEF Stripe!Known, Stripe!Made
    <3> QED
      BY <2>0, <2>1, <3>1, <3>2 DEF Tells
  <2>2. CASE payer[c].op = "refund"
    <3>1. id = Stripe!Made(c, refunds') /\ status = "none"
      BY <1>4, <2>2 DEF Stripe!Reply
    <3>2. id \in DOMAIN refunds'
      BY <1>2, <2>2, <3>1 DEF Stripe!Known, Stripe!Made
    <3> QED
      BY <2>0, <2>2, <3>1, <3>2
  <2>3. CASE payer[c].op = "get"
    <3>1. id = payer[c].id /\ status = Stripe!MapStatus(checkouts[id])
      BY <1>4, <2>3 DEF Stripe!Reply
    <3>2. id \in DOMAIN checkouts
      BY <1>1, <2>3, <3>1 DEF PayInv, CallsTell
    <3>3. checkouts[id] \in Objects /\ PaidIsComplete(checkouts)
      BY <3>2 DEF PayInv, PayTypeOK
    <3>4. status \in {"paid", "expired", "pending"} /\ Tells(checkouts, id, status)
      BY <3>1, <3>2, <3>3 DEF Stripe!MapStatus, Tells, PaidIsComplete, Objects
    <3>5. Tells(checkouts', id, status) /\ id \in DOMAIN checkouts'
      BY <1>2, <3>4, TellsForGood DEF Tells
    <3> QED
      BY <2>0, <3>4, <3>5
  <2> QED
    BY <1>7, <2>1, <2>2, <2>3
<1>9. next \in PayCalls /\ next.pc = "save" /\ next.op = payer[c].op /\ next.id = id
      /\ next.status = status
  BY <1>5, <1>8, CallTyped DEF PayCalls
<1>10. payer \in [Callers -> PayCalls]
  BY DEF PayInv, PayTypeOK
<1>11. payer' \in [Callers -> PayCalls]
       /\ payer'[c] = next /\ \A d \in Callers \ {c} : payer'[d] = payer[d]
  BY <1>6, <1>9, <1>10
<1>12. CallsTell'
  <2>1. \A i \in DOMAIN checkouts : i \in DOMAIN checkouts'
    BY <1>2 DEF GoOn
  <2>2. \A d \in Callers : payer'[d].pc = "lookup" =>
          payer'[d].op = "refund" /\ payer'[d].id \in DOMAIN checkouts'
    BY <1>9, <1>11, <2>1 DEF PayInv, CallsTell
  <2>3. \A d \in Callers : payer'[d].pc = "send" =>
          /\ payer'[d].op \in {"checkout", "get", "refund"}
          /\ payer'[d].op # "checkout" => payer'[d].id \in DOMAIN checkouts'
    BY <1>9, <1>11, <2>1 DEF PayInv, CallsTell
  <2>4. \A d \in Callers : payer'[d].pc = "save" /\ payer'[d].op # "refund" =>
          Tells(checkouts', payer'[d].id, payer'[d].status)
    <3>1. \A d \in Callers : payer[d].pc = "save" /\ payer[d].op # "refund" =>
            Tells(checkouts', payer[d].id, payer[d].status)
      BY <1>2, TellsForGood DEF PayInv, CallsTell
    <3> QED
      BY <1>8, <1>9, <1>11, <3>1
  <2> QED
    BY <2>2, <2>3, <2>4 DEF CallsTell
<1> QED
  BY <1>3, <1>11, <1>12, PayPartsNext

\* A saved status is what the call told, and what the call returns is stored with it.
LEMMA SaveKeeps ==
  ASSUME PayInv, NEW c \in Callers, Stripe!Save(c)
  PROVE  PayInv'
<1>1. /\ payer[c].pc = "save" /\ Stripe!Write(c) /\ Stripe!Becomes(c, Stripe!Away)
      /\ returned' = returned \cup {<<Stripe!Kind(c), payer[c].id>>}
      /\ UNCHANGED <<checkouts, refunds, payments>>
  BY DEF Stripe!Save
<1>2. GoOn
  BY <1>1, StripeStays
<1>3. payer' \in [Callers -> PayCalls] /\ CallsTell'
  BY <1>1, <1>2, EndsKept, CallsGoOn
<1>4. payer[c].id \in Nat
  BY CallTyped DEF PayCalls
<1>5. returned' \subseteq {"checkout", "refund"} \X Nat
  BY <1>1, <1>4 DEF PayInv, PayTypeOK, Stripe!Kind
<1>6. CASE payer[c].op = "refund"
  <2>1. storedRefunds' = storedRefunds \cup {payer[c].id} /\ stored' = stored
        /\ Stripe!Kind(c) = "refund"
    BY <1>1, <1>6 DEF Stripe!Write, Stripe!Kind
  <2>2. Stripe!ReturnedIsStored'
    BY <1>1, <2>1 DEF PayInv, Stripe!ReturnedIsStored
  <2> QED
    BY <1>1, <1>3, <1>5, <2>1, <2>2, PayPartsNext
    DEF PayInv, PayTypeOK, Rest, StoreTells
<1>7. CASE payer[c].op # "refund"
  <2>1. /\ stored' = [i \in DOMAIN stored \cup {payer[c].id} |->
                        IF i = payer[c].id THEN payer[c].status ELSE stored[i]]
        /\ storedRefunds' = storedRefunds /\ Stripe!Kind(c) = "checkout"
    BY <1>1, <1>7 DEF Stripe!Write, Stripe!Kind
  <2>2. DOMAIN stored' = DOMAIN stored \cup {payer[c].id}
    BY <2>1
  <2>3. Tells(checkouts, payer[c].id, payer[c].status)
    BY <1>1, <1>7 DEF PayInv, CallsTell
  <2>4. \A i \in DOMAIN stored' : Tells(checkouts, i, stored'[i])
    BY <2>1, <2>3 DEF PayInv, StoreTells
  <2>5. StoreTells' /\ DOMAIN stored' \subseteq DOMAIN checkouts'
    BY <1>1, <2>4 DEF StoreTells, Tells
  <2>6. Stripe!ReturnedIsStored'
    BY <1>1, <2>1, <2>2 DEF PayInv, Stripe!ReturnedIsStored
  <2> QED
    BY <1>1, <1>3, <1>5, <2>5, <2>6, PayPartsNext DEF PayInv, PayTypeOK, Rest
<1> QED
  BY <1>6, <1>7

\* The customer ends a session that is open.
LEMMA SessionKeeps ==
  ASSUME PayInv, NEW i \in DOMAIN checkouts, checkouts[i].session = "open",
         NEW payment \in {"unpaid", "paid"}, NEW session \in {"complete", "expired"},
         payment = "paid" => session = "complete", Stripe!Session(i, payment, session)
  PROVE  PayInv'
<1>1. /\ checkouts' = [checkouts EXCEPT ![i].payment = payment, ![i].session = session]
      /\ UNCHANGED <<refunds, stored, storedRefunds, returned, payer, payments>>
  BY DEF Stripe!Session
<1>2. checkouts \in Seq(Objects) /\ checkouts[i] \in Objects
  BY DEF PayInv, PayTypeOK
<1>3. PICK next : next = [checkouts[i] EXCEPT !.payment = payment, !.session = session]
  OBVIOUS
<1>4. /\ next \in Objects /\ next.key = checkouts[i].key /\ next.origin = checkouts[i].origin
      /\ next.payment = payment /\ next.session = session
  BY <1>2, <1>3 DEF Objects
<1>5. checkouts' = [checkouts EXCEPT ![i] = next]
  BY <1>1, <1>2, <1>3
<1>6. /\ checkouts' \in Seq(Objects) /\ DOMAIN checkouts' = DOMAIN checkouts
      /\ checkouts'[i] = next /\ \A j \in DOMAIN checkouts \ {i} : checkouts'[j] = checkouts[j]
  BY <1>2, <1>4, <1>5
<1>7. OnePerKey(checkouts') /\ PaidIsComplete(checkouts')
  BY <1>4, <1>6 DEF PayInv, OnePerKey, PaidIsComplete
<1>8. GoOn
  BY <1>4, <1>6 DEF GoOn
<1>9. Rest'
  BY <1>1, <1>6, <1>7, <1>8, RestGoesOn DEF PayInv, PayTypeOK
<1>10. CallsTell'
  <2>1. \A c \in Callers : payer[c].pc = "save" /\ payer[c].op # "refund" =>
          Tells(checkouts', payer[c].id, payer[c].status)
    BY <1>8, TellsForGood DEF PayInv, CallsTell
  <2> QED
    BY <1>1, <1>6, <2>1 DEF PayInv, CallsTell
<1> QED
  BY <1>1, <1>9, <1>10, PayPartsNext DEF PayInv, PayTypeOK

\* The inductive invariant: Stripe has one object of a key, and what a call is about to
\* store, like what is stored, tells what has become of a session for good.
THEOREM PayInvariance == Stripe!Spec => []PayInv
<1>1. PayInv /\ [Stripe!Next]_(Stripe!paymentVars) => PayInv'
  <2> SUFFICES ASSUME PayInv, [Stripe!Next]_(Stripe!paymentVars)
               PROVE  PayInv'
    OBVIOUS
  <2>1. ASSUME NEW c \in Callers,
               \/ Stripe!Call(c) \/ Stripe!Answered(c) \/ Stripe!Refused(c)
               \/ Stripe!LookedUp(c) \/ Stripe!Save(c) \/ Stripe!RequestFails(c)
               \/ Stripe!ReplyLost(c) \/ Stripe!SaveFails(c)
        PROVE  PayInv'
    BY <2>1, CallKeeps, AnsweredKeeps, SaveKeeps, QuietKeeps
  <2>2. ASSUME NEW i \in DOMAIN checkouts,
               Stripe!Pay(i) \/ Stripe!PayLater(i) \/ Stripe!Expire(i)
        PROVE  PayInv'
    BY <2>2, SessionKeeps DEF Stripe!Pay, Stripe!PayLater, Stripe!Expire
  <2>3. CASE UNCHANGED Stripe!paymentVars
    BY <2>3 DEF Stripe!paymentVars, PayInv, PayTypeOK, OnePerKey, PaidIsComplete, CallsTell,
                StoreTells, Stripe!ReturnedIsStored
  <2> QED
    BY <2>1, <2>2, <2>3 DEF Stripe!Next
<1> QED
  BY PayInitially, <1>1, PTL DEF Stripe!Spec

\* StoreAgrees: there is one checkout and one refund for each reference and each call without
\* one, what a call has returned is stored, and a stored status has been that of the session,
\* for any number of callers, retries, lost requests, lost replies and failed saves.
THEOREM StripeAndStoreAgree == Stripe!Spec => []StoreAgrees
<1>1. PayInv => StoreAgrees
  BY DEF PayInv, OnePerKey, StoreTells, Tells, StoreAgrees, Stripe!StoreAgrees,
         Stripe!OncePerOrigin, Stripe!StoredIsTrue
<1> QED
  BY PayInvariance, <1>1, PTL

\* Who is alone has no other call beside it, and what it has been told of a checkout is not
\* older than what is stored.
UpToDate(c) ==
  /\ payer[c].op \in {"checkout", "get", "refund"}
  /\ payer[c].op = "get" => payer[c].id \in DOMAIN stored
  /\ payer[c].pc = "save" /\ payer[c].op # "refund" =>
       payer[c].status \in {"pending", "paid", "expired"}
  /\ payer[c].alone =>
       /\ \A d \in Callers \ {c} : payer[d].pc = "idle"
       /\ payer[c].pc = "save" /\ payer[c].op = "get" /\ payer[c].status = "pending" =>
            stored[payer[c].id] = "pending"

AloneInv ==
  /\ \A c \in Callers : payer[c].pc # "idle" => UpToDate(c)
  /\ \A i \in DOMAIN stored : stored[i] \in {"pending", "paid", "expired"}

LEMMA AloneInitially == Stripe!Init => AloneInv
<1> SUFFICES ASSUME Stripe!Init PROVE AloneInv
  OBVIOUS
<1>1. DOMAIN stored = {} /\ \A c \in Callers : payer[c].pc = "idle"
  BY DEF Stripe!Init, Stripe!Away
<1> QED
  BY <1>1 DEF AloneInv

LEMMA CallKeepsAlone ==
  ASSUME PayInv, AloneInv, NEW c \in Callers, Stripe!Call(c)
  PROVE  AloneInv'
<1>1. payer[c].pc = "idle" /\ stored' = stored
  BY DEF Stripe!Call
<1>2. PICK o \in Stripe!Operations :
        payer' = [d \in Callers |->
                    IF d = c
                    THEN [Stripe!Away EXCEPT !.pc = IF o.op = "refund" THEN "lookup" ELSE "send",
                                    !.op = o.op, !.ref = o.ref, !.id = o.id, !.number = payments + 1,
                                    !.alone = \A e \in Callers \ {c} : payer[e].pc = "idle"]
                    ELSE [payer[d] EXCEPT !.alone = payer[d].pc = "idle"]]
  BY DEF Stripe!Call
<1>3. o.op \in {"checkout", "get", "refund"} /\ (o.op = "get" => o.id \in DOMAIN stored)
  BY DEF Stripe!Operations
<1>4. /\ payer'[c].pc # "save" /\ payer'[c].op = o.op /\ payer'[c].id = o.id
      /\ payer'[c].alone = \A e \in Callers \ {c} : payer[e].pc = "idle"
  BY <1>2 DEF Stripe!Away
<1>5. ASSUME NEW d \in Callers, d # c
      PROVE  /\ payer'[d].pc = payer[d].pc /\ payer'[d].op = payer[d].op
             /\ payer'[d].id = payer[d].id /\ payer'[d].status = payer[d].status
             /\ payer'[d].alone = (payer[d].pc = "idle")
  <2>1. payer'[d] = [payer[d] EXCEPT !.alone = payer[d].pc = "idle"]
    BY <1>2, <1>5
  <2>2. payer[d] \in PayCalls
    BY CallTyped
  <2> QED
    BY <2>1, <2>2 DEF PayCalls
<1>6. \A d \in Callers \ {c} : payer'[d].pc # "idle" => ~payer'[d].alone
  BY <1>5
<1>7. payer'[c].alone => \A d \in Callers \ {c} : payer'[d].pc = "idle"
  BY <1>4, <1>5
<1>8. ASSUME NEW d \in Callers, payer'[d].pc # "idle"
      PROVE  UpToDate(d)'
  <2>1. CASE d = c
    BY <1>1, <1>3, <1>4, <1>7, <2>1 DEF UpToDate
  <2>2. CASE d # c
    <3>1. UpToDate(d)
      BY <1>5, <1>8, <2>2 DEF AloneInv
    <3> QED
      BY <1>1, <1>5, <1>6, <1>8, <2>2, <3>1 DEF UpToDate
  <2> QED
    BY <2>1, <2>2
<1> QED
  BY <1>1, <1>8 DEF AloneInv

\* A call that ends, or goes on with what it was told before, while nothing is stored.
LEMMA GoesOnAlone ==
  ASSUME PayInv, AloneInv, NEW c \in Callers, payer[c].pc # "idle",
         NEW next, payer' = [payer EXCEPT ![c] = next],
         \/ next.pc = "idle"
         \/ /\ next.op = payer[c].op /\ next.id = payer[c].id /\ next.pc # "save"
            /\ next.alone = payer[c].alone,
         stored' = stored
  PROVE  AloneInv'
<1>1. payer'[c] = next /\ \A d \in Callers \ {c} : payer'[d] = payer[d]
  BY DEF PayInv, PayTypeOK
<1>2. ASSUME NEW d \in Callers, payer'[d].pc # "idle"
      PROVE  UpToDate(d)'
  <2>1. CASE d = c
    BY <1>1, <1>2, <2>1 DEF AloneInv, UpToDate
  <2>2. CASE d # c
    <3>1. UpToDate(d) /\ ~payer[d].alone
      BY <1>1, <1>2, <2>2 DEF AloneInv, UpToDate
    <3> QED
      BY <1>1, <1>2, <2>2, <3>1 DEF UpToDate
  <2> QED
    BY <2>1, <2>2
<1> QED
  BY <1>2 DEF AloneInv

LEMMA QuietKeepsAlone ==
  ASSUME PayInv, AloneInv, NEW c \in Callers,
         \/ Stripe!Refused(c) \/ Stripe!LookedUp(c) \/ Stripe!RequestFails(c)
         \/ Stripe!ReplyLost(c) \/ Stripe!SaveFails(c)
  PROVE  AloneInv'
<1>1. stored' = stored /\ payer[c].pc # "idle"
  BY DEF Stripe!Refused, Stripe!LookedUp, Stripe!RequestFails, Stripe!ReplyLost,
         Stripe!SaveFails
<1>2. payer[c] \in PayCalls /\ Stripe!Away.pc = "idle"
  BY CallTyped
<1>3. PICK next :
        /\ payer' = [payer EXCEPT ![c] = next]
        /\ \/ next = Stripe!Away
           \/ payer[c].pc = "lookup" /\ next = [payer[c] EXCEPT !.pc = "send", !.attempt = 1]
           \/ payer[c].pc # "save" /\ next = [payer[c] EXCEPT !.attempt = @ + 1]
  BY DEF Stripe!Refused, Stripe!LookedUp, Stripe!RequestFails, Stripe!ReplyLost,
         Stripe!SaveFails, Stripe!NextAttempt, Stripe!Becomes
<1>4. \/ next.pc = "idle"
      \/ /\ next.op = payer[c].op /\ next.id = payer[c].id /\ next.pc # "save"
         /\ next.alone = payer[c].alone
  BY <1>2, <1>3 DEF PayCalls
<1> QED
  BY <1>1, <1>3, <1>4, GoesOnAlone

\* The reply tells the state of the session, which no stored status is ahead of.
LEMMA AnsweredKeepsAlone ==
  ASSUME PayInv, AloneInv, NEW c \in Callers, Stripe!Answered(c)
  PROVE  AloneInv'
<1>1. payer[c].pc = "send" /\ stored' = stored /\ UpToDate(c)
  BY DEF Stripe!Answered, AloneInv
<1>2. PICK id, status : id = Stripe!Reply(c).id /\ status = Stripe!Reply(c).status
  OBVIOUS
<1>3. PICK next : next = [payer[c] EXCEPT !.pc = "save", !.id = id, !.status = status]
  OBVIOUS
<1>4. payer' = [payer EXCEPT ![c] = next]
  BY <1>2, <1>3 DEF Stripe!Answered, Stripe!Becomes
<1>5. payer'[c] = next /\ \A d \in Callers \ {c} : payer'[d] = payer[d]
  BY <1>4 DEF PayInv, PayTypeOK
<1>6. /\ next.pc = "save" /\ next.op = payer[c].op /\ next.id = id /\ next.status = status
      /\ next.alone = payer[c].alone
  BY <1>3, CallTyped DEF PayCalls
<1>7. payer[c].op = "checkout" => status = "pending"
  BY <1>2 DEF Stripe!Reply
<1>8. payer[c].op = "get" =>
        /\ id = payer[c].id /\ id \in DOMAIN stored
        /\ status \in {"pending", "paid", "expired"}
        /\ status = "pending" => stored[id] = "pending"
  <2> SUFFICES ASSUME payer[c].op = "get"
               PROVE  /\ id = payer[c].id /\ id \in DOMAIN stored
                      /\ status \in {"pending", "paid", "expired"}
                      /\ status = "pending" => stored[id] = "pending"
    OBVIOUS
  <2>1. id = payer[c].id /\ status = Stripe!MapStatus(checkouts[id])
    BY <1>2 DEF Stripe!Reply
  <2>2. id \in DOMAIN stored
    BY <1>1, <2>1 DEF UpToDate
  <2>3. Tells(checkouts, id, stored[id]) /\ stored[id] \in {"pending", "paid", "expired"}
    BY <2>2 DEF PayInv, StoreTells, AloneInv
  <2>4. status \in {"pending", "paid", "expired"}
    BY <2>1 DEF Stripe!MapStatus
  <2>5. status = "pending" => stored[id] = "pending"
    BY <2>1, <2>3 DEF Stripe!MapStatus, Tells
  <2> QED
    BY <2>1, <2>2, <2>4, <2>5
<1>9. ASSUME NEW d \in Callers, payer'[d].pc # "idle"
      PROVE  UpToDate(d)'
  <2>1. CASE d = c
    BY <1>1, <1>5, <1>6, <1>7, <1>8, <2>1 DEF UpToDate
  <2>2. CASE d # c
    <3>1. UpToDate(d) /\ ~payer[d].alone
      BY <1>1, <1>5, <1>9, <2>2 DEF AloneInv, UpToDate
    <3> QED
      BY <1>1, <1>5, <1>9, <2>2, <3>1 DEF UpToDate
  <2> QED
    BY <2>1, <2>2
<1> QED
  BY <1>1, <1>9 DEF AloneInv

LEMMA SaveKeepsAlone ==
  ASSUME PayInv, AloneInv, NEW c \in Callers, Stripe!Save(c)
  PROVE  AloneInv'
<1>1. /\ payer[c].pc = "save" /\ Stripe!Write(c) /\ UpToDate(c)
      /\ payer' = [payer EXCEPT ![c] = Stripe!Away]
  BY DEF Stripe!Save, Stripe!Becomes, AloneInv
<1>2. payer'[c].pc = "idle" /\ \A d \in Callers \ {c} : payer'[d] = payer[d]
  BY <1>1, CallTyped DEF PayInv, PayTypeOK
<1>3. /\ DOMAIN stored \subseteq DOMAIN stored'
      /\ \A i \in DOMAIN stored' : stored'[i] \in {"pending", "paid", "expired"}
  BY <1>1 DEF Stripe!Write, UpToDate, AloneInv
<1>4. ASSUME NEW d \in Callers, payer'[d].pc # "idle"
      PROVE  UpToDate(d)'
  <2>1. d # c /\ UpToDate(d) /\ ~payer[d].alone
    BY <1>1, <1>2, <1>4 DEF AloneInv, UpToDate
  <2> QED
    BY <1>2, <1>3, <2>1 DEF UpToDate
<1> QED
  BY <1>3, <1>4 DEF AloneInv

LEMMA AloneKept ==
  ASSUME PayInv, AloneInv, [Stripe!Next]_(Stripe!paymentVars)
  PROVE  AloneInv'
<1>1. ASSUME NEW c \in Callers,
             \/ Stripe!Call(c) \/ Stripe!Answered(c) \/ Stripe!Refused(c)
             \/ Stripe!LookedUp(c) \/ Stripe!Save(c) \/ Stripe!RequestFails(c)
             \/ Stripe!ReplyLost(c) \/ Stripe!SaveFails(c)
      PROVE  AloneInv'
  BY <1>1, CallKeepsAlone, AnsweredKeepsAlone, SaveKeepsAlone, QuietKeepsAlone
<1>2. ASSUME NEW i \in DOMAIN checkouts,
             Stripe!Pay(i) \/ Stripe!PayLater(i) \/ Stripe!Expire(i)
      PROVE  AloneInv'
  <2>1. UNCHANGED <<stored, payer>>
    BY <1>2 DEF Stripe!Pay, Stripe!PayLater, Stripe!Expire, Stripe!Session
  <2> QED
    BY <2>1 DEF AloneInv, UpToDate
<1>3. CASE UNCHANGED Stripe!paymentVars
  BY <1>3 DEF Stripe!paymentVars, AloneInv, UpToDate
<1> QED
  BY <1>1, <1>2, <1>3 DEF Stripe!Next

\* What a step may do to the store, as StoreNeverRegresses has it.
NoneRegresses ==
  \A i \in DOMAIN stored : Stripe!StoreRegresses(i) =>
    \E c \in Callers :
      payer[c].pc = "save" /\ payer[c].id = i /\ (~payer[c].alone \/ payer[c].op = "checkout")

LEMMA StepsDoNotRegress ==
  ASSUME PayInv, AloneInv, Stripe!Next
  PROVE  NoneRegresses
<1>1. ASSUME NEW c \in Callers, Stripe!Save(c)
      PROVE  NoneRegresses
  <2>1. payer[c].pc = "save" /\ Stripe!Write(c) /\ UpToDate(c)
    BY <1>1 DEF Stripe!Save, AloneInv
  <2>2. SUFFICES ASSUME NEW i \in DOMAIN stored, Stripe!StoreRegresses(i)
                 PROVE  /\ payer[c].id = i
                        /\ ~payer[c].alone \/ payer[c].op = "checkout"
    BY <2>1 DEF NoneRegresses
  <2>3. payer[c].op # "refund" /\ payer[c].id = i /\ payer[c].status = "pending"
    BY <2>1, <2>2 DEF Stripe!Write, Stripe!StoreRegresses
  <2>4. stored[i] # "pending"
    BY <2>2 DEF Stripe!StoreRegresses
  <2> QED
    BY <2>1, <2>3, <2>4 DEF UpToDate
<1>2. ASSUME stored' = stored
      PROVE  NoneRegresses
  BY <1>2 DEF NoneRegresses, Stripe!StoreRegresses
<1>3. \/ stored' = stored
      \/ \E c \in Callers : Stripe!Save(c)
  BY DEF Stripe!Next, Stripe!Call, Stripe!Answered, Stripe!Refused, Stripe!LookedUp,
         Stripe!RequestFails, Stripe!ReplyLost, Stripe!SaveFails, Stripe!Pay,
         Stripe!PayLater, Stripe!Expire, Stripe!Session
<1> QED
  BY <1>1, <1>2, <1>3

\* StoreNeverRegresses: a status that is stored as paid or expired is taken back only by a
\* call that overlapped with another or by create_checkout() with its reference.
THEOREM NoStoreRegresses == Stripe!Spec => StoreNeverRegresses
<1>1. PayInv /\ AloneInv /\ [Stripe!Next]_(Stripe!paymentVars) => AloneInv'
  BY AloneKept
<1>2. PayInv /\ AloneInv /\ [Stripe!Next]_(Stripe!paymentVars) =>
        [NoneRegresses]_(Stripe!paymentVars)
  BY StepsDoNotRegress
<1>3. StoreNeverRegresses <=> [][NoneRegresses]_(Stripe!paymentVars)
  BY PTL DEF StoreNeverRegresses, Stripe!StoreNeverRegresses, NoneRegresses
<1> QED
  BY PayInvariance, AloneInitially, <1>1, <1>2, <1>3, PTL DEF Stripe!Spec


-----------------------------------------------------------------------------
(* The task queue: what RedisTaskQueueProofs proves holds of this instance. *)

Proved == INSTANCE RedisTaskQueueProofs WITH MaxAttempts <- TaskAttempts

\* Both instances are of one specification.
LEMMA SameQueue ==
  /\ Proved!Init <=> Queue!Init
  /\ [Proved!Next]_Proved!vars <=> [Queue!Next]_Queue!vars
  /\ Proved!NoTaskLost <=> Queue!NoTaskLost
<1>1. Proved!Init <=> Queue!Init
  BY DEF Proved!Init, Queue!Init, Proved!NoEnvelope, Queue!NoEnvelope, Proved!IdleSlot,
       Queue!IdleSlot, Proved!SlotAt, Queue!SlotAt
<1>2. Proved!NoTaskLost <=> Queue!NoTaskLost
  BY DEF Proved!NoTaskLost, Queue!NoTaskLost, Proved!Underway, Queue!Underway,
       Proved!TaskOf, Queue!TaskOf, Proved!Live, Queue!Live
<1>3. Proved!Next <=> Queue!Next
  BY DEF Proved!counts, Queue!counts, Proved!vars, Queue!vars, Proved!redis, Queue!redis,
       Proved!Live, Queue!Live, Proved!Settled, Queue!Settled, Proved!Envelope,
       Queue!Envelope, Proved!NoEnvelope, Queue!NoEnvelope, Proved!SlotAt, Queue!SlotAt,
       Proved!IdleSlot, Queue!IdleSlot, Proved!EnqueueGoes, Queue!EnqueueGoes,
       Proved!EnqueueReturns, Queue!EnqueueReturns, Proved!EnqueueGet, Queue!EnqueueGet,
       Proved!EnqueueReserve, Queue!EnqueueReserve, Proved!EnqueueReload,
       Queue!EnqueueReload, Proved!EnqueuePersist, Queue!EnqueuePersist,
       Proved!EnqueuePublish, Queue!EnqueuePublish, Proved!Enqueue, Queue!Enqueue,
       Proved!TaskOf, Queue!TaskOf, Proved!MidOf, Queue!MidOf, Proved!SetMid, Queue!SetMid,
       Proved!Goes, Queue!Goes, Proved!Carries, Queue!Carries, Proved!Running,
       Queue!Running, Proved!InState, Queue!InState, Proved!Rests, Queue!Rests,
       Proved!GivesUp, Queue!GivesUp, Proved!Batch, Queue!Batch, Proved!Receives,
       Queue!Receives, Proved!Claim, Queue!Claim, Proved!ReadNew, Queue!ReadNew,
       Proved!MidAfterLoad, Queue!MidAfterLoad, Proved!MayPublish, Queue!MayPublish,
       Proved!Load, Queue!Load, Proved!Acks, Queue!Acks, Proved!AckDropped,
       Queue!AckDropped, Proved!Republish, Queue!Republish, Proved!Persists, Queue!Persists,
       Proved!Start, Queue!Start, Proved!Verdict, Queue!Verdict, Proved!Decides,
       Queue!Decides, Proved!HandlerReturns, Queue!HandlerReturns, Proved!HandlerRaises,
       Queue!HandlerRaises, Proved!NoHandler, Queue!NoHandler, Proved!SettleLoad,
       Queue!SettleLoad, Proved!SettlePersist, Queue!SettlePersist, Proved!SettleAck,
       Queue!SettleAck, Proved!SettlePublish, Queue!SettlePublish, Proved!Work, Queue!Work,
       Proved!Holds, Queue!Holds, Proved!GrowStale, Queue!GrowStale, Proved!Elapse,
       Queue!Elapse, Proved!Crash, Queue!Crash, Proved!EnqueueCrash, Queue!EnqueueCrash,
       Proved!Next, Queue!Next
<1>4. [Proved!Next]_Proved!vars <=> [Queue!Next]_Queue!vars
  BY <1>3 DEF Proved!vars, Queue!vars, Proved!counts, Queue!counts
<1> QED
  BY <1>1, <1>2, <1>4

\* NoTaskLost: unless a process dies, no interleaving of deliveries, retries and
\* acknowledgements, late ones included, leaves an unsettled task without message.
THEOREM TasksKept == Queue!Spec => []NoTaskLost
<1>1. Proved!Spec => []Proved!NoTaskLost
  BY QueueAssumption, Proved!QueueKeepsTasks
<1> QED
  BY <1>1, SameQueue, PTL DEF Proved!Spec, Queue!Spec, NoTaskLost

-----------------------------------------------------------------------------
(* RateLimit, for any routes and quotas and any number of callers.         *)

Askings == [route: Routes, at: Nat, counted: Nat, id: Nat]
CounterKeys == [window: Nat \ {0}, bucket: Nat]
CounterStates == [count: Nat \ {0}, expires: Nat]
InProgress == [pc: {"asked", "first"}, request: Askings, counter: CounterKeys]

\* The requests let through and those that the first caller of a counter will let through.
Claimed == allowed \cup {caller[c].request : c \in {d \in Callers : caller[d].pc = "first"}}

\* Those of a route that were counted in the fixed window of its own in which they came.
ClaimedIn(r, bucket) ==
  {p \in Claimed : /\ p.route = r
                   /\ p.at \div Limiter!Window(r) = bucket
                   /\ p.counted \div Limiter!Window(r) = bucket}

CounterOf(r, bucket) == [window |-> Limiter!Window(r), bucket |-> bucket]

ForgottenCounters == {k \in DOMAIN counters : Limiter!Forgotten(k)}

RateTypes ==
  /\ redis \in BOOLEAN
  /\ quota \in [Routes -> [limit: Nat \ {0}, window: Nat \ {0}]]
  /\ now \in Nat /\ requests \in Nat /\ deaths \in Nat
  /\ hits \subseteq Askings /\ IsFiniteSet(hits)
  /\ Claimed \subseteq Askings /\ IsFiniteSet(Claimed)
  /\ caller \in [Callers -> {Limiter!Away} \cup InProgress]
  /\ ~redis => \A c \in Callers : caller[c] = Limiter!Away

\* A caller has the counter of the time at which it chose it.
CallersInv ==
  \A c \in Callers : caller[c] # Limiter!Away =>
    LET asked == caller[c].request IN
    /\ asked.at <= now
    /\ caller[c].counter = CounterOf(asked.route, asked.at \div Limiter!Window(asked.route))

\* A counter is never of a window to come, and expires after its own.
CountersInv ==
  /\ IsFiniteSet(DOMAIN counters)
  /\ \A k \in DOMAIN counters :
       /\ k \in CounterKeys /\ counters[k] \in CounterStates
       /\ k.bucket <= now \div k.window
       /\ counters[k].expires # Limiter!Never =>
            k.bucket < counters[k].expires \div k.window

\* A counter has counted the requests let through in its window until that is over, and one
\* that is gone is of a window that is over.
FixedInv ==
  \A r \in Routes, bucket \in Nat :
    LET k == CounterOf(r, bucket)
        through == Cardinality(ClaimedIn(r, bucket)) IN
    /\ through <= quota[r].limit
    /\ now \div Limiter!Window(r) <= bucket =>
         /\ k \in DOMAIN counters => through <= counters[k].count
         /\ k \notin DOMAIN counters => ClaimedIn(r, bucket) = {}

\* No route of the key has a shorter window.
Shortest(r) == \A q \in Routes : quota[q].window >= quota[r].window

PassedFrom(r, from) ==
  {p \in allowed : p.route = r /\ from <= p.at /\ p.at < from + quota[r].window}

\* The memory limiter has the hits that the route with the shortest window must count.
SlidingInv ==
  \A r \in Routes : Shortest(r) =>
    /\ \A p \in allowed : p.at + quota[r].window > now => p \in hits
    /\ \A from \in Nat : Cardinality(PassedFrom(r, from)) <= quota[r].limit

ForgottenInv == IsFiniteSet(ForgottenCounters) /\ Cardinality(ForgottenCounters) <= deaths

RateInv ==
  /\ RateTypes /\ CallersInv /\ CountersInv
  /\ redis => FixedInv
  /\ ~redis => SlidingInv
  /\ ForgottenInv

-----------------------------------------------------------------------------

LEMMA Buckets ==
  ASSUME NEW t \in Nat, NEW w \in Nat \ {0}
  PROVE  /\ t \div w \in Nat
         /\ (t + w) \div w = (t \div w) + 1
         /\ \A u \in Nat : t <= u => t \div w <= u \div w
<1>1. t \div w \in Nat
  OBVIOUS
<1>2. (t + w) \div w = (t \div w) + 1
  OBVIOUS
<1>3. ASSUME NEW u \in Nat, t <= u  PROVE t \div w <= u \div w
  BY <1>3
<1> QED
  BY <1>1, <1>2, <1>3

\* A fixed window is not empty.
LEMMA Windows ==
  ASSUME RateTypes, NEW r \in Routes
  PROVE  /\ Limiter!Window(r) \in Nat \ {0}
         /\ quota' = quota => Limiter!Window(r)' = Limiter!Window(r)
<1>1. Limiter!Window(r) \in Nat \ {0}
  <2> DEFINE w == quota[r].window
             seconds == w \div Second
  <2>1. w \in Nat \ {0} /\ Second \in Nat \ {0}
    BY QuotasAssumption DEF RateTypes
  <2>2. seconds \in Nat /\ (w >= Second => seconds # 0)
    BY <2>1
  <2> HIDE DEF w, seconds
  <2>3. seconds # 0 => seconds * Second \in Nat \ {0}
    BY <2>1, <2>2
  <2> QED  BY <2>1, <2>2, <2>3 DEF Limiter!Window, w, seconds
<1> QED
  BY <1>1 DEF Limiter!Window

\* A set that gains at most one element grows by at most one.
LEMMA GrowsByOne ==
  ASSUME NEW S, NEW T, NEW x, IsFiniteSet(S), T \subseteq S \cup {x}
  PROVE  /\ IsFiniteSet(T) /\ Cardinality(S) \in Nat /\ Cardinality(T) \in Nat
         /\ Cardinality(T) <= Cardinality(S) + 1
         /\ T \subseteq S => Cardinality(T) <= Cardinality(S)
<1>1. IsFiniteSet(S \cup {x}) /\ Cardinality(S) \in Nat
  BY FS_AddElement, FS_CardinalityType
<1>2. Cardinality(S \cup {x}) <= Cardinality(S) + 1 /\ Cardinality(S \cup {x}) \in Nat
  <2>1. Cardinality(S \cup {x}) = IF x \in S THEN Cardinality(S) ELSE Cardinality(S) + 1
    BY FS_AddElement
  <2> QED  BY <1>1, <2>1
<1>3. IsFiniteSet(T) /\ Cardinality(T) \in Nat /\ Cardinality(T) <= Cardinality(S \cup {x})
  BY <1>1, FS_Subset, FS_CardinalityType
<1>4. T \subseteq S => Cardinality(T) <= Cardinality(S)
  BY FS_Subset
<1> QED
  BY <1>1, <1>2, <1>3, <1>4

LEMMA RateInitially == Limiter!Init => RateInv
<1> SUFFICES ASSUME Limiter!Init  PROVE RateInv
  OBVIOUS
<1>1. Claimed = {}
  BY DEF Limiter!Init, Claimed, Limiter!Away
<1>2. RateTypes
  BY <1>1, QuotasAssumption, FS_EmptySet DEF RateTypes, Limiter!Init
<1>8. CallersInv
  BY DEF Limiter!Init, CallersInv
<1>3. DOMAIN counters = {}
  BY DEF Limiter!Init
<1>4. CountersInv /\ ForgottenCounters = {}
  BY <1>3, FS_EmptySet DEF CountersInv, ForgottenCounters
<1>5. ForgottenInv
  BY <1>4, FS_EmptySet DEF ForgottenInv, Limiter!Init
<1>6. FixedInv
  <2> SUFFICES ASSUME NEW r \in Routes, NEW bucket \in Nat
               PROVE  /\ ClaimedIn(r, bucket) = {}
                      /\ Cardinality(ClaimedIn(r, bucket)) <= quota[r].limit
    BY <1>3 DEF FixedInv
  <2>1. ClaimedIn(r, bucket) = {}
    BY <1>1 DEF ClaimedIn
  <2> QED  BY <2>1, <1>2, FS_EmptySet DEF RateTypes
<1>7. SlidingInv
  <2> SUFFICES ASSUME NEW r \in Routes, NEW from \in Nat
               PROVE  Cardinality(PassedFrom(r, from)) <= quota[r].limit
    BY DEF SlidingInv, Limiter!Init
  <2>1. PassedFrom(r, from) = {}
    BY DEF PassedFrom, Limiter!Init
  <2> QED  BY <2>1, <1>2, FS_EmptySet DEF RateTypes
<1> QED
  BY <1>2, <1>4, <1>5, <1>6, <1>7, <1>8 DEF RateInv

\* A request adds itself, at most, to what its own route is claimed in its own window.
LEMMA ClaimsGrow ==
  ASSUME RateTypes, quota' = quota,
         NEW asked \in Askings, Claimed' \subseteq Claimed \cup {asked},
         NEW r \in Routes, NEW bucket \in Nat
  PROVE  /\ IsFiniteSet(Claimed') /\ Claimed' \subseteq Askings
         /\ IsFiniteSet(ClaimedIn(r, bucket)) /\ Cardinality(ClaimedIn(r, bucket)) \in Nat
         /\ Cardinality(ClaimedIn(r, bucket)') \in Nat
         /\ Cardinality(ClaimedIn(r, bucket)') <= Cardinality(ClaimedIn(r, bucket)) + 1
         /\ \/ asked.route # r \/ asked.at \div Limiter!Window(r) # bucket
               \/ asked.counted \div Limiter!Window(r) # bucket
               \/ Claimed' \subseteq Claimed
            =>
              /\ ClaimedIn(r, bucket)' \subseteq ClaimedIn(r, bucket)
              /\ Cardinality(ClaimedIn(r, bucket)') <= Cardinality(ClaimedIn(r, bucket))
<1>1. IsFiniteSet(Claimed') /\ Claimed' \subseteq Askings
  <2>1. IsFiniteSet(Claimed) /\ Claimed \subseteq Askings
    BY DEF RateTypes
  <2> QED  BY <2>1, GrowsByOne, Zenon
<1>2. IsFiniteSet(ClaimedIn(r, bucket))
  BY FS_Subset DEF RateTypes, ClaimedIn
<1>3. ClaimedIn(r, bucket)' \subseteq ClaimedIn(r, bucket) \cup {asked}
  BY Windows DEF ClaimedIn
<1>4. \/ asked.route # r \/ asked.at \div Limiter!Window(r) # bucket
      \/ asked.counted \div Limiter!Window(r) # bucket \/ Claimed' \subseteq Claimed
      => ClaimedIn(r, bucket)' \subseteq ClaimedIn(r, bucket)
  BY Windows DEF ClaimedIn
<1>5. /\ Cardinality(ClaimedIn(r, bucket)) \in Nat
      /\ Cardinality(ClaimedIn(r, bucket)') \in Nat
      /\ Cardinality(ClaimedIn(r, bucket)') <= Cardinality(ClaimedIn(r, bucket)) + 1
      /\ ClaimedIn(r, bucket)' \subseteq ClaimedIn(r, bucket) =>
           Cardinality(ClaimedIn(r, bucket)') <= Cardinality(ClaimedIn(r, bucket))
  BY <1>2, <1>3, GrowsByOne, Zenon
<1> HIDE DEF ClaimedIn
<1> QED
  BY <1>1, <1>2, <1>4, <1>5

LEMMA LimiterCounts == \A S : Limiter!Cardinality(S) = Cardinality(S)
BY DEF Limiter!Cardinality, Cardinality

LEMMA AllowKeeps ==
  ASSUME RateInv, NEW r \in Routes, Limiter!Allow(r)  PROVE RateInv'
<1> DEFINE asked == Limiter!Request(r)
           recent == Limiter!Recent(quota[r].window)
<1>1. /\ ~redis /\ requests' = requests + 1
      /\ redis' = redis /\ quota' = quota /\ now' = now /\ counters' = counters
      /\ caller' = caller /\ deaths' = deaths
      /\ \/ hits' = recent /\ allowed' = allowed
         \/ /\ Cardinality(recent) < quota[r].limit
            /\ hits' = recent \cup {asked} /\ allowed' = allowed \cup {asked}
  <2> USE DEF Limiter!Allow, Limiter!LetThrough
  <2>1. CASE Limiter!Cardinality(recent) >= quota[r].limit
    BY <2>1
  <2>2. CASE ~(Limiter!Cardinality(recent) >= quota[r].limit)
    <3>1. IsFiniteSet(recent)
      BY FS_Subset DEF RateInv, RateTypes, Limiter!Recent
    <3>2. Cardinality(recent) \in Nat /\ quota[r].limit \in Nat
      BY <3>1, FS_CardinalityType DEF RateInv, RateTypes
    <3>3. Cardinality(recent) < quota[r].limit
      BY <2>2, <3>2, LimiterCounts
    <3> QED  BY <2>2, <3>3
  <2> QED  BY <2>1, <2>2
<1>2. asked \in Askings /\ asked.route = r /\ asked.at = now
  BY DEF Limiter!Request, Askings, RateInv, RateTypes
<1>3. Claimed = allowed /\ Claimed' = allowed'
  BY <1>1 DEF RateInv, RateTypes, Claimed, Limiter!Away
<1>4. IsFiniteSet(Claimed') /\ Claimed' \subseteq Askings
  <2>1. Claimed' \subseteq Claimed \cup {asked}
    BY <1>1, <1>3
  <2>2. RateTypes
    BY DEF RateInv
  <2> QED  BY <1>1, <1>2, <2>1, <2>2, ClaimsGrow
<1>5. RateTypes'
  <2>1. recent \subseteq hits
    BY DEF Limiter!Recent
  <2>2. IsFiniteSet(hits') /\ hits' \subseteq Askings
    <3>1. IsFiniteSet(hits) /\ hits \subseteq Askings
      BY DEF RateInv, RateTypes
    <3>2. hits' \subseteq hits \cup {asked}
      BY <1>1, <2>1
    <3> QED  BY <1>2, <3>1, <3>2, GrowsByOne, Zenon
  <2>3. RateTypes
    BY DEF RateInv
  <2> QED  BY <1>1, <1>4, <2>2, <2>3 DEF RateTypes
<1>6. CallersInv' /\ CountersInv' /\ ForgottenInv'
  BY <1>1 DEF RateInv, RateTypes, CallersInv, CountersInv, ForgottenInv, ForgottenCounters,
              Limiter!Forgotten
<1>7. ASSUME NEW q \in Routes, Shortest(q)
      PROVE  /\ \A p \in allowed' : p.at + quota[q].window > now => p \in hits'
             /\ \A from \in Nat : Cardinality(PassedFrom(q, from)') <= quota[q].limit
  <2>1. /\ \A p \in allowed : p.at + quota[q].window > now => p \in hits
        /\ \A from \in Nat : Cardinality(PassedFrom(q, from)) <= quota[q].limit
    BY <1>1, <1>7 DEF RateInv, SlidingInv
  <2>2. /\ quota[q].window \in Nat /\ quota[r].window \in Nat
        /\ quota[q].window <= quota[r].window /\ now \in Nat
        /\ quota[q].limit \in Nat \ {0}
        /\ \A p \in allowed : p.at \in Nat
    BY <1>3, <1>7 DEF RateInv, RateTypes, Shortest, Askings
  <2>3. \A p \in allowed : p.at + quota[q].window > now => p \in recent
    BY <2>1, <2>2 DEF Limiter!Recent
  <2>4. ASSUME NEW from \in Nat
        PROVE  Cardinality(PassedFrom(q, from)') <= quota[q].limit
    <3>1. PassedFrom(q, from) \subseteq allowed
      BY DEF PassedFrom
    <3>2. IsFiniteSet(PassedFrom(q, from))
      BY <1>3, <3>1, FS_Subset DEF RateInv, RateTypes
    <3>3. PassedFrom(q, from)' \subseteq PassedFrom(q, from) \cup {asked}
      BY <1>1 DEF PassedFrom
    <3>4. CASE PassedFrom(q, from)' \subseteq PassedFrom(q, from)
      <4>1. /\ Cardinality(PassedFrom(q, from)') <= Cardinality(PassedFrom(q, from))
            /\ Cardinality(PassedFrom(q, from)) \in Nat
            /\ Cardinality(PassedFrom(q, from)') \in Nat
        BY <3>2, <3>3, <3>4, GrowsByOne, Zenon
      <4>2. Cardinality(PassedFrom(q, from)) <= quota[q].limit
        BY <2>1, <2>4
      <4> QED  BY <2>2, <4>1, <4>2
    <3>5. CASE ~(PassedFrom(q, from)' \subseteq PassedFrom(q, from))
      <4>1. /\ asked \in PassedFrom(q, from)'
            /\ allowed' = allowed \cup {asked} /\ Cardinality(recent) < quota[r].limit
        BY <1>1, <3>3, <3>5 DEF PassedFrom
      <4>2. q = r /\ from <= now /\ now < from + quota[q].window
        BY <1>1, <1>2, <4>1 DEF PassedFrom
      <4>3. \A p \in PassedFrom(q, from) : p \in allowed /\ from <= p.at
        BY DEF PassedFrom
      <4>4. PassedFrom(q, from) \subseteq recent
        <5> HIDE DEF recent
        <5>1. \A p \in PassedFrom(q, from) : p.at + quota[q].window > now
          BY <2>2, <2>4, <4>2, <4>3
        <5> QED  BY <2>3, <4>3, <5>1
      <4>5. IsFiniteSet(recent)
        BY FS_Subset DEF RateInv, RateTypes, Limiter!Recent
      <4>6. Cardinality(PassedFrom(q, from)) <= Cardinality(recent) /\ Cardinality(recent) \in Nat
        BY <4>4, <4>5, FS_Subset, FS_CardinalityType
      <4>7. /\ Cardinality(PassedFrom(q, from)') <= Cardinality(PassedFrom(q, from)) + 1
            /\ Cardinality(PassedFrom(q, from)) \in Nat
            /\ Cardinality(PassedFrom(q, from)') \in Nat
        BY <3>2, <3>3, GrowsByOne, Zenon
      <4> HIDE DEF recent
      <4> QED  BY <2>2, <4>1, <4>2, <4>6, <4>7
    <3> QED  BY <3>4, <3>5
  <2>5. \A p \in allowed' : p.at + quota[q].window > now => p \in hits'
    BY <1>1, <2>3
  <2> QED  BY <2>4, <2>5
<1>8. SlidingInv'
  <2>1. \A q \in Routes : Shortest(q)' => Shortest(q)
    BY <1>1 DEF Shortest
  <2> QED  BY <1>1, <1>7, <2>1 DEF SlidingInv
<1> QED
  BY <1>1, <1>5, <1>6, <1>8 DEF RateInv

\* A caller that comes or goes keeps what the others know.
LEMMA CallersKept ==
  ASSUME RateTypes, CallersInv, RateTypes', quota' = quota, now' = now,
         NEW c \in Callers, NEW state, caller' = [caller EXCEPT ![c] = state],
         state # Limiter!Away =>
           /\ state.request.at <= now
           /\ state.counter = CounterOf(state.request.route,
                state.request.at \div Limiter!Window(state.request.route))
  PROVE  CallersInv'
<1>1. \A q \in Routes : Limiter!Window(q)' = Limiter!Window(q)
  BY Windows
<1>2. ASSUME NEW d \in Callers, caller'[d] # Limiter!Away
      PROVE  /\ caller'[d].request.at <= now
             /\ caller'[d].counter = CounterOf(caller'[d].request.route,
                  caller'[d].request.at \div Limiter!Window(caller'[d].request.route))
             /\ caller'[d].request.route \in Routes
  <2>1. caller'[d].request.route \in Routes
    BY <1>2 DEF RateTypes, InProgress, Askings
  <2>2. CASE d = c
    <3>1. caller'[d] = state
      BY <2>2 DEF RateTypes
    <3> QED  BY <1>2, <2>1, <3>1
  <2>3. CASE d # c
    <3>1. caller'[d] = caller[d]
      BY <2>3 DEF RateTypes
    <3> QED  BY <1>2, <2>1, <3>1 DEF CallersInv
  <2> QED  BY <2>2, <2>3
<1> QED
  BY <1>1, <1>2 DEF CallersInv, CounterOf

LEMMA IncrKeeps ==
  ASSUME RateInv, NEW c \in Callers, Limiter!Incr(c)  PROVE RateInv'
<1> DEFINE asked == [caller[c].request EXCEPT !.counted = now]
           k == caller[c].counter
           r == caller[c].request.route
           count == Limiter!Count(k) + 1
<1>1. /\ caller[c].pc = "asked" /\ requests' = requests
      /\ redis' = redis /\ quota' = quota /\ now' = now /\ hits' = hits /\ deaths' = deaths
  BY DEF Limiter!Incr
<1>2. /\ RateTypes /\ CallersInv /\ CountersInv /\ ForgottenInv
  BY DEF RateInv
<1>13. redis /\ FixedInv /\ caller[c] # Limiter!Away /\ caller[c] \in InProgress
  BY <1>1, <1>2 DEF RateInv, RateTypes, Limiter!Away
<1>3. /\ r \in Routes /\ Limiter!Window(r) \in Nat \ {0}
      /\ quota[r].limit \in Nat \ {0} /\ now \in Nat /\ now \div Limiter!Window(r) \in Nat
  <2>1. r \in Routes
    BY <1>13 DEF InProgress, Askings
  <2> HIDE DEF r
  <2>2. Limiter!Window(r) \in Nat \ {0} /\ now \in Nat /\ quota[r].limit \in Nat \ {0}
    BY <1>2, <2>1, Windows DEF RateTypes
  <2> QED  BY <2>1, <2>2, Buckets
<1>4. /\ asked \in Askings /\ asked.route = r /\ asked.counted = now
      /\ asked.at \div Limiter!Window(r) = k.bucket
      /\ k \in CounterKeys /\ k.window = Limiter!Window(r)
      /\ k.bucket <= now \div Limiter!Window(r)
      /\ k = CounterOf(r, k.bucket)
  <2> DEFINE came == caller[c].request.at
  <2>1. /\ asked \in Askings /\ asked.route = r /\ asked.counted = now /\ asked.at = came
        /\ came \in Nat /\ k \in CounterKeys
    BY <1>3, <1>13 DEF InProgress, Askings
  <2>2. came <= now /\ k = CounterOf(r, came \div Limiter!Window(r))
    BY <1>2, <1>13 DEF CallersInv
  <2> HIDE DEF came, r, k, asked
  <2>3. came \div Limiter!Window(r) <= now \div Limiter!Window(r)
    BY <1>3, <2>1, <2>2, Buckets
  <2> QED  BY <2>1, <2>2, <2>3 DEF CounterOf
<1>5. /\ k \notin DOMAIN counters => count = 1
      /\ k \in DOMAIN counters => count = counters[k].count + 1 /\ count # 1
      /\ count \in Nat \ {0}
  BY <1>2 DEF Limiter!Count, CountersInv, CounterStates
<1>6. /\ counters' = [j \in DOMAIN counters \cup {k} |->
                        IF j = k THEN [count |-> count, expires |-> Limiter!Expires(k)]
                                 ELSE counters[j]]
      /\ IF count = 1
         THEN /\ caller' = [caller EXCEPT ![c] = [pc |-> "first", request |-> asked,
                                                  counter |-> k]]
              /\ allowed' = allowed
         ELSE /\ caller' = [caller EXCEPT ![c] = Limiter!Away]
              /\ IF count <= quota[r].limit THEN allowed' = allowed \cup {asked}
                                           ELSE allowed' = allowed
  BY DEF Limiter!Incr, Limiter!Becomes, Limiter!LetThrough, Limiter!Within
<1>7. /\ Claimed' \subseteq Claimed \cup {asked}
      /\ count > quota[r].limit => Claimed' \subseteq Claimed
  <2> HIDE DEF asked, k, count
  <2>1. CASE count = 1
    <3>1. \A d \in Callers : caller'[d].pc = "first" =>
            caller'[d].request = asked \/ (caller[d].pc = "first" /\ caller'[d] = caller[d])
      BY <1>2, <1>6, <2>1 DEF RateTypes
    <3> QED  BY <1>3, <1>6, <2>1, <3>1 DEF Claimed
  <2>2. CASE count # 1
    <3>1. \A d \in Callers : caller'[d].pc = "first" =>
            caller[d].pc = "first" /\ caller'[d] = caller[d]
      BY <1>2, <1>6, <2>2 DEF RateTypes, Limiter!Away
    <3> QED  BY <1>3, <1>5, <1>6, <2>2, <3>1 DEF Claimed
  <2> QED  BY <2>1, <2>2
<1>8. RateTypes'
  <2>1. IsFiniteSet(Claimed') /\ Claimed' \subseteq Askings
    BY <1>1, <1>2, <1>3, <1>4, <1>7, ClaimsGrow
  <2>2. caller' \in [Callers -> {Limiter!Away} \cup InProgress]
    <3> HIDE DEF asked, k, count
    <3>1. caller \in [Callers -> {Limiter!Away} \cup InProgress]
      BY <1>2 DEF RateTypes
    <3>2. [pc |-> "first", request |-> asked, counter |-> k] \in InProgress
      BY <1>4 DEF InProgress
    <3> QED  BY <1>6, <3>1, <3>2
  <2> QED  BY <1>1, <1>2, <1>13, <2>1, <2>2 DEF RateTypes
<1>14. CallersInv'
  <2> HIDE DEF asked, k, count
  <2>1. CASE count # 1
    BY <1>1, <1>2, <1>6, <1>8, <2>1, CallersKept
  <2>2. CASE count = 1
    <3> DEFINE state == [pc |-> "first", request |-> asked, counter |-> k]
    <3>1. state.request = asked /\ state.counter = k /\ asked.route = r
      BY <1>4
    <3>2. caller[c].request.at = asked.at
      BY <1>13 DEF asked, InProgress, Askings
    <3>3. /\ state.request.at <= now
          /\ state.counter = CounterOf(state.request.route,
               state.request.at \div Limiter!Window(state.request.route))
      BY <1>2, <1>13, <3>1, <3>2 DEF CallersInv, k
    <3>4. caller' = [caller EXCEPT ![c] = state]
      BY <1>6, <2>2
    <3> HIDE DEF state
    <3> QED  BY <1>1, <1>2, <1>8, <3>3, <3>4, CallersKept
  <2> QED  BY <2>1, <2>2
<1>9. /\ DOMAIN counters' = DOMAIN counters \cup {k}
      /\ counters'[k] = [count |-> count, expires |-> Limiter!Expires(k)]
      /\ \A j \in DOMAIN counters \ {k} : counters'[j] = counters[j]
  BY <1>6
<1>10. CountersInv'
  <2> HIDE DEF asked, k, count
  <2>1. IsFiniteSet(DOMAIN counters')
    BY <1>2, <1>9, FS_AddElement DEF CountersInv
  <2>2. /\ Limiter!Expires(k) \in Nat
        /\ k.bucket <= now \div k.window
        /\ Limiter!Expires(k) # Limiter!Never => k.bucket < Limiter!Expires(k) \div k.window
    BY <1>2, <1>3, <1>4 DEF CountersInv, CounterStates, Limiter!Expires, Limiter!Never
  <2>3. ASSUME NEW j \in DOMAIN counters'
        PROVE  /\ j \in CounterKeys /\ counters'[j] \in CounterStates
               /\ j.bucket <= now' \div j.window
               /\ counters'[j].expires # Limiter!Never =>
                    j.bucket < counters'[j].expires \div j.window
    <3>1. CASE j = k
      BY <1>1, <1>4, <1>5, <1>9, <2>2, <3>1 DEF CounterStates
    <3>2. CASE j # k
      BY <1>1, <1>2, <1>9, <2>3, <3>2 DEF CountersInv
    <3> QED  BY <3>1, <3>2
  <2> QED  BY <2>1, <2>3 DEF CountersInv
<1>11. FixedInv'
  <2> HIDE DEF asked, k, count, r
  <2> SUFFICES ASSUME NEW q \in Routes, NEW bucket \in Nat
      PROVE  /\ Cardinality(ClaimedIn(q, bucket)') <= quota[q].limit
             /\ now \div Limiter!Window(q) <= bucket =>
                  /\ CounterOf(q, bucket)' \in DOMAIN counters' =>
                       Cardinality(ClaimedIn(q, bucket)') <= counters'[CounterOf(q, bucket)'].count
                  /\ CounterOf(q, bucket)' \notin DOMAIN counters' => ClaimedIn(q, bucket)' = {}
    BY <1>1, <1>2, Windows DEF FixedInv
  <2>1. CounterOf(q, bucket)' = CounterOf(q, bucket)
    BY <1>1, <1>2, Windows DEF CounterOf
  <2>2. /\ Cardinality(ClaimedIn(q, bucket)) <= quota[q].limit
        /\ now \div Limiter!Window(q) <= bucket =>
             /\ CounterOf(q, bucket) \in DOMAIN counters =>
                  Cardinality(ClaimedIn(q, bucket)) <= counters[CounterOf(q, bucket)].count
             /\ CounterOf(q, bucket) \notin DOMAIN counters => ClaimedIn(q, bucket) = {}
    BY <1>13 DEF FixedInv
  <2>3. /\ Cardinality(ClaimedIn(q, bucket)) \in Nat /\ Cardinality(ClaimedIn(q, bucket)') \in Nat
        /\ Cardinality(ClaimedIn(q, bucket)') <= Cardinality(ClaimedIn(q, bucket)) + 1
        /\ \/ q # r \/ bucket # k.bucket \/ bucket # now \div Limiter!Window(r)
              \/ Claimed' \subseteq Claimed
           =>
             /\ ClaimedIn(q, bucket)' \subseteq ClaimedIn(q, bucket)
             /\ Cardinality(ClaimedIn(q, bucket)') <= Cardinality(ClaimedIn(q, bucket))
    BY <1>1, <1>2, <1>4, <1>7, ClaimsGrow
  <2>7. now \div Limiter!Window(q) \in Nat
    BY <1>2, <1>3, Windows, Buckets
  <2>4. quota[q].limit \in Nat \ {0}
    BY <1>2 DEF RateTypes
  <2>5. CASE CounterOf(q, bucket) # k
    <3>1. q # r \/ bucket # k.bucket
      BY <1>4, <2>5
    <3>2. CounterOf(q, bucket) \in DOMAIN counters' =>
            /\ CounterOf(q, bucket) \in DOMAIN counters
            /\ counters'[CounterOf(q, bucket)] = counters[CounterOf(q, bucket)]
      BY <1>9, <2>5
    <3>3. CounterOf(q, bucket) \in DOMAIN counters => counters[CounterOf(q, bucket)].count \in Nat
      BY <1>2 DEF CountersInv, CounterStates
    <3>4. CounterOf(q, bucket) \notin DOMAIN counters' =>
            CounterOf(q, bucket) \notin DOMAIN counters
      BY <1>9
    <3> QED  BY <2>1, <2>2, <2>3, <2>4, <3>1, <3>2, <3>3, <3>4
  <2>6. CASE CounterOf(q, bucket) = k
    <3>1. Limiter!Window(q) = Limiter!Window(r) /\ bucket = k.bucket
      BY <1>4, <2>6 DEF CounterOf
    <3>6. CASE bucket # now \div Limiter!Window(r)
      BY <1>3, <1>4, <2>2, <2>3, <2>4, <3>1, <3>6
    <3>7. CASE bucket = now \div Limiter!Window(r)
      <4>2. k \in DOMAIN counters' /\ counters'[k].count = count
        BY <1>9
      <4>3. Cardinality(ClaimedIn(q, bucket)) < count
        <5>1. CASE k \in DOMAIN counters
          BY <1>2, <1>3, <1>5, <2>2, <2>3, <2>6, <3>1, <3>7, <5>1 DEF CountersInv, CounterStates
        <5>2. CASE k \notin DOMAIN counters
          <6>1. ClaimedIn(q, bucket) = {}
            BY <1>3, <2>2, <2>6, <3>1, <3>7, <5>2
          <6> QED  BY <1>5, <5>2, <6>1, FS_EmptySet
        <5> QED  BY <5>1, <5>2
      <4>4. Cardinality(ClaimedIn(q, bucket)') <= count
        BY <1>5, <2>3, <4>3
      <4>5. Cardinality(ClaimedIn(q, bucket)') <= quota[q].limit
        <5>1. CASE q = r /\ count <= quota[r].limit
          BY <1>3, <1>5, <2>3, <4>4, <5>1
        <5>2. CASE q # r \/ count > quota[r].limit
          BY <1>7, <2>2, <2>3, <2>4, <5>2
        <5> QED  BY <1>3, <1>5, <5>1, <5>2
      <4> QED  BY <2>1, <2>6, <4>2, <4>4, <4>5
    <3> QED  BY <3>6, <3>7
  <2> QED  BY <2>5, <2>6
<1>12. ForgottenInv'
  <2> HIDE DEF asked, k, count
  <2>1. \A j \in ForgottenCounters' : j \in ForgottenCounters
    <3> SUFFICES ASSUME NEW j \in DOMAIN counters', Limiter!Forgotten(j)'
                 PROVE  j \in DOMAIN counters /\ Limiter!Forgotten(j)
      BY DEF ForgottenCounters
    <3>1. /\ counters'[j].expires = Limiter!Never
          /\ \A d \in Callers : caller'[d].pc = "first" => caller'[d].counter # j
      BY DEF Limiter!Forgotten
    <3>2. j \in DOMAIN counters
      <4> SUFFICES ASSUME j = k, k \notin DOMAIN counters  PROVE FALSE
        BY <1>9
      <4>1. caller'[c] = [pc |-> "first", request |-> asked, counter |-> k]
        BY <1>2, <1>5, <1>6 DEF RateTypes
      <4> QED  BY <3>1, <4>1
    <3>3. counters[j].expires = counters'[j].expires
      BY <1>9, <3>2 DEF Limiter!Expires
    <3>4. \A d \in Callers : caller[d].pc = "first" => caller'[d] = caller[d]
      BY <1>1, <1>2, <1>6 DEF RateTypes
    <3> QED  BY <3>1, <3>2, <3>3, <3>4 DEF Limiter!Forgotten
  <2>2. IsFiniteSet(ForgottenCounters) /\ Cardinality(ForgottenCounters) <= deaths
    BY <1>2 DEF ForgottenInv
  <2>3. /\ IsFiniteSet(ForgottenCounters')
        /\ Cardinality(ForgottenCounters') <= Cardinality(ForgottenCounters)
    BY <2>1, <2>2, FS_Subset
  <2> QED  BY <1>1, <1>2, <2>2, <2>3, FS_CardinalityType DEF ForgottenInv, RateTypes
<1> QED
  BY <1>1, <1>8, <1>10, <1>11, <1>12, <1>13, <1>14 DEF RateInv

\* What grows no window and leaves the counters alone, but for their expiry.
LEMMA ClaimsShrink ==
  ASSUME RateInv, redis, redis' = redis, quota' = quota, now' = now,
         Claimed' \subseteq Claimed, DOMAIN counters' = DOMAIN counters,
         \A k \in DOMAIN counters : counters'[k].count = counters[k].count
  PROVE  FixedInv' /\ IsFiniteSet(Claimed') /\ Claimed' \subseteq Askings
<1>1. RateTypes /\ CountersInv /\ FixedInv
  BY DEF RateInv
<1>2. IsFiniteSet(Claimed') /\ Claimed' \subseteq Askings
  <2>1. IsFiniteSet(Claimed) /\ Claimed \subseteq Askings
    BY <1>1 DEF RateTypes
  <2> QED  BY <2>1, FS_Subset, Zenon
<1>3. ASSUME NEW r \in Routes, NEW bucket \in Nat
      PROVE  /\ CounterOf(r, bucket)' = CounterOf(r, bucket)
             /\ ClaimedIn(r, bucket)' \subseteq ClaimedIn(r, bucket)
             /\ Cardinality(ClaimedIn(r, bucket)') <= Cardinality(ClaimedIn(r, bucket))
             /\ Cardinality(ClaimedIn(r, bucket)) \in Nat
             /\ Cardinality(ClaimedIn(r, bucket)') \in Nat
             /\ quota[r].limit \in Nat
  <2>1. ClaimedIn(r, bucket)' \subseteq ClaimedIn(r, bucket)
    BY <1>1, Windows DEF ClaimedIn
  <2>2. IsFiniteSet(ClaimedIn(r, bucket))
    BY <1>1, FS_Subset DEF RateTypes, ClaimedIn
  <2>3. /\ IsFiniteSet(ClaimedIn(r, bucket)')
        /\ Cardinality(ClaimedIn(r, bucket)') <= Cardinality(ClaimedIn(r, bucket))
    BY <2>1, <2>2, FS_Subset
  <2>4. CounterOf(r, bucket)' = CounterOf(r, bucket) /\ quota[r].limit \in Nat
    BY <1>1, Windows DEF CounterOf, RateTypes
  <2> QED  BY <2>1, <2>2, <2>3, <2>4, FS_CardinalityType
<1>4. \A k \in DOMAIN counters : counters[k].count \in Nat
  BY <1>1 DEF CountersInv, CounterStates
<1>5. ASSUME NEW r \in Routes, NEW bucket \in Nat
      PROVE  /\ Cardinality(ClaimedIn(r, bucket)') <= quota'[r].limit
             /\ now' \div Limiter!Window(r)' <= bucket =>
                  /\ CounterOf(r, bucket)' \in DOMAIN counters' =>
                       Cardinality(ClaimedIn(r, bucket)') <= counters'[CounterOf(r, bucket)'].count
                  /\ CounterOf(r, bucket)' \notin DOMAIN counters' => ClaimedIn(r, bucket)' = {}
  <2>1. /\ Cardinality(ClaimedIn(r, bucket)) <= quota[r].limit
        /\ now \div Limiter!Window(r) <= bucket =>
             /\ CounterOf(r, bucket) \in DOMAIN counters =>
                  Cardinality(ClaimedIn(r, bucket)) <= counters[CounterOf(r, bucket)].count
             /\ CounterOf(r, bucket) \notin DOMAIN counters => ClaimedIn(r, bucket) = {}
    BY <1>1 DEF FixedInv
  <2>2. now' \div Limiter!Window(r)' = now \div Limiter!Window(r) /\ quota'[r] = quota[r]
    BY <1>1, Windows
  <2> QED  BY <1>3, <1>4, <2>1, <2>2
<1> QED
  BY <1>2, <1>5 DEF FixedInv

LEMMA AskKeeps ==
  ASSUME RateInv, NEW c \in Callers, NEW r \in Routes, Limiter!Ask(c, r)  PROVE RateInv'
<1> DEFINE asked == Limiter!Request(r)
           k == Limiter!Counter(r)
           state == [pc |-> "asked", request |-> asked, counter |-> k]
<1>1. /\ redis /\ caller[c].pc = "idle" /\ requests' = requests + 1
      /\ redis' = redis /\ quota' = quota /\ now' = now /\ hits' = hits
      /\ counters' = counters /\ allowed' = allowed /\ deaths' = deaths
      /\ caller' = [caller EXCEPT ![c] = state]
  BY DEF Limiter!Ask, Limiter!Becomes
<1>2. RateTypes /\ CallersInv /\ CountersInv /\ ForgottenInv
  BY DEF RateInv
<1>3. /\ Limiter!Window(r) \in Nat \ {0} /\ now \in Nat /\ now \div Limiter!Window(r) \in Nat
  <2>1. Limiter!Window(r) \in Nat \ {0} /\ now \in Nat
    BY <1>2, Windows DEF RateTypes
  <2> QED  BY <2>1, Buckets
<1>4. /\ asked \in Askings /\ asked.route = r /\ asked.at = now
      /\ k \in CounterKeys /\ k = CounterOf(r, now \div Limiter!Window(r))
  BY <1>2, <1>3 DEF Limiter!Request, Limiter!Counter, CounterOf, Askings, CounterKeys, RateTypes
<1>5. \A d \in Callers : caller'[d].pc = "first" \/ caller[d].pc = "first" =>
        caller'[d] = caller[d]
  BY <1>1, <1>2 DEF RateTypes
<1>6. Claimed' = Claimed
  BY <1>1, <1>5 DEF Claimed
<1>7. FixedInv'
  BY <1>1, <1>6, ClaimsShrink
<1>8. RateTypes'
  <2>1. state \in InProgress
    <3> HIDE DEF asked, k
    <3> QED  BY <1>4 DEF InProgress
  <2>2. caller' \in [Callers -> {Limiter!Away} \cup InProgress]
    <3> HIDE DEF state
    <3> QED  BY <1>1, <1>2, <2>1 DEF RateTypes
  <2> QED  BY <1>1, <1>2, <1>6, <2>2 DEF RateTypes
<1>9. CallersInv'
  <2>1. /\ state.request.at <= now
        /\ state.counter = CounterOf(state.request.route,
             state.request.at \div Limiter!Window(state.request.route))
    <3> HIDE DEF asked, k
    <3>1. state.request = asked /\ state.counter = k
      OBVIOUS
    <3> QED  BY <1>3, <1>4, <3>1
  <2> HIDE DEF state
  <2> QED  BY <1>1, <1>2, <1>8, <2>1, CallersKept
<1>10. CountersInv' /\ ForgottenCounters' = ForgottenCounters
  <2>1. CountersInv'
    BY <1>1, <1>2 DEF CountersInv
  <2>2. \A j \in DOMAIN counters : Limiter!Forgotten(j)' = Limiter!Forgotten(j)
    BY <1>1, <1>5 DEF Limiter!Forgotten
  <2> QED  BY <1>1, <2>1, <2>2 DEF ForgottenCounters
<1>11. ForgottenInv'
  BY <1>1, <1>2, <1>10 DEF ForgottenInv
<1> QED
  BY <1>1, <1>7, <1>8, <1>9, <1>10, <1>11 DEF RateInv

LEMMA ExpireKeeps ==
  ASSUME RateInv, NEW c \in Callers, Limiter!Expire(c)  PROVE RateInv'
<1> DEFINE k == caller[c].counter
           asked == caller[c].request
<1>1. /\ caller[c].pc = "first"
      /\ counters' = IF k \in DOMAIN counters
                     THEN [counters EXCEPT ![k].expires = now + k.window] ELSE counters
      /\ allowed' = allowed \cup {asked}
      /\ caller' = [caller EXCEPT ![c] = Limiter!Away]
      /\ redis' = redis /\ quota' = quota /\ now' = now /\ hits' = hits
      /\ requests' = requests /\ deaths' = deaths
  BY DEF Limiter!Expire, Limiter!Becomes, Limiter!LetThrough
<1>2. RateTypes /\ CallersInv /\ CountersInv /\ ForgottenInv
  BY DEF RateInv
<1>3. redis
  BY <1>1, <1>2 DEF RateTypes, Limiter!Away
<1>4. Claimed' \subseteq Claimed
  <2>1. \A d \in Callers : caller'[d].pc = "first" => caller'[d] = caller[d]
    BY <1>1, <1>2 DEF RateTypes, Limiter!Away
  <2>2. asked \in Claimed
    BY <1>1 DEF Claimed
  <2> HIDE DEF asked, k
  <2> QED  BY <1>1, <2>1, <2>2 DEF Claimed
<1>5. /\ DOMAIN counters' = DOMAIN counters
      /\ \A j \in DOMAIN counters \ {k} : counters'[j] = counters[j]
      /\ k \in DOMAIN counters =>
           counters'[k] = [counters[k] EXCEPT !.expires = now + k.window]
  BY <1>1
<1>6. ASSUME k \in DOMAIN counters
      PROVE  /\ k \in CounterKeys /\ counters'[k] \in CounterStates
             /\ counters'[k].count = counters[k].count
             /\ counters'[k].expires # Limiter!Never
             /\ k.bucket < counters'[k].expires \div k.window
  <2> HIDE DEF k
  <2>1. /\ k \in CounterKeys /\ counters[k] \in CounterStates /\ now \in Nat
        /\ k.bucket <= now \div k.window
    BY <1>2, <1>6 DEF CountersInv, RateTypes
  <2>2. /\ k.window \in Nat \ {0} /\ k.bucket \in Nat
        /\ now \div k.window \in Nat /\ (now + k.window) \div k.window = (now \div k.window) + 1
    BY <2>1, Buckets DEF CounterKeys
  <2>3. /\ counters'[k].count = counters[k].count /\ counters'[k].expires = now + k.window
        /\ counters'[k] \in CounterStates
    BY <1>5, <1>6, <2>1, <2>2 DEF CounterStates
  <2> QED  BY <2>1, <2>2, <2>3 DEF Limiter!Never
<1>7. FixedInv' /\ IsFiniteSet(Claimed') /\ Claimed' \subseteq Askings
  <2>1. \A j \in DOMAIN counters : counters'[j].count = counters[j].count
    <3> HIDE DEF k
    <3> QED  BY <1>5, <1>6
  <2> QED  BY <1>1, <1>3, <1>4, <1>5, <2>1, ClaimsShrink
<1>8. RateTypes'
  <2>1. caller' \in [Callers -> {Limiter!Away} \cup InProgress]
    BY <1>1, <1>2 DEF RateTypes
  <2> QED  BY <1>1, <1>2, <1>3, <1>7, <2>1 DEF RateTypes
<1>11. CallersInv'
  BY <1>1, <1>2, <1>8, CallersKept
<1>9. CountersInv'
  <2> HIDE DEF k
  <2>1. IsFiniteSet(DOMAIN counters')
    BY <1>2, <1>5 DEF CountersInv
  <2>2. ASSUME NEW j \in DOMAIN counters'
        PROVE  /\ j \in CounterKeys /\ counters'[j] \in CounterStates
               /\ j.bucket <= now' \div j.window
               /\ counters'[j].expires # Limiter!Never =>
                    j.bucket < counters'[j].expires \div j.window
    BY <1>1, <1>2, <1>5, <1>6 DEF CountersInv
  <2> QED  BY <2>1, <2>2 DEF CountersInv
<1>10. ForgottenInv'
  <2>1. ASSUME NEW j \in ForgottenCounters'  PROVE j \in ForgottenCounters
    <3> HIDE DEF k, asked
    <3>1. /\ j \in DOMAIN counters /\ counters'[j].expires = Limiter!Never
          /\ \A d \in Callers : caller'[d].pc = "first" => caller'[d].counter # j
      BY <1>5, <2>1 DEF ForgottenCounters, Limiter!Forgotten
    <3>2. j # k
      BY <1>6, <3>1
    <3>3. \A d \in Callers : caller[d].pc = "first" => caller[d].counter # j
      <4>1. \A d \in Callers \ {c} : caller'[d] = caller[d]
        BY <1>1, <1>2 DEF RateTypes
      <4> QED  BY <3>1, <3>2, <4>1 DEF k
    <3> QED  BY <1>5, <3>1, <3>2, <3>3 DEF ForgottenCounters, Limiter!Forgotten
  <2>2. IsFiniteSet(ForgottenCounters) /\ Cardinality(ForgottenCounters) <= deaths
    BY <1>2 DEF ForgottenInv
  <2>3. /\ IsFiniteSet(ForgottenCounters')
        /\ Cardinality(ForgottenCounters') <= Cardinality(ForgottenCounters)
    BY <2>1, <2>2, FS_Subset
  <2> QED  BY <1>1, <1>2, <2>2, <2>3, FS_CardinalityType DEF ForgottenInv, RateTypes
<1> QED
  BY <1>1, <1>3, <1>7, <1>8, <1>9, <1>10, <1>11 DEF RateInv

LEMMA DieKeeps ==
  ASSUME RateInv, NEW c \in Callers, Limiter!Die(c)  PROVE RateInv'
<1> DEFINE k == caller[c].counter
<1>1. /\ caller[c].pc # "idle" /\ deaths' = deaths + 1
      /\ caller' = [caller EXCEPT ![c] = Limiter!Away]
      /\ redis' = redis /\ quota' = quota /\ now' = now /\ hits' = hits
      /\ counters' = counters /\ allowed' = allowed /\ requests' = requests
  BY DEF Limiter!Die, Limiter!Becomes
<1>2. RateTypes /\ CallersInv /\ CountersInv /\ ForgottenInv
  BY DEF RateInv
<1>3. redis
  BY <1>1, <1>2 DEF RateTypes, Limiter!Away
<1>4. /\ \A d \in Callers : caller'[d].pc = "first" => caller'[d] = caller[d]
      /\ \A d \in Callers \ {c} : caller'[d] = caller[d]
  BY <1>1, <1>2 DEF RateTypes, Limiter!Away
<1>5. Claimed' \subseteq Claimed
  BY <1>1, <1>4 DEF Claimed
<1>6. FixedInv' /\ IsFiniteSet(Claimed') /\ Claimed' \subseteq Askings
  BY <1>1, <1>3, <1>5, ClaimsShrink
<1>7. RateTypes'
  <2>1. caller' \in [Callers -> {Limiter!Away} \cup InProgress]
    BY <1>1, <1>2 DEF RateTypes
  <2> QED  BY <1>1, <1>2, <1>3, <1>6, <2>1 DEF RateTypes
<1>10. CallersInv'
  BY <1>1, <1>2, <1>7, CallersKept
<1>8. CountersInv'
  BY <1>1, <1>2 DEF CountersInv
<1>9. ForgottenInv'
  <2>1. ASSUME NEW j \in ForgottenCounters', j # k  PROVE j \in ForgottenCounters
    <3> HIDE DEF k
    <3>1. /\ j \in DOMAIN counters /\ counters[j].expires = Limiter!Never
          /\ \A d \in Callers : caller'[d].pc = "first" => caller'[d].counter # j
      BY <1>1, <2>1 DEF ForgottenCounters, Limiter!Forgotten
    <3>2. \A d \in Callers : caller[d].pc = "first" => caller[d].counter # j
      BY <1>4, <2>1, <3>1 DEF k
    <3> QED  BY <3>1, <3>2 DEF ForgottenCounters, Limiter!Forgotten
  <2>2. IsFiniteSet(ForgottenCounters) /\ Cardinality(ForgottenCounters) <= deaths
    BY <1>2 DEF ForgottenInv
  <2>3. /\ IsFiniteSet(ForgottenCounters') /\ Cardinality(ForgottenCounters') \in Nat
        /\ Cardinality(ForgottenCounters) \in Nat
        /\ Cardinality(ForgottenCounters') <= Cardinality(ForgottenCounters) + 1
    <3>1. ForgottenCounters' \subseteq ForgottenCounters \cup {k}
      BY <2>1
    <3> QED  BY <2>2, <3>1, GrowsByOne, Zenon
  <2> QED  BY <1>1, <1>2, <2>2, <2>3 DEF ForgottenInv, RateTypes
<1> QED
  BY <1>1, <1>3, <1>6, <1>7, <1>8, <1>9, <1>10 DEF RateInv

LEMMA TickKeeps ==
  ASSUME RateInv, Limiter!Tick  PROVE RateInv'
<1> DEFINE kept == {k \in DOMAIN counters : counters[k].expires \notin 1 .. now + 1}
<1>1. /\ now' = now + 1 /\ DOMAIN counters' = kept
      /\ \A k \in kept : counters'[k] = counters[k]
      /\ redis' = redis /\ quota' = quota /\ hits' = hits /\ caller' = caller
      /\ allowed' = allowed /\ requests' = requests /\ deaths' = deaths
  BY DEF Limiter!Tick, Limiter!Restrict
<1>2. RateTypes /\ CallersInv /\ CountersInv /\ ForgottenInv
  BY DEF RateInv
<1>3. Claimed' = Claimed
  BY <1>1 DEF Claimed
<1>4. RateTypes'
  BY <1>1, <1>2, <1>3 DEF RateTypes
<1>5. /\ now \in Nat
      /\ \A w \in Nat \ {0} :
           now \div w \in Nat /\ now' \div w \in Nat /\ now \div w <= now' \div w
  <2>1. now \in Nat
    BY <1>2 DEF RateTypes
  <2> QED  BY <1>1, <2>1, Buckets
<1>11. \A q \in Routes : Limiter!Window(q)' = Limiter!Window(q) /\ Limiter!Window(q) \in Nat \ {0}
  BY <1>1, <1>2, Windows
<1>12. CallersInv'
  <2>1. ASSUME NEW c \in Callers, caller[c] # Limiter!Away
        PROVE  /\ caller[c].request.at <= now /\ caller[c].request.at \in Nat
               /\ caller[c].request.route \in Routes
               /\ caller[c].counter = CounterOf(caller[c].request.route,
                    caller[c].request.at \div Limiter!Window(caller[c].request.route))
    BY <1>2, <2>1 DEF CallersInv, RateTypes, InProgress, Askings
  <2>2. ASSUME NEW c \in Callers, caller'[c] # Limiter!Away
        PROVE  /\ caller'[c].request.at <= now'
               /\ caller'[c].request.route \in Routes
               /\ caller'[c].counter = CounterOf(caller'[c].request.route,
                    caller'[c].request.at \div Limiter!Window(caller'[c].request.route))
    BY <1>1, <1>5, <2>1, <2>2
  <2> QED  BY <1>11, <2>2 DEF CallersInv, CounterOf
<1>6. \A k \in DOMAIN counters :
        /\ k \in CounterKeys /\ counters[k] \in CounterStates
        /\ k.bucket <= now \div k.window
        /\ counters[k].expires # Limiter!Never => k.bucket < counters[k].expires \div k.window
  BY <1>2 DEF CountersInv
<1>7. CountersInv'
  <2>1. IsFiniteSet(DOMAIN counters')
    BY <1>1, <1>2, FS_Subset DEF CountersInv
  <2>2. ASSUME NEW k \in DOMAIN counters'
        PROVE  /\ k \in CounterKeys /\ counters'[k] \in CounterStates
               /\ k.bucket <= now' \div k.window
               /\ counters'[k].expires # Limiter!Never =>
                    k.bucket < counters'[k].expires \div k.window
    <3>1. k \in DOMAIN counters /\ counters'[k] = counters[k]
      BY <1>1
    <3>2. k.window \in Nat \ {0} /\ k.bucket \in Nat
      BY <1>6, <3>1 DEF CounterKeys
    <3>3. k.bucket <= now' \div k.window
      <4>1. k.bucket <= now \div k.window
        BY <1>6, <3>1
      <4>2. /\ now \div k.window \in Nat /\ now' \div k.window \in Nat
            /\ now \div k.window <= now' \div k.window
        BY <1>5, <3>2
      <4> QED  BY <3>2, <4>1, <4>2
    <3> QED  BY <1>6, <3>1, <3>3
  <2> QED  BY <2>1, <2>2 DEF CountersInv
<1>8. ASSUME redis  PROVE FixedInv'
  <2> SUFFICES ASSUME NEW r \in Routes, NEW bucket \in Nat
      PROVE  /\ Cardinality(ClaimedIn(r, bucket)') <= quota'[r].limit
             /\ now' \div Limiter!Window(r)' <= bucket =>
                  /\ CounterOf(r, bucket)' \in DOMAIN counters' =>
                       Cardinality(ClaimedIn(r, bucket)') <= counters'[CounterOf(r, bucket)'].count
                  /\ CounterOf(r, bucket)' \notin DOMAIN counters' => ClaimedIn(r, bucket)' = {}
    BY DEF FixedInv
  <2>1. /\ CounterOf(r, bucket)' = CounterOf(r, bucket)
        /\ ClaimedIn(r, bucket)' = ClaimedIn(r, bucket)
        /\ Limiter!Window(r)' = Limiter!Window(r) /\ quota'[r] = quota[r]
    BY <1>1, <1>3, <1>11 DEF CounterOf, ClaimedIn
  <2>2. /\ Cardinality(ClaimedIn(r, bucket)) <= quota[r].limit
        /\ now \div Limiter!Window(r) <= bucket =>
             /\ CounterOf(r, bucket) \in DOMAIN counters =>
                  Cardinality(ClaimedIn(r, bucket)) <= counters[CounterOf(r, bucket)].count
             /\ CounterOf(r, bucket) \notin DOMAIN counters => ClaimedIn(r, bucket) = {}
    BY <1>8 DEF FixedInv, RateInv
  <2>3. PICK w \in Nat \ {0} : w = Limiter!Window(r)
    BY <1>11
  <2>4. now \div w \in Nat /\ now' \div w \in Nat /\ now \div w <= now' \div w
    BY <1>5
  <2>5. ASSUME CounterOf(r, bucket) \in DOMAIN counters, CounterOf(r, bucket) \notin kept
        PROVE  bucket < now' \div w
    <3>1. PICK e \in 1 .. now + 1 : e = counters[CounterOf(r, bucket)].expires
      BY <2>5
    <3>2. e \in Nat /\ e # Limiter!Never /\ e <= now' /\ now' \in Nat
      <4>1. now \in Nat /\ now' = now + 1
        BY <1>1, <1>5
      <4> QED  BY <3>1, <4>1 DEF Limiter!Never
    <3>3. bucket < e \div w
      BY <1>6, <2>3, <2>5, <3>1, <3>2 DEF CounterOf
    <3>4. e \div w \in Nat /\ e \div w <= now' \div w
      BY <3>2, Buckets
    <3> QED  BY <2>4, <3>3, <3>4
  <2>6. CounterOf(r, bucket) \in kept =>
          /\ CounterOf(r, bucket) \in DOMAIN counters
          /\ counters'[CounterOf(r, bucket)] = counters[CounterOf(r, bucket)]
    BY <1>1
  <2> HIDE DEF kept
  <2> QED  BY <1>1, <2>1, <2>2, <2>3, <2>4, <2>5, <2>6
<1>9. ASSUME ~redis  PROVE SlidingInv'
  <2> SUFFICES ASSUME NEW r \in Routes, Shortest(r)
      PROVE  /\ \A p \in allowed : p.at + quota[r].window > now + 1 => p \in hits
             /\ \A from \in Nat : Cardinality(PassedFrom(r, from)) <= quota[r].limit
    BY <1>1 DEF SlidingInv, Shortest, PassedFrom
  <2>1. /\ \A p \in allowed : p.at + quota[r].window > now => p \in hits
        /\ \A from \in Nat : Cardinality(PassedFrom(r, from)) <= quota[r].limit
    BY <1>9 DEF RateInv, SlidingInv
  <2>2. quota[r].window \in Nat /\ \A p \in allowed : p.at \in Nat
    BY <1>2 DEF RateTypes, Claimed, Askings
  <2> QED  BY <1>5, <2>1, <2>2
<1>10. ForgottenInv'
  <2>1. ForgottenCounters' \subseteq ForgottenCounters
    <3> SUFFICES ASSUME NEW j \in ForgottenCounters'  PROVE j \in ForgottenCounters
      OBVIOUS
    <3> QED  BY <1>1 DEF ForgottenCounters, Limiter!Forgotten
  <2>2. IsFiniteSet(ForgottenCounters) /\ Cardinality(ForgottenCounters) <= deaths
    BY <1>2 DEF ForgottenInv
  <2>3. /\ IsFiniteSet(ForgottenCounters')
        /\ Cardinality(ForgottenCounters') <= Cardinality(ForgottenCounters)
    BY <2>1, <2>2, FS_Subset
  <2> QED  BY <1>1, <1>2, <2>2, <2>3, FS_CardinalityType DEF ForgottenInv, RateTypes
<1> QED
  BY <1>1, <1>4, <1>7, <1>8, <1>9, <1>10, <1>12 DEF RateInv

LEMMA RateStutters ==
  ASSUME RateInv, UNCHANGED Limiter!rateVars  PROVE RateInv'
<1>1. /\ redis' = redis /\ quota' = quota /\ now' = now /\ hits' = hits /\ counters' = counters
      /\ caller' = caller /\ allowed' = allowed /\ requests' = requests /\ deaths' = deaths
  BY DEF Limiter!rateVars
<1>2. Claimed' = Claimed
  BY <1>1 DEF Claimed
<1>6. RateTypes
  BY DEF RateInv
<1>7. \A q \in Routes : Limiter!Window(q)' = Limiter!Window(q)
  BY <1>1, <1>6, Windows
<1>8. CallersInv'
  <2>1. \A c \in Callers : caller[c] # Limiter!Away => caller[c].request.route \in Routes
    BY <1>6 DEF RateTypes, InProgress, Askings
  <2> QED  BY <1>1, <1>7, <2>1 DEF RateInv, CallersInv, CounterOf
<1>3. RateTypes' /\ CountersInv' /\ ForgottenInv'
  BY <1>1, <1>2 DEF RateInv, RateTypes, CountersInv, ForgottenInv, ForgottenCounters,
                    Limiter!Forgotten
<1>4. redis => FixedInv'
  BY <1>1, <1>2, <1>7 DEF RateInv, FixedInv, ClaimedIn, CounterOf
<1>5. ~redis => SlidingInv'
  BY <1>1 DEF RateInv, SlidingInv, Shortest, PassedFrom
<1> QED
  BY <1>1, <1>3, <1>4, <1>5, <1>8 DEF RateInv

\* RateInv holds of both limiters, however their callers interleave and die.
THEOREM RateInvariance == Limiter!Spec => []RateInv
<1>1. RateInv /\ [Limiter!Next]_Limiter!rateVars => RateInv'
  BY AllowKeeps, AskKeeps, IncrKeeps, ExpireKeeps, DieKeeps, TickKeeps, RateStutters DEF Limiter!Next
<1> QED
  BY RateInitially, <1>1, PTL DEF Limiter!Spec

\* QuotasHold: the memory limiter lets no more than limit requests through in any window
\* of its key's shortest, the Redis one no more of those it counts before their fixed window
\* is over, for windows of any length, and a counter that nothing removes is left by a
\* process that died, one each.
THEOREM QuotasKept == Limiter!Spec => []QuotasHold
<1>1. RateInv => QuotasHold
  <2> SUFFICES ASSUME RateInv  PROVE QuotasHold
    OBVIOUS
  <2>1. RateTypes
    BY DEF RateInv
  <2>2. IsFiniteSet(allowed) /\ allowed \subseteq Claimed
    <3>1. allowed \subseteq Claimed /\ IsFiniteSet(Claimed)
      BY <2>1 DEF Claimed, RateTypes
    <3> QED  BY <3>1, FS_Subset
  <2>3. Limiter!SlidingWindow
    <3> SUFFICES ASSUME ~redis, NEW r \in Routes, Shortest(r), NEW from \in 0 .. now
                 PROVE  Limiter!Passed(r, from) <= quota[r].limit
      BY DEF Limiter!SlidingWindow, Shortest
    <3>1. Cardinality(PassedFrom(r, from)) <= quota[r].limit
      BY DEF RateInv, SlidingInv
    <3> QED  BY <3>1, LimiterCounts DEF PassedFrom, Limiter!Passed
  <2>4. Limiter!FixedWindow
    <3> SUFFICES ASSUME redis, NEW r \in Routes, NEW bucket \in 0 .. now
                 PROVE  Limiter!Cardinality(Limiter!CountedIn(r, bucket)) <= quota[r].limit
      BY DEF Limiter!FixedWindow
    <3> DEFINE passed == Limiter!CountedIn(r, bucket)
    <3>1. quota[r].limit \in Nat /\ bucket \in Nat
      BY <2>1 DEF RateTypes
    <3>2. passed \subseteq ClaimedIn(r, bucket)
      BY <2>2 DEF Limiter!CountedIn, ClaimedIn
    <3>3. IsFiniteSet(ClaimedIn(r, bucket))
      BY <2>1, FS_Subset DEF RateTypes, ClaimedIn
    <3>4. Cardinality(ClaimedIn(r, bucket)) <= quota[r].limit
      BY <3>1 DEF RateInv, FixedInv
    <3>5. /\ Cardinality(passed) <= Cardinality(ClaimedIn(r, bucket))
          /\ Cardinality(passed) \in Nat /\ Cardinality(ClaimedIn(r, bucket)) \in Nat
      BY <3>2, <3>3, FS_Subset, FS_CardinalityType
    <3>6. Cardinality(passed) <= quota[r].limit
      <4> HIDE DEF passed
      <4> QED  BY <3>1, <3>4, <3>5
    <3> QED  BY <3>6, LimiterCounts
  <2>5. Limiter!CountersExpire
    BY LimiterCounts DEF RateInv, ForgottenInv, ForgottenCounters, Limiter!CountersExpire
  <2> QED  BY <2>3, <2>4, <2>5 DEF QuotasHold, Limiter!QuotasHold
<1> QED
  BY RateInvariance, <1>1, PTL
-----------------------------------------------------------------------------
(* SqlSplitter, for scripts of any length: what it has read of a script,   *)
(* and the token of SQL it is in.                                          *)

IsScript(sql) == sql \in Seq(Characters)

\* The scanner is inside the token t, and no position up to upto ends it.
Within(sql, t, kind, upto) ==
  /\ t \in Splitter!Tokens(sql) /\ Splitter!Kind(sql, t) = kind
  /\ \A j \in DOMAIN sql : t <= j /\ j <= upto => ~Splitter!MayEnd(sql, t, j)

\* Between tokens, or inside the one that the local variables say.
ModeInv ==
  /\ quote = Splitter!NoQuote /\ ~in_line_comment /\ ~in_block_comment =>
       index = Len(script) + 1 \/ index \in Splitter!Tokens(script)
  /\ quote # Splitter!NoQuote =>
       /\ ~in_line_comment /\ ~in_block_comment
       /\ \E t \in DOMAIN script :
            /\ t < index /\ script[t] = quote /\ quote \in Splitter!Quotes
            /\ Within(script, t, "string", index - 1)
  /\ in_line_comment =>
       /\ ~in_block_comment
       /\ \E t \in DOMAIN script :
            t + 2 <= index /\ Within(script, t, "line comment", index - 2)
  /\ in_block_comment =>
       \E t \in DOMAIN script :
         t + 2 <= index /\ Within(script, t, "block comment", index)

Kept(sql, cut) == Splitter!Text(cut, Splitter!Separators(sql), Splitter!Commented(sql))

\* The statements that end before a position.
Ended(sql, cut) ==
  {Splitter!Strip(sql, Kept(sql, c)) : c \in {s \in Splitter!Separators(sql) : s < cut}} \ {{}}

\* What has been read is in the buffer or in the statements, which are in their order.
TextInv ==
  /\ buffer = Kept(script, index)
  /\ {statements[i] : i \in DOMAIN statements} = Ended(script, index)
  /\ \A i \in DOMAIN statements : \E s \in Splitter!Separators(script) :
       s < index /\ \A k \in statements[i] : k < s
  /\ \A i, j \in DOMAIN statements : i < j =>
       \A k \in statements[i], l \in statements[j] : k < l

ScanTypeOK ==
  /\ IsScript(script)
  /\ index \in Nat \ {0} /\ index <= Len(script) + 1
  /\ statements \in Seq(SUBSET Nat)
  /\ buffer \subseteq Nat
  /\ done => index > Len(script)

\* Nothing has been read.
Unread ==
  /\ quote = Splitter!NoQuote /\ ~in_line_comment /\ ~in_block_comment
  /\ buffer = {} /\ statements = << >>

SplitInv ==
  /\ ScanTypeOK
  /\ index = 1 => Unread
  /\ ~Splitter!Misread(script) =>
       IF done THEN Splitter!SplitsStatements ELSE ModeInv /\ TextInv

-----------------------------------------------------------------------------
(* SqlSplitter: the tokens of a script.                                    *)

LEMMA ScriptTyped ==
  ASSUME NEW sql, IsScript(sql)
  PROVE  Len(sql) \in Nat /\ DOMAIN sql = 1 .. Len(sql)
BY LenProperties DEF IsScript

LEMMA LeastOf ==
  ASSUME NEW S, S \subseteq Nat, S # {}
  PROVE  Splitter!Min(S) \in S /\ \A y \in S : Splitter!Min(S) <= y
<1>1. PICK x \in S : \A y \in S : ~(<<y, x>> \in OpToRel(<, Nat))
  BY NatLessThanWellFounded, WFMin
<1>2. \A y \in S : x <= y
  <2> SUFFICES ASSUME NEW y \in S PROVE ~(y < x)
    OBVIOUS
  <2>1. y < x => <<y, x>> \in OpToRel(<, Nat)
    BY DEF OpToRel
  <2> QED  BY <1>1, <2>1
<1> QED  BY <1>2 DEF Splitter!Min

\* A token ends where it may end first, or at the end of the script.
LEMMA EndOfToken ==
  ASSUME NEW sql, IsScript(sql), NEW i \in DOMAIN sql
  PROVE  /\ Splitter!TokenEnd(sql, i) \in i .. Len(sql)
         /\ Splitter!TokenEnd(sql, i) < Len(sql) =>
              Splitter!MayEnd(sql, i, Splitter!TokenEnd(sql, i))
         /\ \A j \in i .. Len(sql) :
              Splitter!MayEnd(sql, i, j) => Splitter!TokenEnd(sql, i) <= j
<1> DEFINE ends == {j \in i .. Len(sql) : Splitter!MayEnd(sql, i, j)}
<1>1. Len(sql) \in Nat /\ i \in 1 .. Len(sql)
  BY ScriptTyped
<1>2. Splitter!TokenEnd(sql, i) = IF ends = {} THEN Len(sql) ELSE Splitter!Min(ends)
  BY DEF Splitter!TokenEnd
<1>3. ends # {} => Splitter!Min(ends) \in ends /\ \A y \in ends : Splitter!Min(ends) <= y
  <2>1. ends \subseteq Nat
    BY <1>1
  <2> HIDE DEF ends
  <2> QED  BY <2>1, LeastOf
<1>4. CASE ends = {}
  BY <1>1, <1>2, <1>4
<1>5. CASE ends # {}
  BY <1>1, <1>2, <1>3, <1>5
<1> QED  BY <1>4, <1>5

LEMMA FirstEnd ==
  ASSUME NEW sql, IsScript(sql), NEW i \in DOMAIN sql, NEW j \in i .. Len(sql),
         Splitter!MayEnd(sql, i, j),
         \A k \in DOMAIN sql : i <= k /\ k < j => ~Splitter!MayEnd(sql, i, k)
  PROVE  Splitter!TokenEnd(sql, i) = j
<1>1. Len(sql) \in Nat /\ i \in 1 .. Len(sql) /\ DOMAIN sql = 1 .. Len(sql)
  BY ScriptTyped
<1>2. Splitter!TokenEnd(sql, i) \in i .. Len(sql) /\ Splitter!TokenEnd(sql, i) <= j
  BY EndOfToken
<1>3. Splitter!TokenEnd(sql, i) < Len(sql) => Splitter!MayEnd(sql, i, Splitter!TokenEnd(sql, i))
  BY EndOfToken
<1>4. ASSUME Splitter!TokenEnd(sql, i) < j PROVE FALSE
  <2>1. Splitter!TokenEnd(sql, i) < Len(sql) /\ Splitter!TokenEnd(sql, i) \in DOMAIN sql
    BY <1>1, <1>2, <1>4
  <2> QED  BY <1>2, <1>3, <1>4, <2>1
<1> QED  BY <1>1, <1>2, <1>4

\* A token that has not ended yet goes on.
LEMMA GoesOnInside ==
  ASSUME NEW sql, IsScript(sql), NEW i \in DOMAIN sql, NEW j \in Nat, j < Len(sql),
         \A k \in DOMAIN sql : i <= k /\ k <= j => ~Splitter!MayEnd(sql, i, k)
  PROVE  j < Splitter!TokenEnd(sql, i)
<1>1. Len(sql) \in Nat /\ i \in 1 .. Len(sql) /\ DOMAIN sql = 1 .. Len(sql)
  BY ScriptTyped
<1>2. Splitter!TokenEnd(sql, i) \in i .. Len(sql)
  BY EndOfToken
<1>3. ASSUME Splitter!TokenEnd(sql, i) <= j PROVE FALSE
  <2>1. Splitter!TokenEnd(sql, i) < Len(sql) /\ Splitter!TokenEnd(sql, i) \in DOMAIN sql
    BY <1>1, <1>2, <1>3
  <2>2. Splitter!MayEnd(sql, i, Splitter!TokenEnd(sql, i))
    BY <2>1, EndOfToken
  <2> QED  BY <1>2, <1>3, <2>1, <2>2
<1> QED  BY <1>1, <1>2, <1>3

LEMMA TokensClosed ==
  ASSUME NEW sql, IsScript(sql)
  PROVE  /\ Splitter!Tokens(sql) \subseteq DOMAIN sql
         /\ 1 \in DOMAIN sql => 1 \in Splitter!Tokens(sql)
         /\ \A i \in Splitter!Tokens(sql) :
              Splitter!TokenEnd(sql, i) < Len(sql) =>
                Splitter!TokenEnd(sql, i) + 1 \in Splitter!Tokens(sql)
<1> DEFINE spans == {<<i, Splitter!TokenEnd(sql, i)>> : i \in DOMAIN sql}
           Sets == {T \in SUBSET DOMAIN sql :
                        /\ 1 \in DOMAIN sql => 1 \in T
                        /\ \A t \in spans : t[1] \in T /\ t[2] < Len(sql) => t[2] + 1 \in T}
<1>1. Splitter!Tokens(sql) = {i \in DOMAIN sql : \A T \in Sets : i \in T}
  BY DEF Splitter!Tokens
<1>2. ASSUME NEW i \in Splitter!Tokens(sql), Splitter!TokenEnd(sql, i) < Len(sql)
      PROVE  Splitter!TokenEnd(sql, i) + 1 \in Splitter!Tokens(sql)
  <2>1. i \in DOMAIN sql /\ \A T \in Sets : i \in T
    BY <1>1, <1>2
  <2>2. <<i, Splitter!TokenEnd(sql, i)>> \in spans
    BY <2>1
  <2>3. \A T \in Sets : Splitter!TokenEnd(sql, i) + 1 \in T
    <3> TAKE T \in Sets
    <3>1. \A t \in spans : t[1] \in T /\ t[2] < Len(sql) => t[2] + 1 \in T
      OBVIOUS
    <3> HIDE DEF Sets, spans
    <3> QED  BY <2>1, <2>2, <3>1, <1>2
  <2>4. Splitter!TokenEnd(sql, i) + 1 \in DOMAIN sql
    BY <1>2, <2>1, ScriptTyped, EndOfToken
  <2> HIDE DEF Sets
  <2> QED  BY <1>1, <2>3, <2>4
<1>3. 1 \in DOMAIN sql => 1 \in Splitter!Tokens(sql)
  BY <1>1
<1>4. Splitter!Tokens(sql) \subseteq DOMAIN sql
  <2> HIDE DEF Sets
  <2> QED  BY <1>1
<1> QED  BY <1>2, <1>3, <1>4

LEMMA TokensLeast ==
  ASSUME NEW sql, IsScript(sql), NEW T \in SUBSET DOMAIN sql, 1 \in DOMAIN sql => 1 \in T,
         \A i \in T : Splitter!TokenEnd(sql, i) < Len(sql) => Splitter!TokenEnd(sql, i) + 1 \in T
  PROVE  Splitter!Tokens(sql) \subseteq T
<1> DEFINE spans == {<<i, Splitter!TokenEnd(sql, i)>> : i \in DOMAIN sql}
<1>1. \A t \in spans : t[1] \in T /\ t[2] < Len(sql) => t[2] + 1 \in T
  OBVIOUS
<1> QED  BY <1>1 DEF Splitter!Tokens

\* No token begins inside another one: the first that did would follow on a token that
\* begins inside it.
LEMMA TokensApart ==
  ASSUME NEW sql, IsScript(sql), NEW t \in Splitter!Tokens(sql), NEW u \in Splitter!Tokens(sql),
         t < u
  PROVE  Splitter!TokenEnd(sql, t) < u
<1> DEFINE Toks == Splitter!Tokens(sql)
           end(i) == Splitter!TokenEnd(sql, i)
           Inner == {i \in Toks : \E j \in Toks : j < i /\ i <= end(j)}
<1> HIDE DEF Toks, end
<1>1. Toks \subseteq DOMAIN sql /\ DOMAIN sql = 1 .. Len(sql) /\ Len(sql) \in Nat
  BY TokensClosed, ScriptTyped DEF Toks
<1>2. \A i \in Toks : end(i) \in i .. Len(sql)
  BY <1>1, EndOfToken DEF end
<1>3. Inner = {}
  <2> SUFFICES ASSUME Inner # {} PROVE FALSE
    OBVIOUS
  <2>1. Inner \subseteq Nat
    BY <1>1
  <2> DEFINE i == Splitter!Min(Inner)
  <2>2. i \in Inner /\ \A y \in Inner : i <= y
    <3> HIDE DEF Inner
    <3> QED  BY <2>1, LeastOf
  <2> HIDE DEF i
  <2>3. PICK j \in Toks : j < i /\ i <= end(j)
    BY <2>2
  <2>4. i \in Toks /\ i \in Nat /\ j \in Nat /\ 1 <= j
    BY <1>1, <2>2, <2>3
  <2> DEFINE T == Toks \ {i}
  <2>5. \A a \in T : end(a) < Len(sql) => end(a) + 1 \in T
    <3> SUFFICES ASSUME NEW a \in T, end(a) < Len(sql) PROVE end(a) + 1 # i
      BY TokensClosed DEF Toks, end
    <3>1. SUFFICES ASSUME end(a) + 1 = i PROVE FALSE
      OBVIOUS
    <3>2. a \in Toks /\ a \in Nat /\ end(a) \in Nat /\ a <= end(a) /\ end(j) \in Nat
      BY <1>1, <1>2, <2>3
    <3>3. a < i /\ end(a) < i
      BY <2>4, <3>1, <3>2
    <3>4. a \notin Inner
      BY <2>2, <2>4, <3>2, <3>3
    <3>5. j \notin Inner
      BY <2>2, <2>3, <2>4
    <3>6. CASE a < j
      BY <2>3, <2>4, <3>1, <3>2, <3>5, <3>6
    <3>7. CASE j < a
      BY <2>3, <2>4, <3>2, <3>3, <3>4, <3>7
    <3>8. CASE a = j
      BY <2>3, <2>4, <3>2, <3>3, <3>8
    <3> QED  BY <2>4, <3>2, <3>6, <3>7, <3>8
  <2>6. 1 \in DOMAIN sql => 1 \in T
    BY <2>3, <2>4, TokensClosed DEF Toks
  <2>7. Toks \subseteq T
    BY <1>1, <2>5, <2>6, TokensLeast DEF Toks, end
  <2> QED  BY <2>4, <2>7
<1>4. t \in Toks /\ u \in Toks
  BY DEF Toks
<1>5. ~(u <= end(t))
  <2>1. u \notin Inner
    BY <1>3
  <2> QED  BY <1>4, <2>1
<1>6. u \in Nat /\ end(t) \in Nat
  BY <1>1, <1>2, <1>4
<1> QED  BY <1>5, <1>6 DEF end

\* Of the positions of a token, the first may be a separator, and the others are none; all
\* or none of them are a comment.
LEMMA InsideToken ==
  ASSUME NEW sql, IsScript(sql), NEW t \in Splitter!Tokens(sql),
         NEW p \in t .. Splitter!TokenEnd(sql, t)
  PROVE  /\ p \in DOMAIN sql
         /\ p \in Splitter!Separators(sql) <=> p = t /\ Splitter!Kind(sql, t) = "separator"
         /\ p \in Splitter!Commented(sql) <=>
              Splitter!Kind(sql, t) \in {"line comment", "block comment"}
<1>1. /\ DOMAIN sql = 1 .. Len(sql) /\ Len(sql) \in Nat
      /\ Splitter!Tokens(sql) \subseteq DOMAIN sql
      /\ \A i \in Splitter!Tokens(sql) : Splitter!TokenEnd(sql, i) \in i .. Len(sql)
  BY TokensClosed, ScriptTyped, EndOfToken
<1>2. p \in DOMAIN sql /\ t \in Nat /\ p \in Nat
  BY <1>1
<1>3. \A u \in Splitter!Tokens(sql) : u # t =>
        p \notin u .. Splitter!TokenEnd(sql, u)
  <2> SUFFICES ASSUME NEW u \in Splitter!Tokens(sql), u # t,
                      p \in u .. Splitter!TokenEnd(sql, u)
               PROVE  FALSE
    OBVIOUS
  <2>1. u \in Nat /\ Splitter!TokenEnd(sql, u) \in Nat /\ Splitter!TokenEnd(sql, t) \in Nat
    BY <1>1
  <2>2. CASE u < t
    BY <1>2, <2>1, <2>2, TokensApart
  <2>3. CASE t < u
    BY <1>2, <2>1, <2>3, TokensApart
  <2> QED  BY <1>2, <2>1, <2>2, <2>3
<1>4. p \in Splitter!Tokens(sql) => p = t
  <2>1. p \in Splitter!Tokens(sql) => p \in p .. Splitter!TokenEnd(sql, p)
    BY <1>1, <1>2
  <2> QED  BY <1>3, <2>1
<1>5. p \in Splitter!Separators(sql) <=> p = t /\ Splitter!Kind(sql, t) = "separator"
  BY <1>4 DEF Splitter!Separators
<1>6. p \in Splitter!Commented(sql) <=>
        \E u \in Splitter!Tokens(sql) :
          /\ Splitter!Kind(sql, u) \in {"line comment", "block comment"}
          /\ p \in u .. Splitter!TokenEnd(sql, u)
  BY DEF Splitter!Commented
<1> QED  BY <1>2, <1>3, <1>5, <1>6

\* The text goes on with a character that is kept, not with one that is left out, and it
\* begins again after a separator.
LEMMA TextGoesOn ==
  ASSUME NEW sql, IsScript(sql), NEW i \in DOMAIN sql, i \notin Splitter!Separators(sql)
  PROVE  /\ i \notin Splitter!Commented(sql) => Kept(sql, i + 1) = Kept(sql, i) \cup {i}
         /\ i \in Splitter!Commented(sql) => Kept(sql, i + 1) = Kept(sql, i)
         /\ Ended(sql, i + 1) = Ended(sql, i)
<1>1. i \in Nat /\ 1 <= i /\ Splitter!Separators(sql) \subseteq Nat
  BY ScriptTyped, TokensClosed DEF Splitter!Separators
<1>2. \A s \in Splitter!Separators(sql) : s < i + 1 <=> s < i
  BY <1>1
<1>3. {s \in Splitter!Separators(sql) : s < i + 1} = {s \in Splitter!Separators(sql) : s < i}
  BY <1>2
<1>4. \A k : k \in 1 .. (i + 1) - 1 <=> k \in 1 .. i - 1 \/ k = i
  BY <1>1
<1>5. \A k : k \in Kept(sql, i + 1) <=>
        /\ k \in 1 .. (i + 1) - 1 /\ k \notin Splitter!Commented(sql)
        /\ \A s \in Splitter!Separators(sql) : s < i + 1 => s < k
  BY DEF Kept, Splitter!Text
<1>6. \A k : k \in Kept(sql, i) <=>
        /\ k \in 1 .. i - 1 /\ k \notin Splitter!Commented(sql)
        /\ \A s \in Splitter!Separators(sql) : s < i => s < k
  BY DEF Kept, Splitter!Text
<1>7. \A k : k \in Kept(sql, i + 1) <=>
        k \in Kept(sql, i) \/ (k = i /\ i \notin Splitter!Commented(sql))
  BY <1>2, <1>4, <1>5, <1>6
<1>8. i \notin Splitter!Commented(sql) => Kept(sql, i + 1) = Kept(sql, i) \cup {i}
  <2> SUFFICES ASSUME i \notin Splitter!Commented(sql)
               PROVE  \A k : k \in Kept(sql, i + 1) <=> k \in Kept(sql, i) \cup {i}
    OBVIOUS
  <2> QED  BY <1>7
<1>9. i \in Splitter!Commented(sql) => Kept(sql, i + 1) = Kept(sql, i)
  <2> SUFFICES ASSUME i \in Splitter!Commented(sql)
               PROVE  \A k : k \in Kept(sql, i + 1) <=> k \in Kept(sql, i)
    OBVIOUS
  <2> QED  BY <1>7
<1>10. Ended(sql, i + 1) = Ended(sql, i)
  BY <1>3 DEF Ended
<1> QED  BY <1>8, <1>9, <1>10

LEMMA TextBegins ==
  ASSUME NEW sql, IsScript(sql), NEW i \in Splitter!Separators(sql)
  PROVE  /\ Kept(sql, i + 1) = {}
         /\ Ended(sql, i + 1) = (Ended(sql, i) \cup {Splitter!Strip(sql, Kept(sql, i))}) \ {{}}
<1>1. i \in Nat /\ Splitter!Separators(sql) \subseteq Nat
  BY ScriptTyped, TokensClosed DEF Splitter!Separators
<1>2. Kept(sql, i + 1) = {}
  <2> SUFFICES ASSUME NEW k \in Kept(sql, i + 1) PROVE FALSE
    OBVIOUS
  <2>1. k \in 1 .. (i + 1) - 1 /\ i < k
    BY <1>1 DEF Kept, Splitter!Text
  <2> QED  BY <1>1, <2>1
<1>3. {s \in Splitter!Separators(sql) : s < i + 1} =
      {s \in Splitter!Separators(sql) : s < i} \cup {i}
  BY <1>1
<1> HIDE DEF Kept
<1>4. Ended(sql, i + 1) =
      {Splitter!Strip(sql, Kept(sql, c)) :
         c \in {s \in Splitter!Separators(sql) : s < i} \cup {i}} \ {{}}
  BY <1>3 DEF Ended
<1> QED  BY <1>2, <1>4 DEF Ended

\* Two positions of a comment.
LEMMA TextSkips ==
  ASSUME NEW sql, IsScript(sql), NEW t \in Splitter!Tokens(sql),
         Splitter!Kind(sql, t) \in {"line comment", "block comment"},
         NEW i \in t .. Splitter!TokenEnd(sql, t)
  PROVE  Kept(sql, i + 1) = Kept(sql, i) /\ Ended(sql, i + 1) = Ended(sql, i)
<1>1. i \in DOMAIN sql /\ i \notin Splitter!Separators(sql) /\ i \in Splitter!Commented(sql)
  BY InsideToken
<1> QED  BY <1>1, TextGoesOn

\* A token of one character.
LEMMA OneCharacter ==
  ASSUME NEW sql, IsScript(sql), NEW i \in Splitter!Tokens(sql),
         Splitter!Kind(sql, i) \in {"separator", "character"}
  PROVE  /\ Splitter!TokenEnd(sql, i) = i
         /\ i + 1 = Len(sql) + 1 \/ i + 1 \in Splitter!Tokens(sql)
<1>1. i \in DOMAIN sql /\ DOMAIN sql = 1 .. Len(sql) /\ Len(sql) \in Nat
  BY TokensClosed, ScriptTyped
<1>2. Splitter!MayEnd(sql, i, i)
  BY DEF Splitter!MayEnd
<1>3. Splitter!TokenEnd(sql, i) = i
  <2>1. i \in i .. Len(sql) /\ \A k \in DOMAIN sql : ~(i <= k /\ k < i)
    BY <1>1
  <2> QED  BY <1>1, <1>2, <2>1, FirstEnd
<1>4. i < Len(sql) => i + 1 \in Splitter!Tokens(sql)
  BY <1>3, TokensClosed
<1> QED  BY <1>1, <1>3, <1>4

\* In a string without two backslashes in a row, a character is escaped if and only if a
\* backslash is before it.
LEMMA EscapedOnce ==
  ASSUME NEW sql, IsScript(sql), NEW t \in Splitter!Tokens(sql),
         Splitter!Kind(sql, t) = "string", ~Splitter!MisreadsBackslash(sql, t),
         NEW j \in t + 1 .. Splitter!TokenEnd(sql, t)
  PROVE  Splitter!OddBackslashes(sql, t, j) <=> j - 1 \in t + 1 .. j - 1 /\ sql[j - 1] = "backslash"
<1> DEFINE run == {k \in t + 1 .. j - 1 : \A m \in k .. j - 1 : sql[m] = "backslash"}
<1>1. t \in Nat /\ j \in Nat /\ Splitter!TokenEnd(sql, t) \in Nat /\ t \in DOMAIN sql
  BY TokensClosed, ScriptTyped, EndOfToken
<1>2. \A k \in run : k = j - 1
  <2> SUFFICES ASSUME NEW k \in run, k # j - 1 PROVE FALSE
    OBVIOUS
  <2>1. k \in t + 1 .. j - 1 /\ \A m \in k .. j - 1 : sql[m] = "backslash"
    OBVIOUS
  <2>2. k \in t + 1 .. Splitter!TokenEnd(sql, t) - 1 /\ k \in k .. j - 1 /\ k + 1 \in k .. j - 1
    BY <1>1, <2>1
  <2>3. sql[k] = "backslash" /\ sql[k + 1] = "backslash"
    BY <2>1, <2>2
  <2> QED  BY <2>2, <2>3 DEF Splitter!MisreadsBackslash
<1>3. Splitter!OddBackslashes(sql, t, j) <=> Cardinality(run) % 2 = 1
  BY DEF Splitter!OddBackslashes, Splitter!Cardinality, Cardinality
<1>4. CASE j - 1 \in t + 1 .. j - 1 /\ sql[j - 1] = "backslash"
  <2>1. \A m \in j - 1 .. j - 1 : sql[m] = "backslash"
    BY <1>1, <1>4
  <2>2. run = {j - 1}
    BY <1>2, <1>4, <2>1
  <2> HIDE DEF run
  <2>3. Cardinality(run) = 1
    BY <2>2, FS_Singleton
  <2> QED  BY <1>3, <1>4, <2>3
<1>5. CASE ~(j - 1 \in t + 1 .. j - 1 /\ sql[j - 1] = "backslash")
  <2>1. run = {}
    <3> SUFFICES ASSUME NEW k \in run PROVE FALSE
      OBVIOUS
    <3>1. k = j - 1 /\ k \in t + 1 .. j - 1 /\ sql[j - 1] = "backslash"
      <4>1. k = j - 1 /\ k \in t + 1 .. j - 1
        BY <1>2
      <4>2. j - 1 \in k .. j - 1
        BY <1>1, <4>1
      <4> QED  BY <4>1, <4>2
    <3> QED  BY <1>5, <3>1
  <2> HIDE DEF run
  <2>2. Cardinality(run) = 0
    BY <2>1, FS_EmptySet
  <2> QED  BY <1>3, <1>5, <2>2
<1> QED  BY <1>4, <1>5

\* A quote closes what it opened if no backslash is before it, between backticks too.
LEMMA ClosesUnescaped ==
  ASSUME NEW sql, IsScript(sql), NEW t \in Splitter!Tokens(sql),
         Splitter!Kind(sql, t) = "string", ~Splitter!MisreadsBackslash(sql, t),
         NEW j \in t + 1 .. Splitter!TokenEnd(sql, t)
  PROVE  Splitter!Closes(sql, t, j) <=>
           sql[j] = sql[t] /\ ~(j - 1 \in t + 1 .. j - 1 /\ sql[j - 1] = "backslash")
<1>1. t \in Nat /\ j \in Nat /\ Splitter!TokenEnd(sql, t) \in Nat /\ j > t
  BY TokensClosed, ScriptTyped, EndOfToken
<1>2. Splitter!OddBackslashes(sql, t, j) <=> j - 1 \in t + 1 .. j - 1 /\ sql[j - 1] = "backslash"
  BY EscapedOnce
<1>3. ASSUME sql[t] = "backtick", sql[j] = sql[t]
      PROVE  ~(j - 1 \in t + 1 .. j - 1 /\ sql[j - 1] = "backslash")
  <2> SUFFICES ASSUME j - 1 \in t + 1 .. j - 1, sql[j - 1] = "backslash" PROVE FALSE
    OBVIOUS
  <2>1. j - 1 \in t + 1 .. Splitter!TokenEnd(sql, t) - 1 /\ (j - 1) + 1 = j
    BY <1>1
  <2> QED  BY <1>3, <2>1 DEF Splitter!MisreadsBackslash
<1> QED  BY <1>1, <1>2, <1>3 DEF Splitter!Closes

-----------------------------------------------------------------------------
(* The steps of the splitter.                                              *)

LEMMA Ends ==
  ASSUME NEW sql, NEW i, NEW j
  PROVE  /\ Splitter!Kind(sql, i) = "line comment" =>
              (Splitter!MayEnd(sql, i, j) <=> Splitter!CharAt(sql, j + 1) = "newline")
         /\ Splitter!Kind(sql, i) = "block comment" =>
              (Splitter!MayEnd(sql, i, j) <=>
                 j >= i + 3 /\ sql[j - 1] = "*" /\ sql[j] = "/")
         /\ Splitter!Kind(sql, i) = "string" =>
              /\ Splitter!MayEnd(sql, i, j) <=> Splitter!Closes(sql, i, j)
              /\ Splitter!MayEnd(sql, i, j) => j > i /\ sql[j] = sql[i]
BY DEF Splitter!MayEnd, Splitter!Closes

LEMMA Kinds ==
  ASSUME NEW sql, NEW i
  PROVE  /\ Splitter!StartsLineComment(sql, i) /\ ~Splitter!MisreadsComment(sql, i)
            => Splitter!Kind(sql, i) = "line comment"
         /\ Splitter!StartsBlockComment(sql, i) => Splitter!Kind(sql, i) = "block comment"
         /\ sql[i] \in Splitter!Quotes => Splitter!Kind(sql, i) = "string"
         /\ sql[i] = ";" => Splitter!Kind(sql, i) = "separator"
         /\ /\ ~Splitter!StartsLineComment(sql, i) /\ ~Splitter!StartsBlockComment(sql, i)
            /\ sql[i] \notin Splitter!Quotes /\ sql[i] # ";" /\ ~Splitter!MisreadsComment(sql, i)
            => Splitter!Kind(sql, i) = "character"
         /\ sql[i] = "newline" => Splitter!Kind(sql, i) = "character"
BY DEF Splitter!Kind, Splitter!LineComment, Splitter!MisreadsComment, Splitter!Quotes,
       Splitter!StartsLineComment, Splitter!StartsBlockComment

\* The scanner before a step: at a position of the script, between two states.
Scanning ==
  /\ ScanTypeOK /\ ModeInv /\ TextInv
  /\ ~Splitter!Misread(script)
  /\ ~done /\ index <= Len(script)

LEMMA Position ==
  ASSUME Scanning
  PROVE  /\ IsScript(script) /\ Len(script) \in Nat /\ DOMAIN script = 1 .. Len(script)
         /\ index \in DOMAIN script /\ index \in Nat /\ 1 <= index /\ index <= Len(script)
         /\ Splitter!Tokens(script) \subseteq DOMAIN script
BY ScriptTyped, TokensClosed DEF Scanning, ScanTypeOK

LEMMA ReadRightly ==
  ASSUME Scanning, NEW t \in Splitter!Tokens(script)
  PROVE  ~Splitter!MisreadsBackslash(script, t) /\ ~Splitter!MisreadsComment(script, t)
BY DEF Scanning, Splitter!Misread

LEMMA TextMoves ==
  ASSUME Scanning, NEW n \in {1, 2}, index' = index + n, UNCHANGED <<script, statements>>,
         Ended(script, index + n) = Ended(script, index), buffer' = Kept(script, index + n)
  PROVE  TextInv'
<1>1. \A i \in DOMAIN statements : \E s \in Splitter!Separators(script) :
        s < index + n /\ \A k \in statements[i] : k < s
  <2>1. \A s \in Splitter!Separators(script) : s \in Nat
    BY Position DEF Splitter!Separators
  <2>2. index \in Nat
    BY Position
  <2>3. \A s \in Splitter!Separators(script) : s < index => s < index + n
    BY <2>1, <2>2
  <2> QED  BY <2>3 DEF Scanning, TextInv
<1>2. /\ {statements[i] : i \in DOMAIN statements} = Ended(script, index)
      /\ \A i, j \in DOMAIN statements : i < j =>
           \A k \in statements[i], l \in statements[j] : k < l
  BY DEF Scanning, TextInv
<1> QED  BY <1>1, <1>2 DEF TextInv

LEMMA LineCommentStep ==
  ASSUME Scanning, in_line_comment, Splitter!InLineComment
  PROVE  ModeInv' /\ TextInv'
<1>1. /\ ~in_block_comment /\ quote = Splitter!NoQuote /\ UNCHANGED <<script, statements, quote, in_block_comment>>
      /\ index' = index + 1 /\ in_line_comment' = (script[index] # "newline")
      /\ buffer' = IF script[index] = "newline" THEN buffer \cup {index} ELSE buffer
      /\ buffer = Kept(script, index)
  BY DEF Scanning, ModeInv, TextInv, Splitter!InLineComment, Splitter!Goes
<1>2. PICK t \in DOMAIN script :
        t + 2 <= index /\ Within(script, t, "line comment", index - 2)
  BY DEF Scanning, ModeInv
<1>3. t \in Nat /\ index \in Nat /\ index \in DOMAIN script /\ IsScript(script) /\ Len(script) \in Nat
      /\ index <= Len(script) /\ DOMAIN script = 1 .. Len(script)
  BY Position
<1>a. t \in Nat /\ index \in Nat /\ Len(script) \in Nat /\ t + 2 <= index /\ index <= Len(script)
  BY <1>2, <1>3, Zenon
<1>4. t \in Splitter!Tokens(script) /\ Splitter!Kind(script, t) = "line comment"
  BY <1>2 DEF Within
<1>5. Splitter!MayEnd(script, t, index - 1) <=> script[index] = "newline"
  <2>1. (index - 1) + 1 = index
    BY <1>3
  <2>2. Splitter!CharAt(script, (index - 1) + 1) = script[index]
    BY <1>3, <2>1 DEF Splitter!CharAt
  <2> QED  BY <1>4, <2>2, Ends
<1>6. \A j \in DOMAIN script : t <= j /\ j <= index - 2 => ~Splitter!MayEnd(script, t, j)
  BY <1>2 DEF Within
<1>7. CASE script[index] = "newline"
  <2>1. Splitter!TokenEnd(script, t) = index - 1
    <3>1. index - 1 \in t .. Len(script)
      BY <1>a
    <3>2. \A k \in DOMAIN script : t <= k /\ k < index - 1 => ~Splitter!MayEnd(script, t, k)
      BY <1>3, <1>6
    <3> QED  BY <1>3, <1>5, <1>7, <3>1, <3>2, FirstEnd
  <2>2. index \in Splitter!Tokens(script)
    <3>1. index - 1 < Len(script) /\ (index - 1) + 1 = index
      BY <1>3
    <3> QED  BY <1>3, <1>4, <2>1, <3>1, TokensClosed
  <2>3. Splitter!Kind(script, index) = "character"
    BY <1>7, Kinds
  <2>4. index + 1 = Len(script) + 1 \/ index + 1 \in Splitter!Tokens(script)
    BY <1>3, <2>2, <2>3, OneCharacter
  <2>5. index \in index .. Splitter!TokenEnd(script, index)
    BY <1>3, <2>2, <2>3, OneCharacter
  <2>6. index \notin Splitter!Separators(script) /\ index \notin Splitter!Commented(script)
    BY <1>3, <2>2, <2>3, <2>5, InsideToken
  <2>7. ModeInv'
    BY <1>1, <1>7, <2>4 DEF ModeInv
  <2>8. Kept(script, index + 1) = Kept(script, index) \cup {index}
        /\ Ended(script, index + 1) = Ended(script, index)
    BY <1>3, <2>6, TextGoesOn
  <2> QED  BY <1>1, <1>7, <2>7, <2>8, TextMoves
<1>8. CASE script[index] # "newline"
  <2>1. \A j \in DOMAIN script : t <= j /\ j <= index - 1 => ~Splitter!MayEnd(script, t, j)
    BY <1>3, <1>5, <1>6, <1>8
  <2>2. index - 1 < Splitter!TokenEnd(script, t) /\ Splitter!TokenEnd(script, t) \in Nat
    <3>1. index - 1 \in Nat /\ index - 1 < Len(script)
      BY <1>3
    <3> QED  BY <1>3, <2>1, <3>1, GoesOnInside, EndOfToken
  <2>3. index \in t .. Splitter!TokenEnd(script, t)
    BY <1>a, <2>2
  <2>4. Kept(script, index + 1) = Kept(script, index) /\ Ended(script, index + 1) = Ended(script, index)
    BY <1>3, <1>4, <2>3, TextSkips
  <2>5. (index + 1) - 2 = index - 1 /\ t + 2 <= index + 1
    BY <1>a
  <2>6. Within(script, t, "line comment", (index + 1) - 2)
    BY <1>4, <2>1, <2>5 DEF Within
  <2>7. ModeInv'
    BY <1>1, <1>8, <2>5, <2>6 DEF ModeInv, Within
  <2> QED  BY <1>1, <1>8, <2>4, <2>7, TextMoves
<1> QED  BY <1>7, <1>8

LEMMA BlockCommentStep ==
  ASSUME Scanning, ~in_line_comment, in_block_comment, Splitter!InBlockComment
  PROVE  ModeInv' /\ TextInv' /\ index' <= Len(script) + 1
<1> DEFINE ends == script[index] = "*" /\ Splitter!CharAt(script, index + 1) = "/"
<1>1. /\ quote = Splitter!NoQuote /\ UNCHANGED <<script, statements, buffer, quote, in_line_comment>>
      /\ index' = index + (IF ends THEN 2 ELSE 1) /\ in_block_comment' = ~ends
      /\ buffer = Kept(script, index)
  BY DEF Scanning, ModeInv, TextInv, Splitter!InBlockComment, Splitter!Goes
<1>2. PICK t \in DOMAIN script :
        t + 2 <= index /\ Within(script, t, "block comment", index)
  BY DEF Scanning, ModeInv
<1>3. t \in Nat /\ index \in Nat /\ index \in DOMAIN script /\ IsScript(script) /\ Len(script) \in Nat
      /\ index <= Len(script) /\ DOMAIN script = 1 .. Len(script)
  BY Position
<1>a. t \in Nat /\ index \in Nat /\ Len(script) \in Nat /\ t + 2 <= index /\ index <= Len(script)
  BY <1>2, <1>3, Zenon
<1>4. t \in Splitter!Tokens(script) /\ Splitter!Kind(script, t) = "block comment"
  BY <1>2 DEF Within
<1>5. index + 1 \in DOMAIN script => (Splitter!MayEnd(script, t, index + 1) <=> ends)
  <2>1. (index + 1) - 1 = index /\ index + 1 >= t + 3
    BY <1>a
  <2>4. Splitter!MayEnd(script, t, index + 1) <=>
          index + 1 >= t + 3 /\ script[(index + 1) - 1] = "*" /\ script[index + 1] = "/"
    BY <1>4 DEF Splitter!MayEnd
  <2>2. Splitter!MayEnd(script, t, index + 1) <=>
          script[(index + 1) - 1] = "*" /\ script[index + 1] = "/"
    BY <2>1, <2>4, Zenon
  <2>3. (index + 1 \in DOMAIN script => Splitter!CharAt(script, index + 1) = script[index + 1])
        /\ script[(index + 1) - 1] = script[index]
    BY <2>1 DEF Splitter!CharAt
  <2> QED  BY <2>2, <2>3
<1>6. \A j \in DOMAIN script : t <= j /\ j <= index => ~Splitter!MayEnd(script, t, j)
  BY <1>2 DEF Within
<1>7. index \in t .. Splitter!TokenEnd(script, t)
  <2>1. index - 1 \in Nat /\ index - 1 < Len(script)
        /\ \A j \in DOMAIN script : t <= j /\ j <= index - 1 => ~Splitter!MayEnd(script, t, j)
    BY <1>3, <1>6
  <2>2. index - 1 < Splitter!TokenEnd(script, t) /\ Splitter!TokenEnd(script, t) \in Nat
    BY <1>3, <2>1, GoesOnInside, EndOfToken
  <2> QED  BY <1>a, <2>2
<1>8. Kept(script, index + 1) = Kept(script, index) /\ Ended(script, index + 1) = Ended(script, index)
  BY <1>3, <1>4, <1>7, TextSkips
<1>9. CASE ends
  <2>1. index + 1 \in DOMAIN script /\ index + 1 <= Len(script)
    BY <1>3, <1>9 DEF Splitter!CharAt
  <2>2. Splitter!TokenEnd(script, t) = index + 1
    <3>1. index + 1 \in t .. Len(script)
      BY <1>a, <2>1
    <3>2. \A k \in DOMAIN script : t <= k /\ k < index + 1 => ~Splitter!MayEnd(script, t, k)
      BY <1>3, <1>6
    <3> QED  BY <1>3, <1>5, <1>9, <2>1, <3>1, <3>2, FirstEnd
  <2>3. index + 2 = Len(script) + 1 \/ index + 2 \in Splitter!Tokens(script)
    <3>1. index + 1 < Len(script) => (index + 1) + 1 \in Splitter!Tokens(script)
      BY <1>3, <1>4, <2>2, TokensClosed
    <3>2. (index + 1) + 1 = index + 2
      BY <1>3
    <3> QED  BY <1>3, <2>1, <3>1, <3>2
  <2>4. index + 1 \in t .. Splitter!TokenEnd(script, t) /\ (index + 1) + 1 = index + 2
    BY <1>a, <2>2
  <2>5. Kept(script, index + 2) = Kept(script, index) /\ Ended(script, index + 2) = Ended(script, index)
    BY <1>3, <1>4, <1>8, <2>4, TextSkips
  <2>6. index' = index + 2 /\ index + 2 <= Len(script) + 1
    BY <1>1, <1>3, <1>9, <2>1
  <2> HIDE DEF ends
  <2>7. ModeInv'
    BY <1>1, <1>9, <2>3, <2>6, Zenon DEF ModeInv, Scanning
  <2> QED  BY <1>1, <2>5, <2>6, <2>7, TextMoves
<1>10. CASE ~ends
  <2>1. index' = index + 1 /\ index + 1 <= Len(script) + 1
    BY <1>1, <1>3, <1>10
  <2>2. \A j \in DOMAIN script : t <= j /\ j <= index + 1 => ~Splitter!MayEnd(script, t, j)
    <3> SUFFICES ASSUME NEW j \in DOMAIN script, t <= j, j <= index + 1
                 PROVE  ~Splitter!MayEnd(script, t, j)
      OBVIOUS
    <3>1. j <= index \/ j = index + 1
      BY <1>3
    <3> QED  BY <1>5, <1>6, <1>10, <3>1
  <2>3. t + 2 <= index + 1
    BY <1>a
  <2>4. Within(script, t, "block comment", index + 1)
    BY <1>4, <2>2 DEF Within
  <2> HIDE DEF ends
  <2>5. ModeInv'
    BY <1>1, <1>10, <2>1, <2>3, <2>4 DEF ModeInv, Within
  <2> QED  BY <1>1, <1>8, <2>1, <2>5, TextMoves
<1> QED  BY <1>9, <1>10

\* A character that is kept, between two tokens or in a string.
LEMMA CharacterKept ==
  ASSUME Scanning, index \notin Splitter!Separators(script), index \notin Splitter!Commented(script),
         Splitter!Keep, Splitter!Goes(1), UNCHANGED statements
  PROVE  TextInv'
<1>1. Kept(script, index + 1) = Kept(script, index) \cup {index}
      /\ Ended(script, index + 1) = Ended(script, index)
  BY Position, TextGoesOn
<1>2. buffer' = Kept(script, index) \cup {index} /\ index' = index + 1 /\ script' = script
  BY DEF Scanning, TextInv, Splitter!Keep, Splitter!Goes
<1> QED  BY <1>1, <1>2, TextMoves

\* A string begins, ends or goes on.
LEMMA QuoteStep ==
  ASSUME Scanning, ~in_line_comment, ~in_block_comment, Splitter!AtQuote
  PROVE  ModeInv' /\ TextInv'
<1>1. /\ script[index] \in Splitter!Quotes /\ quote' = Splitter!UpdatedQuote
      /\ UNCHANGED <<script, statements, in_line_comment, in_block_comment>> /\ index' = index + 1
      /\ Splitter!Keep /\ Splitter!Goes(1)
  BY DEF Splitter!AtQuote, Splitter!Goes
<1>2. index \in Nat /\ index \in DOMAIN script /\ IsScript(script) /\ Len(script) \in Nat
      /\ index <= Len(script) /\ DOMAIN script = 1 .. Len(script)
      /\ Splitter!Tokens(script) \subseteq DOMAIN script
  BY Position
<1>3. CASE quote = Splitter!NoQuote
  <2>1. index \in Splitter!Tokens(script)
    <3>1. index # Len(script) + 1
      BY <1>2
    <3> QED  BY <1>3, <3>1 DEF Scanning, ModeInv
  <2>2. Splitter!Kind(script, index) = "string"
    BY <1>1, Kinds
  <2>3. \A j \in DOMAIN script : index <= j /\ j <= index => ~Splitter!MayEnd(script, index, j)
    <3> SUFFICES ASSUME NEW j \in DOMAIN script, index <= j, j <= index
                 PROVE  ~Splitter!MayEnd(script, index, j)
      OBVIOUS
    <3>1. ~(j > index)
      BY <1>2
    <3> QED  BY <2>2, <3>1, Ends
  <2>4. (index + 1) - 1 = index /\ index < index + 1
    BY <1>2
  <2>5. quote' = script[index] /\ quote' # Splitter!NoQuote
    BY <1>1, <1>3 DEF Splitter!UpdatedQuote, Splitter!Quotes, Splitter!NoQuote
  <2>6. Within(script, index, "string", (index + 1) - 1)
    BY <2>1, <2>2, <2>3, <2>4 DEF Within
  <2>7. ModeInv'
    BY <1>1, <1>2, <2>4, <2>5, <2>6 DEF ModeInv, Within
  <2>8. index \in index .. Splitter!TokenEnd(script, index)
    BY <1>2, EndOfToken
  <2>9. index \notin Splitter!Separators(script) /\ index \notin Splitter!Commented(script)
    BY <1>2, <2>1, <2>2, <2>8, InsideToken
  <2> QED  BY <1>1, <2>7, <2>9, CharacterKept
<1>4. CASE quote # Splitter!NoQuote
  <2>1. PICK t \in DOMAIN script :
          /\ t < index /\ script[t] = quote /\ quote \in Splitter!Quotes
          /\ Within(script, t, "string", index - 1)
    BY <1>4 DEF Scanning, ModeInv
  <2>2. t \in Splitter!Tokens(script) /\ Splitter!Kind(script, t) = "string"
        /\ \A j \in DOMAIN script : t <= j /\ j <= index - 1 => ~Splitter!MayEnd(script, t, j)
    BY <2>1 DEF Within
  <2>3. t \in Nat /\ t < index
    BY <1>2, <2>1
  <2>4. index \in t + 1 .. Splitter!TokenEnd(script, t)
    <3>1. index - 1 \in Nat /\ index - 1 < Len(script)
      BY <1>2, <2>3
    <3>2. index - 1 < Splitter!TokenEnd(script, t) /\ Splitter!TokenEnd(script, t) \in Nat
      BY <1>2, <2>2, <3>1, GoesOnInside, EndOfToken
    <3> QED  BY <1>2, <2>3, <3>2
  <2>5. index \in t .. Splitter!TokenEnd(script, t)
    BY <1>2, <2>3, <2>4
  <2>6. index \notin Splitter!Separators(script) /\ index \notin Splitter!Commented(script)
    BY <1>2, <2>2, <2>5, InsideToken
  <2>7. index - 1 \in t + 1 .. index - 1 /\ script[index - 1] = "backslash" <=> Splitter!Escaped
    <3>1. index - 1 \in DOMAIN script /\ (index - 1 = t \/ index - 1 \in t + 1 .. index - 1)
      BY <1>2, <2>1, <2>3
    <3>2. script[t] # "backslash"
      BY <2>1 DEF Splitter!Quotes
    <3>3. index - 1 = t => index - 1 \notin t + 1 .. index - 1
      BY <1>2, <2>3
    <3> QED  BY <3>1, <3>2, <3>3 DEF Splitter!Escaped, Splitter!CharAt
  <2>8. Splitter!MayEnd(script, t, index) <=> script[index] = quote /\ ~Splitter!Escaped
    <3>1. Splitter!Closes(script, t, index) <=>
            /\ script[index] = script[t]
            /\ ~(index - 1 \in t + 1 .. index - 1 /\ script[index - 1] = "backslash")
      BY <1>2, <2>2, <2>4, ReadRightly, ClosesUnescaped
    <3>2. Splitter!MayEnd(script, t, index) <=> Splitter!Closes(script, t, index)
      BY <2>2, Ends
    <3> QED  BY <2>1, <2>7, <3>1, <3>2
  <2>9. CASE script[index] = quote /\ ~Splitter!Escaped
    <3>1. Splitter!TokenEnd(script, t) = index
      <4>1. index \in t .. Len(script)
        BY <1>2, <2>3
      <4>2. \A k \in DOMAIN script : t <= k /\ k < index => ~Splitter!MayEnd(script, t, k)
        BY <1>2, <2>2
      <4> QED  BY <1>2, <2>8, <2>9, <4>1, <4>2, FirstEnd
    <3>2. index + 1 = Len(script) + 1 \/ index + 1 \in Splitter!Tokens(script)
      BY <1>2, <2>2, <3>1, TokensClosed
    <3>3. quote' = Splitter!NoQuote
      BY <1>1, <1>4, <2>9 DEF Splitter!UpdatedQuote
    <3>4. ModeInv'
      BY <1>1, <3>2, <3>3 DEF ModeInv
    <3> QED  BY <1>1, <2>6, <3>4, CharacterKept
  <2>10. CASE ~(script[index] = quote /\ ~Splitter!Escaped)
    <3>1. quote' = quote
      BY <1>1, <1>4, <2>10 DEF Splitter!UpdatedQuote
    <3>2. \A j \in DOMAIN script : t <= j /\ j <= index => ~Splitter!MayEnd(script, t, j)
      <4> SUFFICES ASSUME NEW j \in DOMAIN script, t <= j, j <= index
                   PROVE  ~Splitter!MayEnd(script, t, j)
        OBVIOUS
      <4>1. j <= index - 1 \/ j = index
        BY <1>2
      <4> QED  BY <2>2, <2>8, <2>10, <4>1
    <3>3. (index + 1) - 1 = index /\ t < index + 1
      BY <1>2, <2>3
    <3>4. Within(script, t, "string", (index + 1) - 1)
      BY <2>2, <3>2, <3>3 DEF Within
    <3>5. ModeInv'
      BY <1>1, <1>4, <2>1, <3>1, <3>3, <3>4 DEF ModeInv, Within
    <3> QED  BY <1>1, <2>6, <3>5, CharacterKept
  <2> QED  BY <2>9, <2>10
<1> QED  BY <1>3, <1>4

LEMMA CharacterStep ==
  ASSUME Scanning, ~in_line_comment, ~in_block_comment, Splitter!AtCharacter
  PROVE  ModeInv' /\ TextInv'
<1>1. /\ script[index] \notin Splitter!Quotes
      /\ UNCHANGED <<script, statements, quote, in_line_comment, in_block_comment>>
      /\ index' = index + 1
      /\ Splitter!Keep /\ Splitter!Goes(1)
  BY DEF Splitter!AtCharacter, Splitter!Goes, Splitter!mode
<1>2. index \in Nat /\ index \in DOMAIN script /\ IsScript(script) /\ Len(script) \in Nat
      /\ index <= Len(script) /\ DOMAIN script = 1 .. Len(script)
      /\ Splitter!Tokens(script) \subseteq DOMAIN script
  BY Position
<1>3. CASE quote = Splitter!NoQuote
  <2>1. index \in Splitter!Tokens(script)
    <3>1. index # Len(script) + 1
      BY <1>2
    <3> QED  BY <1>3, <3>1 DEF Scanning, ModeInv
  <2>2. Splitter!Kind(script, index) = "character"
    BY <1>1, <1>3, <2>1, ReadRightly, Kinds DEF Splitter!AtCharacter
  <2>3. index + 1 = Len(script) + 1 \/ index + 1 \in Splitter!Tokens(script)
    BY <1>2, <2>1, <2>2, OneCharacter
  <2>4. index \in index .. Splitter!TokenEnd(script, index)
    BY <1>2, EndOfToken
  <2>5. index \notin Splitter!Separators(script) /\ index \notin Splitter!Commented(script)
    BY <1>2, <2>1, <2>2, <2>4, InsideToken
  <2>6. ModeInv'
    BY <1>1, <1>3, <2>3 DEF ModeInv
  <2> QED  BY <1>1, <2>5, <2>6, CharacterKept
<1>4. CASE quote # Splitter!NoQuote
  <2>1. PICK t \in DOMAIN script :
          /\ t < index /\ script[t] = quote /\ quote \in Splitter!Quotes
          /\ Within(script, t, "string", index - 1)
    BY <1>4 DEF Scanning, ModeInv
  <2>2. t \in Splitter!Tokens(script) /\ Splitter!Kind(script, t) = "string"
        /\ \A j \in DOMAIN script : t <= j /\ j <= index - 1 => ~Splitter!MayEnd(script, t, j)
    BY <2>1 DEF Within
  <2>3. t \in Nat /\ t < index
    BY <1>2, <2>1
  <2>4. index \in t .. Splitter!TokenEnd(script, t)
    <3>1. index - 1 \in Nat /\ index - 1 < Len(script)
      BY <1>2, <2>3
    <3>2. index - 1 < Splitter!TokenEnd(script, t) /\ Splitter!TokenEnd(script, t) \in Nat
      BY <1>2, <2>2, <3>1, GoesOnInside, EndOfToken
    <3> QED  BY <1>2, <2>3, <3>2
  <2>5. index \notin Splitter!Separators(script) /\ index \notin Splitter!Commented(script)
    BY <1>2, <2>2, <2>4, InsideToken
  <2>6. ~Splitter!MayEnd(script, t, index)
    BY <1>1, <2>1, <2>2, Ends
  <2>7. \A j \in DOMAIN script : t <= j /\ j <= index => ~Splitter!MayEnd(script, t, j)
    <3> SUFFICES ASSUME NEW j \in DOMAIN script, t <= j, j <= index
                 PROVE  ~Splitter!MayEnd(script, t, j)
      OBVIOUS
    <3>1. j <= index - 1 \/ j = index
      BY <1>2
    <3> QED  BY <2>2, <2>6, <3>1
  <2>8. (index + 1) - 1 = index /\ t < index + 1
    BY <1>2, <2>3
  <2>9. Within(script, t, "string", (index + 1) - 1)
    BY <2>2, <2>7, <2>8 DEF Within
  <2>10. ModeInv'
    BY <1>1, <1>4, <2>1, <2>8, <2>9 DEF ModeInv, Within
  <2> QED  BY <1>1, <2>5, <2>10, CharacterKept
<1> QED  BY <1>3, <1>4

\* A comment begins: its first two positions do not end it.
LEMMA CommentStep ==
  ASSUME Scanning, ~in_line_comment, ~in_block_comment,
         Splitter!EntersLineComment \/ Splitter!EntersBlockComment
  PROVE  ModeInv' /\ TextInv' /\ index' <= Len(script) + 1
<1>1. /\ quote = Splitter!NoQuote /\ UNCHANGED <<script, statements, buffer, quote>>
      /\ index' = index + 2 /\ buffer = Kept(script, index)
  BY DEF Scanning, TextInv, Splitter!EntersLineComment, Splitter!EntersBlockComment, Splitter!Goes
<1>2. index \in Nat /\ index \in DOMAIN script /\ IsScript(script) /\ Len(script) \in Nat
      /\ index <= Len(script) /\ DOMAIN script = 1 .. Len(script)
      /\ Splitter!Tokens(script) \subseteq DOMAIN script
  BY Position
<1>3. index + 1 \in DOMAIN script
      /\ (Splitter!EntersLineComment => Splitter!CharAt(script, index + 1) = "-")
  BY DEF Splitter!EntersLineComment, Splitter!EntersBlockComment,
         Splitter!StartsLineComment, Splitter!StartsBlockComment, Splitter!CharAt
<1>4. index \in Splitter!Tokens(script)
  <2>1. index # Len(script) + 1
    BY <1>2
  <2> QED  BY <1>1, <2>1 DEF Scanning, ModeInv
<1>5. index < Len(script) /\ index' <= Len(script) + 1 /\ (index + 2) - 2 = index
      /\ (index + 1) + 1 = index + 2
  BY <1>1, <1>2, <1>3
<1>6. ASSUME Splitter!Kind(script, index) \in {"line comment", "block comment"},
             ~Splitter!MayEnd(script, index, index)
      PROVE  TextInv'
  <2>1. \A k \in DOMAIN script : index <= k /\ k <= index => ~Splitter!MayEnd(script, index, k)
    <3> SUFFICES ASSUME NEW k \in DOMAIN script, index <= k, k <= index
                 PROVE  ~Splitter!MayEnd(script, index, k)
      OBVIOUS
    <3>1. k = index
      BY <1>2
    <3> QED  BY <1>6, <3>1
  <2>2. index < Splitter!TokenEnd(script, index) /\ Splitter!TokenEnd(script, index) \in Nat
    BY <1>2, <1>5, <2>1, GoesOnInside, EndOfToken
  <2>3. index \in index .. Splitter!TokenEnd(script, index)
        /\ index + 1 \in index .. Splitter!TokenEnd(script, index)
    BY <1>2, <2>2
  <2>4. Kept(script, index + 1) = Kept(script, index)
        /\ Ended(script, index + 1) = Ended(script, index)
    BY <1>2, <1>4, <1>6, <2>3, TextSkips
  <2>5. Kept(script, (index + 1) + 1) = Kept(script, index + 1)
        /\ Ended(script, (index + 1) + 1) = Ended(script, index + 1)
    BY <1>2, <1>4, <1>6, <2>3, TextSkips
  <2> QED  BY <1>1, <1>5, <2>4, <2>5, TextMoves
<1>7. CASE Splitter!EntersLineComment
  <2>1. /\ in_line_comment' = TRUE /\ in_block_comment' = in_block_comment
        /\ Splitter!Kind(script, index) = "line comment"
    BY <1>4, <1>7, ReadRightly, Kinds DEF Splitter!EntersLineComment
  <2>2. ~Splitter!MayEnd(script, index, index)
    BY <1>3, <1>7, <2>1, Ends
  <2>3. \A j \in DOMAIN script : index <= j /\ j <= (index + 2) - 2 =>
          ~Splitter!MayEnd(script, index, j)
    <3> SUFFICES ASSUME NEW j \in DOMAIN script, index <= j, j <= (index + 2) - 2
                 PROVE  ~Splitter!MayEnd(script, index, j)
      OBVIOUS
    <3>1. j = index
      BY <1>2
    <3> QED  BY <2>2, <3>1
  <2>4. Within(script, index, "line comment", (index + 2) - 2)
    BY <1>4, <2>1, <2>3 DEF Within
  <2>6. index + 2 <= index + 2
    BY <1>2
  <2>5. ModeInv'
    BY <1>1, <1>2, <2>1, <2>4, <2>6 DEF ModeInv, Within
  <2> QED  BY <1>5, <1>6, <2>1, <2>2, <2>5
<1>8. CASE Splitter!EntersBlockComment
  <2>1. /\ in_block_comment' = TRUE /\ in_line_comment' = in_line_comment
        /\ Splitter!Kind(script, index) = "block comment"
    BY <1>8, Kinds DEF Splitter!EntersBlockComment
  <2>2. \A j \in DOMAIN script : index <= j /\ j <= index + 2 => ~Splitter!MayEnd(script, index, j)
    <3> SUFFICES ASSUME NEW j \in DOMAIN script, index <= j, j <= index + 2
                 PROVE  ~Splitter!MayEnd(script, index, j)
      OBVIOUS
    <3>1. ~(j >= index + 3)
      BY <1>2
    <3> QED  BY <2>1, <3>1, Ends
  <2>3. ~Splitter!MayEnd(script, index, index)
    <3>1. index <= index /\ index <= index + 2
      BY <1>2
    <3> QED  BY <1>2, <2>2, <3>1
  <2>4. Within(script, index, "block comment", index + 2)
    BY <1>4, <2>1, <2>2 DEF Within
  <2>6. index + 2 <= index + 2
    BY <1>2
  <2>5. ModeInv'
    BY <1>1, <1>2, <2>1, <2>4, <2>6 DEF ModeInv, Within
  <2> QED  BY <1>5, <1>6, <2>1, <2>3, <2>5
<1> QED  BY <1>7, <1>8

\* The statement that ends at index follows the ones before it.
LEMMA StatementAppended ==
  ASSUME ScanTypeOK, TextInv, Splitter!AppendStatement
  PROVE  /\ statements' \in Seq(SUBSET Nat)
         /\ {statements'[i] : i \in DOMAIN statements'} =
              (Ended(script, index) \cup {Splitter!Strip(script, Kept(script, index))}) \ {{}}
         /\ \A i \in DOMAIN statements' :
              \/ statements'[i] \subseteq Kept(script, index)
              \/ \E s \in Splitter!Separators(script) : s < index /\ \A k \in statements'[i] : k < s
         /\ \A i, j \in DOMAIN statements' : i < j =>
              \A k \in statements'[i], l \in statements'[j] : k < l
<1> DEFINE last == Splitter!Strip(script, Kept(script, index))
<1>1. statements' = IF last = {} THEN statements ELSE Append(statements, last)
  BY DEF TextInv, Splitter!AppendStatement
<1>2. last \subseteq Kept(script, index) /\ Kept(script, index) \subseteq Nat
  <2>1. last \subseteq Kept(script, index)
    BY DEF Splitter!Strip
  <2>2. buffer = Kept(script, index) /\ buffer \subseteq Nat
    BY DEF TextInv, ScanTypeOK
  <2> QED  BY <2>1, <2>2
<1>3. {} \notin Ended(script, index)
  BY DEF Ended
<1>4. /\ statements \in Seq(SUBSET Nat) /\ Len(statements) \in Nat
      /\ DOMAIN statements = 1 .. Len(statements)
      /\ \A i \in DOMAIN statements : statements[i] \subseteq Nat
  <2>1. statements \in Seq(SUBSET Nat)
    BY DEF ScanTypeOK
  <2> QED  BY <2>1, LenProperties, ElementOfSeq
<1>5. /\ {statements[i] : i \in DOMAIN statements} = Ended(script, index)
      /\ \A i \in DOMAIN statements : \E s \in Splitter!Separators(script) :
           s < index /\ \A k \in statements[i] : k < s
      /\ \A i, j \in DOMAIN statements : i < j =>
           \A k \in statements[i], l \in statements[j] : k < l
  BY DEF TextInv
<1> HIDE DEF last
<1>6. CASE last = {}
  <2>1. statements' = statements
    BY <1>1, <1>6
  <2>2. Ended(script, index) = (Ended(script, index) \cup {last}) \ {{}}
    BY <1>3, <1>6
  <2> QED  BY <1>4, <1>5, <2>1, <2>2 DEF last
<1>7. CASE last # {}
  <2> DEFINE n == Len(statements) + 1
  <2>1. statements' = Append(statements, last) /\ last \in SUBSET Nat
    BY <1>1, <1>2, <1>7
  <2>2. /\ statements' \in Seq(SUBSET Nat) /\ DOMAIN statements' = DOMAIN statements \cup {n}
        /\ n \notin DOMAIN statements /\ statements'[n] = last
        /\ \A i \in DOMAIN statements : statements'[i] = statements[i] /\ i < n
    BY <1>4, <2>1
  <2> HIDE DEF n
  <2>3. {statements'[i] : i \in DOMAIN statements'} = {statements[i] : i \in DOMAIN statements} \cup {last}
    BY <2>2
  <2>4. {statements'[i] : i \in DOMAIN statements'} = (Ended(script, index) \cup {last}) \ {{}}
    BY <1>3, <1>5, <1>7, <2>3
  <2>5. \A i \in DOMAIN statements' :
          \/ statements'[i] \subseteq Kept(script, index)
          \/ \E s \in Splitter!Separators(script) : s < index /\ \A k \in statements'[i] : k < s
    BY <1>2, <1>5, <2>2
  <2>6. ASSUME NEW i \in DOMAIN statements', NEW j \in DOMAIN statements', i < j,
               NEW k \in statements'[i], NEW l \in statements'[j]
        PROVE  k < l
    <3>1. CASE i \in DOMAIN statements /\ j \in DOMAIN statements
      BY <1>5, <2>2, <2>6, <3>1
    <3>2. CASE i \in DOMAIN statements /\ j = n
      <4>1. PICK s \in Splitter!Separators(script) : s < index /\ k < s
        BY <1>5, <2>2, <2>6, <3>2
      <4>2. l \in Kept(script, index)
        BY <1>2, <2>2, <2>6, <3>2
      <4>3. s < l
        BY <4>1, <4>2 DEF Kept, Splitter!Text
      <4>4. s \in Nat
        <5>1. IsScript(script)
          BY DEF ScanTypeOK
        <5> QED  BY <5>1, ScriptTyped, TokensClosed DEF Splitter!Separators
      <4>5. k \in Nat /\ l \in Nat
        BY <1>2, <1>4, <2>2, <2>6, <3>2, <4>2
      <4> QED  BY <4>1, <4>3, <4>4, <4>5
    <3>3. CASE i = n
      <4>1. i \in Nat /\ j \in Nat /\ ~(i < j)
        BY <1>4, <2>2, <3>3 DEF n
      <4> QED  BY <2>6, <4>1
    <3> QED  BY <2>2, <3>1, <3>2, <3>3
  <2> QED  BY <2>2, <2>4, <2>5, <2>6 DEF last
<1> QED  BY <1>6, <1>7

LEMMA SeparatorStep ==
  ASSUME Scanning, ~in_line_comment, ~in_block_comment, Splitter!AtSeparator
  PROVE  ModeInv' /\ TextInv' /\ statements' \in Seq(SUBSET Nat)
<1>1. /\ quote = Splitter!NoQuote /\ script[index] = ";" /\ Splitter!AppendStatement
      /\ UNCHANGED <<script, quote, in_line_comment, in_block_comment>>
      /\ index' = index + 1 /\ buffer' = {}
  BY DEF Splitter!AtSeparator, Splitter!Goes, Splitter!mode
<1>2. index \in Nat /\ index \in DOMAIN script /\ IsScript(script) /\ Len(script) \in Nat
      /\ index <= Len(script) /\ DOMAIN script = 1 .. Len(script)
      /\ Splitter!Tokens(script) \subseteq DOMAIN script
  BY Position
<1>3. index \in Splitter!Tokens(script)
  <2>1. index # Len(script) + 1
    BY <1>2
  <2> QED  BY <1>1, <2>1 DEF Scanning, ModeInv
<1>4. Splitter!Kind(script, index) = "separator"
  BY <1>1, Kinds
<1>5. index + 1 = Len(script) + 1 \/ index + 1 \in Splitter!Tokens(script)
  BY <1>2, <1>3, <1>4, OneCharacter
<1>6. ModeInv'
  BY <1>1, <1>5 DEF ModeInv
<1>7. index \in Splitter!Separators(script)
  BY <1>3, <1>4 DEF Splitter!Separators
<1>8. /\ Kept(script, index + 1) = {}
      /\ Ended(script, index + 1) =
           (Ended(script, index) \cup {Splitter!Strip(script, Kept(script, index))}) \ {{}}
  BY <1>2, <1>7, TextBegins
<1>9. ScanTypeOK /\ TextInv
  BY DEF Scanning
<1>10. /\ statements' \in Seq(SUBSET Nat)
       /\ {statements'[i] : i \in DOMAIN statements'} = Ended(script, index + 1)
       /\ \A i \in DOMAIN statements' :
            \/ statements'[i] \subseteq Kept(script, index)
            \/ \E s \in Splitter!Separators(script) : s < index /\ \A k \in statements'[i] : k < s
       /\ \A i, j \in DOMAIN statements' : i < j =>
            \A k \in statements'[i], l \in statements'[j] : k < l
  BY <1>1, <1>8, <1>9, StatementAppended
<1>11. \A k \in Kept(script, index) : k < index
  BY <1>2 DEF Kept, Splitter!Text
<1>12. \A s \in Splitter!Separators(script) : s < index => s < index + 1
  BY <1>2 DEF Splitter!Separators
<1>13. \A i \in DOMAIN statements' : \E s \in Splitter!Separators(script) :
         s < index + 1 /\ \A k \in statements'[i] : k < s
  <2> TAKE i \in DOMAIN statements'
  <2>1. index < index + 1
    BY <1>2
  <2>2. CASE statements'[i] \subseteq Kept(script, index)
    <3>1. \A k \in statements'[i] : k < index
      BY <1>11, <2>2
    <3> QED  BY <1>7, <2>1, <3>1
  <2> QED  BY <1>10, <1>12, <2>2
<1>14. TextInv'
  BY <1>1, <1>8, <1>10, <1>13 DEF TextInv
<1> QED  BY <1>6, <1>10, <1>14

\* What has been listed when the script has been read is what SQL says.
LEMMA ReturnStep ==
  ASSUME ScanTypeOK, TextInv, Splitter!Return
  PROVE  Splitter!SplitsStatements' /\ statements' \in Seq(SUBSET Nat)
<1>1. Splitter!AppendStatement /\ UNCHANGED <<script, index>> /\ index > Len(script)
  BY DEF Splitter!Return
<1>2. IsScript(script) /\ index \in Nat /\ Len(script) \in Nat /\ index = Len(script) + 1
      /\ DOMAIN script = 1 .. Len(script) /\ Splitter!Tokens(script) \subseteq DOMAIN script
  <2>1. IsScript(script) /\ index \in Nat /\ index <= Len(script) + 1
    BY DEF ScanTypeOK
  <2> QED  BY <1>1, <2>1, ScriptTyped, TokensClosed
<1>3. {s \in Splitter!Separators(script) : s < index} = Splitter!Separators(script)
  BY <1>2 DEF Splitter!Separators
<1>4. Splitter!Statements(script) =
      {Splitter!Strip(script, Kept(script, c)) :
         c \in Splitter!Separators(script) \cup {index}} \ {{}}
  BY <1>2 DEF Splitter!Statements, Kept
<1>5. Ended(script, index) =
      {Splitter!Strip(script, Kept(script, c)) : c \in Splitter!Separators(script)} \ {{}}
  BY <1>3 DEF Ended
<1>6. Splitter!Statements(script) =
        (Ended(script, index) \cup {Splitter!Strip(script, Kept(script, index))}) \ {{}}
  BY <1>4, <1>5
<1>7. /\ statements' \in Seq(SUBSET Nat)
      /\ {statements'[i] : i \in DOMAIN statements'} = Splitter!Statements(script)
      /\ \A i, j \in DOMAIN statements' : i < j =>
           \A k \in statements'[i], l \in statements'[j] : k < l
  BY <1>1, <1>6, StatementAppended
<1>8. Splitter!Range(statements') = Splitter!Statements(script')
  BY <1>1, <1>7 DEF Splitter!Range
<1> QED  BY <1>7, <1>8 DEF Splitter!SplitsStatements

LEMMA Unstarted ==
  ASSUME NEW sql, IsScript(sql)
  PROVE  /\ 1 = Len(sql) + 1 \/ 1 \in Splitter!Tokens(sql)
         /\ Kept(sql, 1) = {} /\ Ended(sql, 1) = {}
<1>1. Len(sql) \in Nat /\ DOMAIN sql = 1 .. Len(sql) /\ Splitter!Tokens(sql) \subseteq DOMAIN sql
  BY ScriptTyped, TokensClosed
<1>2. 1 = Len(sql) + 1 \/ 1 \in Splitter!Tokens(sql)
  BY <1>1, TokensClosed
<1>3. Kept(sql, 1) = {}
  BY DEF Kept, Splitter!Text
<1>4. {s \in Splitter!Separators(sql) : s < 1} = {}
  BY <1>1 DEF Splitter!Separators
<1>5. Ended(sql, 1) = {}
  BY <1>4 DEF Ended
<1> QED  BY <1>2, <1>3, <1>5

LEMMA LoopStep ==
  ASSUME SplitInv, Splitter!Step
  PROVE  SplitInv'
<1>1. ScanTypeOK /\ script' = script /\ done' = done /\ index <= Len(script) /\ ~done
      /\ index' \in {index + 1, index + 2}
  <2>1. ScanTypeOK /\ index <= Len(script)
    BY DEF SplitInv, Splitter!Step
  <2>2. ~done
    BY <2>1, ScriptTyped DEF ScanTypeOK
  <2>3. \E n \in {1, 2} : Splitter!Goes(n)
    BY DEF Splitter!Step, Splitter!InLineComment, Splitter!InBlockComment, Splitter!AtQuote,
           Splitter!EntersLineComment, Splitter!EntersBlockComment, Splitter!AtSeparator,
           Splitter!AtCharacter
  <2> QED  BY <2>1, <2>2, <2>3 DEF Splitter!Goes
<1>2. IsScript(script) /\ index \in Nat /\ Len(script) \in Nat /\ index # 0
      /\ DOMAIN script = 1 .. Len(script) /\ index \in DOMAIN script
  BY <1>1, ScriptTyped DEF ScanTypeOK
<1>3. index' \in Nat \ {0} /\ index' # 1
  BY <1>1, <1>2
<1>4. index' <= Len(script) + 1
  <2>1. index + 1 <= Len(script) + 1
    BY <1>1, <1>2
  <2>2. ASSUME index + 1 \in DOMAIN script PROVE index + 2 <= Len(script) + 1
    BY <1>2, <2>2
  <2>3. CASE index' = index + 1
    BY <2>1, <2>3
  <2>4. CASE index' # index + 1
    <3>1. index + 1 \in DOMAIN script
      BY <1>1, <1>2, <2>4 DEF Splitter!Step, Splitter!InLineComment, Splitter!InBlockComment,
           Splitter!AtQuote, Splitter!EntersLineComment, Splitter!EntersBlockComment,
           Splitter!AtSeparator, Splitter!AtCharacter, Splitter!Goes,
           Splitter!StartsLineComment, Splitter!StartsBlockComment, Splitter!CharAt
    <3> QED  BY <1>1, <2>2, <2>4, <3>1
  <2> QED  BY <2>3, <2>4
<1>5. buffer' \subseteq Nat
  <2>1. buffer \subseteq Nat
    BY <1>1 DEF ScanTypeOK
  <2>2. buffer' \in {buffer, buffer \cup {index}, {}}
    BY DEF Splitter!Step, Splitter!InLineComment, Splitter!InBlockComment,
           Splitter!AtQuote, Splitter!EntersLineComment, Splitter!EntersBlockComment,
           Splitter!AtSeparator, Splitter!AtCharacter, Splitter!Keep
  <2> QED  BY <1>2, <2>1, <2>2
<1>6. statements' \in Seq(SUBSET Nat)
  <2>1. statements \in Seq(SUBSET Nat) /\ buffer \subseteq Nat
    BY <1>1 DEF ScanTypeOK
  <2>2. Splitter!Strip(script, buffer) \in SUBSET Nat
    BY <2>1 DEF Splitter!Strip
  <2>3. statements' \in {statements, Append(statements, Splitter!Strip(script, buffer))}
    BY DEF Splitter!Step, Splitter!InLineComment, Splitter!InBlockComment,
           Splitter!AtQuote, Splitter!EntersLineComment, Splitter!EntersBlockComment,
           Splitter!AtSeparator, Splitter!AtCharacter, Splitter!AppendStatement, Splitter!mode
  <2> QED  BY <2>1, <2>2, <2>3
<1>7. ScanTypeOK'
  BY <1>1, <1>2, <1>3, <1>4, <1>5, <1>6 DEF ScanTypeOK
<1>8. ASSUME ~Splitter!Misread(script) PROVE ModeInv' /\ TextInv'
  <2>1. Scanning
    BY <1>1, <1>8 DEF SplitInv, Scanning
  <2>2. CASE in_line_comment /\ Splitter!InLineComment
    BY <2>1, <2>2, LineCommentStep
  <2>3. CASE ~in_line_comment /\ in_block_comment /\ Splitter!InBlockComment
    BY <2>1, <2>3, BlockCommentStep
  <2>4. CASE ~in_line_comment /\ ~in_block_comment
             /\ (Splitter!EntersLineComment \/ Splitter!EntersBlockComment)
    BY <2>1, <2>4, CommentStep
  <2>5. CASE ~in_line_comment /\ ~in_block_comment /\ Splitter!AtQuote
    BY <2>1, <2>5, QuoteStep
  <2>6. CASE ~in_line_comment /\ ~in_block_comment /\ Splitter!AtSeparator
    BY <2>1, <2>6, SeparatorStep
  <2>7. CASE ~in_line_comment /\ ~in_block_comment /\ Splitter!AtCharacter
    BY <2>1, <2>7, CharacterStep
  <2> QED  BY <2>2, <2>3, <2>4, <2>5, <2>6, <2>7 DEF Splitter!Step
<1> QED  BY <1>1, <1>3, <1>7, <1>8 DEF SplitInv

\* Between the tokens of the script, or inside the one that its variables name, the splitter
\* has kept in its buffer and its statements exactly the text that it has read.
THEOREM SplitterInvariance == Splitter!Spec => []SplitInv
<1>1. Splitter!Init => SplitInv
  <2> SUFFICES ASSUME Splitter!Init PROVE SplitInv
    OBVIOUS
  <2>1. /\ script = << >> /\ index = 1 /\ statements = << >> /\ buffer = {}
        /\ quote = Splitter!NoQuote /\ in_line_comment = FALSE /\ in_block_comment = FALSE
        /\ done = FALSE
    BY DEF Splitter!Init
  <2>2. IsScript(script) /\ Len(script) = 0 /\ statements \in Seq(SUBSET Nat)
    BY <2>1 DEF IsScript
  <2>3. ScanTypeOK
    BY <2>1, <2>2 DEF ScanTypeOK
  <2>4. Unread
    BY <2>1 DEF Unread
  <2>5. ModeInv /\ TextInv
    BY <2>1, <2>2, Unstarted DEF ModeInv, TextInv
  <2> QED  BY <2>1, <2>3, <2>4, <2>5 DEF SplitInv
<1>2. SplitInv /\ [Splitter!Next]_(Splitter!scriptVars) => SplitInv'
  <2> SUFFICES ASSUME SplitInv, [Splitter!Next]_(Splitter!scriptVars) PROVE SplitInv'
    OBVIOUS
  <2>1. CASE Splitter!Write
    <3>1. PICK c \in Characters : script' = Append(script, c)
      BY <2>1 DEF Splitter!Write
    <3>2. /\ index = 1 /\ ~done /\ ScanTypeOK /\ Unread
          /\ UNCHANGED <<index, statements, buffer, quote, in_line_comment, in_block_comment, done>>
      BY <2>1 DEF SplitInv, Splitter!Write, Splitter!mode
    <3>3. IsScript(script') /\ Len(script') \in Nat
      <4>1. IsScript(script)
        BY <3>2 DEF ScanTypeOK
      <4>2. IsScript(script')
        BY <3>1, <4>1 DEF IsScript
      <4> QED  BY <4>2, ScriptTyped
    <3>4. ScanTypeOK' /\ Unread'
      BY <3>2, <3>3 DEF ScanTypeOK, Unread
    <3>5. /\ 1 = Len(script') + 1 \/ 1 \in Splitter!Tokens(script')
          /\ Kept(script', 1) = {} /\ Ended(script', 1) = {}
      BY <3>3, Unstarted
    <3>7. ModeInv'
      BY <3>2, <3>5 DEF Unread, ModeInv
    <3>8. statements' = << >> /\ DOMAIN statements' = {}
      BY <3>2 DEF Unread
    <3>9. buffer' = Kept(script', index')
      BY <3>2, <3>5 DEF Unread
    <3>10. {statements'[i] : i \in DOMAIN statements'} = Ended(script', index')
      BY <3>2, <3>5, <3>8
    <3>6. ModeInv' /\ TextInv'
      BY <3>7, <3>8, <3>9, <3>10 DEF TextInv
    <3> QED  BY <3>2, <3>4, <3>6 DEF SplitInv
  <2>2. CASE Splitter!Step
    BY <2>2, LoopStep
  <2>3. CASE Splitter!Return
    <3>1. /\ ScanTypeOK /\ ~done /\ done' = TRUE /\ index > Len(script)
          /\ UNCHANGED <<script, index, buffer, quote, in_line_comment, in_block_comment>>
          /\ Splitter!AppendStatement
      BY <2>3 DEF SplitInv, Splitter!Return, Splitter!mode
    <3>2. ASSUME ~Splitter!Misread(script) PROVE Splitter!SplitsStatements'
      BY <2>3, <3>1, <3>2, ReturnStep DEF SplitInv
    <3>3. statements' \in Seq(SUBSET Nat)
      <4>1. statements \in Seq(SUBSET Nat) /\ Splitter!Strip(script, buffer) \in SUBSET Nat
        BY <3>1 DEF ScanTypeOK, Splitter!Strip
      <4> QED  BY <3>1, <4>1 DEF Splitter!AppendStatement
    <3>4. ScanTypeOK'
      BY <3>1, <3>3 DEF ScanTypeOK
    <3>5. index' = 1 => Unread'
      <4> SUFFICES ASSUME index = 1 PROVE Unread'
        BY <3>1
      <4>1. Unread
        BY DEF SplitInv
      <4>2. statements' = << >>
        BY <3>1, <4>1 DEF Unread, Splitter!AppendStatement, Splitter!Strip
      <4> QED  BY <3>1, <4>1, <4>2 DEF Unread
    <3> QED  BY <3>1, <3>2, <3>4, <3>5 DEF SplitInv
  <2>4. CASE Splitter!Stay \/ UNCHANGED Splitter!scriptVars
    <3>1. UNCHANGED <<script, index, statements, buffer, quote, in_line_comment, in_block_comment, done>>
      BY <2>4 DEF Splitter!Stay, Splitter!scriptVars, Splitter!mode
    <3>2. ScanTypeOK' = ScanTypeOK /\ Unread' = Unread /\ ModeInv' = ModeInv /\ TextInv' = TextInv
          /\ Splitter!SplitsStatements' = Splitter!SplitsStatements
      BY <3>1 DEF ScanTypeOK, Unread, ModeInv, TextInv, Splitter!SplitsStatements
    <3> QED  BY <3>1, <3>2 DEF SplitInv
  <2> QED  BY <2>1, <2>2, <2>3, <2>4 DEF Splitter!Next
<1> QED  BY <1>1, <1>2, PTL DEF Splitter!Spec

\* split_sql_statements() cuts every script, however long, exactly where SQL ends a statement.
THEOREM ScriptsAreSplit == Splitter!Spec => []SplitsStatements
<1>1. SplitInv => SplitsStatements
  BY DEF SplitInv, ScanTypeOK, SplitsStatements, Splitter!SplitsStatements
<1> QED  BY <1>1, SplitterInvariance, PTL

-----------------------------------------------------------------------------
(* EnvFile, for values of any length: places in a line and parts of it.    *)

\* What a line is made of.
Chars == Letters \cup {"double", "single", "backslash", "n"}

LEMMA LeastPlace ==
  ASSUME NEW P, P \subseteq Nat, P # {}
  PROVE  Values!Min(P) \in P /\ \A y \in P : Values!Min(P) <= y
<1>1. PICK x \in P : \A y \in P : ~(<<y, x>> \in OpToRel(<, Nat))
  BY NatLessThanWellFounded, WFMin
<1>2. \A y \in P : x <= y
  <2> SUFFICES ASSUME NEW y \in P PROVE ~(y < x)
    OBVIOUS
  <2>1. y < x => <<y, x>> \in OpToRel(<, Nat)
    BY DEF OpToRel
  <2> QED  BY <1>1, <2>1
<1> QED  BY <1>2 DEF Values!Min

LEMMA GreatestPlace ==
  ASSUME NEW n \in Nat, NEW P, P \subseteq 1 .. n, P # {}
  PROVE  Values!Max(P) \in P /\ \A y \in P : y <= Values!Max(P)
<1> DEFINE Q == {n - y : y \in P}
<1>1. Q \subseteq Nat /\ Q # {}
  <2>1. \A y \in P : y \in 1 .. n
    OBVIOUS
  <2>2. \A y \in 1 .. n : n - y \in Nat
    OBVIOUS
  <2>3. \A y \in P : n - y \in Nat
    BY <2>1, <2>2
  <2> QED  BY <2>3
<1>2. Values!Min(Q) \in Q /\ \A z \in Q : Values!Min(Q) <= z
  <2> HIDE DEF Q
  <2> QED  BY <1>1, LeastPlace
<1>3. PICK x \in P : Values!Min(Q) = n - x
  BY <1>2
<1>4. \A y \in P : y <= x
  <2> SUFFICES ASSUME NEW y \in P PROVE y <= x
    OBVIOUS
  <2>1. n - x <= n - y
    BY <1>2, <1>3
  <2>2. x \in Nat /\ y \in Nat
    OBVIOUS
  <2> QED  BY <2>1, <2>2
<1>5. \A y \in P : x >= y
  BY <1>4
<1>6. \E z \in P : \A y \in P : z >= y
  BY <1>5
<1>7. Values!Max(P) \in P /\ \A y \in P : Values!Max(P) >= y
  <2> HIDE DEF Q
  <2> QED  BY <1>6, Zenon DEF Values!Max
<1> QED  BY <1>7

\* A value that begins without a blank loses those at its end.
LEMMA StripsEnd ==
  ASSUME NEW S, NEW v \in Seq(S), v # << >>, v[1] # "space"
  PROVE  \E m \in 1 .. Len(v) :
           /\ Values!Strip(v) = SubSeq(v, 1, m) /\ v[m] # "space"
           /\ \A i \in m + 1 .. Len(v) : v[i] = "space"
<1> DEFINE kept == {i \in DOMAIN v : v[i] # "space"}
<1>1. Len(v) \in Nat /\ Len(v) # 0 /\ DOMAIN v = 1 .. Len(v)
  BY EmptySeq, LenProperties
<1>2. kept \subseteq 1 .. Len(v) /\ kept \subseteq Nat /\ 1 \in kept
  BY <1>1
<1>3. Values!Strip(v) = IF kept = {} THEN << >> ELSE SubSeq(v, Values!Min(kept), Values!Max(kept))
  BY DEF Values!Strip
<1>4. Values!Min(kept) = 1
  <2>1. Values!Min(kept) \in kept /\ Values!Min(kept) <= 1
    <3> HIDE DEF kept
    <3> QED  BY <1>2, LeastPlace
  <2>2. Values!Min(kept) \in 1 .. Len(v)
    BY <1>2, <2>1
  <2> QED  BY <1>1, <2>1, <2>2
<1>5. Values!Max(kept) \in kept /\ \A i \in kept : i <= Values!Max(kept)
  <2> HIDE DEF kept
  <2> QED  BY <1>1, <1>2, GreatestPlace
<1> DEFINE m == Values!Max(kept)
<1>6. m \in 1 .. Len(v) /\ v[m] # "space"
  BY <1>1, <1>5
<1>7. \A i \in m + 1 .. Len(v) : v[i] = "space"
  <2> SUFFICES ASSUME NEW i \in m + 1 .. Len(v), v[i] # "space" PROVE FALSE
    OBVIOUS
  <2>1. m \in Nat
    BY <1>6
  <2> HIDE DEF m
  <2>2. i \in 1 .. Len(v) /\ ~(i <= m)
    BY <1>1, <2>1
  <2> QED  BY <1>1, <1>5, <2>2 DEF m
<1>8. Values!Strip(v) = SubSeq(v, 1, m)
  BY <1>2, <1>3, <1>4
<1> QED  BY <1>6, <1>7, <1>8

\* What is left of a value begins with its first character that is not blank.
LEMMA StripsBegin ==
  ASSUME NEW S, NEW v \in Seq(S), Values!Strip(v) # << >>
  PROVE  /\ \E i \in 1 .. Len(v) :
           /\ v[i] # "space" /\ Values!Strip(v)[1] = v[i]
           /\ \A j \in 1 .. i - 1 : v[j] = "space"
         /\ Values!Strip(v) \in Seq(S)
<1> DEFINE kept == {i \in DOMAIN v : v[i] # "space"}
           least == Values!Min(kept)
           greatest == Values!Max(kept)
<1>1. Len(v) \in Nat /\ DOMAIN v = 1 .. Len(v) /\ \A i \in 1 .. Len(v) : v[i] \in S
  BY LenProperties, ElementOfSeq
<1>2. Values!Strip(v) = IF kept = {} THEN << >> ELSE SubSeq(v, least, greatest)
  BY DEF Values!Strip
<1>3. kept \subseteq 1 .. Len(v) /\ kept \subseteq Nat /\ kept # {}
  BY <1>1, <1>2
<1>4. /\ least \in kept /\ \A i \in kept : least <= i
      /\ greatest \in kept /\ \A i \in kept : i <= greatest
  <2> HIDE DEF kept
  <2> QED  BY <1>1, <1>3, LeastPlace, GreatestPlace
<1>5. least \in 1 .. Len(v) /\ v[least] # "space" /\ greatest \in 1 .. Len(v) /\ least <= greatest
  BY <1>1, <1>4
<1> HIDE DEF least, greatest
<1>6. \A j \in 1 .. least - 1 : v[j] = "space"
  <2> SUFFICES ASSUME NEW j \in 1 .. least - 1, v[j] # "space" PROVE FALSE
    OBVIOUS
  <2>1. j \in 1 .. Len(v) /\ ~(least <= j)
    BY <1>1, <1>5
  <2> QED  BY <1>1, <1>4, <2>1
<1>7. SubSeq(v, least, greatest)[1] = v[least] /\ SubSeq(v, least, greatest) \in Seq(S)
  <2>1. least \in Int /\ greatest \in Int /\ 1 \in 1 .. greatest - least + 1 /\ least + 1 - 1 = least
    BY <1>1, <1>5
  <2>2. \A i \in least .. greatest : v[i] \in S
    BY <1>1, <1>5
  <2>3. /\ SubSeq(v, least, greatest) \in Seq(S)
        /\ \A i \in 1 .. greatest - least + 1 : SubSeq(v, least, greatest)[i] = v[least + i - 1]
    BY <2>1, <2>2, SubSeqProperties
  <2> QED  BY <2>1, <2>3
<1> QED  BY <1>2, <1>3, <1>5, <1>6, <1>7

\* A part of a sequence, place by place.
LEMMA Part ==
  ASSUME NEW S, NEW v \in Seq(S), NEW a \in 1 .. Len(v) + 1, NEW b \in a - 1 .. Len(v)
  PROVE  /\ SubSeq(v, a, b) \in Seq(S) /\ Len(SubSeq(v, a, b)) = b - a + 1
         /\ DOMAIN SubSeq(v, a, b) = 1 .. b - a + 1
         /\ \A i \in 1 .. b - a + 1 : SubSeq(v, a, b)[i] = v[a + i - 1]
<1>1. Len(v) \in Nat /\ a \in Int /\ b \in Int /\ a - 1 <= b
  BY LenProperties
<1>2. \A i \in a .. b : v[i] \in S
  <2> SUFFICES ASSUME NEW i \in a .. b PROVE v[i] \in S
    OBVIOUS
  <2>1. i \in 1 .. Len(v)
    BY <1>1
  <2> QED  BY <2>1, ElementOfSeq
<1>3. /\ SubSeq(v, a, b) \in Seq(S)
      /\ Len(SubSeq(v, a, b)) = IF a <= b THEN b - a + 1 ELSE 0
      /\ \A i \in 1 .. b - a + 1 : SubSeq(v, a, b)[i] = v[a + i - 1]
  BY <1>1, <1>2, SubSeqProperties
<1>4. Len(SubSeq(v, a, b)) = b - a + 1
  BY <1>1, <1>3
<1> QED  BY <1>3, <1>4, LenProperties

-----------------------------------------------------------------------------
(* EnvFile: escapes.                                                       *)

Run(v, i) == {k \in 1 .. i - 1 : \A m \in k .. i - 1 : v[m] = "backslash"}

LEMMA EscapedByRun ==
  ASSUME NEW v, NEW i
  PROVE  Values!EscapedByBackslash(v, i) <=> Cardinality(Run(v, i)) % 2 = 1
BY DEF Values!EscapedByBackslash, Run, Values!Cardinality, Cardinality

LEMMA EscapedSame ==
  ASSUME NEW v, NEW w, NEW i \in Nat, \A m \in 1 .. i - 1 : v[m] = w[m]
  PROVE  Values!EscapedByBackslash(v, i) <=> Values!EscapedByBackslash(w, i)
<1>1. ASSUME NEW k \in 1 .. i - 1
      PROVE  (\A m \in k .. i - 1 : v[m] = "backslash") <=> (\A m \in k .. i - 1 : w[m] = "backslash")
  <2>1. \A m \in k .. i - 1 : m \in 1 .. i - 1
    OBVIOUS
  <2> QED  BY <2>1
<1>2. Run(v, i) = Run(w, i)
  BY <1>1 DEF Run
<1> QED  BY <1>2, EscapedByRun

LEMMA NotEscaped ==
  ASSUME NEW v, NEW i \in Nat \ {0}, i # 1 => v[i - 1] # "backslash"
  PROVE  ~Values!EscapedByBackslash(v, i)
<1>1. Run(v, i) = {}
  <2> SUFFICES ASSUME NEW k \in 1 .. i - 1, \A m \in k .. i - 1 : v[m] = "backslash" PROVE FALSE
    BY DEF Run
  <2>1. i - 1 \in k .. i - 1 /\ i # 1
    OBVIOUS
  <2> QED  BY <2>1
<1>2. Cardinality(Run(v, i)) = 0
  BY <1>1, FS_EmptySet
<1> QED  BY <1>2, EscapedByRun

LEMMA EscapedNext ==
  ASSUME NEW v, NEW i \in Nat \ {0}, v[i] = "backslash"
  PROVE  Values!EscapedByBackslash(v, i + 1) <=> ~Values!EscapedByBackslash(v, i)
<1>1. ASSUME NEW k PROVE k \in Run(v, i + 1) <=> k \in Run(v, i) \cup {i}
  <2>1. CASE k \in 1 .. i - 1
    <3>1. \A m : m \in k .. (i + 1) - 1 <=> m \in k .. i - 1 \/ m = i
      BY <2>1
    <3>2. k \in 1 .. (i + 1) - 1 /\ k # i
      BY <2>1
    <3> QED  BY <2>1, <3>1, <3>2 DEF Run
  <2>2. CASE k = i
    <3>1. \A m \in k .. (i + 1) - 1 : m = i
      BY <2>2
    <3>2. k \in 1 .. (i + 1) - 1
      BY <2>2
    <3> QED  BY <2>2, <3>1, <3>2 DEF Run
  <2>3. CASE k \notin 1 .. i - 1 /\ k # i
    <3>1. k \notin 1 .. (i + 1) - 1
      BY <2>3
    <3> QED  BY <2>3, <3>1 DEF Run
  <2> QED  BY <2>1, <2>2, <2>3
<1>2. Run(v, i + 1) = Run(v, i) \cup {i}
  BY <1>1
<1>3. i \notin Run(v, i) /\ Run(v, i) \subseteq 1 .. i - 1
  BY DEF Run
<1>4. IsFiniteSet(Run(v, i))
  <2>1. IsFiniteSet(1 .. i - 1)
    BY FS_Interval
  <2> QED  BY <1>3, <2>1, FS_Subset
<1>5. Cardinality(Run(v, i + 1)) = Cardinality(Run(v, i)) + 1 /\ Cardinality(Run(v, i)) \in Nat
  BY <1>2, <1>3, <1>4, FS_AddElement, FS_CardinalityType
<1>6. (Cardinality(Run(v, i)) + 1) % 2 = 1 <=> ~(Cardinality(Run(v, i)) % 2 = 1)
  BY <1>5
<1> QED  BY <1>5, <1>6, EscapedByRun

-----------------------------------------------------------------------------
(* EnvFile: values in double quotes.                                       *)

\* A character is written at a, up to before b.
Coded(r, a, b, c) ==
  /\ a \in 2 .. Len(r) /\ b \in Nat
  /\ IF c \in {"newline", "double", "backslash"}
     THEN b = a + 2 /\ a + 1 <= Len(r) /\ r[a] = "backslash" /\ Values!Meaning(r[a + 1]) = <<c>>
     ELSE b = a + 1 /\ r[a] = c

Places(r, t, places) ==
  /\ places \in [1 .. Len(t) + 1 -> Nat]
  /\ places[1] = 2 /\ places[Len(t) + 1] = Len(r) + 1
  /\ \A k \in 1 .. Len(t) : Coded(r, places[k], places[k + 1], t[k])

\* r is the text t after a double quote: its quotes are escaped, one that follows is not.
DoubleQuoted(r, t) ==
  /\ r \in Seq(Chars) /\ r # << >> /\ r[1] = "double"
  /\ ~Values!EscapedByBackslash(r, Len(r) + 1)
  /\ \A i \in 2 .. Len(r) : r[i] = "double" => Values!EscapedByBackslash(r, i)
  /\ \E places : Places(r, t, places)

LEMMA Escapes ==
  ASSUME NEW c \in Letters
  PROVE  /\ Values!Escape(c) \in Seq(Chars)
         /\ c \in {"newline", "double", "backslash"} =>
              /\ Len(Values!Escape(c)) = 2 /\ Values!Escape(c)[1] = "backslash"
              /\ Values!Meaning(Values!Escape(c)[2]) = <<c>>
              /\ Values!Escape(c)[2] = (IF c = "newline" THEN "n" ELSE c)
         /\ c \notin {"newline", "double", "backslash"} => Values!Escape(c) = <<c>>
<1>1. CASE c = "newline"
  <2>1. Values!Escape(c) = <<"backslash", "n">>
    BY <1>1 DEF Values!Escape
  <2>2. Values!Meaning("n") = <<"newline">>
    BY DEF Values!Meaning
  <2>3. <<"backslash", "n">> \in Seq(Chars)
    BY DEF Chars
  <2> QED  BY <1>1, <2>1, <2>2, <2>3
<1>2. CASE c \in {"double", "backslash"}
  <2>1. Values!Escape(c) = <<"backslash", c>>
    BY <1>2 DEF Values!Escape
  <2>2. Values!Meaning(c) = <<c>>
    BY <1>2 DEF Values!Meaning
  <2>3. <<"backslash", c>> \in Seq(Chars)
    BY DEF Chars
  <2> QED  BY <1>2, <2>1, <2>2, <2>3
<1>3. CASE c \notin {"newline", "double", "backslash"}
  <2>1. Values!Escape(c) = <<c>>
    BY <1>3 DEF Values!Escape
  <2>2. <<c>> \in Seq(Chars)
    BY DEF Chars
  <2> QED  BY <1>3, <2>1, <2>2
<1> QED  BY <1>1, <1>2, <1>3

LEMMA PlacesGrow ==
  ASSUME NEW r \in Seq(Chars), NEW t \in Seq(Letters), NEW places, Places(r, t, places),
         NEW s \in Seq(Chars), NEW c \in Letters, r # << >>,
         Coded(r \o s, Len(r) + 1, Len(r) + Len(s) + 1, c)
  PROVE  \E q : Places(r \o s, Append(t, c), q)
<1> DEFINE n == Len(t)
           u == Append(t, c)
           w == r \o s
           q == [k \in 1 .. n + 2 |-> IF k = n + 2 THEN Len(w) + 1 ELSE places[k]]
<1>1. Len(r) \in Nat /\ Len(s) \in Nat /\ n \in Nat
  BY LenProperties
<1>2. /\ Len(u) = n + 1 /\ u[n + 1] = c /\ \A k \in 1 .. n : u[k] = t[k]
  BY <1>1
<1>3. /\ Len(w) = Len(r) + Len(s)
      /\ \A i \in 1 .. Len(r) : w[i] = r[i]
  BY <1>1, ConcatProperties
<1>4. /\ places \in [1 .. n + 1 -> Nat] /\ places[1] = 2 /\ places[n + 1] = Len(r) + 1
      /\ \A k \in 1 .. n : Coded(r, places[k], places[k + 1], t[k])
  BY DEF Places
<1> HIDE DEF n, u, w
<1>5. q \in [1 .. Len(u) + 1 -> Nat] /\ q[1] = 2 /\ q[Len(u) + 1] = Len(w) + 1
  BY <1>1, <1>2, <1>3, <1>4
<1>6. \A k \in 1 .. n + 1 : q[k] = places[k]
  BY <1>1
<1>7. q[n + 2] = Len(w) + 1
  BY <1>1
<1> HIDE DEF q
<1>8. ASSUME NEW k \in 1 .. Len(u) PROVE Coded(w, q[k], q[k + 1], u[k])
  <2>1. CASE k = n + 1
    <3>1. q[k] = Len(r) + 1 /\ k + 1 = n + 2 /\ q[k + 1] = Len(r) + Len(s) + 1
      BY <1>1, <1>3, <1>4, <1>6, <1>7, <2>1
    <3> QED  BY <1>2, <2>1, <3>1 DEF w
  <2>2. CASE k \in 1 .. n
    <3>1. k \in 1 .. n + 1 /\ k + 1 \in 1 .. n + 1
      BY <1>1, <2>2
    <3>2. Coded(r, q[k], q[k + 1], u[k])
      BY <1>2, <1>4, <1>6, <2>2, <3>1
    <3> DEFINE a == q[k]
    <3>3. a \in 2 .. Len(r) /\ a \in 1 .. Len(r) /\ a \in Nat /\ a \in 2 .. Len(w)
      BY <1>1, <1>3, <3>2 DEF Coded
    <3>4. w[a] = r[a]
      BY <1>3, <3>3
    <3>5. a + 1 <= Len(r) => a + 1 <= Len(w) /\ w[a + 1] = r[a + 1]
      <4> SUFFICES ASSUME a + 1 <= Len(r) PROVE a + 1 <= Len(w) /\ w[a + 1] = r[a + 1]
        OBVIOUS
      <4>1. a + 1 \in 1 .. Len(r) /\ a + 1 <= Len(w)
        BY <1>1, <1>3, <3>3
      <4> QED  BY <1>3, <4>1
    <3> QED  BY <3>2, <3>3, <3>4, <3>5 DEF Coded
  <2> QED  BY <1>1, <1>2, <2>1, <2>2
<1>9. Places(w, u, q)
  BY <1>5, <1>8 DEF Places
<1> QED  BY <1>9 DEF u, w

LEMMA DoubleGrows ==
  ASSUME NEW r, NEW t \in Seq(Letters), DoubleQuoted(r, t), NEW c \in Letters
  PROVE  DoubleQuoted(r \o Values!Escape(c), Append(t, c))
<1> DEFINE s == Values!Escape(c)
           w == r \o s
           e == Len(r) + 1
<1>1. /\ r \in Seq(Chars) /\ r # << >> /\ r[1] = "double"
      /\ ~Values!EscapedByBackslash(r, e)
      /\ \A i \in 2 .. Len(r) : r[i] = "double" => Values!EscapedByBackslash(r, i)
  BY DEF DoubleQuoted
<1>2. PICK places : Places(r, t, places)
  BY DEF DoubleQuoted
<1>3. s \in Seq(Chars) /\ Len(s) \in Nat /\ Len(r) \in Nat /\ Len(r) >= 1 /\ e \in Nat \ {0} /\ e >= 2
  BY <1>1, Escapes, LenProperties, EmptySeq
<1>4. /\ w \in Seq(Chars) /\ Len(w) = Len(r) + Len(s)
      /\ \A i \in 1 .. Len(r) + Len(s) : w[i] = IF i <= Len(r) THEN r[i] ELSE s[i - Len(r)]
  BY <1>1, <1>3, ConcatProperties
<1>5. \A i \in 1 .. Len(r) : w[i] = r[i]
  BY <1>3, <1>4
<1>6. \A i \in 1 .. e : Values!EscapedByBackslash(w, i) <=> Values!EscapedByBackslash(r, i)
  <2> TAKE i \in 1 .. e
  <2>1. i \in Nat /\ \A m \in 1 .. i - 1 : w[m] = r[m]
    BY <1>3, <1>5
  <2> QED  BY <2>1, EscapedSame
<1>7. ~Values!EscapedByBackslash(w, e)
  BY <1>1, <1>3, <1>6
<1>8. w # << >> /\ w[1] = "double"
  BY <1>1, <1>3, <1>4, <1>5, EmptySeq
<1> HIDE DEF w
<1>9. ASSUME Coded(w, e, Len(r) + Len(s) + 1, c),
             ~Values!EscapedByBackslash(w, Len(w) + 1),
             \A i \in e .. Len(w) : w[i] = "double" => Values!EscapedByBackslash(w, i)
      PROVE  DoubleQuoted(w, Append(t, c))
  <2>1. \E q : Places(w, Append(t, c), q)
    BY <1>1, <1>2, <1>3, <1>9, PlacesGrow DEF w
  <2>2. ASSUME NEW i \in 2 .. Len(w), w[i] = "double" PROVE Values!EscapedByBackslash(w, i)
    <3>1. CASE i \in 2 .. Len(r)
      <4>1. i \in 1 .. Len(r) /\ i \in 1 .. e
        BY <1>3, <3>1
      <4> QED  BY <1>1, <1>5, <1>6, <2>2, <3>1, <4>1
    <3>2. CASE i \in e .. Len(w)
      BY <1>9, <2>2, <3>2
    <3> QED  BY <1>3, <1>4, <3>1, <3>2
  <2> QED  BY <1>4, <1>8, <1>9, <2>1, <2>2 DEF DoubleQuoted
<1>10. CASE c \notin {"newline", "double", "backslash"}
  <2>1. s = <<c>> /\ Len(s) = 1 /\ s[1] = c
    BY <1>10, Escapes
  <2>2. Len(w) = e /\ w[e] = c
    BY <1>3, <1>4, <2>1
  <2>3. Coded(w, e, Len(r) + Len(s) + 1, c)
    BY <1>3, <1>10, <2>1, <2>2 DEF Coded
  <2>4. ~Values!EscapedByBackslash(w, Len(w) + 1)
    <3>1. (e + 1) - 1 = e /\ e + 1 \in Nat \ {0}
      BY <1>3
    <3> QED  BY <1>10, <2>2, <3>1, NotEscaped
  <2>5. \A i \in e .. Len(w) : w[i] # "double"
    BY <1>3, <1>10, <2>2
  <2> QED  BY <1>9, <2>3, <2>4, <2>5 DEF w
<1>11. CASE c \in {"newline", "double", "backslash"}
  <2>1. /\ Len(s) = 2 /\ s[1] = "backslash" /\ Values!Meaning(s[2]) = <<c>>
        /\ s[2] = (IF c = "newline" THEN "n" ELSE c)
    BY <1>11, Escapes
  <2>2. Len(w) = e + 1 /\ w[e] = "backslash" /\ w[e + 1] = s[2]
    <3>1. e - Len(r) = 1 /\ (e + 1) - Len(r) = 2 /\ ~(e <= Len(r)) /\ ~(e + 1 <= Len(r))
          /\ e \in 1 .. Len(r) + 2 /\ e + 1 \in 1 .. Len(r) + 2
      BY <1>3
    <3>2. Len(w) = e + 1
      BY <1>3, <1>4, <2>1
    <3> QED  BY <1>4, <2>1, <3>1, <3>2
  <2>3. Coded(w, e, Len(r) + Len(s) + 1, c)
    <3>1. e \in 2 .. Len(w) /\ Len(r) + Len(s) + 1 = e + 2 /\ e + 2 \in Nat /\ e + 1 <= Len(w)
      BY <1>3, <2>1, <2>2
    <3> QED  BY <1>11, <2>1, <2>2, <3>1 DEF Coded
  <2>4. Values!EscapedByBackslash(w, e + 1)
    BY <1>3, <1>7, <2>2, EscapedNext
  <2>5. ~Values!EscapedByBackslash(w, Len(w) + 1)
    <3>1. e + 1 \in Nat \ {0} /\ (e + 1) + 1 \in Nat \ {0} /\ ((e + 1) + 1) - 1 = e + 1
      BY <1>3
    <3>2. CASE c = "backslash"
      BY <2>1, <2>2, <2>4, <3>1, <3>2, EscapedNext
    <3>3. CASE c # "backslash"
      <4>1. w[e + 1] # "backslash"
        BY <2>1, <2>2, <3>3
      <4> QED  BY <2>2, <3>1, <4>1, NotEscaped
    <3> QED  BY <3>2, <3>3
  <2>6. \A i \in e .. Len(w) : w[i] = "double" => Values!EscapedByBackslash(w, i)
    <3> SUFFICES ASSUME NEW i \in e .. Len(w), w[i] = "double"
                 PROVE  Values!EscapedByBackslash(w, i)
      OBVIOUS
    <3>1. i = e \/ i = e + 1
      BY <1>3, <2>2
    <3>2. i # e
      BY <2>2
    <3> QED  BY <2>4, <3>1, <3>2
  <2> QED  BY <1>9, <2>3, <2>5, <2>6 DEF w
<1> QED  BY <1>10, <1>11
-----------------------------------------------------------------------------
(* EnvFile: the parser.                                                    *)

\* What stands behind a value and is no blank begins a comment.
LEMMA TailBegins ==
  ASSUME NEW tail \in Tails, NEW i \in 1 .. Len(tail), tail[i] # "space",
         \A j \in 1 .. i - 1 : tail[j] = "space"
  PROVE  tail[i] = "hash"
<1>1. tail \in Seq(Letters) /\ DOMAIN tail = 1 .. Len(tail)
  BY TailsAssumption, LenProperties
<1>2. tail[i] \notin {"space", "hash"} => \E j \in 1 .. i - 1 : tail[j] = "hash"
  BY <1>1, TailsAssumption
<1> QED  BY <1>2

\* The line of a value in quotes, without the blanks at its end.
LEMMA QuotedLine ==
  ASSUME NEW q \in {"double", "single"}, NEW r \in Seq(Chars), r # << >>, r[1] = q,
         NEW tail \in Tails, NEW v, v = Values!Strip(Append(r, q) \o tail)
  PROVE  /\ v \in Seq(Chars) /\ v # << >> /\ Len(v) >= Len(r) + 1
         /\ v[1] = q /\ v[Len(r) + 1] = q
         /\ \A i \in 1 .. Len(r) : v[i] = r[i]
         /\ LET suffix == Values!Strip(SubSeq(v, Len(r) + 2, Len(v)))
            IN suffix # << >> => suffix[1] = "hash"
<1> DEFINE e == Len(r) + 1
           line == Append(r, q) \o tail
<1>1. /\ tail \in Seq(Letters) /\ tail \in Seq(Chars) /\ q \in Chars
  BY TailsAssumption, SeqMonotonic DEF Chars
<1>2. Len(r) \in Nat /\ Len(r) # 0 /\ Len(tail) \in Nat /\ e \in Nat
  BY <1>1, LenProperties, EmptySeq
<1>3. /\ Append(r, q) \in Seq(Chars) /\ Len(Append(r, q)) = e /\ Append(r, q)[e] = q
      /\ \A i \in 1 .. Len(r) : Append(r, q)[i] = r[i]
  BY <1>1, <1>2
<1>4. /\ line \in Seq(Chars) /\ Len(line) = e + Len(tail)
      /\ \A i \in 1 .. e + Len(tail) :
           line[i] = IF i <= e THEN Append(r, q)[i] ELSE tail[i - e]
  BY <1>1, <1>3, ConcatProperties
<1> HIDE DEF line
<1>5. /\ line[e] = q /\ \A i \in 1 .. Len(r) : line[i] = r[i]
      /\ \A j \in 1 .. Len(tail) : line[e + j] = tail[j]
  <2>1. line[e] = q
    BY <1>2, <1>3, <1>4
  <2>2. \A i \in 1 .. Len(r) : line[i] = r[i]
    BY <1>2, <1>3, <1>4
  <2>3. \A j \in 1 .. Len(tail) : line[e + j] = tail[j]
    <3> TAKE j \in 1 .. Len(tail)
    <3>1. e + j \in 1 .. e + Len(tail) /\ ~(e + j <= e) /\ (e + j) - e = j
      BY <1>2
    <3> QED  BY <1>4, <3>1
  <2> QED  BY <2>1, <2>2, <2>3
<1>6. line # << >> /\ line[1] = q /\ line[1] # "space"
  BY <1>2, <1>4, <1>5, EmptySeq
<1>7. PICK m \in 1 .. Len(line) :
        /\ Values!Strip(line) = SubSeq(line, 1, m) /\ line[m] # "space"
        /\ \A i \in m + 1 .. Len(line) : line[i] = "space"
  BY <1>4, <1>6, StripsEnd
<1>8. m \in Nat /\ e <= m /\ m <= e + Len(tail)
  <2>1. m \in Nat /\ m <= e + Len(tail)
    BY <1>2, <1>4
  <2>2. ASSUME m < e PROVE FALSE
    <3>1. e \in m + 1 .. Len(line)
      BY <1>2, <1>4, <2>1, <2>2
    <3> QED  BY <1>5, <1>7, <3>1
  <2> QED  BY <1>2, <2>1, <2>2
<1>9. v = SubSeq(line, 1, m)
  BY <1>7 DEF line
<1>10. /\ v \in Seq(Chars) /\ Len(v) = m
       /\ \A i \in 1 .. m : v[i] = line[i]
  <2>1. 1 \in 1 .. Len(line) + 1 /\ m \in 1 - 1 .. Len(line) /\ m - 1 + 1 = m
    BY <1>2, <1>4, <1>8
  <2>2. /\ SubSeq(line, 1, m) \in Seq(Chars) /\ Len(SubSeq(line, 1, m)) = m - 1 + 1
        /\ \A i \in 1 .. m - 1 + 1 : SubSeq(line, 1, m)[i] = line[1 + i - 1]
    BY <1>4, <2>1, Part
  <2>3. \A i \in 1 .. m : 1 + i - 1 = i
    BY <1>8
  <2> QED  BY <1>9, <2>1, <2>2, <2>3
<1>11. v # << >> /\ v[1] = q /\ v[e] = q /\ \A i \in 1 .. Len(r) : v[i] = r[i]
  BY <1>2, <1>5, <1>6, <1>8, <1>10, EmptySeq
<1> DEFINE rest == SubSeq(v, e + 1, m)
<1>12. rest \in Seq(Chars) /\ Len(rest) = m - e
       /\ \A j \in 1 .. m - e : rest[j] = tail[j]
  <2>1. e + 1 \in 1 .. Len(v) + 1 /\ m \in (e + 1) - 1 .. Len(v) /\ m - (e + 1) + 1 = m - e
    BY <1>2, <1>8, <1>10
  <2>2. /\ rest \in Seq(Chars) /\ Len(rest) = m - (e + 1) + 1
        /\ \A j \in 1 .. m - (e + 1) + 1 : rest[j] = v[(e + 1) + j - 1]
    BY <1>10, <2>1, Part
  <2> HIDE DEF rest
  <2>3. \A j \in 1 .. m - e : (e + 1) + j - 1 = e + j /\ e + j \in 1 .. m /\ j \in 1 .. Len(tail)
    BY <1>2, <1>8
  <2>4. rest \in Seq(Chars) /\ Len(rest) = m - e
    BY <2>1, <2>2
  <2>5. \A j \in 1 .. m - e : rest[j] = tail[j]
    <3> TAKE j \in 1 .. m - e
    <3>1. (e + 1) + j - 1 = e + j /\ e + j \in 1 .. m /\ j \in 1 .. Len(tail)
      BY <2>3
    <3>2. rest[j] = v[e + j]
      BY <2>1, <2>2, <3>1
    <3>3. v[e + j] = line[e + j]
      BY <1>10, <3>1
    <3>4. line[e + j] = tail[j]
      BY <1>5, <3>1
    <3> QED  BY <3>2, <3>3, <3>4
  <2> QED  BY <2>4, <2>5
<1>13. ASSUME Values!Strip(rest) # << >> PROVE Values!Strip(rest)[1] = "hash"
  <2> HIDE DEF rest
  <2>1. PICK i \in 1 .. Len(rest) :
          /\ rest[i] # "space" /\ Values!Strip(rest)[1] = rest[i]
          /\ \A j \in 1 .. i - 1 : rest[j] = "space"
    BY <1>12, <1>13, StripsBegin
  <2>2. i \in 1 .. m - e /\ i \in 1 .. Len(tail) /\ \A j \in 1 .. i - 1 : j \in 1 .. m - e
    BY <1>2, <1>8, <1>12
  <2>3. tail[i] # "space" /\ \A j \in 1 .. i - 1 : tail[j] = "space"
    BY <1>12, <2>1, <2>2
  <2>4. tail[i] = "hash"
    BY <2>2, <2>3, TailBegins
  <2> QED  BY <1>12, <2>1, <2>2, <2>4
<1>14. Len(r) + 2 = e + 1
  BY <1>2
<1> QED  BY <1>2, <1>8, <1>10, <1>11, <1>13, <1>14

\* A value in quotes is read up to the quote that closes it, and no other.
LEMMA QuotedParsed ==
  ASSUME NEW q \in {"double", "single"}, NEW r \in Seq(Chars), r # << >>, r[1] = q,
         \A i \in 2 .. Len(r) : r[i] = q => q = "double" /\ Values!EscapedByBackslash(r, i),
         q = "double" => ~Values!EscapedByBackslash(r, Len(r) + 1),
         NEW tail \in Tails, Values!ParseValue(Values!Strip(Append(r, q) \o tail))
  PROVE  \/ q = "single" /\ Values!Returns(SubSeq(r, 2, Len(r)))
         \/ /\ q = "double"
            /\ stage' = "decode" /\ inner' = SubSeq(r, 2, Len(r)) /\ result' = result
<1> DEFINE e == Len(r) + 1
           v == Values!Strip(Append(r, q) \o tail)
<1>1. /\ v \in Seq(Chars) /\ v # << >> /\ Len(v) >= e /\ v[1] = q /\ v[e] = q
      /\ \A i \in 1 .. Len(r) : v[i] = r[i]
      /\ LET suffix == Values!Strip(SubSeq(v, Len(r) + 2, Len(v)))
         IN suffix # << >> => suffix[1] = "hash"
  BY QuotedLine
<1>2. Values!ParseQuoted(v)
  BY <1>1 DEF Values!ParseValue
<1> HIDE DEF v
<1>3. Len(r) \in Nat /\ Len(r) # 0 /\ Len(v) \in Nat /\ e \in 2 .. Len(v) /\ e \in Nat
  BY <1>1, LenProperties, EmptySeq
<1>4. \A i \in 1 .. e : Values!EscapedByBackslash(v, i) <=> Values!EscapedByBackslash(r, i)
  <2> TAKE i \in 1 .. e
  <2>1. i \in Nat /\ \A k \in 1 .. i - 1 : v[k] = r[k]
    BY <1>1, <1>3
  <2> QED  BY <2>1, EscapedSame
<1> DEFINE closing == Values!ClosingQuotes(v)
<1>5. \A i : i \in closing <=>
        /\ i \in 2 .. Len(v) /\ v[i] = q
        /\ q = "double" => ~Values!EscapedByBackslash(v, i)
  BY <1>1 DEF Values!ClosingQuotes
<1> HIDE DEF closing
<1>6. e \in closing
  <2>1. e \in 1 .. e
    BY <1>3
  <2> QED  BY <1>1, <1>3, <1>4, <1>5, <2>1
<1>7. ASSUME NEW i \in closing, i < e PROVE FALSE
  <2>1. i \in 2 .. Len(r) /\ i \in 1 .. Len(r) /\ i \in 1 .. e
    BY <1>3, <1>5, <1>7
  <2>2. r[i] = q
    BY <1>1, <1>5, <2>1
  <2> QED  BY <1>4, <1>5, <2>1, <2>2
<1>8. Values!Min(closing) = e
  <2>1. closing \subseteq Nat
    BY <1>3, <1>5
  <2>2. Values!Min(closing) \in closing /\ Values!Min(closing) <= e
    BY <1>6, <2>1, LeastPlace
  <2>3. ~(Values!Min(closing) < e) /\ Values!Min(closing) \in Nat
    BY <1>7, <2>1, <2>2
  <2> QED  BY <1>3, <2>2, <2>3
<1>9. e + 1 = Len(r) + 2 /\ e - 1 = Len(r)
  BY <1>3
<1>10. SubSeq(v, 2, e - 1) = SubSeq(r, 2, Len(r))
  <2>1. /\ 2 \in 1 .. Len(v) + 1 /\ e - 1 \in 2 - 1 .. Len(v)
        /\ 2 \in 1 .. Len(r) + 1 /\ Len(r) \in 2 - 1 .. Len(r)
        /\ (e - 1) - 2 + 1 = Len(r) - 1 /\ Len(r) - 2 + 1 = Len(r) - 1
    BY <1>3
  <2>2. /\ SubSeq(v, 2, e - 1) \in Seq(Chars) /\ Len(SubSeq(v, 2, e - 1)) = Len(r) - 1
        /\ \A i \in 1 .. Len(r) - 1 : SubSeq(v, 2, e - 1)[i] = v[2 + i - 1]
    BY <1>1, <2>1, Part
  <2>3. /\ SubSeq(r, 2, Len(r)) \in Seq(Chars) /\ Len(SubSeq(r, 2, Len(r))) = Len(r) - 1
        /\ \A i \in 1 .. Len(r) - 1 : SubSeq(r, 2, Len(r))[i] = r[2 + i - 1]
    BY <2>1, Part
  <2>4. \A i \in 1 .. Len(r) - 1 : 2 + i - 1 \in 1 .. Len(r)
    BY <1>3
  <2> DEFINE x == SubSeq(v, 2, e - 1)
             y == SubSeq(r, 2, Len(r))
  <2>5. /\ x \in Seq(Chars) /\ y \in Seq(Chars) /\ Len(x) = Len(y)
        /\ \A i \in 1 .. Len(x) : x[i] = y[i]
    BY <1>1, <2>2, <2>3, <2>4
  <2> HIDE DEF x, y
  <2>6. x = y
    BY <2>5, SeqEqual
  <2> QED  BY <2>6 DEF x, y
<1>11. \/ v[1] = "single" /\ Values!Returns(SubSeq(v, 2, e - 1))
       \/ v[1] = "double" /\ stage' = "decode" /\ inner' = SubSeq(v, 2, e - 1) /\ result' = result
  BY <1>1, <1>2, <1>6, <1>8, <1>9 DEF Values!ParseQuoted, closing
<1> QED  BY <1>1, <1>10, <1>11

\* A value without quotes ends before the blanks and the comment behind it.
LEMMA PlainParsed ==
  ASSUME NEW t \in Seq(Letters), Values!Plain(t), NEW tail \in Tails,
         tail # << >> => tail[1] = "space", Values!ParseValue(Values!Strip(t \o tail))
  PROVE  Values!Returns(t)
<1> DEFINE n == Len(t)
           line == t \o tail
           v == Values!Strip(line)
<1>1. tail \in Seq(Letters)
  BY TailsAssumption
<1>2. n \in Nat /\ Len(tail) \in Nat
  BY <1>1, LenProperties
<1>3. CASE t = << >>
  <2>1. v = Values!Strip(tail)
    BY <1>1, <1>3, ConcatEmptySeq
  <2>2. CASE v = << >>
    BY <1>3, <2>2 DEF Values!ParseValue
  <2>3. CASE v # << >>
    <3>1. v \in Seq(Letters) /\ \E i \in 1 .. Len(tail) :
            /\ tail[i] # "space" /\ v[1] = tail[i]
            /\ \A j \in 1 .. i - 1 : tail[j] = "space"
      <4> HIDE DEF v
      <4>1. Values!Strip(tail) # << >>
        BY <2>1, <2>3
      <4> QED  BY <1>1, <2>1, <4>1, StripsBegin
    <3>2. v[1] = "hash"
      BY <3>1, TailBegins
    <3> HIDE DEF v
    <3>3. Len(v) \in Nat /\ Len(v) # 0 /\ DOMAIN v = 1 .. Len(v)
      BY <2>3, <3>1, LenProperties, EmptySeq
    <3>4. 1 \in Values!Hashes(v) /\ Values!Hashes(v) \subseteq 1 .. Len(v)
      BY <3>2, <3>3 DEF Values!Hashes
    <3>5. Values!Min(Values!Hashes(v)) = 1
      <4>1. Values!Min(Values!Hashes(v)) \in Values!Hashes(v) /\ Values!Min(Values!Hashes(v)) <= 1
        BY <3>3, <3>4, LeastPlace
      <4>2. Values!Min(Values!Hashes(v)) \in 1 .. Len(v)
        BY <3>4, <4>1
      <4> QED  BY <3>3, <4>1, <4>2
    <3>6. Values!StripComment(v) = << >>
      <4>1. Values!StripComment(v) = SubSeq(v, 1, 1 - 1)
        BY <3>4, <3>5 DEF Values!StripComment
      <4> QED  BY <4>1, SubSeqEmpty
    <3>7. Values!Strip(<< >>) = << >>
      BY DEF Values!Strip
    <3>8. Values!Returns(Values!Strip(Values!StripComment(v)))
      BY <2>3, <3>2 DEF Values!ParseValue, v
    <3> QED  BY <1>3, <3>6, <3>7, <3>8
  <2> QED  BY <2>2, <2>3
<1>4. CASE t # << >>
  <2>1. /\ n # 0 /\ t[1] \notin {"double", "single", "space", "hash"} /\ t[n] # "space"
        /\ \A i \in 2 .. n : t[i] = "hash" => t[i - 1] # "space"
    BY <1>4, EmptySeq DEF Values!Plain
  <2>2. /\ line \in Seq(Letters) /\ Len(line) = n + Len(tail)
        /\ \A i \in 1 .. n + Len(tail) : line[i] = IF i <= n THEN t[i] ELSE tail[i - n]
    BY <1>1, ConcatProperties
  <2> HIDE DEF line, v
  <2>3. /\ \A i \in 1 .. n : line[i] = t[i]
        /\ \A j \in 1 .. Len(tail) : line[n + j] = tail[j]
    <3>1. \A i \in 1 .. n : line[i] = t[i]
      BY <1>2, <2>2
    <3>2. \A j \in 1 .. Len(tail) : line[n + j] = tail[j]
      <4> TAKE j \in 1 .. Len(tail)
      <4>1. n + j \in 1 .. n + Len(tail) /\ ~(n + j <= n) /\ (n + j) - n = j
        BY <1>2
      <4> QED  BY <2>2, <4>1
    <3> QED  BY <3>1, <3>2
  <2>4. 1 \in 1 .. n /\ n \in 1 .. n
    BY <1>2, <2>1
  <2>5. line # << >> /\ line[1] = t[1] /\ line[1] # "space"
    BY <1>2, <2>1, <2>2, <2>3, <2>4, EmptySeq
  <2>6. PICK m \in 1 .. Len(line) :
          /\ v = SubSeq(line, 1, m) /\ line[m] # "space"
          /\ \A i \in m + 1 .. Len(line) : line[i] = "space"
    BY <2>2, <2>5, StripsEnd DEF v
  <2>7. m \in Nat /\ n <= m /\ m <= n + Len(tail)
    <3>1. m \in Nat /\ m <= n + Len(tail)
      BY <1>2, <2>2
    <3>2. ASSUME m < n PROVE FALSE
      <4>1. n \in m + 1 .. Len(line)
        BY <1>2, <2>2, <3>1, <3>2
      <4> QED  BY <2>1, <2>3, <2>4, <2>6, <4>1
    <3> QED  BY <1>2, <3>1, <3>2
  <2>8. v \in Seq(Letters) /\ Len(v) = m /\ DOMAIN v = 1 .. m /\ \A i \in 1 .. m : v[i] = line[i]
    <3>1. 1 \in 1 .. Len(line) + 1 /\ m \in 1 - 1 .. Len(line) /\ m - 1 + 1 = m
      BY <1>2, <2>2, <2>7
    <3>2. /\ SubSeq(line, 1, m) \in Seq(Letters) /\ Len(SubSeq(line, 1, m)) = m - 1 + 1
          /\ \A i \in 1 .. m - 1 + 1 : SubSeq(line, 1, m)[i] = line[1 + i - 1]
      BY <2>2, <3>1, Part
    <3>3. \A i \in 1 .. m : 1 + i - 1 = i
      BY <2>7
    <3> QED  BY <2>6, <3>1, <3>2, <3>3, LenProperties
  <2>9. v # << >> /\ v[1] = t[1] /\ \A i \in 1 .. n : v[i] = t[i]
    BY <1>2, <2>1, <2>3, <2>4, <2>7, <2>8, EmptySeq
  <2>10. Values!Returns(Values!Strip(Values!StripComment(v)))
    BY <2>1, <2>9 DEF Values!ParseValue, v, line
  \* Behind the text the first character that is no blank begins a comment.
  <2> DEFINE Others == {i \in n + 1 .. m : v[i] # "space"}
  <2>11. ASSUME NEW i \in Others, \A j \in Others : i <= j PROVE i \in Values!Hashes(v)
    <3>1. i \in n + 1 .. m /\ v[i] # "space"
      OBVIOUS
    <3>2. i - n \in 1 .. Len(tail) /\ n + (i - n) = i /\ i \in 1 .. m /\ i # 1
      BY <1>2, <2>1, <2>7, <3>1
    <3>3. tail[i - n] = v[i]
      BY <2>3, <2>8, <3>2
    <3>4. \A j \in 1 .. (i - n) - 1 : tail[j] = "space" /\ v[n + j] = "space"
      <4> SUFFICES ASSUME NEW j \in 1 .. (i - n) - 1
                   PROVE  tail[j] = "space" /\ v[n + j] = "space"
        OBVIOUS
      <4>1. j \in 1 .. Len(tail) /\ n + j \in 1 .. m /\ n + j \in n + 1 .. m /\ ~(i <= n + j)
        BY <1>2, <2>7, <3>1
      <4>2. v[n + j] = tail[j]
        BY <2>3, <2>8, <4>1
      <4>3. n + j \notin Others
        BY <2>11, <4>1
      <4> QED  BY <4>1, <4>2, <4>3
    <3>5. tail[i - n] = "hash"
      BY <3>1, <3>2, <3>3, <3>4, TailBegins
    <3>6. v[i - 1] = "space"
      <4>1. CASE i - n = 1
        <5>1. tail # << >>
          BY <3>2, EmptySeq
        <5> QED  BY <3>5, <4>1, <5>1
      <4>2. CASE i - n # 1
        <5>1. (i - n) - 1 \in 1 .. (i - n) - 1 /\ n + ((i - n) - 1) = i - 1
          BY <1>2, <3>2, <4>2
        <5> QED  BY <3>4, <5>1
      <4> QED  BY <4>1, <4>2
    <3> QED  BY <2>8, <3>2, <3>3, <3>5, <3>6 DEF Values!Hashes
  <2>12. ASSUME NEW l \in n .. m, \A i \in Values!Hashes(v) : i > l,
                NEW w \in Seq(Letters), Len(w) = l, \A i \in 1 .. l : w[i] = v[i]
         PROVE  Values!Strip(w) = t
    <3>1. \A i \in n + 1 .. l : w[i] = "space"
      <4> SUFFICES ASSUME NEW i \in n + 1 .. l, w[i] # "space" PROVE FALSE
        OBVIOUS
      <4>1. i \in 1 .. l /\ i \in n + 1 .. m /\ i <= l /\ l \in Nat
        BY <1>2, <2>7
      <4>2. i \in Others /\ Others \subseteq Nat /\ Others # {}
        BY <1>2, <2>7, <2>12, <4>1
      <4>3. Values!Min(Others) \in Others /\ \A j \in Others : Values!Min(Others) <= j
        <5> HIDE DEF Others
        <5> QED  BY <4>2, LeastPlace
      <4>4. Values!Min(Others) \in Values!Hashes(v) /\ Values!Min(Others) <= i
            /\ Values!Min(Others) \in Nat
        BY <2>11, <4>2, <4>3
      <4>5. Values!Min(Others) > l
        BY <2>12, <4>4
      <4> QED  BY <4>1, <4>4, <4>5
    <3>2. l \in Nat /\ n <= l /\ w # << >> /\ w[1] # "space" /\ w[n] # "space"
          /\ \A i \in 1 .. n : w[i] = t[i]
      <4>1. l \in Nat /\ n <= l /\ l <= m
        BY <1>2, <2>7
      <4>2. \A i \in 1 .. n : i \in 1 .. l
        BY <1>2, <4>1
      <4>3. \A i \in 1 .. n : w[i] = t[i]
        BY <2>9, <2>12, <4>2
      <4>4. w # << >>
        BY <1>2, <2>1, <2>12, <4>1, EmptySeq
      <4> QED  BY <2>1, <2>4, <4>1, <4>3, <4>4
    <3>3. PICK k \in 1 .. Len(w) :
            /\ Values!Strip(w) = SubSeq(w, 1, k) /\ w[k] # "space"
            /\ \A i \in k + 1 .. Len(w) : w[i] = "space"
      BY <3>2, StripsEnd
    <3>4. k = n
      <4>1. k \in Nat /\ k \in 1 .. l
        BY <2>12, <3>2
      <4>2. ASSUME k < n PROVE FALSE
        <5>1. n \in k + 1 .. Len(w)
          BY <1>2, <2>12, <3>2, <4>1, <4>2
        <5> QED  BY <3>2, <3>3, <5>1
      <4>3. ASSUME n < k PROVE FALSE
        <5>1. k \in n + 1 .. l
          BY <1>2, <3>2, <4>1, <4>3
        <5> QED  BY <3>1, <3>3, <5>1
      <4> QED  BY <1>2, <4>1, <4>2, <4>3
    <3>5. /\ SubSeq(w, 1, n) \in Seq(Letters) /\ Len(SubSeq(w, 1, n)) = n
          /\ \A i \in 1 .. n : SubSeq(w, 1, n)[i] = w[i]
      <4>1. 1 \in 1 .. Len(w) + 1 /\ n \in 1 - 1 .. Len(w) /\ n - 1 + 1 = n
        BY <1>2, <2>12, <3>2
      <4>2. /\ SubSeq(w, 1, n) \in Seq(Letters) /\ Len(SubSeq(w, 1, n)) = n - 1 + 1
            /\ \A i \in 1 .. n - 1 + 1 : SubSeq(w, 1, n)[i] = w[1 + i - 1]
        BY <4>1, Part
      <4>3. \A i \in 1 .. n : 1 + i - 1 = i
        BY <1>2
      <4> QED  BY <4>1, <4>2, <4>3
    <3> DEFINE x == SubSeq(w, 1, n)
    <3>6. x \in Seq(Letters) /\ Len(x) = Len(t) /\ \A i \in 1 .. Len(x) : x[i] = t[i]
      BY <3>2, <3>5
    <3> HIDE DEF x
    <3>7. x = t
      BY <3>6, SeqEqual
    <3> QED  BY <3>3, <3>4, <3>7 DEF x
  <2>13. CASE Values!Hashes(v) = {}
    <3>1. Values!StripComment(v) = v
      BY <2>13 DEF Values!StripComment
    <3>2. m \in n .. m
      BY <1>2, <2>7
    <3>3. Values!Strip(v) = t
      BY <2>8, <2>12, <2>13, <3>2
    <3> QED  BY <2>10, <3>1, <3>3
  <2>14. CASE Values!Hashes(v) # {}
    <3> DEFINE h == Values!Min(Values!Hashes(v))
               w == SubSeq(v, 1, h - 1)
    <3>1. Values!Hashes(v) \subseteq 1 .. m
      BY <2>8 DEF Values!Hashes
    <3>2. h \in Values!Hashes(v) /\ \A i \in Values!Hashes(v) : h <= i
      <4>1. Values!Hashes(v) \subseteq Nat
        BY <3>1
      <4> QED  BY <2>14, <4>1, LeastPlace
    <3> HIDE DEF h
    <3>3. h \in 1 .. m /\ h \in Nat
      BY <2>7, <3>1, <3>2
    <3>4. n < h
      <4> SUFFICES ASSUME h <= n PROVE FALSE
        BY <1>2, <3>3
      <4>1. h \in 1 .. n
        BY <1>2, <3>3
      <4>2. v[h] = "hash" /\ (h = 1 \/ v[h - 1] = "space")
        BY <3>2 DEF Values!Hashes
      <4>3. CASE h = 1
        BY <2>1, <2>9, <4>2, <4>3
      <4>4. CASE h # 1
        <5>1. h \in 2 .. n /\ h - 1 \in 1 .. n
          BY <1>2, <4>1, <4>4
        <5> QED  BY <2>1, <2>9, <4>1, <4>2, <4>4, <5>1
      <4> QED  BY <4>3, <4>4
    <3>5. h - 1 \in n .. m /\ \A i \in Values!Hashes(v) : i > h - 1
      <4>1. h - 1 \in n .. m
        BY <1>2, <2>7, <3>3, <3>4
      <4>2. \A i \in Values!Hashes(v) : i > h - 1
        <5> TAKE i \in Values!Hashes(v)
        <5>1. i \in Nat /\ h <= i
          BY <3>1, <3>2
        <5> QED  BY <3>3, <5>1
      <4> QED  BY <4>1, <4>2
    <3>6. w \in Seq(Letters) /\ Len(w) = h - 1 /\ \A i \in 1 .. h - 1 : w[i] = v[i]
      <4>1. 1 \in 1 .. Len(v) + 1 /\ h - 1 \in 1 - 1 .. Len(v) /\ (h - 1) - 1 + 1 = h - 1
        BY <2>7, <2>8, <3>3
      <4>2. /\ w \in Seq(Letters) /\ Len(w) = (h - 1) - 1 + 1
            /\ \A i \in 1 .. (h - 1) - 1 + 1 : w[i] = v[1 + i - 1]
        BY <2>8, <4>1, Part
      <4> HIDE DEF w
      <4>3. \A i \in 1 .. h - 1 : 1 + i - 1 = i
        BY <3>3
      <4> QED  BY <4>1, <4>2, <4>3
    <3> HIDE DEF w
    <3>7. Values!Strip(w) = t
      BY <2>12, <3>5, <3>6
    <3>8. Values!StripComment(v) = w
      BY <2>14 DEF Values!StripComment, h, w
    <3> QED  BY <2>10, <3>7, <3>8
  <2> QED  BY <2>13, <2>14
<1> QED  BY <1>3, <1>4
-----------------------------------------------------------------------------
(* EnvFile: the steps.                                                     *)

\* What has been decoded of r, up to the place pos behind its quote.
Decoded(r, t, pos, res) ==
  \E places : \E n \in 0 .. Len(t) :
    /\ Places(r, t, places) /\ pos \in Nat /\ pos + 1 = places[n + 1]
    /\ res \in Seq(Letters) /\ Len(res) = n
    /\ \A i \in 1 .. n : res[i] = t[i]

LEMMA DecodeBegins ==
  ASSUME NEW r, NEW t \in Seq(Letters), DoubleQuoted(r, t)
  PROVE  Decoded(r, t, 1, << >>)
<1>1. PICK places : Places(r, t, places)
  BY DEF DoubleQuoted
<1>2. 0 \in 0 .. Len(t) /\ places[0 + 1] = 2 /\ << >> \in Seq(Letters) /\ Len(<< >>) = 0
  BY <1>1, LenProperties DEF Places
<1> QED  BY <1>1, <1>2 DEF Decoded

\* One iteration of the loop at pos keeps what is decoded.
Advances(r, t, s, pos, res) ==
  IF s[pos] # "backslash" \/ pos = Len(s)
  THEN Decoded(r, t, pos + 1, Append(res, s[pos]))
  ELSE Decoded(r, t, pos + 2, res \o Values!Meaning(s[pos + 1]))

\* Between its places stands what each character of the text is written as.
LEMMA DecodeAdvances ==
  ASSUME NEW r \in Seq(Chars), r # << >>, NEW t \in Seq(Letters), NEW s, s = SubSeq(r, 2, Len(r)),
         NEW pos, NEW res, Decoded(r, t, pos, res)
  PROVE  /\ pos > Len(s) => res = t
         /\ pos <= Len(s) => Advances(r, t, s, pos, res)
<1>0. PICK places : \E n \in 0 .. Len(t) :
        /\ Places(r, t, places) /\ pos \in Nat /\ pos + 1 = places[n + 1]
        /\ res \in Seq(Letters) /\ Len(res) = n
        /\ \A i \in 1 .. n : res[i] = t[i]
  BY DEF Decoded
<1>1. PICK n \in 0 .. Len(t) :
        /\ Places(r, t, places) /\ pos \in Nat /\ pos + 1 = places[n + 1]
        /\ res \in Seq(Letters) /\ Len(res) = n
        /\ \A i \in 1 .. n : res[i] = t[i]
  BY <1>0
<1>2. Len(r) \in Nat /\ Len(r) # 0 /\ Len(t) \in Nat /\ n \in Nat
  BY LenProperties, EmptySeq
<1>3. /\ places \in [1 .. Len(t) + 1 -> Nat]
      /\ places[Len(t) + 1] = Len(r) + 1
      /\ \A k \in 1 .. Len(t) : Coded(r, places[k], places[k + 1], t[k])
  BY <1>1 DEF Places
<1>4. Len(s) = Len(r) - 1 /\ \A i \in 1 .. Len(r) - 1 : s[i] = r[i + 1]
  <2>1. 2 \in 1 .. Len(r) + 1 /\ Len(r) \in 2 - 1 .. Len(r) /\ Len(r) - 2 + 1 = Len(r) - 1
    BY <1>2
  <2>2. /\ Len(SubSeq(r, 2, Len(r))) = Len(r) - 1
        /\ \A i \in 1 .. Len(r) - 1 : SubSeq(r, 2, Len(r))[i] = r[2 + i - 1]
    BY <2>1, Part
  <2>3. \A i \in 1 .. Len(r) - 1 : 2 + i - 1 = i + 1
    BY <1>2
  <2> QED  BY <2>2, <2>3
<1>5. CASE n = Len(t)
  <2>1. pos > Len(s)
    BY <1>1, <1>2, <1>3, <1>4, <1>5
  <2>2. res = t
    BY <1>1, <1>5, SeqEqual
  <2> QED  BY <1>1, <1>2, <1>4, <2>1, <2>2
<1>6. CASE n # Len(t)
  <2> DEFINE c == t[n + 1]
             b == places[n + 2]
  <2>1. n + 1 \in 1 .. Len(t) /\ (n + 1) + 1 = n + 2
    BY <1>2, <1>6
  <2>2. Coded(r, pos + 1, b, c)
    BY <1>1, <1>3, <2>1
  <2>3. pos \in Nat /\ pos + 1 \in 2 .. Len(r) /\ c \in Letters
    BY <1>1, <2>1, <2>2, ElementOfSeq DEF Coded
  <2>4. pos \in 1 .. Len(r) - 1 /\ pos <= Len(s) /\ s[pos] = r[pos + 1]
    BY <1>2, <1>4, <2>3
  <2> HIDE DEF c, b
  <2>5. ASSUME NEW p \in Nat, p + 1 = b PROVE Decoded(r, t, p, Append(res, c))
    <3> DEFINE more == Append(res, c)
    <3>1. more \in Seq(Letters) /\ Len(more) = n + 1 /\ more[n + 1] = c
          /\ \A i \in 1 .. n : more[i] = res[i]
      BY <1>1, <1>2, <2>3
    <3> HIDE DEF more
    <3>2. \A i \in 1 .. n + 1 : more[i] = t[i]
      BY <1>1, <1>2, <3>1 DEF c
    <3>3. n + 1 \in 0 .. Len(t) /\ (n + 1) + 1 = n + 2
      BY <1>2, <2>1
    <3>4. Decoded(r, t, p, more)
      <4>1. p + 1 = places[(n + 1) + 1]
        BY <2>5, <3>3 DEF b
      <4>2. more \in Seq(Letters) /\ Len(more) = n + 1
        BY <3>1
      <4> QED  BY <1>1, <2>5, <3>2, <3>3, <4>1, <4>2, Zenon DEF Decoded
    <3> QED  BY <3>4 DEF more
  <2>6. CASE c \in {"newline", "double", "backslash"}
    <3>1. /\ b = (pos + 1) + 2 /\ (pos + 1) + 1 <= Len(r) /\ r[pos + 1] = "backslash"
          /\ Values!Meaning(r[(pos + 1) + 1]) = <<c>>
      BY <2>2, <2>6 DEF Coded
    <3>2. pos # Len(s) /\ pos + 1 \in 1 .. Len(r) - 1 /\ b = (pos + 2) + 1 /\ pos + 2 \in Nat
      BY <1>2, <1>4, <2>3, <3>1
    <3>3. Values!Meaning(s[pos + 1]) = <<c>>
      BY <1>4, <3>1, <3>2
    <3>4. res \o <<c>> = Append(res, c)
      BY <1>1, <2>3, AppendIsConcat
    <3>5. Decoded(r, t, pos + 2, res \o Values!Meaning(s[pos + 1]))
      BY <2>5, <3>2, <3>3, <3>4
    <3>6. s[pos] = "backslash" /\ ~(pos > Len(s))
      BY <1>2, <1>4, <2>3, <2>4, <3>1
    <3> QED  BY <3>2, <3>5, <3>6 DEF Advances
  <2>7. CASE c \notin {"newline", "double", "backslash"}
    <3>1. b = (pos + 1) + 1 /\ r[pos + 1] = c
      BY <2>2, <2>7 DEF Coded
    <3>2. s[pos] = c /\ s[pos] # "backslash" /\ pos + 1 \in Nat
      BY <2>3, <2>4, <2>7, <3>1
    <3> QED  BY <1>2, <1>4, <2>3, <2>4, <2>5, <3>1, <3>2 DEF Advances
  <2> QED  BY <2>6, <2>7
<1> QED  BY <1>5, <1>6

\* How a text is written, by its style: without quotes as it is, within single ones what is
\* none, within double ones with escapes.
Written(how, r, t) ==
  /\ how \in {"bare", "double", "single"}
  /\ t \in Seq(Letters) /\ r \in Seq(Chars)
  /\ how = "bare" => r = t
  /\ how = "single" =>
       /\ Len(r) = Len(t) + 1 /\ r[1] = "single"
       /\ \A i \in 1 .. Len(t) : r[i + 1] = t[i] /\ t[i] # "single"
  /\ how = "double" => DoubleQuoted(r, t)

LEMMA NothingWritten ==
  ASSUME NEW how \in {"bare", "double", "single"}
  PROVE  Written(how, IF how = "bare" THEN << >> ELSE <<how>>, << >>)
<1>1. CASE how = "bare"
  BY <1>1 DEF Written
<1>2. CASE how = "single"
  BY <1>2 DEF Written, Chars
<1>3. CASE how = "double"
  <2> DEFINE r == <<"double">>
             places == [k \in 1 .. 1 |-> 2]
  <2>1. r \in Seq(Chars) /\ r # << >> /\ r[1] = "double" /\ Len(r) = 1 /\ Len(<< >>) = 0
    BY DEF Chars
  <2> HIDE DEF r
  <2>2. ~Values!EscapedByBackslash(r, Len(r) + 1)
    <3>1. 1 + 1 \in Nat \ {0} /\ (1 + 1) - 1 = 1
      OBVIOUS
    <3> QED  BY <2>1, <3>1, NotEscaped
  <2>3. \A i \in 2 .. Len(r) : FALSE
    BY <2>1
  <2>4. Places(r, << >>, places)
    BY <2>1 DEF Places
  <2>5. DoubleQuoted(r, << >>)
    BY <2>1, <2>2, <2>3, <2>4 DEF DoubleQuoted
  <2> QED  BY <1>3, <2>1, <2>5 DEF Written, r
<1> QED  BY <1>1, <1>2, <1>3

LEMMA OneMoreWritten ==
  ASSUME NEW how, NEW r, NEW t, Written(how, r, t), NEW c \in Letters,
         how = "single" => c # "single"
  PROVE  Written(how, r \o (IF how = "double" THEN Values!Escape(c) ELSE <<c>>), Append(t, c))
<1> DEFINE more == Append(t, c)
<1>1. /\ t \in Seq(Letters) /\ r \in Seq(Chars) /\ Len(t) \in Nat /\ Len(r) \in Nat /\ c \in Chars
      /\ how \in {"bare", "double", "single"}
  BY LenProperties DEF Written, Chars
<1>2. /\ more \in Seq(Letters) /\ Len(more) = Len(t) + 1 /\ more[Len(t) + 1] = c
      /\ \A i \in 1 .. Len(t) : more[i] = t[i]
  BY <1>1
<1>3. r \o <<c>> = Append(r, c)
  BY <1>1, AppendIsConcat
<1> HIDE DEF more
<1>4. CASE how = "bare"
  <2>1. r = t /\ Append(r, c) \in Seq(Chars)
    BY <1>1, <1>4 DEF Written
  <2> QED  BY <1>2, <1>3, <1>4, <2>1 DEF Written, more
<1>5. CASE how = "single"
  <2>1. /\ Len(r) = Len(t) + 1 /\ r[1] = "single"
        /\ \A i \in 1 .. Len(t) : r[i + 1] = t[i] /\ t[i] # "single"
    BY <1>5 DEF Written
  <2> DEFINE w == Append(r, c)
  <2>2. /\ w \in Seq(Chars) /\ Len(w) = Len(r) + 1 /\ w[Len(r) + 1] = c
        /\ \A i \in 1 .. Len(r) : w[i] = r[i]
    BY <1>1
  <2> HIDE DEF w
  <2>3. Len(w) = Len(more) + 1 /\ w[1] = "single"
    BY <1>1, <1>2, <2>1, <2>2
  <2>4. ASSUME NEW i \in 1 .. Len(more) PROVE w[i + 1] = more[i] /\ more[i] # "single"
    <3>1. CASE i = Len(t) + 1
      BY <1>2, <1>5, <2>1, <2>2, <3>1
    <3>2. CASE i # Len(t) + 1
      <4>1. i \in 1 .. Len(t) /\ i + 1 \in 1 .. Len(r)
        BY <1>1, <1>2, <2>1, <3>2
      <4> QED  BY <1>2, <2>1, <2>2, <4>1
    <3> QED  BY <3>1, <3>2
  <2>5. Written(how, w, more)
    BY <1>2, <1>5, <2>2, <2>3, <2>4 DEF Written
  <2> QED  BY <1>3, <1>5, <2>5 DEF w, more
<1>6. CASE how = "double"
  <2>1. DoubleQuoted(r \o Values!Escape(c), Append(t, c))
    BY <1>1, <1>6, DoubleGrows DEF Written
  <2>2. r \o Values!Escape(c) \in Seq(Chars)
    BY <2>1 DEF DoubleQuoted
  <2> QED  BY <1>2, <1>6, <2>1, <2>2 DEF Written, more
<1> QED  BY <1>1, <1>4, <1>5, <1>6

\* A value is written as its text, and what has been read of it is the text's beginning.
ValueInv ==
  /\ Written(style, raw, text)
  /\ stage \in {"write", "decode", "read"}
  /\ stage = "write" => position = 1 /\ result = << >>
  /\ stage = "decode" =>
       /\ style = "double" /\ inner = SubSeq(raw, 2, Len(raw))
       /\ Decoded(raw, text, position, result)
  /\ stage = "read" => result = text

\* A line is read as its text, or up to the loop over its escapes.
LEMMA LineParsed ==
  ASSUME ValueInv, Values!Parse
  PROVE  ValueInv'
<1>1. /\ stage = "write" /\ position = 1 /\ result = << >> /\ Written(style, raw, text)
      /\ style = "bare" => Values!Plain(text)
      /\ UNCHANGED <<style, text, raw, position>>
  BY DEF ValueInv, Values!Parse
<1>2. PICK tail \in Tails : Values!Follows(tail) /\ Values!ParseValue(Values!Strip(Values!Line(tail)))
  BY DEF Values!Parse
<1>3. text \in Seq(Letters) /\ raw \in Seq(Chars) /\ style \in {"bare", "double", "single"}
      /\ Len(text) \in Nat /\ Len(raw) \in Nat
  BY <1>1, LenProperties DEF Written
<1>4. Written(style, raw, text)'
  BY <1>1 DEF Written
<1>5. CASE style = "bare"
  <2>1. raw = text /\ Values!Line(tail) = text \o tail
    BY <1>1, <1>5 DEF Written, Values!Line
  <2>2. tail # << >> => tail[1] = "space"
    BY <1>2, <1>5 DEF Values!Follows
  <2>3. Values!Returns(text)
    BY <1>1, <1>2, <1>3, <1>5, <2>1, <2>2, PlainParsed
  <2>4. stage' = "read" /\ result' = text'
    BY <1>1, <2>3 DEF Values!Returns
  <2> QED  BY <1>4, <2>4 DEF ValueInv
<1>6. CASE style = "single"
  <2>1. /\ Len(raw) = Len(text) + 1 /\ raw[1] = "single"
        /\ \A i \in 1 .. Len(text) : raw[i + 1] = text[i] /\ text[i] # "single"
    BY <1>1, <1>6 DEF Written
  <2>2. raw # << >>
    BY <1>3, <2>1, EmptySeq
  <2>3. \A i \in 2 .. Len(raw) : raw[i] # "single"
    <3> TAKE i \in 2 .. Len(raw)
    <3>1. i - 1 \in 1 .. Len(text) /\ (i - 1) + 1 = i
      BY <1>3, <2>1
    <3> QED  BY <2>1, <3>1
  <2>4. Values!ParseValue(Values!Strip(Append(raw, style) \o tail))
    BY <1>2, <1>6 DEF Values!Line
  <2>5. Values!Returns(SubSeq(raw, 2, Len(raw)))
    BY <1>3, <1>6, <2>1, <2>2, <2>3, <2>4, QuotedParsed
  <2> DEFINE x == SubSeq(raw, 2, Len(raw))
  <2>6. /\ x \in Seq(Chars) /\ Len(x) = Len(text)
        /\ \A i \in 1 .. Len(x) : x[i] = text[i]
    <3>1. /\ 2 \in 1 .. Len(raw) + 1 /\ Len(raw) \in 2 - 1 .. Len(raw)
          /\ Len(raw) - 2 + 1 = Len(text)
      BY <1>3, <2>1
    <3>2. /\ x \in Seq(Chars) /\ Len(x) = Len(text)
          /\ \A i \in 1 .. Len(text) : x[i] = raw[2 + i - 1]
      BY <1>3, <3>1, Part
    <3>3. \A i \in 1 .. Len(text) : 2 + i - 1 = i + 1
      BY <1>3
    <3> HIDE DEF x
    <3> QED  BY <2>1, <3>2, <3>3
  <2> HIDE DEF x
  <2>7. x = text
    <3>1. text \in Seq(Chars)
      BY <1>3, SeqMonotonic DEF Chars
    <3> QED  BY <2>6, <3>1, SeqEqual
  <2>8. stage' = "read" /\ result' = text'
    BY <1>1, <2>5, <2>7 DEF Values!Returns, x
  <2> QED  BY <1>4, <2>8 DEF ValueInv
<1>7. CASE style = "double"
  <2>1. DoubleQuoted(raw, text)
    BY <1>1, <1>7 DEF Written
  <2>2. Values!ParseValue(Values!Strip(Append(raw, style) \o tail))
    BY <1>2, <1>7 DEF Values!Line
  <2>3. stage' = "decode" /\ inner' = SubSeq(raw, 2, Len(raw)) /\ result' = result
    BY <1>3, <1>7, <2>1, <2>2, QuotedParsed DEF DoubleQuoted
  <2>4. Decoded(raw, text, 1, << >>)
    BY <1>3, <2>1, DecodeBegins
  <2>5. Decoded(raw, text, position, result)'
    <3>1. raw' = raw /\ text' = text /\ position' = 1 /\ result' = << >>
      BY <1>1, <2>3
    <3> QED  BY <2>4, <3>1
  <2> QED  BY <1>1, <1>4, <1>7, <2>3, <2>5 DEF ValueInv
<1> QED  BY <1>3, <1>5, <1>6, <1>7

\* A value is written as its text, in the style of its line; at each turn of the loop over the
\* escapes the parser has decoded a beginning of the text and stands behind what that is
\* written as, and what it returns is the text.
THEOREM ValuesInvariance == Values!Spec => []ValueInv
<1>1. Values!Init => ValueInv
  <2> SUFFICES ASSUME Values!Init PROVE ValueInv
    OBVIOUS
  <2>1. /\ style \in {"bare", "double", "single"} /\ text = << >>
        /\ raw = IF style = "bare" THEN << >> ELSE <<style>>
        /\ stage = "write" /\ position = 1 /\ result = << >>
    BY DEF Values!Init
  <2>2. Written(style, raw, text)
    BY <2>1, NothingWritten
  <2> QED  BY <2>1, <2>2 DEF ValueInv
<1>2. ValueInv /\ [Values!Next]_(Values!valueVars) => ValueInv'
  <2> SUFFICES ASSUME ValueInv, [Values!Next]_(Values!valueVars) PROVE ValueInv'
    OBVIOUS
  <2>1. CASE Values!Write
    <3>1. PICK c \in Letters :
            /\ style = "single" => c # "single"
            /\ text' = Append(text, c)
            /\ raw' = raw \o (IF style = "double" THEN Values!Escape(c) ELSE <<c>>)
      BY <2>1 DEF Values!Write
    <3>2. stage = "write" /\ UNCHANGED <<style, stage, inner, position, result>>
      BY <2>1 DEF Values!Write
    <3>3. Written(style, raw', text')
      <4>1. Written(style, raw, text)
        BY DEF ValueInv
      <4> QED  BY <3>1, <4>1, OneMoreWritten
    <3>4. Written(style, raw, text)'
      BY <3>2, <3>3
    <3> QED  BY <3>2, <3>4 DEF ValueInv
  <2>2. CASE Values!Parse
    BY <2>2, LineParsed
  <2>3. CASE Values!Decode
    <3>1. /\ stage = "decode" /\ position <= Len(inner)
          /\ IF inner[position] # "backslash" \/ position = Len(inner)
             THEN result' = Append(result, inner[position]) /\ position' = position + 1
             ELSE /\ result' = result \o Values!Meaning(inner[position + 1])
                  /\ position' = position + 2
          /\ UNCHANGED <<style, text, raw, stage, inner>>
      BY <2>3 DEF Values!Decode
    <3>2. /\ Written(style, raw, text) /\ style = "double" /\ inner = SubSeq(raw, 2, Len(raw))
          /\ Decoded(raw, text, position, result)
      BY <3>1 DEF ValueInv
    <3>3. raw \in Seq(Chars) /\ raw # << >> /\ text \in Seq(Letters)
      BY <3>2 DEF Written, DoubleQuoted
    <3>4. Decoded(raw, text, position', result')
      <4>1. Advances(raw, text, inner, position, result)
        BY <3>1, <3>2, <3>3, DecodeAdvances
      <4> QED  BY <3>1, <4>1 DEF Advances
    <3>5. Decoded(raw, text, position, result)' /\ Written(style, raw, text)'
      BY <3>1, <3>2, <3>4
    <3> QED  BY <3>1, <3>2, <3>5 DEF ValueInv
  <2>4. CASE Values!DecodeEnds
    <3>1. /\ stage = "decode" /\ position > Len(inner) /\ stage' = "read"
          /\ UNCHANGED <<style, text, raw, inner, position, result>>
      BY <2>4 DEF Values!DecodeEnds
    <3>2. /\ Written(style, raw, text) /\ style = "double" /\ inner = SubSeq(raw, 2, Len(raw))
          /\ Decoded(raw, text, position, result)
      BY <3>1 DEF ValueInv
    <3>3. raw \in Seq(Chars) /\ raw # << >> /\ text \in Seq(Letters)
      BY <3>2 DEF Written, DoubleQuoted
    <3>4. result = text
      BY <3>1, <3>2, <3>3, DecodeAdvances
    <3>5. Written(style, raw, text)'
      BY <3>1, <3>2
    <3> QED  BY <3>1, <3>4, <3>5 DEF ValueInv
  <2>5. CASE UNCHANGED Values!valueVars
    <3>1. UNCHANGED <<style, text, raw, stage, inner, position, result>>
      BY <2>5 DEF Values!valueVars
    <3>2. Written(style, raw, text)' = Written(style, raw, text)
          /\ Decoded(raw, text, position, result)' = Decoded(raw, text, position, result)
      BY <3>1
    <3> QED  BY <3>1, <3>2 DEF ValueInv
  <2> QED  BY <2>1, <2>2, <2>3, <2>4, <2>5 DEF Values!Next
<1> QED  BY <1>1, <1>2, PTL DEF Values!Spec

-----------------------------------------------------------------------------
(* Settings, for files and environments of any size and paths of any       *)
(* depth: the settings that last.                                          *)

IsPath(p) == p \in Seq(STRING) /\ p # << >>

LEMMA PrefixByPlace ==
  ASSUME NEW q, IsPath(q), NEW p, IsPath(p)
  PROVE  Loader!IsPrefix(q, p) <=> Len(q) <= Len(p) /\ \A i \in 1 .. Len(q) : q[i] = p[i]
<1>1. /\ q \in Seq(STRING) /\ p \in Seq(STRING) /\ Len(q) \in Nat /\ Len(p) \in Nat
      /\ \A i \in 1 .. Len(q) : q[i] \in STRING
      /\ \A i \in 1 .. Len(p) : p[i] \in STRING
  BY LenProperties, ElementOfSeq DEF IsPath
<1>2. Loader!IsPrefix(q, p) <=> Len(q) <= Len(p) /\ SubSeq(q, 1, Len(q)) = SubSeq(p, 1, Len(q))
  BY DEF Loader!IsPrefix
<1>3. ASSUME Len(q) <= Len(p)
      PROVE  SubSeq(q, 1, Len(q)) = SubSeq(p, 1, Len(q)) <=> \A i \in 1 .. Len(q) : q[i] = p[i]
  <2> DEFINE s == SubSeq(p, 1, Len(q))
  <2>1. SubSeq(q, 1, Len(q)) = q
    BY <1>1, SubSeqFull
  <2>2. \A i \in 1 .. Len(q) : p[i] \in STRING
    BY <1>1, <1>3
  <2>3. /\ s \in Seq(STRING) /\ Len(s) = IF 1 <= Len(q) THEN Len(q) - 1 + 1 ELSE 0
        /\ \A i \in 1 .. Len(q) - 1 + 1 : s[i] = p[1 + i - 1]
    BY <1>1, <2>2, SubSeqProperties
  <2> HIDE DEF s
  <2>4. Len(s) = Len(q) /\ \A i \in 1 .. Len(q) : s[i] = p[i]
    BY <1>1, <2>3
  <2>5. (\A i \in 1 .. Len(q) : q[i] = p[i]) => q = s
    BY <1>1, <2>3, <2>4, SeqEqual
  <2> QED  BY <2>1, <2>4, <2>5 DEF s
<1> QED  BY <1>2, <1>3

LEMMA PathsAbove ==
  ASSUME NEW p, IsPath(p), NEW q
  PROVE  q \in Loader!Above(p) <=> IsPath(q) /\ Loader!IsPrefix(q, p)
<1>1. p \in Seq(STRING) /\ Len(p) \in Nat /\ \A i \in 1 .. Len(p) : p[i] \in STRING
  BY LenProperties, ElementOfSeq DEF IsPath
<1>2. \A n \in 1 .. Len(p) :
        /\ SubSeq(p, 1, n) \in Seq(STRING) /\ Len(SubSeq(p, 1, n)) = n
        /\ \A i \in 1 .. n : SubSeq(p, 1, n)[i] = p[i]
  <2> TAKE n \in 1 .. Len(p)
  <2> DEFINE s == SubSeq(p, 1, n)
  <2>1. n \in Nat /\ 1 <= n /\ \A i \in 1 .. n : p[i] \in STRING
    BY <1>1
  <2>2. /\ s \in Seq(STRING) /\ Len(s) = IF 1 <= n THEN n - 1 + 1 ELSE 0
        /\ \A i \in 1 .. n - 1 + 1 : s[i] = p[1 + i - 1]
    BY <2>1, SubSeqProperties
  <2> HIDE DEF s
  <2>3. s \in Seq(STRING) /\ Len(s) = n /\ \A i \in 1 .. n : s[i] = p[i]
    BY <2>1, <2>2
  <2> QED  BY <2>3 DEF s
<1>3. ASSUME q \in Loader!Above(p) PROVE IsPath(q) /\ Loader!IsPrefix(q, p)
  <2>1. PICK n \in 1 .. Len(p) : q = SubSeq(p, 1, n)
    BY <1>3 DEF Loader!Above
  <2>2. q \in Seq(STRING) /\ Len(q) = n /\ n \in Nat /\ 1 <= n /\ n <= Len(p)
        /\ \A i \in 1 .. n : q[i] = p[i]
    BY <1>1, <1>2, <2>1
  <2>3. IsPath(q)
    BY <2>2, EmptySeq DEF IsPath
  <2> QED  BY <2>2, <2>3, PrefixByPlace
<1>4. ASSUME IsPath(q), Loader!IsPrefix(q, p) PROVE q \in Loader!Above(p)
  <2>1. q \in Seq(STRING) /\ Len(q) \in Nat /\ Len(q) # 0
    BY <1>4, EmptySeq DEF IsPath
  <2>2. Len(q) <= Len(p) /\ \A i \in 1 .. Len(q) : q[i] = p[i]
    BY <1>4, PrefixByPlace
  <2>3. Len(q) \in 1 .. Len(p)
    BY <1>1, <2>1, <2>2
  <2> DEFINE s == SubSeq(p, 1, Len(q))
  <2>4. s \in Seq(STRING) /\ Len(s) = Len(q) /\ \A i \in 1 .. Len(q) : s[i] = p[i]
    BY <1>2, <2>3
  <2> HIDE DEF s
  <2>5. q = s
    BY <2>1, <2>2, <2>4, SeqEqual
  <2> QED  BY <2>3, <2>5 DEF s, Loader!Above
<1> QED  BY <1>3, <1>4

\* Prefixes are an order, in which those of one path are in a line.
LEMMA PrefixOrder ==
  ASSUME NEW p, IsPath(p), NEW q, IsPath(q), NEW r, IsPath(r)
  PROVE  /\ Loader!IsPrefix(p, p)
         /\ Loader!IsPrefix(q, p) /\ Loader!IsPrefix(p, q) => p = q
         /\ Loader!IsPrefix(r, q) /\ Loader!IsPrefix(q, p) => Loader!IsPrefix(r, p)
         /\ Loader!IsPrefix(q, p) /\ Loader!IsPrefix(r, p) =>
              Loader!IsPrefix(q, r) \/ Loader!IsPrefix(r, q)
<1>1. /\ p \in Seq(STRING) /\ q \in Seq(STRING)
      /\ Len(p) \in Nat /\ Len(q) \in Nat /\ Len(r) \in Nat
  BY LenProperties DEF IsPath
<1>2. Loader!IsPrefix(p, p)
  BY <1>1, PrefixByPlace
<1>3. ASSUME Loader!IsPrefix(q, p), Loader!IsPrefix(p, q) PROVE p = q
  <2>1. Len(q) = Len(p) /\ \A i \in 1 .. Len(p) : p[i] = q[i]
    BY <1>1, <1>3, PrefixByPlace
  <2> QED  BY <1>1, <2>1, SeqEqual
<1>4. ASSUME Loader!IsPrefix(r, q), Loader!IsPrefix(q, p) PROVE Loader!IsPrefix(r, p)
  <2>1. /\ Len(r) <= Len(q) /\ \A i \in 1 .. Len(r) : r[i] = q[i]
        /\ Len(q) <= Len(p) /\ \A i \in 1 .. Len(q) : q[i] = p[i]
    BY <1>4, PrefixByPlace
  <2>2. Len(r) <= Len(p) /\ \A i \in 1 .. Len(r) : r[i] = p[i]
    BY <1>1, <2>1
  <2> QED  BY <2>2, PrefixByPlace
<1>5. ASSUME Loader!IsPrefix(q, p), Loader!IsPrefix(r, p)
      PROVE  Loader!IsPrefix(q, r) \/ Loader!IsPrefix(r, q)
  <2>1. /\ \A i \in 1 .. Len(r) : r[i] = p[i]
        /\ \A i \in 1 .. Len(q) : q[i] = p[i]
    BY <1>5, PrefixByPlace
  <2>2. CASE Len(q) <= Len(r)
    <3>1. \A i \in 1 .. Len(q) : q[i] = r[i]
      BY <1>1, <2>1, <2>2
    <3> QED  BY <2>2, <3>1, PrefixByPlace
  <2>3. CASE Len(r) <= Len(q)
    <3>1. \A i \in 1 .. Len(r) : r[i] = q[i]
      BY <1>1, <2>1, <2>3
    <3> QED  BY <2>3, <3>1, PrefixByPlace
  <2> QED  BY <1>1, <2>2, <2>3
<1> QED  BY <1>2, <1>3, <1>4, <1>5

\* The variables of an environment that stay.
LastingIn(env) ==
  {i \in DOMAIN env : \A j \in DOMAIN env : j > i => ~Loader!Clash(env[i], env[j])}

\* The dictionaries that an environment makes: those around the variables that stay.
Holds(tree, env) ==
  /\ \A q : q \in DOMAIN tree <=> \E i \in LastingIn(env) : q \in Loader!Above(env[i])
  /\ \A i \in LastingIn(env) : tree[env[i]] = Loader!Variable(i)
  /\ \A q \in DOMAIN tree : (\A i \in LastingIn(env) : q # env[i]) => tree[q] = Loader!Dict

\* What is around an entry of a file is a dictionary of it.
IsFile(tree) ==
  \A p \in DOMAIN tree :
    /\ IsPath(p)
    /\ \A q \in Loader!Above(p) : q \in DOMAIN tree /\ (q # p => tree[q] = Loader!Dict)

LEMMA EnvironmentPaths ==
  ASSUME NEW env \in Seq(Paths)
  PROVE  /\ Len(env) \in Nat /\ DOMAIN env = 1 .. Len(env)
         /\ \A i \in DOMAIN env : IsPath(env[i])
         /\ LastingIn(env) \subseteq DOMAIN env
<1>1. Len(env) \in Nat /\ DOMAIN env = 1 .. Len(env) /\ \A i \in DOMAIN env : env[i] \in Paths
  BY LenProperties, ElementOfSeq
<1> QED  BY <1>1, PathsAssumption DEF IsPath, LastingIn

LEMMA OneMoreLasts ==
  ASSUME NEW env \in Seq(Paths), NEW p \in Paths
  PROVE  /\ Append(env, p) \in Seq(Paths) /\ Append(env, p)[Len(env) + 1] = p
         /\ \A i \in DOMAIN env : Append(env, p)[i] = env[i]
         /\ \A i : i \in LastingIn(Append(env, p)) <=>
              i = Len(env) + 1 \/ (i \in LastingIn(env) /\ ~Loader!Clash(env[i], p))
<1> DEFINE n == Len(env) + 1
           next == Append(env, p)
<1>1. Len(env) \in Nat /\ DOMAIN env = 1 .. Len(env)
  BY EnvironmentPaths
<1>2. /\ next \in Seq(Paths) /\ Len(next) = n /\ next[n] = p
      /\ \A i \in DOMAIN env : next[i] = env[i]
  BY <1>1
<1>3. DOMAIN next = 1 .. n
  BY <1>2, LenProperties
<1>4. \A i : i \in DOMAIN next <=> i \in DOMAIN env \/ i = n
  BY <1>1, <1>3
<1>5. \A i \in DOMAIN env : n > i
  BY <1>1
<1>6. \A j \in DOMAIN next : ~(j > n)
  BY <1>1, <1>3
<1> HIDE DEF n, next
<1>7. ASSUME NEW i
      PROVE  i \in LastingIn(next) <=>
               i = n \/ (i \in LastingIn(env) /\ ~Loader!Clash(env[i], p))
  <2>1. CASE i = n
    BY <1>4, <1>6, <2>1 DEF LastingIn
  <2>2. CASE i \in DOMAIN env
    <3>1. i # n
      BY <1>1, <2>2 DEF n
    <3>2. i \in LastingIn(next) <=> \A j \in DOMAIN next : j > i => ~Loader!Clash(next[i], next[j])
      BY <1>4, <2>2 DEF LastingIn
    <3>3. i \in LastingIn(env) <=> \A j \in DOMAIN env : j > i => ~Loader!Clash(env[i], env[j])
      BY <2>2 DEF LastingIn
    <3> QED  BY <1>2, <1>4, <1>5, <2>2, <3>1, <3>2, <3>3
  <2>3. CASE i \notin DOMAIN env /\ i # n
    BY <1>4, <2>3 DEF LastingIn
  <2> QED  BY <2>1, <2>2, <2>3
<1> QED  BY <1>2, <1>7 DEF n, next

LEMMA VariableSet ==
  ASSUME NEW env \in Seq(Paths), NEW tree, Holds(tree, env), NEW p \in Paths
  PROVE  Holds(Loader!SetNested(tree, p, Loader!Variable(Len(env) + 1)), Append(env, p))
<1> DEFINE n == Len(env) + 1
           next == Append(env, p)
           new == Loader!SetNested(tree, p, Loader!Variable(n))
<1>1. /\ next \in Seq(Paths) /\ next[n] = p
      /\ \A i \in DOMAIN env : next[i] = env[i]
      /\ \A i : i \in LastingIn(next) <=>
           i = n \/ (i \in LastingIn(env) /\ ~Loader!Clash(env[i], p))
  BY OneMoreLasts
<1>2. /\ \A i \in LastingIn(env) : IsPath(env[i]) /\ next[i] = env[i] /\ i # n
      /\ IsPath(p)
  BY <1>1, EnvironmentPaths, PathsAssumption DEF IsPath
<1>3. /\ \A q : q \in DOMAIN new <=>
             (q \in DOMAIN tree /\ ~Loader!IsPrefix(p, q)) \/ q \in Loader!Above(p)
      /\ \A q \in DOMAIN new : new[q] =
           IF q = p THEN Loader!Variable(n)
           ELSE IF q \in Loader!Above(p) THEN Loader!Dict ELSE tree[q]
  BY DEF Loader!SetNested
<1> HIDE DEF n, next, new
<1>4. /\ \A q : q \in DOMAIN tree <=> \E i \in LastingIn(env) : q \in Loader!Above(env[i])
      /\ \A i \in LastingIn(env) : tree[env[i]] = Loader!Variable(i)
      /\ \A q \in DOMAIN tree : (\A i \in LastingIn(env) : q # env[i]) => tree[q] = Loader!Dict
  BY DEF Holds
<1>5. p \in Loader!Above(p)
  BY <1>2, PathsAbove, PrefixOrder
<1>6. ASSUME NEW q
      PROVE  q \in DOMAIN new <=> \E i \in LastingIn(next) : q \in Loader!Above(next[i])
  <2>1. ASSUME q \in Loader!Above(p)
        PROVE  \E i \in LastingIn(next) : q \in Loader!Above(next[i])
    BY <1>1, <2>1
  <2>2. ASSUME q \in DOMAIN tree, ~Loader!IsPrefix(p, q), q \notin Loader!Above(p)
        PROVE  \E i \in LastingIn(next) : q \in Loader!Above(next[i])
    <3>1. PICK i \in LastingIn(env) : q \in Loader!Above(env[i])
      BY <1>4, <2>2
    <3>2. IsPath(env[i]) /\ IsPath(q) /\ Loader!IsPrefix(q, env[i]) /\ ~Loader!IsPrefix(q, p)
      BY <1>2, <2>2, <3>1, PathsAbove
    <3>3. ~Loader!IsPrefix(env[i], p)
      BY <1>2, <3>2, PrefixOrder
    <3>4. ~Loader!IsPrefix(p, env[i])
      BY <1>2, <2>2, <3>2, PrefixOrder
    <3>5. i \in LastingIn(next) /\ next[i] = env[i]
      BY <1>1, <1>2, <3>3, <3>4 DEF Loader!Clash
    <3> QED  BY <3>1, <3>5
  <2>3. ASSUME NEW i \in LastingIn(next), q \in Loader!Above(next[i])
        PROVE  q \in DOMAIN new
    <3>1. CASE i = n
      BY <1>1, <1>3, <2>3, <3>1
    <3>2. CASE i \in LastingIn(env) /\ ~Loader!Clash(env[i], p)
      <4>1. q \in Loader!Above(env[i]) /\ q \in DOMAIN tree
        BY <1>2, <1>4, <2>3, <3>2
      <4>2. IsPath(q) /\ IsPath(env[i]) /\ Loader!IsPrefix(q, env[i])
        BY <1>2, <3>2, <4>1, PathsAbove
      <4>3. ~Loader!IsPrefix(p, q)
        BY <1>2, <3>2, <4>2, PrefixOrder DEF Loader!Clash
      <4> QED  BY <1>3, <4>1, <4>3
    <3> QED  BY <1>1, <3>1, <3>2
  <2> QED  BY <1>3, <2>1, <2>2, <2>3
<1>7. ASSUME NEW i \in LastingIn(next) PROVE new[next[i]] = Loader!Variable(i)
  <2>1. CASE i = n
    BY <1>1, <1>3, <1>5, <2>1
  <2>2. CASE i \in LastingIn(env) /\ ~Loader!Clash(env[i], p)
    <3>1. next[i] = env[i] /\ IsPath(env[i]) /\ tree[env[i]] = Loader!Variable(i)
      BY <1>2, <1>4, <2>2
    <3>2. env[i] \notin Loader!Above(p)
      BY <1>2, <2>2, <3>1, PathsAbove DEF Loader!Clash
    <3>3. env[i] \in DOMAIN new
      <4>1. env[i] \in Loader!Above(env[i])
        BY <3>1, PathsAbove, PrefixOrder
      <4> QED  BY <1>6, <3>1, <4>1
    <3> QED  BY <1>3, <1>5, <3>1, <3>2, <3>3
  <2> QED  BY <1>1, <2>1, <2>2
<1>8. ASSUME NEW q \in DOMAIN new, \A i \in LastingIn(next) : q # next[i]
      PROVE  new[q] = Loader!Dict
  <2>1. q # p
    BY <1>1, <1>8
  <2>2. CASE q \in Loader!Above(p)
    BY <1>3, <2>1, <2>2
  <2>3. CASE q \notin Loader!Above(p)
    <3>1. q \in DOMAIN tree /\ ~Loader!IsPrefix(p, q) /\ new[q] = tree[q]
      BY <1>3, <2>1, <2>3
    <3>2. ASSUME NEW i \in LastingIn(env), q = env[i] PROVE FALSE
      <4>1. Loader!Clash(env[i], p)
        BY <1>1, <1>2, <1>8, <3>2
      <4> QED  BY <1>2, <2>3, <3>1, <3>2, <4>1, PathsAbove DEF Loader!Clash
    <3> QED  BY <1>4, <3>1, <3>2
  <2> QED  BY <2>2, <2>3
<1> QED  BY <1>6, <1>7, <1>8 DEF Holds, n, next, new

\* Of a file with an environment merged into it, the values.
LEMMA ValuesMerged ==
  ASSUME NEW env \in Seq(Paths), NEW source, Holds(source, env), NEW target, IsFile(target)
  PROVE  Loader!Values(Loader!DeepMerge(target, source)) =
           {<<env[i], Loader!Variable(i)>> : i \in LastingIn(env)} \cup
           {<<p, target[p]>> : p \in {q \in DOMAIN target :
              target[q] # Loader!Dict /\ \A i \in LastingIn(env) : ~Loader!Clash(q, env[i])}}
<1> DEFINE result1 == Loader!DeepMerge(target, source)
           Spares(p) == \A q \in Loader!Above(p) : ~Loader!Replaced(target, source, q)
<1>1. /\ \A p : p \in DOMAIN result1 <=> (p \in DOMAIN target /\ Spares(p)) \/ p \in DOMAIN source
      /\ \A p \in DOMAIN result1 : result1[p] = IF p \in DOMAIN source THEN source[p] ELSE target[p]
  BY DEF Loader!DeepMerge
<1> HIDE DEF result1
<1>2. /\ \A q : q \in DOMAIN source <=> \E i \in LastingIn(env) : q \in Loader!Above(env[i])
      /\ \A i \in LastingIn(env) : source[env[i]] = Loader!Variable(i)
      /\ \A q \in DOMAIN source :
           (\A i \in LastingIn(env) : q # env[i]) => source[q] = Loader!Dict
  BY DEF Holds
<1>3. \A i \in LastingIn(env) : IsPath(env[i]) /\ env[i] \in DOMAIN source
  <2> TAKE i \in LastingIn(env)
  <2>1. IsPath(env[i])
    BY EnvironmentPaths
  <2>2. env[i] \in Loader!Above(env[i])
    BY <2>1, PathsAbove, PrefixOrder
  <2> QED  BY <1>2, <2>1, <2>2
<1>4. \A i : Loader!Variable(i) # Loader!Dict
  BY DEF Loader!Variable, Loader!Dict
<1>5. ASSUME NEW p \in DOMAIN target, p \notin DOMAIN source, target[p] # Loader!Dict
      PROVE  Spares(p) <=> \A i \in LastingIn(env) : ~Loader!Clash(p, env[i])
  <2>1. IsPath(p) /\ \A q \in Loader!Above(p) : q \in DOMAIN target /\ (q # p => target[q] = Loader!Dict)
    BY DEF IsFile
  <2>2. \A i \in LastingIn(env) : ~Loader!IsPrefix(p, env[i])
    BY <1>2, <1>3, <1>5, <2>1, PathsAbove
  <2>3. ASSUME Spares(p), NEW i \in LastingIn(env), Loader!IsPrefix(env[i], p) PROVE FALSE
    <3>1. env[i] \in Loader!Above(p)
      BY <1>3, <2>1, <2>3, PathsAbove
    <3>2. Loader!Replaced(target, source, env[i])
      BY <1>2, <1>3, <1>4 DEF Loader!Replaced
    <3> QED  BY <2>3, <3>1, <3>2
  <2>4. ASSUME \A i \in LastingIn(env) : ~Loader!Clash(p, env[i]),
               NEW q \in Loader!Above(p), Loader!Replaced(target, source, q)
        PROVE  FALSE
    <3>1. q \in DOMAIN source /\ q # p /\ IsPath(q) /\ Loader!IsPrefix(q, p)
      BY <1>5, <2>1, <2>4, PathsAbove DEF Loader!Replaced
    <3>2. q \in DOMAIN target /\ target[q] = Loader!Dict
      BY <2>1, <2>4, <3>1
    <3>3. source[q] # Loader!Dict
      BY <2>4, <3>1, <3>2 DEF Loader!Replaced
    <3>4. PICK i \in LastingIn(env) : q = env[i]
      BY <1>2, <3>1, <3>3
    <3> QED  BY <2>4, <3>1, <3>4 DEF Loader!Clash
  <2> QED  BY <2>2, <2>3, <2>4 DEF Loader!Clash
<1>6. ASSUME NEW p \in DOMAIN source, source[p] # Loader!Dict
      PROVE  \E i \in LastingIn(env) : p = env[i] /\ source[p] = Loader!Variable(i)
  BY <1>2, <1>6
<1> DEFINE Left == {<<env[i], Loader!Variable(i)>> : i \in LastingIn(env)}
           Spared == {q \in DOMAIN target :
                        target[q] # Loader!Dict /\ \A i \in LastingIn(env) : ~Loader!Clash(q, env[i])}
           Right == {<<p, target[p]>> : p \in Spared}
           All == {<<p, result1[p]>> : p \in {q \in DOMAIN result1 : result1[q] # Loader!Dict}}
<1>7. ASSUME NEW p \in DOMAIN result1, result1[p] # Loader!Dict
      PROVE  <<p, result1[p]>> \in Left \cup Right
  <2>1. CASE p \in DOMAIN source
    <3>1. result1[p] = source[p]
      BY <1>1, <2>1
    <3>2. PICK i \in LastingIn(env) : p = env[i] /\ source[p] = Loader!Variable(i)
      BY <1>6, <1>7, <2>1, <3>1
    <3> QED  BY <3>1, <3>2
  <2>2. CASE p \notin DOMAIN source
    <3>1. p \in DOMAIN target /\ Spares(p) /\ result1[p] = target[p]
      BY <1>1, <2>2
    <3>2. p \in Spared
      BY <1>5, <1>7, <2>2, <3>1
    <3> QED  BY <3>1, <3>2
  <2> QED  BY <2>1, <2>2
<1>8. ASSUME NEW i \in LastingIn(env) PROVE <<env[i], Loader!Variable(i)>> \in All
  <2>1. env[i] \in DOMAIN result1 /\ result1[env[i]] = Loader!Variable(i)
    BY <1>1, <1>2, <1>3
  <2> QED  BY <1>4, <2>1
<1>9. ASSUME NEW p \in Spared PROVE <<p, target[p]>> \in All
  <2>1. IsPath(p)
    BY DEF IsFile
  <2>2. p \notin DOMAIN source
    BY <1>2, <1>3, <1>9, <2>1, PathsAbove DEF Loader!Clash
  <2>3. Spares(p)
    BY <1>5, <1>9, <2>2
  <2>4. p \in DOMAIN result1 /\ result1[p] = target[p] /\ result1[p] # Loader!Dict
    BY <1>1, <2>2, <2>3
  <2> QED  BY <2>4
<1>10. All = Left \cup Right
  BY <1>7, <1>8, <1>9
<1> QED  BY <1>10 DEF result1, Loader!Values

\* What has been read of the environment are its dictionaries.
LoadInv ==
  /\ environ \in Seq(Paths)
  /\ Holds(settings, environ)
  /\ IsFile(file)
  /\ Loader!EnvironmentWins

\* The dictionaries read of the environment hold its lasting variables and what is above
\* them, those of the file are closed upwards, and after the merge the settings are the
\* lasting variables beside the values of the file that none of them clashes with.
THEOREM LoaderInvariance == Loader!Spec => []LoadInv
<1>1. Loader!Init => LoadInv
  <2> SUFFICES ASSUME Loader!Init PROVE LoadInv
    OBVIOUS
  <2>1. environ = << >> /\ DOMAIN settings = {} /\ DOMAIN file = {} /\ ~merged
    BY DEF Loader!Init, Loader!Empty
  <2>2. LastingIn(environ) = {}
    BY <2>1 DEF LastingIn
  <2>3. environ \in Seq(Paths)
    BY <2>1
  <2> QED  BY <2>1, <2>2, <2>3 DEF LoadInv, Holds, IsFile, Loader!EnvironmentWins
<1>2. LoadInv /\ [Loader!Next]_(Loader!settingsVars) => LoadInv'
  <2> SUFFICES ASSUME LoadInv, [Loader!Next]_(Loader!settingsVars) PROVE LoadInv'
    OBVIOUS
  <2> USE DEF LoadInv
  <2>1. CASE Loader!WriteFile
    <3>1. PICK p \in Paths \ DOMAIN file, entry \in {Loader!Dict, Loader!FileValue} :
            /\ \A q \in Loader!Above(p) \ {p} : q \in DOMAIN file /\ file[q] = Loader!Dict
            /\ file' = [q \in DOMAIN file \cup {p} |-> IF q = p THEN entry ELSE file[q]]
      BY <2>1 DEF Loader!WriteFile
    <3>2. ~merged' /\ environ' = environ /\ settings' = settings
      BY <2>1 DEF Loader!WriteFile
    <3>3. IsPath(p)
      BY PathsAssumption DEF IsPath
    <3>4. IsFile(file')
      <4> SUFFICES ASSUME NEW r \in DOMAIN file', NEW q \in Loader!Above(r)
                   PROVE  /\ IsPath(r)
                          /\ q \in DOMAIN file' /\ (q # r => file'[q] = Loader!Dict)
        BY <3>1, <3>3 DEF IsFile
      <4>1. CASE r = p
        BY <3>1, <3>3, <4>1
      <4>2. CASE r # p
        <5>1. r \in DOMAIN file /\ IsPath(r) /\ q \in DOMAIN file /\ (q # r => file[q] = Loader!Dict)
          BY <3>1, <4>2 DEF IsFile
        <5> QED  BY <3>1, <5>1
      <4> QED  BY <4>1, <4>2
    <3> QED  BY <3>2, <3>4 DEF Loader!EnvironmentWins
  <2>2. CASE Loader!ReadVariable
    <3>1. PICK p \in Paths :
            /\ environ' = Append(environ, p)
            /\ settings' = Loader!SetNested(settings, p, Loader!Variable(Len(environ) + 1))
      BY <2>2 DEF Loader!ReadVariable
    <3>2. ~merged' /\ file' = file
      BY <2>2 DEF Loader!ReadVariable
    <3>3. environ' \in Seq(Paths) /\ Holds(settings', environ')
      BY <3>1, VariableSet, OneMoreLasts
    <3> QED  BY <3>2, <3>3 DEF Loader!EnvironmentWins
  <2>3. CASE Loader!Merge
    <3>1. data' = Loader!DeepMerge(file, settings) /\ UNCHANGED <<file, environ, settings>>
      BY <2>3 DEF Loader!Merge
    <3>2. Loader!Lasting' = LastingIn(environ)
      BY <3>1 DEF Loader!Lasting, Loader!Stays, LastingIn
    <3>3. Loader!EnvironmentWins'
      BY <3>1, <3>2, ValuesMerged DEF Loader!EnvironmentWins
    <3> QED  BY <3>1, <3>3
  <2>4. CASE UNCHANGED Loader!settingsVars
    <3>1. UNCHANGED <<file, environ, settings, data, merged>>
      BY <2>4 DEF Loader!settingsVars
    <3>2. Loader!Lasting' = Loader!Lasting
      BY <3>1 DEF Loader!Lasting, Loader!Stays
    <3> QED  BY <3>1, <3>2 DEF Loader!EnvironmentWins
  <2> QED  BY <2>1, <2>2, <2>3, <2>4 DEF Loader!Next
<1> QED  BY <1>1, <1>2, PTL DEF Loader!Spec

\* Values of an env file are accepted and read back as they were meant, and of the settings
\* the environment and the file give a path the environment's win.
THEOREM SettingsAreLoaded == Values!Spec /\ Loader!Spec => []LoadsAsWritten
<1>1. ValueInv => Values!ReadsBack
  BY DEF ValueInv, Values!ReadsBack
<1>2. LoadInv => Loader!EnvironmentWins
  BY DEF LoadInv
<1>3. Values!ReadsBack /\ Loader!EnvironmentWins => LoadsAsWritten
  BY DEF LoadsAsWritten
<1> QED  BY <1>1, <1>2, <1>3, ValuesInvariance, LoaderInvariance, PTL
=============================================================================
