------------------------ MODULE RedisTaskQueueProofs ------------------------
(***************************************************************************)
(* Theorems about RedisTaskQueue, for any number of tasks, keys, processes *)
(* and coroutines, with crashes, overruns and delays.                      *)
(***************************************************************************)
EXTENDS RedisTaskQueue, TLAPS

-----------------------------------------------------------------------------
(* Types of the local updates                                              *)

\* The task of a coroutine that is at work is a task.
LEMMA TaskOfType ==
  ASSUME TypeOK, NEW s \in Slots, slot[s].got # 0
  PROVE  TaskOf(s) \in Tasks /\ slot[s].got \in 1 .. Len(stream)
BY DEF TypeOK, TaskOf, SlotState

\* The message id that _load() leaves in _message_ids.
LEMMA MidType ==
  ASSUME TypeOK, NEW s \in Slots, slot[s].got # 0
  PROVE  MidOf(s) \in Nat /\ MidAfterLoad(s) \in Nat
<1>1. TaskOf(s) \in Tasks
  BY TaskOfType
<1>2. MidOf(s) \in Nat
  BY <1>1, ProcsAssumption DEF TypeOK, MidOf
<1>3. store[TaskOf(s)].mid \in Nat
  BY <1>1 DEF TypeOK, Envelope
<1> QED BY <1>2, <1>3 DEF MidAfterLoad

\* Envelopes that dequeue() and the settling calls build from a loaded one.
LEMMA EnvelopeType ==
  ASSUME NEW env \in Envelope, NEW state \in Live \cup Settled, NEW delayed \in BOOLEAN
  PROVE  /\ Running(env) \in Envelope /\ Running(env).state = "running"
         /\ InState(env, state, delayed) \in Envelope
         /\ InState(env, state, delayed).state = state
BY DEF Envelope, Running, InState, Live, Settled

LEMMA IdleType ==
  ASSUME NEW label \in SlotLabels
  PROVE  SlotAt(label) \in SlotState
BY DEF SlotAt, SlotState, SlotLabels, NoEnvelope, Envelope

\* The part of TypeOK about the coroutines.
SlotsOK ==
  /\ slot \in [Slots -> SlotState]
  /\ \A s \in Slots : slot[s].got \in 0 .. delivered
  /\ \A s \in Slots : slot[s].pc \notin {"rest", "claim", "read"} => slot[s].got # 0

\* The rest of it.
RestOK ==
  /\ stream \in Seq(Tasks)
  /\ delivered \in 0 .. Len(stream)
  /\ pending \subseteq 1 .. delivered
  /\ stale \subseteq pending
  /\ store \in [Tasks -> Envelope]
  /\ reserved \in [Keys -> Tasks \cup {NoTask}]
  /\ mids \in [Procs -> [Tasks -> Nat]]
  /\ call \in [Tasks -> CallState]
  /\ \A t \in Tasks : call[t].pc \in {"get", "reserve", "reget"} => KeyOf[t] # NoKey
  /\ overruns \in Nat /\ crashes \in Nat

LEMMA TypeParts == TypeOK <=> SlotsOK /\ RestOK
BY DEF TypeOK, SlotsOK, RestOK

\* A step of one coroutine that leaves the others alone.
LEMMA OneSlotMoves ==
  ASSUME TypeOK, NEW s \in Slots, slot' \in [Slots -> SlotState],
         \A r \in Slots \ {s} : slot'[r] = slot[r],
         slot'[s].got \in 0 .. delivered',
         slot'[s].pc \notin {"rest", "claim", "read"} => slot'[s].got # 0,
         delivered' \in Nat, delivered <= delivered'
  PROVE  SlotsOK'
<1>1. ASSUME NEW r \in Slots
      PROVE  /\ slot'[r].got \in 0 .. delivered'
             /\ slot'[r].pc \notin {"rest", "claim", "read"} => slot'[r].got # 0
  <2>1. CASE r = s
    BY <2>1
  <2>2. CASE r # s
    <3>1. /\ slot[r].got \in 0 .. delivered /\ delivered \in Nat
          /\ slot[r].pc \notin {"rest", "claim", "read"} => slot[r].got # 0
      BY DEF TypeOK
    <3>2. slot'[r] = slot[r]
      BY <2>2
    <3> QED BY <3>1, <3>2
  <2> QED BY <2>1, <2>2
<1> QED BY <1>1 DEF SlotsOK

\* A coroutine that goes on with its message keeps the type of slot.
LEMMA GoesType ==
  ASSUME TypeOK, NEW s \in Slots, slot[s].got # 0 ,
         NEW label \in SlotLabels, Goes(s, label)
  PROVE  /\ slot' \in [Slots -> SlotState]
         /\ \A r \in Slots : slot'[r].got = slot[r].got
         /\ \A r \in Slots \ {s} : slot'[r] = slot[r]
         /\ slot'[s].pc = label /\ slot'[s].env = slot[s].env
         /\ UNCHANGED delivered => SlotsOK'
<1>1. slot \in [Slots -> SlotState] /\ delivered \in Nat /\ slot[s].got \in 0 .. delivered
  BY DEF TypeOK
<1>2. /\ slot' \in [Slots -> SlotState]
      /\ \A r \in Slots : slot'[r].got = slot[r].got
      /\ \A r \in Slots \ {s} : slot'[r] = slot[r]
      /\ slot'[s].pc = label /\ slot'[s].env = slot[s].env
  BY <1>1 DEF Goes, SlotState
<1> QED BY <1>1, <1>2, OneSlotMoves

LEMMA CarriesType ==
  ASSUME TypeOK, NEW s \in Slots, slot[s].got # 0, NEW label \in SlotLabels,
         NEW env \in Envelope, NEW id \in Nat, Carries(s, label, env, id)
  PROVE  /\ slot' \in [Slots -> SlotState]
         /\ \A r \in Slots : slot'[r].got = slot[r].got
         /\ \A r \in Slots \ {s} : slot'[r] = slot[r]
         /\ slot'[s].pc = label /\ slot'[s].env = env
         /\ UNCHANGED delivered => SlotsOK'
<1>1. slot \in [Slots -> SlotState] /\ delivered \in Nat /\ slot[s].got \in 0 .. delivered
  BY DEF TypeOK
<1>2. /\ slot' \in [Slots -> SlotState]
      /\ \A r \in Slots : slot'[r].got = slot[r].got
      /\ \A r \in Slots \ {s} : slot'[r] = slot[r]
      /\ slot'[s].pc = label /\ slot'[s].env = env
  BY <1>1 DEF Carries, SlotState
<1> QED BY <1>1, <1>2, OneSlotMoves

\* A coroutine that has no message.
LEMMA RestsType ==
  ASSUME TypeOK, NEW s \in Slots, NEW label \in {"rest", "claim", "read"},
         slot' = [slot EXCEPT ![s] = SlotAt(label)]
  PROVE  /\ slot' \in [Slots -> SlotState]
         /\ \A r \in Slots \ {s} : slot'[r] = slot[r]
         /\ slot'[s].pc = label /\ slot'[s].got = 0
         /\ UNCHANGED delivered => SlotsOK'
<1>1. /\ slot \in [Slots -> SlotState] /\ SlotAt(label) \in SlotState
      /\ delivered \in Nat
  BY IdleType DEF TypeOK, SlotLabels
<1>2. /\ slot' \in [Slots -> SlotState]
      /\ \A r \in Slots \ {s} : slot'[r] = slot[r]
      /\ slot'[s].pc = label /\ slot'[s].got = 0
  BY <1>1 DEF SlotAt
<1> QED BY <1>1, <1>2, OneSlotMoves

LEMMA SetMidType ==
  ASSUME TypeOK, NEW s \in Slots, NEW id \in Nat, SetMid(s, id)
  PROVE  mids' \in [Procs -> [Tasks -> Nat]]
BY DEF TypeOK, SetMid

LEMMA AcksType ==
  ASSUME TypeOK, NEW id, Acks(id)
  PROVE  pending' \subseteq 1 .. delivered /\ stale' \subseteq pending'
BY DEF TypeOK, Acks

LEMMA PersistsType ==
  ASSUME TypeOK, NEW s \in Slots, slot[s].got # 0, Persists(s)
  PROVE  /\ store' \in [Tasks -> Envelope]
         /\ store'[TaskOf(s)].state = slot[s].env.state
         /\ \A t \in Tasks \ {TaskOf(s)} : store'[t] = store[t]
<1>1. TaskOf(s) \in Tasks
  BY TaskOfType
<1>2. slot[s].env \in Envelope /\ slot[s].arg \in Nat
  BY DEF TypeOK, SlotState
<1>3. store \in [Tasks -> Envelope]
  BY DEF TypeOK
<1>4. store[TaskOf(s)].mid \in Nat
  BY <1>1, <1>3 DEF Envelope
<1> DEFINE id == IF slot[s].arg # 0 THEN slot[s].arg ELSE store[TaskOf(s)].mid
           env == [slot[s].env EXCEPT !.mid = id]
<1>5. env \in Envelope /\ env.state = slot[s].env.state
  <2>1. id \in Nat
    BY <1>2, <1>4
  <2> HIDE DEF id
  <2> QED BY <1>2, <2>1 DEF Envelope
<1>6. store' = [store EXCEPT ![TaskOf(s)] = env]
  BY DEF Persists
<1> HIDE DEF env
<1> QED BY <1>1, <1>3, <1>5, <1>6

LEMMA AppendType ==
  ASSUME TypeOK, NEW t \in Tasks, stream' = Append(stream, t)
  PROVE  /\ stream' \in Seq(Tasks) /\ Len(stream') = Len(stream) + 1
         /\ delivered \in 0 .. Len(stream')
         /\ \A i \in 1 .. Len(stream) : stream'[i] = stream[i]
         /\ stream'[Len(stream) + 1] = t
BY DEF TypeOK

-----------------------------------------------------------------------------
(* Type correctness                                                        *)

LEMMA TypeInit == Init => TypeOK
<1> SUFFICES ASSUME Init PROVE TypeOK
  OBVIOUS
<1>1. slot \in [Slots -> SlotState]
  BY IdleType DEF Init, IdleSlot, SlotLabels
<1>2. \A s \in Slots : slot[s].got = 0 /\ slot[s].pc = "rest"
  BY DEF Init, IdleSlot, SlotAt
<1>3. call \in [Tasks -> CallState]
  BY DEF Init, CallState, CallLabels
<1>4. store \in [Tasks -> Envelope]
  BY DEF Init, NoEnvelope, Envelope
<1> QED BY <1>1, <1>2, <1>3, <1>4 DEF Init, TypeOK

LEMMA EnqueueGoesType ==
  ASSUME TypeOK, NEW t \in Tasks, NEW label \in CallLabels, EnqueueGoes(t, label)
  PROVE  /\ call' \in [Tasks -> CallState]
         /\ call'[t].pc = label
         /\ \A u \in Tasks \ {t} : call'[u] = call[u]
<1>1. call \in [Tasks -> CallState]
  BY DEF TypeOK
<1> QED BY <1>1 DEF EnqueueGoes, CallState

LEMMA EnqueueReturnsType ==
  ASSUME TypeOK, NEW t \in Tasks, NEW label \in CallLabels,
         NEW found \in Tasks \cup {NoTask},
         call' = [call EXCEPT ![t] = [pc |-> label, found |-> found]]
  PROVE  /\ call' \in [Tasks -> CallState]
         /\ call'[t].pc = label
         /\ \A u \in Tasks \ {t} : call'[u] = call[u]
BY DEF TypeOK, CallState

LEMMA TypeEnqueue ==
  ASSUME TypeOK, NEW t \in Tasks, Enqueue(t)
  PROVE  TypeOK'
<1> USE DEF CallLabels
<1>1. CASE EnqueueGet(t)
  <2>1. KeyOf[t] \in Keys /\ KeyOf[t] # NoKey
    BY <1>1, KeysAssumption DEF EnqueueGet, TypeOK
  <2>2. reserved[KeyOf[t]] \in Tasks \cup {NoTask}
    BY <2>1 DEF TypeOK
  <2>3. CASE reserved[KeyOf[t]] = NoTask
    <3>1. EnqueueGoes(t, "reserve")
      BY <1>1, <2>3 DEF EnqueueGet
    <3> QED BY <1>1, <2>1, <3>1, EnqueueGoesType DEF EnqueueGet, TypeOK, redis, counts
  <2>4. CASE reserved[KeyOf[t]] # NoTask
    <3>1. call' = [call EXCEPT ![t] = [pc |-> "reload", found |-> reserved[KeyOf[t]]]]
      BY <1>1, <2>4 DEF EnqueueGet
    <3> QED BY <1>1, <2>2, <3>1, EnqueueReturnsType DEF EnqueueGet, TypeOK, redis, counts
  <2> QED BY <2>3, <2>4
<1>2. CASE EnqueueReserve(t)
  <2>1. KeyOf[t] \in Keys /\ KeyOf[t] # NoKey
    BY <1>2, KeysAssumption DEF EnqueueReserve, TypeOK
  <2>2. CASE reserved[KeyOf[t]] = NoTask
    <3>1. EnqueueGoes(t, "persist") /\ reserved' \in [Keys -> Tasks \cup {NoTask}]
      BY <1>2, <2>2 DEF EnqueueReserve, TypeOK
    <3> QED BY <1>2, <3>1, EnqueueGoesType DEF EnqueueReserve, TypeOK, counts
  <2>3. CASE reserved[KeyOf[t]] # NoTask
    <3>1. EnqueueGoes(t, "reget") /\ UNCHANGED reserved
      BY <1>2, <2>3 DEF EnqueueReserve
    <3> QED BY <1>2, <2>1, <3>1, EnqueueGoesType DEF EnqueueReserve, TypeOK, counts
  <2> QED BY <2>2, <2>3
<1>3. CASE EnqueueReload(t)
  <2>1. CASE EnqueueGoes(t, "keyError")
    BY <1>3, <2>1, EnqueueGoesType DEF EnqueueReload, TypeOK, redis, counts
  <2>2. CASE EnqueueReturns(t, call[t].found)
    <3>1. call[t].found \in Tasks \cup {NoTask}
      BY DEF TypeOK, CallState
    <3> QED BY <1>3, <2>2, <3>1, EnqueueReturnsType
            DEF EnqueueReload, EnqueueReturns, TypeOK, redis, counts
  <2> QED BY <1>3, <2>1, <2>2 DEF EnqueueReload
<1>4. CASE EnqueuePersist(t)
  <2>1. store' \in [Tasks -> Envelope]
    BY <1>4, DelaysAssumption DEF EnqueuePersist, TypeOK, Envelope, Live
  <2>2. EnqueueGoes(t, "publish")
    BY <1>4 DEF EnqueuePersist
  <2> QED BY <1>4, <2>1, <2>2, EnqueueGoesType DEF EnqueuePersist, TypeOK, counts
<1>5. CASE EnqueuePublish(t)
  <2>1. stream' \in Seq(Tasks) /\ delivered \in 0 .. Len(stream')
    BY <1>5, AppendType DEF EnqueuePublish
  <2>2. call' = [call EXCEPT ![t] = [pc |-> "returned", found |-> t]]
    BY <1>5 DEF EnqueuePublish, EnqueueReturns
  <2> QED BY <1>5, <2>1, <2>2, EnqueueReturnsType DEF EnqueuePublish, TypeOK, counts
<1> QED BY <1>1, <1>2, <1>3, <1>4, <1>5 DEF Enqueue

LEMMA ReceivesType ==
  ASSUME TypeOK, NEW s \in Slots, NEW id \in 1 .. Len(stream), NEW via \in {"claim", "read"},
         Receives(s, id, via), id <= delivered', delivered' \in Nat, delivered <= delivered'
  PROVE  mids' \in [Procs -> [Tasks -> Nat]] /\ SlotsOK'
<1>1. stream[id] \in Tasks /\ id \in Nat /\ ProcOf[s] \in Procs
  BY ProcsAssumption DEF TypeOK
<1> DEFINE new == [pc |-> "load", via |-> via, got |-> id, env |-> NoEnvelope, arg |-> 0]
<1>2. new \in SlotState
  BY <1>1 DEF SlotState, SlotLabels, NoEnvelope, Envelope
<1>3. new.got = id /\ new.got # 0 /\ new.got \in 0 .. delivered'
  BY <1>1
<1>4. slot \in [Slots -> SlotState] /\ slot' = [slot EXCEPT ![s] = new]
  BY DEF Receives, TypeOK
<1>5. mids' \in [Procs -> [Tasks -> Nat]]
  BY <1>1 DEF Receives, TypeOK
<1> HIDE DEF new
<1>6. SlotsOK'
  BY <1>2, <1>3, <1>4, OneSlotMoves
<1> QED BY <1>5, <1>6

\* A coroutine at work has a message.
LEMMA AtWork ==
  ASSUME TypeOK, NEW s \in Slots, slot[s].pc \notin {"rest", "claim", "read"}
  PROVE  slot[s].got # 0 /\ TaskOf(s) \in Tasks
BY TaskOfType DEF TypeOK

LEMMA TypeDequeue ==
  ASSUME TypeOK, NEW s \in Slots,
         \/ Claim(s) \/ ReadNew(s) \/ Load(s) \/ AckDropped(s) \/ Republish(s) \/ Start(s)
  PROVE  TypeOK'
<1> SUFFICES SlotsOK' /\ RestOK'
  BY DEF TypeOK, SlotsOK, RestOK
<1> USE DEF SlotLabels
<1>0. RestOK /\ delivered \in Nat /\ delivered <= Len(stream) /\ stream \in Seq(Tasks)
  BY TypeParts DEF RestOK
<1>1. CASE Claim(s)
  <2>1. CASE stale = {} /\ Goes(s, "read") /\ UNCHANGED <<stale, mids>>
    <3>1. /\ slot' \in [Slots -> SlotState] /\ slot'[s].pc = "read"
          /\ slot'[s].got \in 0 .. delivered
          /\ \A r \in Slots \ {s} : slot'[r] = slot[r]
      BY <2>1 DEF Goes, SlotState, TypeOK
    <3>2. UNCHANGED delivered
      BY <1>1 DEF Claim
    <3>3. SlotsOK'
      BY <1>0, <3>1, <3>2, OneSlotMoves
    <3> QED BY <1>0, <1>1, <2>1, <3>3 DEF Claim, RestOK, counts
  <2>2. ASSUME NEW id \in stale, stale' = stale \ {id}, Receives(s, id, "claim")
        PROVE  SlotsOK' /\ RestOK'
    <3>1. id \in 1 .. Len(stream) /\ id <= delivered
      BY <1>0 DEF RestOK
    <3>2. UNCHANGED delivered
      BY <1>1 DEF Claim
    <3>3. mids' \in [Procs -> [Tasks -> Nat]] /\ SlotsOK'
      BY <1>0, <2>2, <3>1, <3>2, ReceivesType
    <3> QED BY <1>0, <1>1, <2>2, <3>3 DEF Claim, RestOK, counts
  <2> QED BY <1>1, <2>1, <2>2 DEF Claim
<1>2. CASE ReadNew(s)
  <2>1. CASE delivered < Len(stream)
    <3>1. /\ Receives(s, delivered + 1, "read") /\ delivered' = delivered + 1
          /\ pending' = pending \cup {delivered + 1}
      BY <1>2, <2>1 DEF ReadNew
    <3>2. delivered + 1 \in 1 .. Len(stream) /\ delivered' \in Nat
      BY <1>0, <2>1, <3>1
    <3>3. mids' \in [Procs -> [Tasks -> Nat]] /\ SlotsOK'
      BY <1>0, <3>1, <3>2, ReceivesType
    <3>4. pending' \subseteq 1 .. delivered' /\ stale \subseteq pending'
      BY <1>0, <3>1 DEF RestOK
    <3> QED BY <1>0, <1>2, <3>1, <3>2, <3>3, <3>4 DEF ReadNew, RestOK, counts
  <2>2. CASE ~(delivered < Len(stream))
    <3>1. slot' = [slot EXCEPT ![s] = SlotAt("rest")] /\ UNCHANGED <<delivered, pending, mids>>
      BY <1>2, <2>2 DEF ReadNew, Rests, IdleSlot
    <3>2. SlotsOK'
      BY <3>1, RestsType
    <3> QED BY <1>0, <1>2, <3>1, <3>2 DEF ReadNew, RestOK, counts
  <2> QED BY <2>1, <2>2
<1>3. CASE Load(s)
  <2>1. slot[s].got # 0 /\ TaskOf(s) \in Tasks
    BY <1>3, AtWork DEF Load
  <2>2. store[TaskOf(s)] \in Envelope /\ MidAfterLoad(s) \in Nat
    BY <1>0, <2>1, MidType DEF RestOK
  <2>3. mids' \in [Procs -> [Tasks -> Nat]]
    BY <1>3, <2>2, SetMidType DEF Load
  <2>4. Running(store[TaskOf(s)]) \in Envelope
    BY <2>2 DEF Running, Envelope, Live
  <2>5. \/ Carries(s, "ackDropped", store[TaskOf(s)], MidAfterLoad(s))
        \/ Carries(s, "start", Running(store[TaskOf(s)]), MidAfterLoad(s))
    BY <1>3 DEF Load
  <2>6. UNCHANGED <<redis, call, counts>>
    BY <1>3 DEF Load
  <2>7. SlotsOK'
    BY <2>1, <2>2, <2>4, <2>5, <2>6, CarriesType DEF redis
  <2> QED BY <1>0, <2>3, <2>6, <2>7 DEF RestOK, redis, counts
<1>4. CASE AckDropped(s)
  <2>1. slot[s].got # 0 /\ SetMid(s, 0) /\ UNCHANGED delivered
    BY <1>4, AtWork DEF AckDropped
  <2>2. mids' \in [Procs -> [Tasks -> Nat]]
    BY <2>1, SetMidType
  <2>3. pending' \subseteq 1 .. delivered /\ stale' \subseteq pending'
    BY <1>4, AcksType DEF AckDropped
  <2>4. SlotsOK'
    <3>1. CASE Goes(s, "republish")
      BY <2>1, <3>1, GoesType
    <3>2. CASE GivesUp(s)
      BY <2>1, <3>2, RestsType DEF GivesUp
    <3> QED BY <1>4, <3>1, <3>2 DEF AckDropped
  <2> QED BY <1>0, <1>4, <2>2, <2>3, <2>4 DEF AckDropped, RestOK, counts
<1>5. CASE Republish(s)
  <2>1. TaskOf(s) \in Tasks
    BY <1>5, AtWork DEF Republish
  <2>2. stream' \in Seq(Tasks) /\ delivered \in 0 .. Len(stream')
    BY <1>5, <2>1, AppendType DEF Republish
  <2>3. SlotsOK'
    BY <1>5, RestsType DEF Republish, GivesUp
  <2> QED BY <1>0, <1>5, <2>2, <2>3 DEF Republish, RestOK, counts
<1>6. CASE Start(s)
  <2>1. slot[s].got # 0
    BY <1>6, AtWork DEF Start
  <2>2. store' \in [Tasks -> Envelope]
    BY <1>6, <2>1, PersistsType DEF Start
  <2>3. SlotsOK'
    BY <1>6, <2>1, GoesType DEF Start
  <2> QED BY <1>0, <1>6, <2>2, <2>3 DEF Start, RestOK, counts
<1> QED BY <1>1, <1>2, <1>3, <1>4, <1>5, <1>6

LEMMA TypeSettle ==
  ASSUME TypeOK, NEW s \in Slots,
         \/ HandlerReturns(s) \/ HandlerRaises(s) \/ NoHandler(s)
         \/ SettleLoad(s) \/ SettlePersist(s) \/ SettleAck(s) \/ SettlePublish(s)
  PROVE  TypeOK'
<1> SUFFICES SlotsOK' /\ RestOK'
  BY DEF TypeOK, SlotsOK, RestOK
<1> USE DEF SlotLabels
<1>0. slot[s].got # 0 /\ TaskOf(s) \in Tasks /\ RestOK
  BY AtWork, TypeParts DEF HandlerReturns, HandlerRaises, NoHandler,
     SettleLoad, SettlePersist, SettleAck, SettlePublish
<1>1. ASSUME NEW verdict \in {"completed", "queued", "dead_lettered"}, Decides(s, verdict)
      PROVE  SlotsOK' /\ RestOK'
  <2>1. slot[s].env \in Envelope
    BY DEF TypeOK, SlotState
  <2>2. InState(slot[s].env, verdict, slot[s].env.delayed) \in Envelope
    BY <2>1 DEF InState, Envelope, Live, Settled
  <2>3. UNCHANGED <<redis, mids, call, counts>>
    BY <1>1 DEF Decides
  <2>4. SlotsOK'
    BY <1>0, <1>1, <2>2, <2>3, CarriesType DEF Decides, redis
  <2> QED BY <1>0, <2>3, <2>4 DEF RestOK, redis, counts
<1>2. CASE HandlerReturns(s) \/ HandlerRaises(s) \/ NoHandler(s)
  BY <1>1, <1>2 DEF HandlerReturns, HandlerRaises, NoHandler
<1>3. CASE SettleLoad(s)
  <2>1. store[TaskOf(s)] \in Envelope /\ MidAfterLoad(s) \in Nat
    BY <1>0, MidType DEF RestOK
  <2>2. Verdict(s) \in {"absent"} \cup Live \cup Settled
    BY DEF TypeOK, SlotState, Envelope, Verdict
  <2>3. PICK delayed \in IF Verdict(s) = "queued" THEN RetryDelays
                         ELSE {store[TaskOf(s)].delayed} :
          Carries(s, "settlePersist", InState(store[TaskOf(s)], Verdict(s), delayed),
                  MidAfterLoad(s))
    BY <1>3 DEF SettleLoad
  <2>4. delayed \in BOOLEAN
    BY <2>1, <2>3, DelaysAssumption DEF Envelope
  <2>5. InState(store[TaskOf(s)], Verdict(s), delayed) \in Envelope
    BY <2>1, <2>2, <2>4 DEF InState, Envelope
  <2>6. mids' \in [Procs -> [Tasks -> Nat]] /\ UNCHANGED <<redis, call, counts>>
    BY <1>3, <2>1, SetMidType DEF SettleLoad
  <2>7. SlotsOK'
    BY <1>0, <2>1, <2>3, <2>5, <2>6, CarriesType DEF redis
  <2> QED BY <1>0, <2>6, <2>7 DEF RestOK, redis, counts
<1>4. CASE SettlePersist(s)
  <2>1. store' \in [Tasks -> Envelope] /\ UNCHANGED delivered
    BY <1>0, <1>4, PersistsType DEF SettlePersist
  <2>2. slot[s].env \in Envelope /\ MidOf(s) \in Nat
    BY <1>0, MidType DEF TypeOK, SlotState
  <2>3. SlotsOK'
    <3>1. CASE Carries(s, "settleAck", slot[s].env, MidOf(s))
      BY <1>0, <2>1, <2>2, <3>1, CarriesType
    <3>2. CASE Goes(s, "settlePublish")
      BY <1>0, <2>1, <3>2, GoesType
    <3>3. CASE Rests(s)
      BY <2>1, <3>3, RestsType DEF Rests, IdleSlot
    <3> QED BY <1>4, <3>1, <3>2, <3>3 DEF SettlePersist
  <2> QED BY <1>0, <1>4, <2>1, <2>3 DEF SettlePersist, RestOK, counts
<1>5. CASE SettleAck(s)
  <2>1. pending' \subseteq 1 .. delivered /\ stale' \subseteq pending'
    BY <1>5, AcksType DEF SettleAck
  <2>2. SlotsOK' /\ mids' \in [Procs -> [Tasks -> Nat]]
    <3>0. UNCHANGED delivered
      BY <1>5 DEF SettleAck
    <3>1. CASE Goes(s, "settlePublish") /\ SetMid(s, 0)
      BY <1>0, <3>0, <3>1, GoesType, SetMidType
    <3>2. CASE Rests(s) /\ UNCHANGED mids
      BY <1>0, <3>0, <3>2, RestsType DEF Rests, IdleSlot, RestOK
    <3> QED BY <1>5, <3>1, <3>2 DEF SettleAck
  <2> QED BY <1>0, <1>5, <2>1, <2>2 DEF SettleAck, RestOK, counts
<1>6. CASE SettlePublish(s)
  <2>1. stream' \in Seq(Tasks) /\ delivered \in 0 .. Len(stream')
    BY <1>0, <1>6, AppendType DEF SettlePublish
  <2>2. SlotsOK'
    BY <1>6, RestsType DEF SettlePublish, Rests, IdleSlot
  <2> QED BY <1>0, <1>6, <2>1, <2>2 DEF SettlePublish, RestOK, counts
<1> QED BY <1>2, <1>3, <1>4, <1>5, <1>6

LEMMA TypeEnvironment ==
  ASSUME TypeOK,
         \/ \E t \in Tasks : Elapse(t) \/ EnqueueCrash(t)
         \/ \E id \in pending : GrowStale(id)
         \/ \E p \in Procs : Batch(p) \/ Crash(p)
         \/ UNCHANGED vars
  PROVE  TypeOK'
<1> SUFFICES SlotsOK' /\ RestOK'
  BY DEF TypeOK, SlotsOK, RestOK
<1>0. SlotsOK /\ RestOK
  BY TypeParts
<1>1. ASSUME NEW t \in Tasks, Elapse(t)
      PROVE  SlotsOK' /\ RestOK'
  <2>1. store' \in [Tasks -> Envelope]
    BY <1>0, <1>1 DEF Elapse, RestOK, Envelope
  <2>2. /\ slot' \in [Slots -> SlotState]
        /\ \A s \in Slots : slot'[s].pc = slot[s].pc /\ slot'[s].got = slot[s].got
    <3>1. ASSUME NEW s \in Slots
          PROVE  /\ [slot[s] EXCEPT !.env.delayed = FALSE] \in SlotState
                 /\ [slot[s] EXCEPT !.env.delayed = FALSE].pc = slot[s].pc
                 /\ [slot[s] EXCEPT !.env.delayed = FALSE].got = slot[s].got
      BY <1>0 DEF SlotsOK, SlotState, Envelope
    <3> QED BY <1>0, <1>1, <3>1 DEF Elapse, SlotsOK
  <2>3. SlotsOK'
    BY <1>0, <1>1, <2>2 DEF Elapse, SlotsOK
  <2> QED BY <1>0, <1>1, <2>1, <2>3 DEF Elapse, RestOK, counts
<1>2. ASSUME NEW t \in Tasks, EnqueueCrash(t)
      PROVE  SlotsOK' /\ RestOK'
  <2>1. EnqueueGoes(t, "crashed") /\ "crashed" \in CallLabels
    BY <1>2 DEF EnqueueCrash, CallLabels
  <2>2. /\ call' \in [Tasks -> CallState] /\ call'[t].pc = "crashed"
        /\ \A u \in Tasks \ {t} : call'[u] = call[u]
    BY <2>1, EnqueueGoesType
  <2>3. \A u \in Tasks : call'[u].pc \in {"get", "reserve", "reget"} => KeyOf[u] # NoKey
    BY <1>0, <2>2 DEF RestOK
  <2>4. UNCHANGED <<redis, mids, slot, overruns>> /\ crashes' \in Nat
    BY <1>0, <1>2 DEF EnqueueCrash, RestOK
  <2>5. SlotsOK'
    BY <1>0, <2>4 DEF SlotsOK, redis
  <2> QED BY <1>0, <2>2, <2>3, <2>4, <2>5 DEF RestOK, redis
<1>3. ASSUME NEW id \in pending, GrowStale(id)
      PROVE  SlotsOK' /\ RestOK'
  <2>1. overruns' \in Nat /\ stale' \subseteq pending
    BY <1>0, <1>3 DEF GrowStale, RestOK
  <2> QED BY <1>0, <1>3, <2>1 DEF GrowStale, SlotsOK, RestOK
<1>4. ASSUME NEW p \in Procs, Crash(p)
      PROVE  SlotsOK' /\ RestOK'
  <2>1. IdleSlot \in SlotState /\ IdleSlot.pc = "rest" /\ IdleSlot.got = 0
    BY IdleType DEF IdleSlot, SlotAt, SlotLabels
  <2>2. mids' \in [Procs -> [Tasks -> Nat]] /\ crashes' \in Nat
    BY <1>0, <1>4 DEF Crash, RestOK
  <2>3. UNCHANGED delivered /\ delivered \in Nat
    BY <1>0, <1>4 DEF Crash, RestOK, redis
  <2>4. SlotsOK'
    BY <1>0, <1>4, <2>1, <2>3 DEF Crash, SlotsOK
  <2> QED BY <1>0, <1>4, <2>2, <2>4 DEF Crash, RestOK, redis
<1>5. ASSUME NEW p \in Procs, Batch(p)
      PROVE  SlotsOK' /\ RestOK'
  <2>1. /\ SlotAt("claim") \in SlotState
        /\ SlotAt("claim").pc = "claim" /\ SlotAt("claim").got = 0
    BY IdleType DEF SlotAt, SlotLabels
  <2>2. UNCHANGED <<redis, mids, call, counts>> /\ delivered \in Nat
    BY <1>0, <1>5 DEF Batch, RestOK
  <2>3. SlotsOK'
    BY <1>0, <1>5, <2>1, <2>2 DEF Batch, SlotsOK, redis
  <2> QED BY <1>0, <2>2, <2>3 DEF RestOK, redis, counts
<1>6. CASE UNCHANGED vars
  BY <1>0, <1>6 DEF vars, counts, SlotsOK, RestOK
<1> QED BY <1>1, <1>2, <1>3, <1>4, <1>5, <1>6

\* Every reachable state is well typed: pending messages have been delivered, a
\* coroutine at work holds a delivered message, the Redis hashes are envelopes.
THEOREM TypeCorrect == Spec => []TypeOK
<1>1. TypeOK /\ [Next]_vars => TypeOK'
  <2> SUFFICES ASSUME TypeOK, [Next]_vars PROVE TypeOK'
    OBVIOUS
  <2> QED BY TypeEnqueue, TypeDequeue, TypeSettle, TypeEnvironment DEF Next, Work
<1> QED BY TypeInit, <1>1, PTL DEF Spec

-----------------------------------------------------------------------------
(* Idempotency keys and messages.                                          *)
(*                                                                         *)
(* Neither property is inductive.  OneTaskPerKey holds because a key is    *)
(* reserved for a call before the call stores its task, and is never given *)
(* to another; MessagesHaveTasks because a call stores its task before it  *)
(* publishes it, and no coroutine writes back an envelope it did not load. *)

Stored(t) == store[t].state # "absent"

PublishStored == \A t \in Tasks : call[t].pc = "publish" => Stored(t)

\* From _load() to the end of the task.
Working == {"start", "run", "settleLoad", "settlePersist", "settleAck", "settlePublish"}

WorkStored == \A s \in Slots : slot[s].pc \in Working => slot[s].env.state # "absent"

KeyHolders ==
  \A t \in Tasks :
    KeyOf[t] # NoKey /\ (call[t].pc \in {"persist", "publish"} \/ Stored(t))
    => reserved[KeyOf[t]] = t

QueueInv == MessagesHaveTasks /\ PublishStored /\ WorkStored /\ KeyHolders

LEMMA QueueInit == Init => QueueInv
<1> SUFFICES ASSUME Init PROVE QueueInv
  OBVIOUS
<1>1. \A t \in Tasks : ~Stored(t)
  BY DEF Init, Stored, NoEnvelope
<1>2. MessagesHaveTasks
  BY DEF Init, MessagesHaveTasks
<1>3. \A t \in Tasks : call[t].pc # "publish" /\ (KeyOf[t] # NoKey => call[t].pc = "get")
  BY DEF Init
<1>4. WorkStored
  BY DEF Init, WorkStored, Working, IdleSlot, SlotAt
<1> QED BY <1>1, <1>2, <1>3, <1>4 DEF QueueInv, PublishStored, KeyHolders

\* A step of a coroutine: the invariant of the others stands.
LEMMA WorkMoves ==
  ASSUME WorkStored, NEW s \in Slots, \A r \in Slots \ {s} : slot'[r] = slot[r],
         slot'[s].pc \in Working => slot'[s].env.state # "absent"
  PROVE  WorkStored'
BY DEF WorkStored

\* A step that changes neither the hashes, the messages, the keys nor the calls.
LEMMA QueueStands ==
  ASSUME QueueInv, UNCHANGED <<stream, store, reserved, call>>
  PROVE  MessagesHaveTasks' /\ PublishStored' /\ KeyHolders'
BY DEF QueueInv, MessagesHaveTasks, PublishStored, KeyHolders, Stored

\* A message of a stored task is published.
LEMMA AppendStored ==
  ASSUME TypeOK, QueueInv, NEW t \in Tasks, Stored(t), stream' = Append(stream, t),
         UNCHANGED store
  PROVE  MessagesHaveTasks'
<1>1. ASSUME NEW id \in 1 .. Len(stream')
      PROVE  store[stream'[id]].state # "absent"
  <2>1. id \in 1 .. Len(stream) \/ id = Len(stream) + 1
    BY AppendType DEF TypeOK
  <2>2. CASE id \in 1 .. Len(stream)
    BY <2>2, AppendType DEF QueueInv, MessagesHaveTasks
  <2>3. CASE id = Len(stream) + 1
    BY <2>3, AppendType DEF Stored
  <2> QED BY <2>1, <2>2, <2>3
<1> QED BY <1>1 DEF MessagesHaveTasks

\* A coroutine at work works on a stored task.
LEMMA WorkTask ==
  ASSUME TypeOK, QueueInv, NEW s \in Slots, slot[s].got # 0
  PROVE  TaskOf(s) \in Tasks /\ Stored(TaskOf(s))
<1>1. TaskOf(s) \in Tasks /\ slot[s].got \in 1 .. Len(stream)
  BY TaskOfType
<1> QED BY <1>1 DEF QueueInv, MessagesHaveTasks, Stored, TaskOf

\* HSET by a coroutine keeps every hash that is there.
LEMMA PersistsStored ==
  ASSUME TypeOK, QueueInv, NEW s \in Slots, slot[s].pc \in {"start", "settlePersist"},
         Persists(s), UNCHANGED <<stream, reserved, call>>
  PROVE  MessagesHaveTasks' /\ PublishStored' /\ KeyHolders'
<1>1. slot[s].got # 0
  BY AtWork
<1>2. TaskOf(s) \in Tasks /\ Stored(TaskOf(s))
  BY <1>1, WorkTask
<1>3. store'[TaskOf(s)].state # "absent"
  BY <1>1, PersistsType DEF QueueInv, WorkStored, Working
<1>4. \A t \in Tasks : Stored(t)' = Stored(t)
  BY <1>1, <1>2, <1>3, PersistsType DEF Stored
<1>5. \A id \in 1 .. Len(stream) : stream[id] \in Tasks
  BY DEF TypeOK
<1> QED BY <1>4, <1>5 DEF QueueInv, MessagesHaveTasks, PublishStored, KeyHolders, Stored

LEMMA QueueEnqueue ==
  ASSUME TypeOK, QueueInv, NEW t \in Tasks, Enqueue(t)
  PROVE  QueueInv'
<1> USE DEF CallLabels
<1>0. KeyOf[t] # NoKey => KeyOf[t] \in Keys
  BY KeysAssumption
<1>1. CASE EnqueueGet(t) \/ EnqueueReload(t)
  <2>1. UNCHANGED <<stream, store, reserved, slot>>
    BY <1>1 DEF EnqueueGet, EnqueueReload, redis
  <2>2. PICK label \in CallLabels \ {"persist", "publish"} :
          call'[t].pc = label /\ \A u \in Tasks \ {t} : call'[u] = call[u]
    <3>1. call \in [Tasks -> CallState]
      BY DEF TypeOK
    <3> QED BY <1>1, <3>1
            DEF EnqueueGet, EnqueueReload, EnqueueGoes, EnqueueReturns, CallState
  <2> QED BY <2>1, <2>2
          DEF QueueInv, MessagesHaveTasks, PublishStored, WorkStored, KeyHolders, Stored
<1>2. CASE EnqueueReserve(t)
  <2>1. UNCHANGED <<stream, store, slot>>
    BY <1>2 DEF EnqueueReserve
  <2>2. KeyOf[t] \in Keys /\ KeyOf[t] # NoKey
    BY <1>0, <1>2 DEF EnqueueReserve, TypeOK
  <2>3. MessagesHaveTasks' /\ WorkStored'
    BY <2>1 DEF QueueInv, MessagesHaveTasks, WorkStored
  <2>4. CASE reserved[KeyOf[t]] = NoTask
    <3>1. EnqueueGoes(t, "persist") /\ reserved' = [reserved EXCEPT ![KeyOf[t]] = t]
      BY <1>2, <2>4 DEF EnqueueReserve
    <3>2. call'[t].pc = "persist" /\ \A u \in Tasks \ {t} : call'[u] = call[u]
      BY <3>1, EnqueueGoesType
    <3>3. reserved \in [Keys -> Tasks \cup {NoTask}]
      BY DEF TypeOK
    \* Nobody held the key before, and nobody holds another key of this call.
    <3>4. KeyHolders'
      BY <2>1, <2>2, <2>4, <3>1, <3>2, <3>3, TasksAssumption, KeysAssumption
      DEF QueueInv, KeyHolders, Stored
    <3> QED BY <2>1, <2>3, <3>2, <3>4 DEF QueueInv, PublishStored, Stored
  <2>5. CASE reserved[KeyOf[t]] # NoTask
    <3>1. EnqueueGoes(t, "reget") /\ UNCHANGED reserved
      BY <1>2, <2>5 DEF EnqueueReserve
    <3>2. call'[t].pc = "reget" /\ \A u \in Tasks \ {t} : call'[u] = call[u]
      BY <3>1, EnqueueGoesType
    <3> QED BY <2>1, <2>3, <3>1, <3>2 DEF QueueInv, PublishStored, KeyHolders, Stored
  <2> QED BY <2>4, <2>5
<1>3. CASE EnqueuePersist(t)
  <2>1. EnqueueGoes(t, "publish") /\ UNCHANGED <<stream, reserved, slot>>
    BY <1>3 DEF EnqueuePersist
  <2>2. call'[t].pc = "publish" /\ \A u \in Tasks \ {t} : call'[u] = call[u]
    BY <2>1, EnqueueGoesType
  <2>3. /\ store'[t].state # "absent"
        /\ \A u \in Tasks \ {t} : store'[u] = store[u]
    BY <1>3 DEF EnqueuePersist, TypeOK
  <2>4. \A id \in 1 .. Len(stream) : stream[id] \in Tasks
    BY DEF TypeOK
  <2>5. MessagesHaveTasks' /\ PublishStored' /\ WorkStored'
    BY <2>1, <2>2, <2>3, <2>4
    DEF QueueInv, MessagesHaveTasks, PublishStored, WorkStored, Stored
  <2>6. call[t].pc = "persist"
    BY <1>3 DEF EnqueuePersist
  <2>7. KeyHolders'
    BY <2>1, <2>2, <2>3, <2>6 DEF QueueInv, KeyHolders, Stored
  <2> QED BY <2>5, <2>7 DEF QueueInv
<1>4. CASE EnqueuePublish(t)
  <2>1. call[t].pc = "publish" /\ stream' = Append(stream, t)
        /\ UNCHANGED <<store, reserved, slot>>
    BY <1>4 DEF EnqueuePublish
  <2>2. call'[t].pc = "returned" /\ \A u \in Tasks \ {t} : call'[u] = call[u]
    <3>1. call' = [call EXCEPT ![t] = [pc |-> "returned", found |-> t]]
      BY <1>4 DEF EnqueuePublish, EnqueueReturns
    <3> QED BY <3>1, EnqueueReturnsType
  <2>3. MessagesHaveTasks'
    BY <2>1, AppendStored DEF QueueInv, PublishStored
  <2> QED BY <2>1, <2>2, <2>3 DEF QueueInv, PublishStored, WorkStored, KeyHolders, Stored
<1> QED BY <1>1, <1>2, <1>3, <1>4 DEF Enqueue

LEMMA QueueDequeue ==
  ASSUME TypeOK, QueueInv, NEW s \in Slots,
         \/ Claim(s) \/ ReadNew(s) \/ Load(s) \/ AckDropped(s) \/ Republish(s) \/ Start(s)
  PROVE  QueueInv'
<1> USE DEF SlotLabels
<1>0. WorkStored /\ slot \in [Slots -> SlotState]
  BY DEF QueueInv, TypeOK
<1>1. CASE Claim(s) \/ ReadNew(s)
  <2>1. /\ slot'[s].pc \notin Working
        /\ \A r \in Slots \ {s} : slot'[r] = slot[r]
    <3>1. ASSUME NEW id, NEW via, Receives(s, id, via)
          PROVE  slot'[s].pc = "load" /\ \A r \in Slots \ {s} : slot'[r] = slot[r]
      BY <1>0, <3>1 DEF Receives
    <3>2. CASE Goes(s, "read")
      BY <1>0, <3>2 DEF Goes, SlotState, Working
    <3>3. CASE Rests(s)
      BY <3>3, RestsType DEF Rests, IdleSlot, Working
    <3>4. "load" \notin Working
      BY DEF Working
    <3> QED BY <1>1, <3>1, <3>2, <3>3, <3>4 DEF Claim, ReadNew
  <2>2. UNCHANGED <<stream, store, reserved, call>>
    BY <1>1 DEF Claim, ReadNew
  <2> QED BY <1>0, <2>1, <2>2, QueueStands, WorkMoves DEF QueueInv
<1>2. CASE Load(s)
  <2>1. slot[s].got # 0 /\ TaskOf(s) \in Tasks
    BY <1>2, AtWork DEF Load
  <2>2. store[TaskOf(s)] \in Envelope /\ MidAfterLoad(s) \in Nat
    BY <2>1, MidType DEF TypeOK
  <2>3. /\ Running(store[TaskOf(s)]) \in Envelope
        /\ Running(store[TaskOf(s)]).state = "running"
    BY <2>2 DEF Running, Envelope, Live
  <2>4. \/ Carries(s, "ackDropped", store[TaskOf(s)], MidAfterLoad(s))
        \/ Carries(s, "start", Running(store[TaskOf(s)]), MidAfterLoad(s))
    BY <1>2 DEF Load
  <2>5. /\ slot'[s].pc \in Working => slot'[s].env.state # "absent"
        /\ \A r \in Slots \ {s} : slot'[r] = slot[r]
    BY <2>1, <2>2, <2>3, <2>4, CarriesType DEF Working
  <2>6. UNCHANGED <<stream, store, reserved, call>>
    BY <1>2 DEF Load, redis
  <2> QED BY <1>0, <2>5, <2>6, QueueStands, WorkMoves DEF QueueInv
<1>3. CASE AckDropped(s)
  <2>1. slot[s].got # 0
    BY <1>3, AtWork DEF AckDropped
  <2>2. /\ slot'[s].pc \notin Working
        /\ \A r \in Slots \ {s} : slot'[r] = slot[r]
    <3>1. CASE Goes(s, "republish")
      BY <2>1, <3>1, GoesType DEF Working
    <3>2. CASE GivesUp(s)
      BY <3>2, RestsType DEF GivesUp, Working
    <3> QED BY <1>3, <3>1, <3>2 DEF AckDropped
  <2>3. UNCHANGED <<stream, store, reserved, call>>
    BY <1>3 DEF AckDropped
  <2> QED BY <1>0, <2>2, <2>3, QueueStands, WorkMoves DEF QueueInv
<1>4. CASE Republish(s)
  <2>1. TaskOf(s) \in Tasks /\ Stored(TaskOf(s))
    BY <1>4, AtWork, WorkTask DEF Republish
  <2>2. stream' = Append(stream, TaskOf(s)) /\ UNCHANGED <<store, reserved, call>>
    BY <1>4 DEF Republish
  <2>3. /\ slot'[s].pc \notin Working
        /\ \A r \in Slots \ {s} : slot'[r] = slot[r]
    BY <1>4, RestsType DEF Republish, GivesUp, Working
  <2> QED BY <1>0, <2>1, <2>2, <2>3, AppendStored, WorkMoves
          DEF QueueInv, PublishStored, KeyHolders, Stored
<1>5. CASE Start(s)
  <2>1. slot[s].got # 0 /\ slot[s].pc = "start"
    BY <1>5, AtWork DEF Start
  <2>2. /\ slot'[s].env = slot[s].env
        /\ \A r \in Slots \ {s} : slot'[r] = slot[r]
    BY <1>5, <2>1, GoesType DEF Start
  <2>3. slot[s].env.state # "absent"
    BY <1>0, <2>1 DEF WorkStored, Working
  <2> QED BY <1>0, <1>5, <2>1, <2>2, <2>3, PersistsStored, WorkMoves DEF Start, QueueInv
<1> QED BY <1>1, <1>2, <1>3, <1>4, <1>5

LEMMA QueueSettle ==
  ASSUME TypeOK, QueueInv, NEW s \in Slots,
         \/ HandlerReturns(s) \/ HandlerRaises(s) \/ NoHandler(s)
         \/ SettleLoad(s) \/ SettlePersist(s) \/ SettleAck(s) \/ SettlePublish(s)
  PROVE  QueueInv'
<1> USE DEF SlotLabels
<1>0. /\ slot[s].got # 0 /\ TaskOf(s) \in Tasks
      /\ WorkStored /\ slot[s].env.state # "absent" /\ slot[s].env \in Envelope
  BY AtWork DEF HandlerReturns, HandlerRaises, NoHandler, SettleLoad, SettlePersist,
     SettleAck, SettlePublish, QueueInv, WorkStored, Working, TypeOK, SlotState
<1>1. ASSUME NEW verdict \in {"completed", "queued", "dead_lettered"}, Decides(s, verdict)
      PROVE  QueueInv'
  <2>1. /\ InState(slot[s].env, verdict, slot[s].env.delayed) \in Envelope
        /\ InState(slot[s].env, verdict, slot[s].env.delayed).state = verdict
    BY <1>0 DEF InState, Envelope, Live, Settled
  <2>2. /\ slot'[s].env.state # "absent"
        /\ \A r \in Slots \ {s} : slot'[r] = slot[r]
    BY <1>0, <1>1, <2>1, CarriesType DEF Decides
  <2>3. UNCHANGED <<stream, store, reserved, call>>
    BY <1>1 DEF Decides, redis
  <2> QED BY <1>0, <2>2, <2>3, QueueStands, WorkMoves DEF QueueInv
<1>2. CASE HandlerReturns(s) \/ HandlerRaises(s) \/ NoHandler(s)
  BY <1>1, <1>2 DEF HandlerReturns, HandlerRaises, NoHandler
<1>3. CASE SettleLoad(s)
  <2>1. store[TaskOf(s)] \in Envelope /\ MidAfterLoad(s) \in Nat
    BY <1>0, MidType DEF TypeOK
  <2>2. PICK delayed \in IF Verdict(s) = "queued" THEN RetryDelays
                         ELSE {store[TaskOf(s)].delayed} :
          Carries(s, "settlePersist", InState(store[TaskOf(s)], Verdict(s), delayed),
                  MidAfterLoad(s))
    BY <1>3 DEF SettleLoad
  <2>3. delayed \in BOOLEAN
    BY <2>1, <2>2, DelaysAssumption DEF Envelope
  <2>4. /\ InState(store[TaskOf(s)], Verdict(s), delayed) \in Envelope
        /\ InState(store[TaskOf(s)], Verdict(s), delayed).state = slot[s].env.state
    BY <1>0, <2>1, <2>3 DEF InState, Envelope, Verdict
  <2>5. /\ slot'[s].env.state # "absent"
        /\ \A r \in Slots \ {s} : slot'[r] = slot[r]
    BY <1>0, <2>1, <2>2, <2>4, CarriesType
  <2>6. UNCHANGED <<stream, store, reserved, call>>
    BY <1>3 DEF SettleLoad, redis
  <2> QED BY <1>0, <2>5, <2>6, QueueStands, WorkMoves DEF QueueInv
<1>4. CASE SettlePersist(s)
  <2>1. MidOf(s) \in Nat
    BY <1>0, MidType
  <2>2. /\ slot'[s].pc \in Working => slot'[s].env.state # "absent"
        /\ \A r \in Slots \ {s} : slot'[r] = slot[r]
    <3>1. CASE Carries(s, "settleAck", slot[s].env, MidOf(s))
      BY <1>0, <2>1, <3>1, CarriesType
    <3>2. CASE Goes(s, "settlePublish")
      BY <1>0, <3>2, GoesType
    <3>3. CASE Rests(s)
      BY <3>3, RestsType DEF Rests, IdleSlot, Working
    <3> QED BY <1>4, <3>1, <3>2, <3>3 DEF SettlePersist
  <2>3. MessagesHaveTasks' /\ PublishStored' /\ KeyHolders'
    BY <1>4, PersistsStored DEF SettlePersist
  <2> QED BY <1>0, <2>2, <2>3, WorkMoves DEF QueueInv
<1>5. CASE SettleAck(s)
  <2>1. /\ slot'[s].pc \in Working => slot'[s].env.state # "absent"
        /\ \A r \in Slots \ {s} : slot'[r] = slot[r]
    <3>1. CASE Goes(s, "settlePublish")
      BY <1>0, <3>1, GoesType
    <3>2. CASE Rests(s)
      BY <3>2, RestsType DEF Rests, IdleSlot, Working
    <3> QED BY <1>5, <3>1, <3>2 DEF SettleAck
  <2>2. UNCHANGED <<stream, store, reserved, call>>
    BY <1>5 DEF SettleAck
  <2> QED BY <1>0, <2>1, <2>2, QueueStands, WorkMoves DEF QueueInv
<1>6. CASE SettlePublish(s)
  <2>1. Stored(TaskOf(s))
    BY <1>0, WorkTask
  <2>2. stream' = Append(stream, TaskOf(s)) /\ UNCHANGED <<store, reserved, call>>
    BY <1>6 DEF SettlePublish
  <2>3. /\ slot'[s].pc \notin Working
        /\ \A r \in Slots \ {s} : slot'[r] = slot[r]
    BY <1>6, RestsType DEF SettlePublish, Rests, IdleSlot, Working
  <2> QED BY <1>0, <2>1, <2>2, <2>3, AppendStored, WorkMoves
          DEF QueueInv, PublishStored, KeyHolders, Stored
<1> QED BY <1>2, <1>3, <1>4, <1>5, <1>6

LEMMA QueueEnvironment ==
  ASSUME TypeOK, QueueInv,
         \/ \E t \in Tasks : Elapse(t) \/ EnqueueCrash(t)
         \/ \E id \in pending : GrowStale(id)
         \/ \E p \in Procs : Batch(p) \/ Crash(p)
         \/ UNCHANGED vars
  PROVE  QueueInv'
<1>0. WorkStored /\ slot \in [Slots -> SlotState]
  BY DEF QueueInv, TypeOK
<1>1. ASSUME NEW t \in Tasks, Elapse(t)
      PROVE  QueueInv'
  <2>1. \A u \in Tasks : store'[u].state = store[u].state
    BY <1>1 DEF Elapse, TypeOK, Envelope
  <2>2. UNCHANGED <<stream, reserved, call>>
    BY <1>1 DEF Elapse
  <2>3. \A s \in Slots : slot'[s].pc = slot[s].pc /\ slot'[s].env.state = slot[s].env.state
    <3>1. ASSUME NEW s \in Slots
          PROVE  /\ [slot[s] EXCEPT !.env.delayed = FALSE].pc = slot[s].pc
                 /\ [slot[s] EXCEPT !.env.delayed = FALSE].env.state = slot[s].env.state
      BY <1>0 DEF SlotState, Envelope
    <3> QED BY <1>0, <1>1, <3>1 DEF Elapse
  <2>4. \A id \in 1 .. Len(stream) : stream[id] \in Tasks
    BY DEF TypeOK
  <2> QED BY <2>1, <2>2, <2>3, <2>4
          DEF QueueInv, MessagesHaveTasks, PublishStored, WorkStored, KeyHolders, Stored
<1>2. ASSUME NEW t \in Tasks, EnqueueCrash(t)
      PROVE  QueueInv'
  <2>1. EnqueueGoes(t, "crashed") /\ "crashed" \in CallLabels
    BY <1>2 DEF EnqueueCrash, CallLabels
  <2>2. call'[t].pc = "crashed" /\ \A u \in Tasks \ {t} : call'[u] = call[u]
    BY <2>1, EnqueueGoesType
  <2>3. UNCHANGED <<stream, store, reserved, slot>>
    BY <1>2 DEF EnqueueCrash, redis
  <2> QED BY <2>2, <2>3
          DEF QueueInv, MessagesHaveTasks, PublishStored, WorkStored, KeyHolders, Stored
<1>3. ASSUME NEW id \in pending, GrowStale(id)
      PROVE  QueueInv'
  BY <1>3 DEF GrowStale, QueueInv, MessagesHaveTasks, PublishStored, WorkStored,
     KeyHolders, Stored
<1>4. ASSUME NEW p \in Procs, Crash(p)
      PROVE  QueueInv'
  <2>1. UNCHANGED <<stream, store, reserved, call>>
    BY <1>4 DEF Crash, redis
  <2>2. WorkStored'
    BY <1>0, <1>4 DEF Crash, WorkStored, Working, IdleSlot, SlotAt
  <2> QED BY <2>1, <2>2, QueueStands DEF QueueInv
<1>5. ASSUME NEW p \in Procs, Batch(p)
      PROVE  QueueInv'
  <2>1. UNCHANGED <<stream, store, reserved, call>>
    BY <1>5 DEF Batch, redis
  <2>2. WorkStored'
    BY <1>0, <1>5 DEF Batch, WorkStored, Working, SlotAt
  <2> QED BY <2>1, <2>2, QueueStands DEF QueueInv
<1>6. CASE UNCHANGED vars
  BY <1>6 DEF vars, counts, QueueInv, MessagesHaveTasks, PublishStored, WorkStored,
     KeyHolders, Stored
<1> QED BY <1>1, <1>2, <1>3, <1>4, <1>5, <1>6

LEMMA QueueInvariance == Spec => []QueueInv
<1>1. TypeOK /\ QueueInv /\ [Next]_vars => QueueInv'
  <2> SUFFICES ASSUME TypeOK, QueueInv, [Next]_vars PROVE QueueInv'
    OBVIOUS
  <2> QED BY QueueEnqueue, QueueDequeue, QueueSettle, QueueEnvironment DEF Next, Work
<1> QED BY QueueInit, TypeCorrect, <1>1, PTL DEF Spec

\* Every message in the stream leads to a stored task, whatever crashes, is delivered
\* again or is settled late: _load() in dequeue() never meets an empty hash.
THEOREM MessagesAreOfTasks == Spec => []MessagesHaveTasks
<1>1. QueueInv => MessagesHaveTasks
  BY DEF QueueInv
<1> QED BY QueueInvariance, <1>1, PTL

\* Any number of concurrent calls of enqueue() with one idempotency key store one task.
THEOREM OneStoredTaskPerKey == Spec => []OneTaskPerKey
<1>1. QueueInv => OneTaskPerKey
  BY DEF QueueInv, KeyHolders, OneTaskPerKey, Stored
<1> QED BY QueueInvariance, <1>1, PTL

-----------------------------------------------------------------------------
(* What the steps of a coroutine do, field by field                        *)

Alone(s) == \A r \in Slots \ {s} : slot'[r] = slot[r]

\* The coroutine is at label, with the message and the id it had.
Keeps(s, label) ==
  /\ Alone(s) /\ slot'[s].pc = label
  /\ slot'[s].got = slot[s].got /\ slot'[s].arg = slot[s].arg /\ slot'[s].env = slot[s].env

\* It sends a call with another envelope and id.
Sends(s, label, state, id) ==
  /\ Alone(s) /\ slot'[s].pc = label
  /\ slot'[s].got = slot[s].got /\ slot'[s].arg = id /\ slot'[s].env.state = state

\* It has no message any more.
Frees(s) == Alone(s) /\ slot'[s].pc \in {"rest", "read"} /\ slot'[s].got = 0

\* _message_ids of the process of s: the entry of task t.
Notes(s, t, id) ==
  \A p \in Procs, u \in Tasks :
    mids'[p][u] = IF p = ProcOf[s] /\ u = t THEN id ELSE mids[p][u]

\* It takes message id.
Takes(s, id) ==
  /\ Alone(s) /\ slot'[s].pc = "load" /\ slot'[s].got = id /\ slot'[s].arg = 0
  /\ Notes(s, stream[id], id)

LEMMA GoesKeeps ==
  ASSUME TypeOK, NEW s \in Slots, NEW label, Goes(s, label)
  PROVE  Keeps(s, label)
<1>1. slot \in [Slots -> SlotState]
  BY DEF TypeOK
<1> QED BY <1>1 DEF Goes, Keeps, Alone, SlotState

LEMMA CarriesSends ==
  ASSUME TypeOK, NEW s \in Slots, NEW label, NEW env, NEW id, Carries(s, label, env, id)
  PROVE  Sends(s, label, env.state, id)
<1>1. slot \in [Slots -> SlotState]
  BY DEF TypeOK
<1> QED BY <1>1 DEF Carries, Sends, Alone, SlotState

LEMMA RestsFrees ==
  ASSUME TypeOK, NEW s \in Slots, Rests(s) \/ GivesUp(s)
  PROVE  Frees(s)
<1>1. slot \in [Slots -> SlotState]
  BY DEF TypeOK
<1> QED BY <1>1 DEF Rests, GivesUp, Frees, Alone, SlotAt, IdleSlot

LEMMA SetMidNotes ==
  ASSUME TypeOK, NEW s \in Slots, NEW t \in Tasks, NEW id \in Nat,
         mids' = [mids EXCEPT ![ProcOf[s]][t] = id]
  PROVE  Notes(s, t, id)
BY ProcsAssumption DEF TypeOK, Notes

LEMMA ReceivesTakes ==
  ASSUME TypeOK, NEW s \in Slots, NEW id \in 1 .. Len(stream), NEW via, Receives(s, id, via)
  PROVE  Takes(s, id)
<1>1. stream[id] \in Tasks /\ id \in Nat
  BY DEF TypeOK
<1>2. Notes(s, stream[id], id)
  BY <1>1, SetMidNotes DEF Receives
<1>3. slot \in [Slots -> SlotState]
  BY DEF TypeOK
<1> QED BY <1>2, <1>3 DEF Receives, Takes, Alone

\* Claim: the coroutine takes the oldest stale message, or goes on to the new ones.
LEMMA ClaimDoes ==
  ASSUME TypeOK, NEW s \in Slots, Claim(s)
  PROVE  /\ UNCHANGED <<stream, delivered, pending, store, reserved, call, counts>>
         /\ slot[s].pc = "claim"
         /\ \/ Keeps(s, "read") /\ UNCHANGED <<mids, stale>>
            \/ \E id \in stale : id \in 1 .. Len(stream) /\ Takes(s, id) /\ stale' = stale \ {id}
<1>1. \A id \in stale : id \in 1 .. Len(stream)
  BY DEF TypeOK
<1>2. CASE Goes(s, "read") /\ UNCHANGED <<stale, mids>>
  BY <1>2, GoesKeeps DEF Claim
<1>3. ASSUME NEW id \in stale, stale' = stale \ {id}, Receives(s, id, "claim")
      PROVE  Takes(s, id)
  BY <1>1, <1>3, ReceivesTakes
<1> QED BY <1>1, <1>2, <1>3 DEF Claim

\* ReadNew: it takes the first unread message, or comes to an end.
LEMMA ReadDoes ==
  ASSUME TypeOK, NEW s \in Slots, ReadNew(s)
  PROVE  /\ UNCHANGED <<stream, stale, store, reserved, call, counts>>
         /\ slot[s].pc = "read"
         /\ \/ Frees(s) /\ UNCHANGED <<delivered, pending, mids>>
            \/ /\ delivered + 1 \in 1 .. Len(stream) /\ Takes(s, delivered + 1)
               /\ delivered' = delivered + 1 /\ pending' = pending \cup {delivered + 1}
<1>1. delivered \in Nat /\ Len(stream) \in Nat
  BY DEF TypeOK
<1>2. CASE delivered < Len(stream)
  <2>1. delivered + 1 \in 1 .. Len(stream)
    BY <1>1, <1>2
  <2>2. Receives(s, delivered + 1, "read")
    BY <1>2 DEF ReadNew
  <2>3. Takes(s, delivered + 1)
    BY <2>1, <2>2, ReceivesTakes
  <2> QED BY <1>2, <2>1, <2>3 DEF ReadNew
<1>3. CASE ~(delivered < Len(stream))
  BY <1>3, RestsFrees DEF ReadNew
<1> QED BY <1>2, <1>3

\* Load: the message is dropped or delivered.
LEMMA LoadDoes ==
  ASSUME TypeOK, NEW s \in Slots, Load(s)
  PROVE  /\ UNCHANGED <<redis, call, counts>>
         /\ slot[s].pc = "load" /\ slot[s].got # 0 /\ TaskOf(s) \in Tasks
         /\ MidAfterLoad(s) \in Nat
         /\ Notes(s, TaskOf(s), MidAfterLoad(s))
         /\ \/ Sends(s, "ackDropped", store[TaskOf(s)].state, MidAfterLoad(s))
            \/ Sends(s, "start", "running", MidAfterLoad(s))
<1>1. slot[s].got # 0 /\ TaskOf(s) \in Tasks
  BY AtWork DEF Load
<1>2. MidAfterLoad(s) \in Nat
  BY <1>1, MidType
<1>3. Notes(s, TaskOf(s), MidAfterLoad(s))
  BY <1>1, <1>2, SetMidNotes DEF Load, SetMid
<1>4. \/ Carries(s, "ackDropped", store[TaskOf(s)], MidAfterLoad(s))
      \/ Carries(s, "start", Running(store[TaskOf(s)]), MidAfterLoad(s))
  BY DEF Load
<1>5. \/ Sends(s, "ackDropped", store[TaskOf(s)].state, MidAfterLoad(s))
      \/ Sends(s, "start", Running(store[TaskOf(s)]).state, MidAfterLoad(s))
  BY <1>4, CarriesSends
<1>6. Running(store[TaskOf(s)]).state = "running"
  BY DEF Running
<1> QED BY <1>1, <1>2, <1>3, <1>5, <1>6 DEF Load

\* AckDropped: the message is acknowledged, a delayed task is to be published again.
LEMMA AckDroppedDoes ==
  ASSUME TypeOK, NEW s \in Slots, AckDropped(s)
  PROVE  /\ UNCHANGED <<stream, delivered, store, reserved, call, counts>>
         /\ slot[s].pc = "ackDropped" /\ slot[s].got # 0 /\ TaskOf(s) \in Tasks
         /\ Acks(slot[s].arg)
         /\ Notes(s, TaskOf(s), 0)
         /\ \/ slot[s].env.state \in Live /\ Keeps(s, "republish")
            \/ slot[s].env.state \notin Live /\ Frees(s)
<1>1. slot[s].got # 0 /\ TaskOf(s) \in Tasks
  BY AtWork DEF AckDropped
<1>2. Notes(s, TaskOf(s), 0)
  BY <1>1, SetMidNotes DEF AckDropped, SetMid
<1>3. \/ slot[s].env.state \in Live /\ Keeps(s, "republish")
      \/ slot[s].env.state \notin Live /\ Frees(s)
  BY GoesKeeps, RestsFrees DEF AckDropped
<1> QED BY <1>1, <1>2, <1>3 DEF AckDropped

\* Republish and SettlePublish: the task gets a new message.
LEMMA PublishDoes ==
  ASSUME TypeOK, NEW s \in Slots, Republish(s) \/ SettlePublish(s)
  PROVE  /\ UNCHANGED <<delivered, pending, stale, store, reserved, mids, call, counts>>
         /\ slot[s].pc \in {"republish", "settlePublish"}
         /\ slot[s].got # 0 /\ TaskOf(s) \in Tasks
         /\ stream' = Append(stream, TaskOf(s))
         /\ Frees(s)
<1>1. slot[s].got # 0 /\ TaskOf(s) \in Tasks
  BY AtWork DEF Republish, SettlePublish
<1>2. Frees(s)
  BY RestsFrees DEF Republish, SettlePublish
<1> QED BY <1>1, <1>2 DEF Republish, SettlePublish

\* HSET: the hash of the task in hand gets the state of the envelope and the id at hand.
Writes(s) ==
  /\ \A t \in Tasks \ {TaskOf(s)} : store'[t] = store[t]
  /\ store'[TaskOf(s)].state = slot[s].env.state
  /\ store'[TaskOf(s)].mid = IF slot[s].arg # 0 THEN slot[s].arg ELSE store[TaskOf(s)].mid

LEMMA PersistsWrites ==
  ASSUME TypeOK, NEW s \in Slots, slot[s].got # 0, Persists(s)
  PROVE  Writes(s)
<1>1. TaskOf(s) \in Tasks /\ store \in [Tasks -> Envelope] /\ slot[s].env \in Envelope
  BY TaskOfType DEF TypeOK, SlotState
<1> DEFINE id == IF slot[s].arg # 0 THEN slot[s].arg ELSE store[TaskOf(s)].mid
           env == [slot[s].env EXCEPT !.mid = id]
<1>2. env.state = slot[s].env.state /\ env.mid = id
  BY <1>1 DEF Envelope
<1>3. store' = [store EXCEPT ![TaskOf(s)] = env]
  BY DEF Persists
<1> HIDE DEF env
<1>4. store'[TaskOf(s)] = env /\ \A t \in Tasks \ {TaskOf(s)} : store'[t] = store[t]
  BY <1>1, <1>3
<1> QED BY <1>2, <1>4 DEF Writes

LEMMA StartDoes ==
  ASSUME TypeOK, NEW s \in Slots, Start(s)
  PROVE  /\ UNCHANGED <<stream, delivered, pending, stale, reserved, mids, call, counts>>
         /\ slot[s].pc = "start" /\ slot[s].got # 0 /\ TaskOf(s) \in Tasks
         /\ Writes(s) /\ Keeps(s, "run")
<1>1. slot[s].got # 0 /\ TaskOf(s) \in Tasks
  BY AtWork DEF Start
<1>2. Writes(s) /\ Keeps(s, "run")
  BY <1>1, PersistsWrites, GoesKeeps DEF Start
<1> QED BY <1>1, <1>2 DEF Start

\* The handler has returned or raised, or there is none: a verdict.
LEMMA HandlerDoes ==
  ASSUME TypeOK, NEW s \in Slots, HandlerReturns(s) \/ HandlerRaises(s) \/ NoHandler(s)
  PROVE  /\ UNCHANGED <<redis, mids, call, counts>>
         /\ slot[s].pc = "run" /\ slot[s].got # 0 /\ TaskOf(s) \in Tasks
         /\ \E verdict \in {"queued", "completed", "dead_lettered"} :
              Sends(s, "settleLoad", verdict, 0)
<1>1. slot[s].got # 0 /\ TaskOf(s) \in Tasks
  BY AtWork DEF HandlerReturns, HandlerRaises, NoHandler
<1>2. PICK verdict \in {"queued", "completed", "dead_lettered"} : Decides(s, verdict)
  BY DEF HandlerReturns, HandlerRaises, NoHandler
<1>3. InState(slot[s].env, verdict, slot[s].env.delayed).state = verdict
  BY DEF InState
<1>4. Sends(s, "settleLoad", verdict, 0)
  BY <1>2, <1>3, CarriesSends DEF Decides
<1> QED BY <1>1, <1>2, <1>4 DEF Decides, HandlerReturns, HandlerRaises, NoHandler

LEMMA SettleLoadDoes ==
  ASSUME TypeOK, NEW s \in Slots, SettleLoad(s)
  PROVE  /\ UNCHANGED <<redis, call, counts>>
         /\ slot[s].pc = "settleLoad" /\ slot[s].got # 0 /\ TaskOf(s) \in Tasks
         /\ MidAfterLoad(s) \in Nat
         /\ Notes(s, TaskOf(s), MidAfterLoad(s))
         /\ Sends(s, "settlePersist", slot[s].env.state, MidAfterLoad(s))
<1>1. slot[s].got # 0 /\ TaskOf(s) \in Tasks
  BY AtWork DEF SettleLoad
<1>2. MidAfterLoad(s) \in Nat
  BY <1>1, MidType
<1>3. Notes(s, TaskOf(s), MidAfterLoad(s))
  BY <1>1, <1>2, SetMidNotes DEF SettleLoad, SetMid
<1>4. PICK delayed :
        Carries(s, "settlePersist", InState(store[TaskOf(s)], Verdict(s), delayed),
                MidAfterLoad(s))
  BY DEF SettleLoad
<1>5. InState(store[TaskOf(s)], Verdict(s), delayed).state = slot[s].env.state
  BY DEF InState, Verdict
<1>6. Sends(s, "settlePersist", slot[s].env.state, MidAfterLoad(s))
  BY <1>4, <1>5, CarriesSends
<1> QED BY <1>1, <1>2, <1>3, <1>6 DEF SettleLoad

LEMMA SettlePersistDoes ==
  ASSUME TypeOK, NEW s \in Slots, SettlePersist(s)
  PROVE  /\ UNCHANGED <<stream, delivered, pending, stale, reserved, mids, call, counts>>
         /\ slot[s].pc = "settlePersist" /\ slot[s].got # 0 /\ TaskOf(s) \in Tasks
         /\ Writes(s)
         /\ \/ MidOf(s) # 0 /\ Sends(s, "settleAck", slot[s].env.state, MidOf(s))
            \/ MidOf(s) = 0 /\ slot[s].env.state = "queued" /\ Keeps(s, "settlePublish")
            \/ MidOf(s) = 0 /\ slot[s].env.state # "queued" /\ Frees(s)
<1>1. slot[s].got # 0 /\ TaskOf(s) \in Tasks
  BY AtWork DEF SettlePersist
<1>2. Writes(s)
  BY <1>1, PersistsWrites DEF SettlePersist
<1>3. \/ MidOf(s) # 0 /\ Sends(s, "settleAck", slot[s].env.state, MidOf(s))
      \/ MidOf(s) = 0 /\ slot[s].env.state = "queued" /\ Keeps(s, "settlePublish")
      \/ MidOf(s) = 0 /\ slot[s].env.state # "queued" /\ Frees(s)
  BY CarriesSends, GoesKeeps, RestsFrees DEF SettlePersist, Verdict
<1> QED BY <1>1, <1>2, <1>3 DEF SettlePersist

LEMMA SettleAckDoes ==
  ASSUME TypeOK, NEW s \in Slots, SettleAck(s)
  PROVE  /\ UNCHANGED <<stream, delivered, store, reserved, call, counts>>
         /\ slot[s].pc = "settleAck" /\ slot[s].got # 0 /\ TaskOf(s) \in Tasks
         /\ Acks(slot[s].arg)
         /\ \/ /\ slot[s].env.state = "queued" /\ Keeps(s, "settlePublish")
               /\ Notes(s, TaskOf(s), 0)
            \/ slot[s].env.state # "queued" /\ Frees(s) /\ UNCHANGED mids
<1>1. slot[s].got # 0 /\ TaskOf(s) \in Tasks
  BY AtWork DEF SettleAck
<1>2. CASE slot[s].env.state = "queued"
  <2>1. Goes(s, "settlePublish") /\ SetMid(s, 0)
    BY <1>2 DEF SettleAck, Verdict
  <2>2. Notes(s, TaskOf(s), 0)
    BY <1>1, <2>1, SetMidNotes DEF SetMid
  <2> QED BY <1>1, <1>2, <2>1, <2>2, GoesKeeps DEF SettleAck
<1>3. CASE slot[s].env.state # "queued"
  BY <1>1, <1>3, RestsFrees DEF SettleAck, Verdict
<1> QED BY <1>2, <1>3

-----------------------------------------------------------------------------
(* Message ids name the tasks they are kept for                            *)

\* id is no message id, or that of a message of t in the stream q.
Names(q, id, t) == id = 0 \/ (id \in 1 .. Len(q) /\ q[id] = t)

RestsFree == \A s \in Slots : slot[s].pc \in {"rest", "claim", "read"} => slot[s].got = 0
MidsName == \A p \in Procs, t \in Tasks : Names(stream, mids[p][t], t)
StoreNames == \A t \in Tasks : Names(stream, store[t].mid, t)
ArgsName == \A s \in Slots : slot[s].got # 0 => Names(stream, slot[s].arg, TaskOf(s))
MessagesReturned == \A id \in 1 .. Len(stream) : call[stream[id]].pc = "returned"

NamesInv == RestsFree /\ MidsName /\ StoreNames /\ ArgsName /\ MessagesReturned

\* Messages are only added to the stream.
Grows(q, r) == Len(q) <= Len(r) /\ \A i \in 1 .. Len(q) : r[i] = q[i]

LEMMA GrowsNames ==
  ASSUME NEW q \in Seq(Tasks), NEW r \in Seq(Tasks), Grows(q, r), NEW id, NEW t, Names(q, id, t)
  PROVE  Names(r, id, t)
<1>1. Len(q) \in Nat /\ Len(r) \in Nat
  OBVIOUS
<1>2. CASE id = 0
  BY <1>2 DEF Names
<1>3. CASE id \in 1 .. Len(q) /\ q[id] = t
  BY <1>1, <1>3 DEF Names, Grows
<1> QED BY <1>2, <1>3 DEF Names

LEMMA AppendGrows ==
  ASSUME NEW q \in Seq(Tasks), NEW t \in Tasks
  PROVE  Append(q, t) \in Seq(Tasks) /\ Grows(q, Append(q, t))
BY DEF Grows

LEMMA SameGrows ==
  ASSUME NEW q \in Seq(Tasks)
  PROVE  Grows(q, q)
<1>1. Len(q) \in Nat
  OBVIOUS
<1> QED BY <1>1 DEF Grows

\* What a coroutine holds after its step.
HoldsNamed(s) ==
  /\ slot'[s].pc \in {"rest", "claim", "read"} => slot'[s].got = 0
  /\ slot'[s].got # 0 =>
       /\ slot'[s].got \in 1 .. Len(stream)
       /\ Names(stream, slot'[s].arg, stream[slot'[s].got])

LEMMA NamesWork ==
  ASSUME TypeOK, TypeOK', NamesInv, NEW s \in Slots, Grows(stream, stream'),
         Alone(s), HoldsNamed(s), MessagesReturned',
         \A p \in Procs, t \in Tasks :
           mids'[p][t] = mids[p][t] \/ Names(stream, mids'[p][t], t),
         \A t \in Tasks : store'[t].mid = store[t].mid \/ Names(stream, store'[t].mid, t)
  PROVE  NamesInv'
<1>1. stream \in Seq(Tasks) /\ stream' \in Seq(Tasks)
  BY DEF TypeOK
<1>2. RestsFree'
  BY DEF NamesInv, RestsFree, Alone, HoldsNamed
<1>3. MidsName'
  <2>1. \A p \in Procs, t \in Tasks : Names(stream, mids'[p][t], t)
    BY DEF NamesInv, MidsName
  <2> QED BY <1>1, <2>1, GrowsNames DEF MidsName
<1>4. StoreNames'
  <2>1. \A t \in Tasks : Names(stream, store'[t].mid, t)
    BY DEF NamesInv, StoreNames
  <2> QED BY <1>1, <2>1, GrowsNames DEF StoreNames
<1>5. ArgsName'
  <2> SUFFICES ASSUME NEW r \in Slots, slot'[r].got # 0
               PROVE  Names(stream', slot'[r].arg, TaskOf(r)')
    BY DEF ArgsName
  <2>1. slot'[r].got \in 1 .. Len(stream) /\ Names(stream, slot'[r].arg, stream[slot'[r].got])
    <3>1. CASE r = s
      BY <3>1 DEF HoldsNamed
    <3>2. CASE r # s
      <4>1. slot'[r] = slot[r]
        BY <3>2 DEF Alone
      <4>2. slot[r].got \in 1 .. Len(stream) /\ Names(stream, slot[r].arg, TaskOf(r))
        BY <4>1, TaskOfType DEF NamesInv, ArgsName
      <4> QED BY <4>1, <4>2 DEF TaskOf
    <3> QED BY <3>1, <3>2
  <2>2. TaskOf(r)' = stream[slot'[r].got]
    BY <2>1 DEF TaskOf, Grows
  <2> QED BY <1>1, <2>1, <2>2, GrowsNames
<1> QED BY <1>2, <1>3, <1>4, <1>5 DEF NamesInv

\* A coroutine that holds on to its message, or has none afterwards.
LEMMA KeepsNamed ==
  ASSUME TypeOK, NamesInv, NEW s \in Slots, slot[s].got # 0,
         \/ Frees(s)
         \/ \E label \in SlotLabels \ {"rest", "claim", "read"} : Keeps(s, label)
         \/ \E state, id : \E label \in SlotLabels \ {"rest", "claim", "read"} :
              Sends(s, label, state, id) /\ Names(stream, id, TaskOf(s))
  PROVE  Alone(s) /\ HoldsNamed(s)
<1>1. slot[s].got \in 1 .. Len(stream) /\ Names(stream, slot[s].arg, TaskOf(s))
  BY TaskOfType DEF NamesInv, ArgsName
<1>2. CASE Frees(s)
  BY <1>2 DEF Frees, HoldsNamed
<1>3. ASSUME NEW label \in SlotLabels \ {"rest", "claim", "read"}, Keeps(s, label)
      PROVE  Alone(s) /\ HoldsNamed(s)
  BY <1>1, <1>3 DEF Keeps, HoldsNamed, TaskOf
<1>4. ASSUME NEW label \in SlotLabels \ {"rest", "claim", "read"}, NEW state, NEW id,
             Sends(s, label, state, id), Names(stream, id, TaskOf(s))
      PROVE  Alone(s) /\ HoldsNamed(s)
  BY <1>1, <1>4 DEF Sends, HoldsNamed, TaskOf
<1> QED BY <1>2, <1>3, <1>4

\* Entries of _message_ids, and the id that _load() leaves there, name the task.
LEMMA MidsNamed ==
  ASSUME TypeOK, NamesInv, NEW s \in Slots, slot[s].got # 0
  PROVE  Names(stream, MidOf(s), TaskOf(s)) /\ Names(stream, MidAfterLoad(s), TaskOf(s))
<1>1. TaskOf(s) \in Tasks /\ ProcOf[s] \in Procs
  BY TaskOfType, ProcsAssumption
<1>2. Names(stream, MidOf(s), TaskOf(s)) /\ Names(stream, store[TaskOf(s)].mid, TaskOf(s))
  BY <1>1 DEF NamesInv, MidsName, StoreNames, MidOf
<1> QED BY <1>2 DEF MidAfterLoad

LEMMA NotesNamed ==
  ASSUME NEW s \in Slots, NEW t \in Tasks, NEW id, Notes(s, t, id), Names(stream, id, t)
  PROVE  \A p \in Procs, u \in Tasks :
           mids'[p][u] = mids[p][u] \/ Names(stream, mids'[p][u], u)
BY DEF Notes

LEMMA WritesNamed ==
  ASSUME TypeOK, NamesInv, NEW s \in Slots, slot[s].got # 0, Writes(s)
  PROVE  \A t \in Tasks : store'[t].mid = store[t].mid \/ Names(stream, store'[t].mid, t)
<1>1. Names(stream, slot[s].arg, TaskOf(s))
  BY DEF NamesInv, ArgsName
<1> QED BY <1>1 DEF Writes

LEMMA NamesDequeue ==
  ASSUME TypeOK, TypeOK', NamesInv, NEW s \in Slots,
         \/ Claim(s) \/ ReadNew(s) \/ Load(s) \/ AckDropped(s) \/ Republish(s) \/ Start(s)
         \/ SettlePublish(s)
  PROVE  NamesInv'
<1>0. stream \in Seq(Tasks) /\ Grows(stream, stream) /\ Names(stream, 0, TaskOf(s))
  BY SameGrows DEF TypeOK, Names
<1> USE DEF SlotLabels
<1>1. CASE Claim(s) \/ ReadNew(s)
  <2>1. UNCHANGED <<stream, store, call>>
    BY <1>1, ClaimDoes, ReadDoes
  <2>2. MessagesReturned'
    BY <2>1 DEF NamesInv, MessagesReturned
  <2>3. ASSUME NEW id \in 1 .. Len(stream), Takes(s, id)
        PROVE  NamesInv'
    <3>1. stream[id] \in Tasks /\ id \in Nat /\ Names(stream, id, stream[id])
      BY <1>0 DEF Names
    <3>2. HoldsNamed(s) /\ Alone(s)
      BY <2>3, <3>1 DEF Takes, HoldsNamed, Names
    <3>3. \A p \in Procs, u \in Tasks :
            mids'[p][u] = mids[p][u] \/ Names(stream, mids'[p][u], u)
      BY <2>3, <3>1, NotesNamed DEF Takes
    <3> QED BY <1>0, <2>1, <2>2, <3>2, <3>3, NamesWork
  <2>4. CASE slot[s].pc \in {"claim", "read"} /\ (Keeps(s, "read") \/ Frees(s)) /\ UNCHANGED mids
    <3>1. Alone(s) /\ slot'[s].got = 0
      BY <2>4 DEF Keeps, Frees, NamesInv, RestsFree
    <3>2. HoldsNamed(s)
      BY <3>1 DEF HoldsNamed
    <3> QED BY <1>0, <2>1, <2>2, <2>4, <3>1, <3>2, NamesWork
  <2> QED BY <1>1, <2>3, <2>4, ClaimDoes, ReadDoes
<1>2. CASE Load(s)
  <2>1. UNCHANGED <<stream, store, call>> /\ slot[s].got # 0 /\ TaskOf(s) \in Tasks
    BY <1>2, LoadDoes DEF redis
  <2>2. MessagesReturned'
    BY <2>1 DEF NamesInv, MessagesReturned
  <2>3. Names(stream, MidAfterLoad(s), TaskOf(s))
    BY <2>1, MidsNamed
  <2>4. Alone(s) /\ HoldsNamed(s)
    BY <1>2, <2>1, <2>3, LoadDoes, KeepsNamed
  <2>5. \A p \in Procs, u \in Tasks :
          mids'[p][u] = mids[p][u] \/ Names(stream, mids'[p][u], u)
    BY <1>2, <2>1, <2>3, LoadDoes, NotesNamed
  <2> QED BY <1>0, <2>1, <2>2, <2>4, <2>5, NamesWork
<1>3. CASE AckDropped(s)
  <2>1. UNCHANGED <<stream, store, call>> /\ slot[s].got # 0 /\ TaskOf(s) \in Tasks
    BY <1>3, AckDroppedDoes
  <2>2. MessagesReturned'
    BY <2>1 DEF NamesInv, MessagesReturned
  <2>3. Alone(s) /\ HoldsNamed(s)
    BY <1>3, <2>1, AckDroppedDoes, KeepsNamed
  <2>4. \A p \in Procs, u \in Tasks :
          mids'[p][u] = mids[p][u] \/ Names(stream, mids'[p][u], u)
    BY <1>0, <1>3, <2>1, AckDroppedDoes, NotesNamed
  <2> QED BY <1>0, <2>1, <2>2, <2>3, <2>4, NamesWork
<1>4. CASE Republish(s) \/ SettlePublish(s)
  <2>1. /\ UNCHANGED <<store, mids, call>> /\ slot[s].got # 0 /\ TaskOf(s) \in Tasks
        /\ stream' = Append(stream, TaskOf(s))
    BY <1>4, PublishDoes
  <2>2. Grows(stream, stream')
    BY <1>0, <2>1, AppendGrows
  <2>3. call[TaskOf(s)].pc = "returned"
    BY <2>1, TaskOfType DEF NamesInv, MessagesReturned, TaskOf
  <2>4. MessagesReturned'
    <3>1. ASSUME NEW id \in 1 .. Len(stream')
          PROVE  call[stream'[id]].pc = "returned"
      <4>1. id \in 1 .. Len(stream) \/ id = Len(stream) + 1
        BY <1>0, <2>1
      <4>2. stream'[id] = TaskOf(s) \/ (id \in 1 .. Len(stream) /\ stream'[id] = stream[id])
        BY <1>0, <2>1, <4>1
      <4> QED BY <2>3, <4>2 DEF NamesInv, MessagesReturned
    <3> QED BY <2>1, <3>1 DEF MessagesReturned
  <2>5. Alone(s) /\ HoldsNamed(s)
    BY <1>4, <2>1, PublishDoes, KeepsNamed
  <2> QED BY <2>1, <2>2, <2>4, <2>5, NamesWork
<1>5. CASE Start(s)
  <2>1. UNCHANGED <<stream, mids, call>> /\ slot[s].got # 0 /\ TaskOf(s) \in Tasks
    BY <1>5, StartDoes
  <2>2. MessagesReturned'
    BY <2>1 DEF NamesInv, MessagesReturned
  <2>3. Alone(s) /\ HoldsNamed(s)
    BY <1>5, <2>1, StartDoes, KeepsNamed
  <2>4. \A t \in Tasks : store'[t].mid = store[t].mid \/ Names(stream, store'[t].mid, t)
    BY <1>5, <2>1, StartDoes, WritesNamed
  <2> QED BY <1>0, <2>1, <2>2, <2>3, <2>4, NamesWork
<1> QED BY <1>1, <1>2, <1>3, <1>4, <1>5

LEMMA NamesSettle ==
  ASSUME TypeOK, TypeOK', NamesInv, NEW s \in Slots,
         \/ HandlerReturns(s) \/ HandlerRaises(s) \/ NoHandler(s)
         \/ SettleLoad(s) \/ SettlePersist(s) \/ SettleAck(s)
  PROVE  NamesInv'
<1>0. stream \in Seq(Tasks) /\ Grows(stream, stream) /\ Names(stream, 0, TaskOf(s))
  BY SameGrows DEF TypeOK, Names
<1> USE DEF SlotLabels
<1>1. /\ UNCHANGED <<stream, call>> /\ slot[s].got # 0 /\ TaskOf(s) \in Tasks
  BY HandlerDoes, SettleLoadDoes, SettlePersistDoes, SettleAckDoes DEF redis
<1>2. MessagesReturned'
  BY <1>1 DEF NamesInv, MessagesReturned
<1>3. Names(stream, MidAfterLoad(s), TaskOf(s)) /\ Names(stream, MidOf(s), TaskOf(s))
  BY <1>1, MidsNamed
<1>4. CASE HandlerReturns(s) \/ HandlerRaises(s) \/ NoHandler(s)
  <2>1. Alone(s) /\ HoldsNamed(s)
    BY <1>0, <1>1, <1>4, HandlerDoes, KeepsNamed
  <2>2. UNCHANGED <<store, mids>>
    BY <1>4, HandlerDoes DEF redis
  <2> QED BY <1>0, <1>1, <1>2, <2>1, <2>2, NamesWork
<1>5. CASE SettleLoad(s)
  <2>1. Alone(s) /\ HoldsNamed(s)
    BY <1>1, <1>3, <1>5, SettleLoadDoes, KeepsNamed
  <2>2. \A p \in Procs, u \in Tasks :
          mids'[p][u] = mids[p][u] \/ Names(stream, mids'[p][u], u)
    BY <1>1, <1>3, <1>5, SettleLoadDoes, NotesNamed
  <2>3. UNCHANGED store
    BY <1>5, SettleLoadDoes DEF redis
  <2> QED BY <1>0, <1>1, <1>2, <2>1, <2>2, <2>3, NamesWork
<1>6. CASE SettlePersist(s)
  <2>1. Alone(s) /\ HoldsNamed(s)
    BY <1>1, <1>3, <1>6, SettlePersistDoes, KeepsNamed
  <2>2. \A t \in Tasks : store'[t].mid = store[t].mid \/ Names(stream, store'[t].mid, t)
    BY <1>1, <1>6, SettlePersistDoes, WritesNamed
  <2>3. UNCHANGED mids
    BY <1>6, SettlePersistDoes
  <2> QED BY <1>0, <1>1, <1>2, <2>1, <2>2, <2>3, NamesWork
<1>7. CASE SettleAck(s)
  <2>1. Alone(s) /\ HoldsNamed(s)
    BY <1>1, <1>7, SettleAckDoes, KeepsNamed
  <2>2. \A p \in Procs, u \in Tasks :
          mids'[p][u] = mids[p][u] \/ Names(stream, mids'[p][u], u)
    BY <1>0, <1>1, <1>7, SettleAckDoes, NotesNamed
  <2>3. UNCHANGED store
    BY <1>7, SettleAckDoes
  <2> QED BY <1>0, <1>1, <1>2, <2>1, <2>2, <2>3, NamesWork
<1> QED BY <1>4, <1>5, <1>6, <1>7

-----------------------------------------------------------------------------
(* What the other steps do, field by field                                 *)

\* The call of t alone moves.
Calls(t, labels) ==
  call'[t].pc \in labels /\ \A u \in Tasks \ {t} : call'[u] = call[u]

\* enqueue(): it looks for the key, writes the hash, or publishes the message.
LEMMA EnqueueDoes ==
  ASSUME TypeOK, NEW t \in Tasks, Enqueue(t)
  PROVE  /\ UNCHANGED <<delivered, pending, stale, mids, slot, counts>>
         /\ \/ /\ call[t].pc \notin {"publish", "returned"}
               /\ Calls(t, CallLabels \ {"publish"}) /\ UNCHANGED <<stream, store>>
            \/ /\ call[t].pc = "persist" /\ Calls(t, {"publish"}) /\ UNCHANGED stream
               /\ store'[t].mid = 0 /\ \A u \in Tasks \ {t} : store'[u] = store[u]
            \/ /\ call[t].pc = "publish" /\ Calls(t, {"returned"}) /\ UNCHANGED store
               /\ stream' = Append(stream, t)
<1> USE DEF CallLabels
<1>1. call \in [Tasks -> CallState]
  BY DEF TypeOK
<1>2. CASE EnqueueGet(t) \/ EnqueueReload(t)
  <2>1. /\ UNCHANGED <<redis, mids, slot, counts>>
        /\ call[t].pc \notin {"publish", "returned"}
    BY <1>2 DEF EnqueueGet, EnqueueReload
  <2>2. Calls(t, CallLabels \ {"publish"})
    BY <1>1, <1>2 DEF EnqueueGet, EnqueueReload, EnqueueGoes, EnqueueReturns, CallState, Calls
  <2> QED BY <2>1, <2>2 DEF redis
<1>3. CASE EnqueueReserve(t)
  <2>1. Calls(t, CallLabels \ {"publish"})
    BY <1>1, <1>3 DEF EnqueueReserve, EnqueueGoes, CallState, Calls
  <2> QED BY <1>3, <2>1 DEF EnqueueReserve
<1>4. CASE EnqueuePersist(t)
  <2>1. Calls(t, {"publish"})
    BY <1>1, <1>4 DEF EnqueuePersist, EnqueueGoes, CallState, Calls
  <2>2. store'[t].mid = 0 /\ \A u \in Tasks \ {t} : store'[u] = store[u]
    BY <1>4 DEF EnqueuePersist, TypeOK
  <2> QED BY <1>4, <2>1, <2>2 DEF EnqueuePersist
<1>5. CASE EnqueuePublish(t)
  <2>1. Calls(t, {"returned"})
    BY <1>1, <1>5 DEF EnqueuePublish, EnqueueReturns, CallState, Calls
  <2> QED BY <1>5, <2>1 DEF EnqueuePublish
<1> QED BY <1>2, <1>3, <1>4, <1>5 DEF Enqueue

\* Time passes for the copies of a delayed task, and nothing else changes.
LEMMA ElapseDoes ==
  ASSUME TypeOK, NEW t \in Tasks, Elapse(t)
  PROVE  /\ UNCHANGED <<stream, delivered, pending, stale, reserved, mids, call, counts>>
         /\ \A u \in Tasks : store'[u].state = store[u].state /\ store'[u].mid = store[u].mid
         /\ \A s \in Slots :
              /\ slot'[s].pc = slot[s].pc /\ slot'[s].got = slot[s].got
              /\ slot'[s].arg = slot[s].arg /\ slot'[s].env.state = slot[s].env.state
<1>1. slot \in [Slots -> SlotState]
  BY DEF TypeOK
<1>2. \A u \in Tasks : store'[u].state = store[u].state /\ store'[u].mid = store[u].mid
  BY DEF Elapse, TypeOK, Envelope
<1>3. ASSUME NEW s \in Slots
      PROVE  LET late == [slot[s] EXCEPT !.env.delayed = FALSE] IN
             /\ late.pc = slot[s].pc /\ late.got = slot[s].got
             /\ late.arg = slot[s].arg /\ late.env.state = slot[s].env.state
  BY <1>1 DEF SlotState, Envelope
<1> QED BY <1>1, <1>2, <1>3 DEF Elapse

LEMMA EnqueueCrashDoes ==
  ASSUME TypeOK, NEW t \in Tasks, EnqueueCrash(t)
  PROVE  /\ UNCHANGED <<redis, mids, slot, overruns>> /\ crashes' # 0
         /\ call[t].pc \in {"persist", "publish"} /\ Calls(t, {"crashed"})
<1>1. call \in [Tasks -> CallState] /\ crashes \in Nat
  BY DEF TypeOK
<1> QED BY <1>1 DEF EnqueueCrash, EnqueueGoes, CallState, Calls

LEMMA BatchDoes ==
  ASSUME TypeOK, NEW p \in Procs, Batch(p)
  PROVE  /\ UNCHANGED <<redis, mids, call, counts>>
         /\ \A s \in Slots :
              \/ slot'[s] = slot[s]
              \/ slot[s].pc = "rest" /\ slot'[s].pc = "claim" /\ slot'[s].got = 0
BY DEF Batch, SlotAt

LEMMA CrashDoes ==
  ASSUME TypeOK, NEW p \in Procs, Crash(p)
  PROVE  /\ UNCHANGED <<redis, call, overruns>> /\ crashes' # 0
         /\ \A s \in Slots :
              IF ProcOf[s] = p THEN slot'[s].pc = "rest" /\ slot'[s].got = 0
              ELSE slot'[s] = slot[s]
         /\ \A q \in Procs, t \in Tasks : mids'[q][t] = IF q = p THEN 0 ELSE mids[q][t]
<1>1. mids \in [Procs -> [Tasks -> Nat]] /\ crashes \in Nat
  BY DEF TypeOK
<1>2. \A q \in Procs, t \in Tasks : mids'[q][t] = IF q = p THEN 0 ELSE mids[q][t]
  BY <1>1 DEF Crash
<1> QED BY <1>1, <1>2 DEF Crash, IdleSlot, SlotAt

-----------------------------------------------------------------------------
LEMMA NamesInit == Init => NamesInv
<1> SUFFICES ASSUME Init PROVE NamesInv
  OBVIOUS
<1>1. stream = << >> /\ Len(stream) = 0
  BY DEF Init
<1> QED BY <1>1
    DEF Init, NamesInv, RestsFree, MidsName, StoreNames, ArgsName, MessagesReturned,
        Names, IdleSlot, SlotAt, NoEnvelope

\* Until its call returns a task has no message.
LEMMA UnpublishedTask ==
  ASSUME TypeOK, NamesInv, NEW t \in Tasks, call[t].pc # "returned"
  PROVE  /\ \A id \in 1 .. Len(stream) : stream[id] # t
         /\ \A s \in Slots : slot[s].got # 0 => TaskOf(s) # t
         /\ store[t].mid = 0 /\ \A p \in Procs : mids[p][t] = 0
<1>1. \A id \in 1 .. Len(stream) : stream[id] # t
  BY DEF NamesInv, MessagesReturned
<1> QED BY <1>1, TaskOfType DEF NamesInv, MidsName, StoreNames, Names, TaskOf

LEMMA NamesEnqueue ==
  ASSUME TypeOK, TypeOK', NamesInv, NEW t \in Tasks, Enqueue(t)
  PROVE  NamesInv'
<1>0. /\ UNCHANGED <<mids, slot>>
      /\ stream \in Seq(Tasks) /\ stream' \in Seq(Tasks)
      /\ \A id \in 1 .. Len(stream) : stream[id] \in Tasks
  <2>1. UNCHANGED <<mids, slot>>
    BY EnqueueDoes
  <2> QED BY <2>1 DEF TypeOK
<1>1. CASE /\ call[t].pc \notin {"publish", "returned"}
           /\ Calls(t, CallLabels \ {"publish"}) /\ UNCHANGED <<stream, store>>
  <2>1. \A id \in 1 .. Len(stream) : stream[id] # t
    BY <1>1, UnpublishedTask
  <2> QED BY <1>0, <1>1, <2>1
      DEF NamesInv, RestsFree, MidsName, StoreNames, ArgsName, MessagesReturned, Calls, TaskOf
<1>2. CASE /\ call[t].pc = "persist" /\ Calls(t, {"publish"}) /\ UNCHANGED stream
           /\ store'[t].mid = 0 /\ \A u \in Tasks \ {t} : store'[u] = store[u]
  <2>1. \A id \in 1 .. Len(stream) : stream[id] # t
    BY <1>2, UnpublishedTask
  <2>2. StoreNames'
    BY <1>2 DEF NamesInv, StoreNames, Names
  <2> QED BY <1>0, <1>2, <2>1, <2>2
      DEF NamesInv, RestsFree, MidsName, ArgsName, MessagesReturned, Calls, TaskOf
<1>3. CASE /\ call[t].pc = "publish" /\ Calls(t, {"returned"}) /\ UNCHANGED store
           /\ stream' = Append(stream, t)
  <2>1. Grows(stream, stream')
    BY <1>0, <1>3, AppendGrows
  <2>2. MidsName' /\ StoreNames'
    BY <1>0, <1>3, <2>1, GrowsNames DEF NamesInv, MidsName, StoreNames
  <2>3. ArgsName'
    <3>1. ASSUME NEW s \in Slots, slot[s].got # 0
          PROVE  Names(stream', slot[s].arg, stream'[slot[s].got])
      <4>1. slot[s].got \in 1 .. Len(stream) /\ Names(stream, slot[s].arg, TaskOf(s))
        BY <3>1, TaskOfType DEF NamesInv, ArgsName
      <4>2. stream'[slot[s].got] = TaskOf(s)
        BY <2>1, <4>1 DEF Grows, TaskOf
      <4> QED BY <1>0, <2>1, <4>1, <4>2, GrowsNames
    <3> QED BY <1>0, <3>1 DEF ArgsName, TaskOf
  <2>4. MessagesReturned'
    <3>1. ASSUME NEW id \in 1 .. Len(stream')
          PROVE  call'[stream'[id]].pc = "returned"
      <4>1. stream'[id] = t \/ (id \in 1 .. Len(stream) /\ stream'[id] = stream[id])
        BY <1>0, <1>3
      <4> QED BY <1>0, <1>3, <4>1 DEF NamesInv, MessagesReturned, Calls
    <3> QED BY <3>1 DEF MessagesReturned
  <2> QED BY <1>0, <2>2, <2>3, <2>4 DEF NamesInv, RestsFree
<1> QED BY <1>1, <1>2, <1>3, EnqueueDoes

LEMMA NamesEnvironment ==
  ASSUME TypeOK, NamesInv,
         \/ \E t \in Tasks : Elapse(t) \/ EnqueueCrash(t)
         \/ \E id \in pending : GrowStale(id)
         \/ \E p \in Procs : Batch(p) \/ Crash(p)
         \/ UNCHANGED vars
  PROVE  NamesInv'
<1> USE DEF NamesInv, RestsFree, MidsName, StoreNames, ArgsName, MessagesReturned, Names,
            TaskOf
<1>0. \A id \in 1 .. Len(stream) : stream[id] \in Tasks
  BY DEF TypeOK
<1>1. ASSUME NEW t \in Tasks, Elapse(t)
      PROVE  NamesInv'
  BY <1>1, ElapseDoes
<1>2. ASSUME NEW t \in Tasks, EnqueueCrash(t)
      PROVE  NamesInv'
  <2>1. \A id \in 1 .. Len(stream) : stream[id] # t
    BY <1>2, EnqueueCrashDoes, UnpublishedTask
  <2> QED BY <1>0, <1>2, <2>1, EnqueueCrashDoes DEF redis, Calls
<1>3. ASSUME NEW id \in pending, GrowStale(id)
      PROVE  NamesInv'
  BY <1>3 DEF GrowStale
<1>4. ASSUME NEW p \in Procs, Batch(p)
      PROVE  NamesInv'
  BY <1>4, BatchDoes DEF redis
<1>5. ASSUME NEW p \in Procs, Crash(p)
      PROVE  NamesInv'
  BY <1>5, CrashDoes DEF redis
<1>6. CASE UNCHANGED vars
  BY <1>6 DEF vars, counts
<1> QED BY <1>1, <1>2, <1>3, <1>4, <1>5, <1>6

LEMMA NamesInvariance == Spec => []NamesInv
<1>1. TypeOK /\ TypeOK' /\ NamesInv /\ [Next]_vars => NamesInv'
  <2> SUFFICES ASSUME TypeOK, TypeOK', NamesInv, [Next]_vars PROVE NamesInv'
    OBVIOUS
  <2> QED BY NamesEnqueue, NamesDequeue, NamesSettle, NamesEnvironment DEF Next, Work
<1> QED BY NamesInit, TypeCorrect, <1>1, PTL DEF Spec

-----------------------------------------------------------------------------
(* No task is lost while no process dies                                   *)

\* Message id of task t is unread or pending.
Waits(id, t) ==
  id \in 1 .. Len(stream) /\ stream[id] = t /\ (id > delivered \/ id \in pending)

\* The coroutine works on t and will settle it or publish it again.
Forwards(s, t) ==
  /\ slot[s].got # 0 /\ TaskOf(s) = t
  /\ \/ slot[s].pc \in {"start", "run", "settleLoad", "settlePersist",
                        "settlePublish", "republish"}
     \/ slot[s].pc = "settleAck" /\ slot[s].env.state = "queued"
     \/ slot[s].pc = "ackDropped" /\ slot[s].env.state \in Live

\* The coroutine will acknowledge message id and do nothing more.
Discards(s, id) ==
  /\ slot[s].got # 0 /\ slot[s].arg = id
  /\ \/ slot[s].pc = "settleAck" /\ slot[s].env.state # "queued"
     \/ slot[s].pc = "ackDropped" /\ slot[s].env.state \notin Live

Kept(t) ==
  \/ call[t].pc = "publish"
  \/ \E s \in Slots : Forwards(s, t)
  \/ \E id \in 1 .. Len(stream) : Waits(id, t) /\ \A s \in Slots : ~Discards(s, id)

\* After the handler the envelope has the state of a verdict.
Judged ==
  \A s \in Slots :
    slot[s].pc \in {"settleLoad", "settlePersist", "settleAck", "settlePublish"}
    => slot[s].env.state \in {"queued"} \cup Settled

KeptInv ==
  /\ Judged
  /\ crashes = 0 => \A t \in Tasks : store[t].state \in Live => Kept(t)

\* A step of coroutine s keeps t if it does so as far as s is concerned.
LEMMA KeptWork ==
  ASSUME TypeOK, TypeOK', NEW s \in Slots, NEW t \in Tasks, Kept(t), UNCHANGED call,
         Alone(s), Grows(stream, stream'),
         Forwards(s, t) => Kept(t)',
         \A id \in 1 .. Len(stream) :
           Waits(id, t) /\ ~Discards(s, id) => Kept(t)' \/ (Waits(id, t)' /\ ~Discards(s, id)')
  PROVE  Kept(t)'
<1>0. Len(stream) \in Nat /\ Len(stream') \in Nat
  BY DEF TypeOK
<1>1. CASE call[t].pc = "publish"
  BY <1>1 DEF Kept
<1>2. ASSUME NEW r \in Slots, r # s, Forwards(r, t)
      PROVE  Kept(t)'
  <2>1. slot'[r] = slot[r] /\ slot[r].got \in 1 .. Len(stream)
    BY <1>2, TaskOfType DEF Alone, Forwards
  <2>2. TaskOf(r)' = TaskOf(r)
    BY <2>1 DEF TaskOf, Grows
  <2>3. Forwards(r, t)'
    BY <1>2, <2>1, <2>2 DEF Forwards
  <2> QED BY <2>3 DEF Kept
<1>3. ASSUME NEW id \in 1 .. Len(stream), Waits(id, t), \A r \in Slots : ~Discards(r, id)
      PROVE  Kept(t)'
  <2>1. CASE Waits(id, t)' /\ ~Discards(s, id)'
    <3>1. ASSUME NEW r \in Slots
          PROVE  ~Discards(r, id)'
      <4>1. CASE r = s
        BY <2>1, <4>1
      <4>2. CASE r # s
        BY <1>3, <4>2 DEF Alone, Discards
      <4> QED BY <4>1, <4>2
    <3>2. id \in 1 .. Len(stream')
      BY <1>0 DEF Grows
    <3> QED BY <2>1, <3>1, <3>2 DEF Kept
  <2> QED BY <1>3, <2>1
<1> QED BY <1>1, <1>2, <1>3 DEF Kept

\* The message that a coroutine acknowledges is one of its task.
LEMMA OwnMessage ==
  ASSUME TypeOK, NamesInv, NEW s \in Slots, slot[s].got # 0, NEW id \in 1 .. Len(stream),
         NEW t, slot[s].arg = id \/ MidOf(s) = id \/ MidAfterLoad(s) = id, stream[id] = t
  PROVE  TaskOf(s) = t
<1>1. id # 0 /\ Names(stream, id, TaskOf(s))
  BY MidsNamed DEF NamesInv, ArgsName
<1> QED BY <1>1 DEF Names

\* A coroutine that moves on with its message.
LEMMA ForwardsOn ==
  ASSUME NEW s \in Slots, NEW t, slot[s].got # 0, TaskOf(s) = t, UNCHANGED stream,
         slot'[s].got = slot[s].got,
         \/ slot'[s].pc \in {"run", "settleLoad", "settlePersist", "settlePublish", "republish"}
         \/ slot'[s].pc = "settleAck" /\ slot'[s].env.state = "queued"
  PROVE  Forwards(s, t)' /\ Kept(t)'
<1>1. TaskOf(s)' = t
  BY DEF TaskOf
<1>2. Forwards(s, t)'
  BY <1>1 DEF Forwards
<1> QED BY <1>2 DEF Kept

\* Nobody discards a message that was just published.
LEMMA KeptByPublishing ==
  ASSUME TypeOK, TypeOK', NamesInv, NEW t \in Tasks, stream' = Append(stream, t),
         UNCHANGED delivered,
         \A s \in Slots : slot'[s] = slot[s] \/ slot'[s].got = 0
  PROVE  Kept(t)'
<1>1. stream \in Seq(Tasks) /\ delivered \in Nat /\ delivered <= Len(stream)
  BY DEF TypeOK
<1>5. PICK new \in Nat : new = Len(stream) + 1
  BY <1>1
<1>2. new \in 1 .. Len(stream') /\ stream'[new] = t /\ new > delivered
  BY <1>1, <1>5
<1>3. Waits(new, t)'
  BY <1>2 DEF Waits
<1>4. ASSUME NEW s \in Slots, Discards(s, new)'
      PROVE  FALSE
  <2>1. slot[s].got # 0 /\ slot[s].arg = new
    BY <1>4 DEF Discards
  <2>2. Names(stream, slot[s].arg, TaskOf(s))
    BY <2>1 DEF NamesInv, ArgsName
  <2> QED BY <1>1, <1>5, <2>1, <2>2 DEF Names
<1> QED BY <1>2, <1>3, <1>4 DEF Kept

LEMMA KeptDequeue ==
  ASSUME TypeOK, TypeOK', NamesInv, KeptInv, crashes' = 0, NEW s \in Slots,
         NEW t \in Tasks, store'[t].state \in Live,
         \/ Claim(s) \/ ReadNew(s) \/ Load(s) \/ AckDropped(s) \/ Republish(s) \/ Start(s)
         \/ SettlePublish(s)
  PROVE  Kept(t)'
<1>0. /\ stream \in Seq(Tasks) /\ Len(stream) \in Nat /\ delivered \in Nat
      /\ Grows(stream, stream) /\ pending \subseteq 1 .. delivered
  BY SameGrows DEF TypeOK
<1>1. crashes = 0 /\ UNCHANGED call
  BY ClaimDoes, ReadDoes, LoadDoes, AckDroppedDoes, PublishDoes, StartDoes DEF counts
<1>2. store[t].state \in Live => Kept(t)
  BY <1>1 DEF KeptInv
<1>3. CASE Claim(s) \/ ReadNew(s)
  <2>1. UNCHANGED <<stream, store>> /\ Kept(t) /\ slot[s].pc \in {"claim", "read"}
    BY <1>2, <1>3, ClaimDoes, ReadDoes
  <2>2. Alone(s) /\ slot'[s].pc \in {"read", "rest", "load"}
    BY <1>3, ClaimDoes, ReadDoes DEF Keeps, Frees, Takes
  <2>3. \A id \in 1 .. Len(stream) :
          id > delivered \/ id \in pending => id > delivered' \/ id \in pending'
    <3>1. \/ UNCHANGED <<delivered, pending>>
          \/ delivered' = delivered + 1 /\ pending' = pending \cup {delivered + 1}
      BY <1>3, ClaimDoes, ReadDoes
    <3> QED BY <1>0, <3>1
  <2>4. ~Forwards(s, t) /\ \A id : ~Discards(s, id)'
    BY <2>1, <2>2 DEF Forwards, Discards
  <2>5. \A id \in 1 .. Len(stream) : Waits(id, t) => Waits(id, t)'
    BY <2>1, <2>3 DEF Waits
  <2> QED BY <1>0, <1>1, <2>1, <2>2, <2>4, <2>5, KeptWork
<1>4. CASE Load(s)
  <2>1. UNCHANGED <<redis, call>> /\ slot[s].pc = "load" /\ slot[s].got # 0
    BY <1>4, LoadDoes
  <2>2. UNCHANGED <<stream, delivered, pending, store>> /\ Kept(t)
    BY <1>2, <2>1 DEF redis
  <2>3. Alone(s) /\ slot'[s].arg = MidAfterLoad(s)
        /\ \/ slot'[s].pc = "ackDropped" /\ slot'[s].env.state = store[TaskOf(s)].state
           \/ slot'[s].pc = "start"
    BY <1>4, LoadDoes DEF Sends
  <2>4. ~Forwards(s, t)
    BY <2>1 DEF Forwards
  \* A message that is dropped for good is one of a task that is not live.
  <2>5. ASSUME NEW id \in 1 .. Len(stream), Waits(id, t)
        PROVE  ~Discards(s, id)'
    <3>1. CASE TaskOf(s) = t
      BY <2>2, <2>3, <3>1 DEF Discards
    <3>2. CASE TaskOf(s) # t
      <4>1. MidAfterLoad(s) # id
        BY <2>1, <2>5, <3>2, OwnMessage DEF Waits
      <4> QED BY <2>3, <4>1 DEF Discards
    <3> QED BY <3>1, <3>2
  <2>6. \A id \in 1 .. Len(stream) : Waits(id, t) => Waits(id, t)'
    BY <2>2 DEF Waits
  <2> QED BY <1>0, <1>1, <2>2, <2>3, <2>4, <2>5, <2>6, KeptWork
<1>5. CASE AckDropped(s)
  <2>1. UNCHANGED <<stream, delivered, store>> /\ slot[s].got # 0 /\ slot[s].pc = "ackDropped"
        /\ pending' = pending \ {slot[s].arg} /\ Kept(t)
    BY <1>2, <1>5, AckDroppedDoes DEF Acks
  <2>2. Alone(s) /\ slot'[s].pc \in {"republish", "rest", "read"}
    BY <1>5, AckDroppedDoes DEF Keeps, Frees
  <2>3. TaskOf(s) = t /\ slot[s].env.state \in Live => Kept(t)'
    <3>1. slot[s].env.state \in Live => slot'[s].pc = "republish" /\ slot'[s].got = slot[s].got
      BY <1>5, AckDroppedDoes DEF Keeps
    <3> QED BY <2>1, <3>1, ForwardsOn
  <2>4. Forwards(s, t) => Kept(t)'
    BY <2>1, <2>3 DEF Forwards
  <2>5. ASSUME NEW id \in 1 .. Len(stream), Waits(id, t), ~Discards(s, id)
        PROVE  Kept(t)' \/ (Waits(id, t)' /\ ~Discards(s, id)')
    <3>1. CASE slot[s].arg = id
      <4>1. TaskOf(s) = t
        BY <2>1, <2>5, <3>1, OwnMessage DEF Waits
      <4> QED BY <2>1, <2>3, <2>5, <3>1, <4>1 DEF Discards
    <3>2. CASE slot[s].arg # id
      BY <2>1, <2>2, <2>5, <3>2 DEF Waits, Discards
    <3> QED BY <3>1, <3>2
  <2> QED BY <1>0, <1>1, <2>1, <2>2, <2>4, <2>5, KeptWork
<1>6. CASE Republish(s) \/ SettlePublish(s)
  <2>1. /\ UNCHANGED <<delivered, pending, store>> /\ TaskOf(s) \in Tasks
        /\ stream' = Append(stream, TaskOf(s)) /\ Alone(s)
        /\ slot'[s].pc \in {"rest", "read"} /\ slot'[s].got = 0 /\ Kept(t)
    BY <1>2, <1>6, PublishDoes DEF Frees
  <2>2. TaskOf(s) = t => Kept(t)'
    BY <2>1, KeptByPublishing DEF Alone
  <2>3. Forwards(s, t) => Kept(t)'
    BY <2>2 DEF Forwards
  <2>4. Grows(stream, stream')
    BY <1>0, <2>1, AppendGrows
  <2>5. \A id \in 1 .. Len(stream) : Waits(id, t) => Waits(id, t)' /\ ~Discards(s, id)'
    <3>1. Len(stream') \in Nat
      BY DEF TypeOK
    <3> QED BY <1>0, <2>1, <2>4, <3>1 DEF Waits, Discards, Grows
  <2> QED BY <1>1, <2>1, <2>3, <2>4, <2>5, KeptWork
<1>7. CASE Start(s)
  <2>1. /\ UNCHANGED <<stream, delivered, pending>> /\ slot[s].got # 0 /\ Writes(s)
        /\ Alone(s) /\ slot'[s].pc = "run" /\ slot'[s].got = slot[s].got
    BY <1>7, StartDoes DEF Keeps
  <2>2. CASE TaskOf(s) = t
    BY <2>1, <2>2, ForwardsOn
  <2>3. CASE TaskOf(s) # t
    <3>1. Kept(t)
      BY <1>2, <2>1, <2>3 DEF Writes
    <3>2. \A id \in 1 .. Len(stream) : Waits(id, t) => Waits(id, t)' /\ ~Discards(s, id)'
      BY <2>1 DEF Waits, Discards
    <3> QED BY <1>0, <1>1, <2>1, <2>3, <3>1, <3>2, KeptWork DEF Forwards
  <2> QED BY <2>2, <2>3
<1> QED BY <1>3, <1>4, <1>5, <1>6, <1>7

LEMMA KeptSettle ==
  ASSUME TypeOK, TypeOK', NamesInv, KeptInv, crashes' = 0, NEW s \in Slots,
         NEW t \in Tasks, store'[t].state \in Live,
         \/ HandlerReturns(s) \/ HandlerRaises(s) \/ NoHandler(s)
         \/ SettleLoad(s) \/ SettlePersist(s) \/ SettleAck(s)
  PROVE  Kept(t)'
<1>0. stream \in Seq(Tasks) /\ Grows(stream, stream)
  BY SameGrows DEF TypeOK
<1>1. /\ crashes = 0 /\ UNCHANGED <<stream, delivered, call>>
      /\ slot[s].got # 0
  BY HandlerDoes, SettleLoadDoes, SettlePersistDoes, SettleAckDoes DEF counts, redis
<1>2. store[t].state \in Live => Kept(t)
  BY <1>1 DEF KeptInv
<1>3. CASE HandlerReturns(s) \/ HandlerRaises(s) \/ NoHandler(s) \/ SettleLoad(s)
  <2>1. UNCHANGED <<pending, store>> /\ Kept(t)
    BY <1>2, <1>3, HandlerDoes, SettleLoadDoes DEF redis
  <2>2. /\ Alone(s) /\ slot'[s].pc \in {"settleLoad", "settlePersist"}
        /\ slot'[s].got = slot[s].got
    BY <1>3, HandlerDoes, SettleLoadDoes DEF Sends
  <2>3. Forwards(s, t) => Kept(t)'
    BY <1>1, <2>2, ForwardsOn DEF Forwards
  <2>4. \A id \in 1 .. Len(stream) : Waits(id, t) => Waits(id, t)' /\ ~Discards(s, id)'
    BY <1>1, <2>1, <2>2 DEF Waits, Discards
  <2> QED BY <1>0, <1>1, <2>1, <2>2, <2>3, <2>4, KeptWork
<1>4. CASE SettlePersist(s)
  <2>1. UNCHANGED pending /\ Writes(s) /\ slot[s].pc = "settlePersist" /\ Alone(s)
    BY <1>4, SettlePersistDoes DEF Sends, Keeps, Frees
  <2>2. slot[s].env.state \in {"queued"} \cup Settled
    BY <2>1 DEF KeptInv, Judged
  \* The state of a live task was written because the task is to be published again.
  <2>3. CASE TaskOf(s) = t
    <3>1. slot[s].env.state = "queued"
      BY <2>1, <2>2, <2>3 DEF Writes, Live, Settled
    <3>2. /\ slot'[s].got = slot[s].got
          /\ \/ slot'[s].pc = "settleAck" /\ slot'[s].env.state = "queued"
             \/ slot'[s].pc = "settlePublish"
      BY <1>4, <3>1, SettlePersistDoes DEF Sends, Keeps
    <3> QED BY <1>1, <2>3, <3>2, ForwardsOn
  <2>4. CASE TaskOf(s) # t
    <3>1. Kept(t)
      BY <1>2, <2>1, <2>4 DEF Writes
    <3>2. /\ slot'[s].pc # "ackDropped"
          /\ slot'[s].pc = "settleAck" => slot'[s].arg = MidOf(s)
      BY <1>4, SettlePersistDoes DEF Sends, Keeps, Frees
    <3>3. \A id \in 1 .. Len(stream) : Waits(id, t) => MidOf(s) # id
      BY <1>1, <2>4, OwnMessage DEF Waits
    <3>4. \A id \in 1 .. Len(stream) : Waits(id, t) => Waits(id, t)' /\ ~Discards(s, id)'
      BY <1>1, <2>1, <3>2, <3>3 DEF Waits, Discards
    <3> QED BY <1>0, <1>1, <2>1, <2>4, <3>1, <3>4, KeptWork DEF Forwards
  <2> QED BY <2>3, <2>4
<1>5. CASE SettleAck(s)
  <2>1. UNCHANGED store /\ slot[s].pc = "settleAck" /\ pending' = pending \ {slot[s].arg}
        /\ Kept(t)
    BY <1>2, <1>5, SettleAckDoes DEF Acks
  <2>2. Alone(s) /\ slot'[s].pc \in {"settlePublish", "rest", "read"}
    BY <1>5, SettleAckDoes DEF Keeps, Frees
  <2>3. TaskOf(s) = t /\ slot[s].env.state = "queued" => Kept(t)'
    <3>1. slot[s].env.state = "queued" =>
            slot'[s].pc = "settlePublish" /\ slot'[s].got = slot[s].got
      BY <1>5, SettleAckDoes DEF Keeps
    <3> QED BY <1>1, <3>1, ForwardsOn
  <2>4. Forwards(s, t) => Kept(t)'
    BY <2>1, <2>3 DEF Forwards
  <2>5. ASSUME NEW id \in 1 .. Len(stream), Waits(id, t), ~Discards(s, id)
        PROVE  Kept(t)' \/ (Waits(id, t)' /\ ~Discards(s, id)')
    <3>1. CASE slot[s].arg = id
      <4>1. TaskOf(s) = t
        BY <1>1, <2>5, <3>1, OwnMessage DEF Waits
      <4> QED BY <1>1, <2>1, <2>3, <2>5, <3>1, <4>1 DEF Discards
    <3>2. CASE slot[s].arg # id
      BY <1>1, <2>1, <2>2, <2>5, <3>2 DEF Waits, Discards
    <3> QED BY <3>1, <3>2
  <2> QED BY <1>0, <1>1, <2>1, <2>2, <2>4, <2>5, KeptWork
<1> QED BY <1>3, <1>4, <1>5

LEMMA KeptEnqueue ==
  ASSUME TypeOK, TypeOK', NamesInv, KeptInv, crashes' = 0, NEW u \in Tasks, Enqueue(u),
         NEW t \in Tasks, store'[t].state \in Live
  PROVE  Kept(t)'
<1>0. /\ UNCHANGED <<delivered, pending, slot>> /\ crashes = 0
      /\ store[t].state \in Live => Kept(t)
  BY EnqueueDoes DEF counts, KeptInv
<1>1. CASE /\ call[u].pc \notin {"publish", "returned"}
           /\ Calls(u, CallLabels \ {"publish"}) /\ UNCHANGED <<stream, store>>
  <2>1. Kept(t)
    BY <1>0, <1>1
  <2> QED BY <1>0, <1>1, <2>1 DEF Kept, Forwards, Waits, Discards, TaskOf, Calls
<1>2. CASE /\ call[u].pc = "persist" /\ Calls(u, {"publish"}) /\ UNCHANGED stream
           /\ store'[u].mid = 0 /\ \A v \in Tasks \ {u} : store'[v] = store[v]
  <2>1. CASE t = u
    BY <1>2, <2>1 DEF Kept, Calls
  <2>2. CASE t # u
    BY <1>0, <1>2, <2>2 DEF Kept, Forwards, Waits, Discards, TaskOf, Calls
  <2> QED BY <2>1, <2>2
<1>3. CASE /\ call[u].pc = "publish" /\ Calls(u, {"returned"}) /\ UNCHANGED store
           /\ stream' = Append(stream, u)
  <2>1. CASE t = u
    BY <1>0, <1>3, <2>1, KeptByPublishing
  <2>2. CASE t # u
    <3>1. Kept(t) /\ stream \in Seq(Tasks)
      BY <1>0, <1>3 DEF TypeOK
    <3>2. Len(stream) \in Nat /\ Len(stream') = Len(stream) + 1
          /\ \A id \in 1 .. Len(stream) : id \in 1 .. Len(stream') /\ stream'[id] = stream[id]
      BY <1>3, <3>1
    <3>3. \A s \in Slots : slot[s].got # 0 => TaskOf(s)' = TaskOf(s)
      BY <1>0, <3>2, TaskOfType DEF TaskOf
    <3>4. \A s \in Slots : Forwards(s, t) => Forwards(s, t)'
      BY <1>0, <3>3 DEF Forwards
    <3>5. \A id \in 1 .. Len(stream) : Waits(id, t) => Waits(id, t)'
      BY <1>0, <3>2 DEF Waits
    <3>6. \A id : \A s \in Slots : Discards(s, id)' => Discards(s, id)
      BY <1>0 DEF Discards
    <3>7. call[t].pc = "publish" => call'[t].pc = "publish"
      BY <1>3, <2>2 DEF Calls
    <3> QED BY <3>1, <3>2, <3>4, <3>5, <3>6, <3>7 DEF Kept
  <2> QED BY <2>1, <2>2
<1> QED BY <1>1, <1>2, <1>3, EnqueueDoes

LEMMA KeptEnvironment ==
  ASSUME TypeOK, NamesInv, KeptInv, crashes' = 0, NEW t \in Tasks, store'[t].state \in Live,
         \/ \E u \in Tasks : Elapse(u) \/ EnqueueCrash(u)
         \/ \E id \in pending : GrowStale(id)
         \/ \E p \in Procs : Batch(p) \/ Crash(p)
         \/ UNCHANGED vars
  PROVE  Kept(t)'
<1>0. crashes = 0 /\ store[t].state \in Live => Kept(t)
  BY DEF KeptInv
<1> USE DEF Kept, Forwards, Waits, Discards, TaskOf
<1>1. ASSUME NEW u \in Tasks, Elapse(u)
      PROVE  Kept(t)'
  <2>1. Kept(t)
    BY <1>0, <1>1, ElapseDoes DEF counts
  <2> QED BY <1>1, <2>1, ElapseDoes
<1>2. ASSUME NEW u \in Tasks, EnqueueCrash(u)
      PROVE  Kept(t)'
  BY <1>2, EnqueueCrashDoes
<1>3. ASSUME NEW id \in pending, GrowStale(id)
      PROVE  Kept(t)'
  BY <1>0, <1>3 DEF GrowStale
<1>4. ASSUME NEW p \in Procs, Batch(p)
      PROVE  Kept(t)'
  <2>1. UNCHANGED <<stream, delivered, pending, call>> /\ Kept(t)
    BY <1>0, <1>4, BatchDoes DEF redis, counts
  <2>2. \A s \in Slots : (Forwards(s, t) => Forwards(s, t)')
    BY <1>4, <2>1, BatchDoes
  <2>3. \A s \in Slots, id \in 1 .. Len(stream) : Discards(s, id)' => Discards(s, id)
    BY <1>4, <2>1, BatchDoes
  <2>4. \A id \in 1 .. Len(stream) : Waits(id, t) => Waits(id, t)'
    BY <2>1
  <2> HIDE DEF Forwards, Waits, Discards
  <2> QED BY <2>1, <2>2, <2>3, <2>4
<1>5. ASSUME NEW p \in Procs, Crash(p)
      PROVE  Kept(t)'
  BY <1>5, CrashDoes
<1>6. CASE UNCHANGED vars
  BY <1>0, <1>6 DEF vars, counts
<1> QED BY <1>1, <1>2, <1>3, <1>4, <1>5, <1>6

LEMMA JudgedStep ==
  ASSUME TypeOK, Judged, [Next]_vars
  PROVE  Judged'
<1>1. ASSUME NEW s \in Slots, Work(s)
      PROVE  Judged'
  <2>1. Alone(s)
    BY <1>1, ClaimDoes, ReadDoes, LoadDoes, AckDroppedDoes, PublishDoes, StartDoes, HandlerDoes,
       SettleLoadDoes, SettlePersistDoes, SettleAckDoes DEF Work, Keeps, Sends, Frees, Takes
  <2>2. slot'[s].pc \in {"settleLoad", "settlePersist", "settleAck", "settlePublish"}
        => slot'[s].env.state \in {"queued"} \cup Settled
    <3>1. CASE Claim(s) \/ ReadNew(s) \/ Load(s) \/ AckDropped(s) \/ Republish(s) \/ Start(s)
               \/ SettlePublish(s)
      BY <3>1, ClaimDoes, ReadDoes, LoadDoes, AckDroppedDoes, PublishDoes, StartDoes
      DEF Keeps, Sends, Frees, Takes
    <3>2. CASE HandlerReturns(s) \/ HandlerRaises(s) \/ NoHandler(s)
      BY <3>2, HandlerDoes DEF Sends, Settled
    <3>3. CASE SettleLoad(s) \/ SettlePersist(s) \/ SettleAck(s)
      <4>1. slot[s].pc \in {"settleLoad", "settlePersist", "settleAck"}
        BY <3>3, SettleLoadDoes, SettlePersistDoes, SettleAckDoes
      <4>2. slot[s].env.state \in {"queued"} \cup Settled
        BY <4>1 DEF Judged
      <4> QED BY <3>3, <4>2, SettleLoadDoes, SettlePersistDoes, SettleAckDoes
              DEF Keeps, Sends, Frees
    <3> QED BY <1>1, <3>1, <3>2, <3>3 DEF Work
  <2> QED BY <2>1, <2>2 DEF Judged, Alone
<1>2. ASSUME NEW t \in Tasks, Enqueue(t) \/ Elapse(t) \/ EnqueueCrash(t)
      PROVE  Judged'
  BY <1>2, EnqueueDoes, ElapseDoes, EnqueueCrashDoes DEF Judged
<1>3. ASSUME NEW id \in pending, GrowStale(id)
      PROVE  Judged'
  BY <1>3 DEF GrowStale, Judged
<1>4. ASSUME NEW p \in Procs, Batch(p) \/ Crash(p)
      PROVE  Judged'
  BY <1>4, BatchDoes, CrashDoes DEF Judged
<1>5. CASE UNCHANGED vars
  BY <1>5 DEF vars, Judged
<1> QED BY <1>1, <1>2, <1>3, <1>4, <1>5 DEF Next

LEMMA KeptInvariance == Spec => []KeptInv
<1>1. Init => KeptInv
  BY DEF Init, KeptInv, Judged, IdleSlot, SlotAt, NoEnvelope, Live
<1>2. TypeOK /\ TypeOK' /\ NamesInv /\ KeptInv /\ [Next]_vars => KeptInv'
  <2> SUFFICES ASSUME TypeOK, TypeOK', NamesInv, KeptInv, [Next]_vars
               PROVE  KeptInv'
    OBVIOUS
  <2>1. Judged'
    BY JudgedStep DEF KeptInv
  <2>2. ASSUME crashes' = 0, NEW t \in Tasks, store'[t].state \in Live
        PROVE  Kept(t)'
    BY <2>2, KeptEnqueue, KeptDequeue, KeptSettle, KeptEnvironment DEF Next, Work
  <2> QED BY <2>1, <2>2 DEF KeptInv
<1> QED BY TypeCorrect, NamesInvariance, <1>1, <1>2, PTL DEF Spec

\* No interleaving of deliveries, overruns, retries and late acknowledgements leaves a queued
\* or running task without a message, a coroutine at work or a caller about to publish.
THEOREM QueueKeepsTasks == Spec => []NoTaskLost
<1>1. TypeOK /\ KeptInv => NoTaskLost
  <2> SUFFICES ASSUME TypeOK, KeptInv, crashes = 0, NEW t \in Tasks, store[t].state \in Live
               PROVE  Underway(t)
    BY DEF NoTaskLost
  <2>1. Kept(t)
    BY DEF KeptInv
  <2> QED BY <2>1 DEF Kept, Forwards, Waits, Underway
<1> QED BY TypeCorrect, KeptInvariance, <1>1, PTL

-----------------------------------------------------------------------------
(* A task that is not doubled is in one hand                               *)

\* No message in hand is stale, and no two coroutines hold the same.
HeldApart ==
  /\ \A s \in Slots : slot[s].got # 0 => slot[s].got \notin stale
  /\ \A r, s \in Slots : slot[r].got # 0 /\ slot[r].got = slot[s].got => r = s

\* An id that is about to be written is the one that the hash has already.
MidStands ==
  \A s \in Slots :
    /\ slot[s].pc \in {"start", "settlePersist"}
    /\ slot[s].arg # 0 /\ store[TaskOf(s)].mid # 0
    => slot[s].arg = store[TaskOf(s)].mid

On(s, t) == slot[s].got # 0 /\ TaskOf(s) = t

\* Between the acknowledgement of a message and the publication of the next one.
InGap(s) == slot[s].pc \in {"republish", "settlePublish"}

\* The id that _load() finds: that of the first delivery, which the hash keeps.
FirstId(s, t) == IF store[t].mid # 0 THEN store[t].mid ELSE slot[s].got

\* Only the last message of t can wait.
LastWaits(t) ==
  \A id, other \in 1 .. Len(stream) : Waits(id, t) /\ stream[other] = t => other <= id

OneHand(t) == \A r, s \in Slots : On(r, t) /\ On(s, t) => r = s

\* No message waits but the one in hand, which is pending up to the gap.
HoldsLast(s, t) ==
  /\ \A id \in 1 .. Len(stream) : Waits(id, t) => id = slot[s].got
  /\ ~InGap(s) => slot[s].got \in pending
  /\ InGap(s) /\ Retries(t) = {} => slot[s].got \notin pending

\* The ids at hand are the one that _load() finds.
IdsAgree(s, t) ==
  /\ slot[s].pc = "load" => mids[ProcOf[s]][t] = slot[s].got
  /\ slot[s].pc \in {"ackDropped", "start", "settlePersist", "settleAck"}
     => slot[s].arg = FirstId(s, t)
  /\ slot[s].pc \in {"start", "run", "settleLoad", "settlePersist"}
     => mids[ProcOf[s]][t] = FirstId(s, t)

StateAgrees(s, t) ==
  slot[s].pc \in {"ackDropped", "settleAck"} => slot[s].env.state = store[t].state

HandOK(s, t) == HoldsLast(s, t) /\ IdsAgree(s, t) /\ StateAgrees(s, t)

InOneHand(t) ==
  /\ LastWaits(t) /\ OneHand(t)
  /\ \A s \in Slots : On(s, t) => HandOK(s, t)

\* The task was published again once at most since its first delivery.
OneRetry(t) == \A i, j \in Retries(t) : i = j

HandsInv ==
  overruns = 0 =>
    /\ HeldApart /\ MidStands
    /\ \A t \in Tasks : OneRetry(t) => InOneHand(t)

-----------------------------------------------------------------------------
LEMMA ApartStands ==
  ASSUME HeldApart, stale' \subseteq stale,
         \A r \in Slots : slot'[r].got \in {0, slot[r].got}
  PROVE  HeldApart'
<1>1. \A r \in Slots : slot'[r].got # 0 => slot'[r].got = slot[r].got
  OBVIOUS
<1> QED BY <1>1 DEF HeldApart

LEMMA ApartTakes ==
  ASSUME HeldApart, NEW s \in Slots, NEW id, Alone(s), slot'[s].got = id,
         \A r \in Slots : slot[r].got # 0 => slot[r].got # id,
         stale' \subseteq stale, id \notin stale'
  PROVE  HeldApart'
<1>1. ASSUME NEW r \in Slots, r # s
      PROVE  slot'[r] = slot[r]
  BY <1>1 DEF Alone
<1>2. ASSUME NEW r \in Slots, slot'[r].got # 0
      PROVE  slot'[r].got \notin stale'
  <2>1. CASE r = s
    BY <2>1
  <2>2. CASE r # s
    BY <1>1, <1>2, <2>2 DEF HeldApart
  <2> QED BY <2>1, <2>2
<1>3. ASSUME NEW q \in Slots, NEW r \in Slots, slot'[q].got # 0, slot'[q].got = slot'[r].got
      PROVE  q = r
  <2>1. CASE q # s /\ r # s
    BY <1>1, <1>3, <2>1 DEF HeldApart
  <2>2. CASE q # s /\ r = s
    BY <1>1, <1>3, <2>2
  <2>3. CASE q = s /\ r # s
    BY <1>1, <1>3, <2>3
  <2> QED BY <2>1, <2>2, <2>3
<1> QED BY <1>2, <1>3 DEF HeldApart

\* Where a coroutine's step leaves the messages in hand and the stale ones.
LEMMA WorkHolds ==
  ASSUME TypeOK, NEW s \in Slots, Work(s)
  PROVE  /\ Alone(s) /\ UNCHANGED <<call, counts>>
         /\ \/ slot'[s].got \in {0, slot[s].got} /\ stale' \subseteq stale
            \/ \E id \in stale : Takes(s, id) /\ stale' = stale \ {id}
            \/ Takes(s, delivered + 1) /\ UNCHANGED stale
<1>1. CASE Claim(s)
  BY <1>1, ClaimDoes DEF Keeps, Takes
<1>2. CASE ReadNew(s)
  BY <1>2, ReadDoes DEF Frees, Takes
<1>3. CASE Load(s) \/ Republish(s) \/ SettlePublish(s) \/ Start(s)
  BY <1>3, LoadDoes, PublishDoes, StartDoes DEF Frees, Keeps, Sends, redis
<1>4. CASE HandlerReturns(s) \/ HandlerRaises(s) \/ NoHandler(s) \/ SettleLoad(s)
           \/ SettlePersist(s)
  BY <1>4, HandlerDoes, SettleLoadDoes, SettlePersistDoes DEF Frees, Keeps, Sends, redis
<1>5. CASE AckDropped(s) \/ SettleAck(s)
  BY <1>5, AckDroppedDoes, SettleAckDoes DEF Frees, Keeps, Acks
<1> QED BY <1>1, <1>2, <1>3, <1>4, <1>5 DEF Work

LEMMA ApartStep ==
  ASSUME TypeOK, HeldApart, [Next]_vars, overruns' = 0
  PROVE  HeldApart'
<1>1. ASSUME NEW s \in Slots, Work(s)
      PROVE  HeldApart'
  <2>0. /\ delivered \in Nat /\ stale \subseteq 1 .. delivered
        /\ \A r \in Slots : slot[r].got \in 0 .. delivered
    BY DEF TypeOK
  <2>1. CASE slot'[s].got \in {0, slot[s].got} /\ stale' \subseteq stale
    BY <1>1, <2>1, WorkHolds, ApartStands DEF Alone
  <2>2. ASSUME NEW id \in stale, Takes(s, id), stale' = stale \ {id}
        PROVE  HeldApart'
    <3>1. slot'[s].got = id /\ Alone(s)
      BY <2>2 DEF Takes
    <3>2. \A r \in Slots : slot[r].got # 0 => slot[r].got # id
      BY DEF HeldApart
    <3> QED BY <2>2, <3>1, <3>2, ApartTakes
  <2>3. CASE Takes(s, delivered + 1) /\ UNCHANGED stale
    <3>1. PICK id \in Nat : id = delivered + 1
      BY <2>0
    <3>2. slot'[s].got = id /\ Alone(s) /\ id \notin stale
          /\ \A r \in Slots : slot[r].got # id
      BY <2>0, <2>3, <3>1 DEF Takes
    <3> QED BY <2>3, <3>2, ApartTakes
  <2> QED BY <1>1, <2>1, <2>2, <2>3, WorkHolds
<1>2. ASSUME NEW t \in Tasks, Enqueue(t) \/ Elapse(t) \/ EnqueueCrash(t)
      PROVE  HeldApart'
  BY <1>2, EnqueueDoes, ElapseDoes, EnqueueCrashDoes, ApartStands DEF redis
<1>3. ASSUME NEW id \in pending, GrowStale(id)
      PROVE  HeldApart'
  <2>1. \A s \in Slots : slot[s].got # id
    <3>1. overruns \in Nat
      BY DEF TypeOK
    <3> QED BY <1>3, <3>1 DEF GrowStale, Holds
  <2> QED BY <1>3, <2>1 DEF GrowStale, HeldApart
<1>4. ASSUME NEW p \in Procs, Batch(p) \/ Crash(p)
      PROVE  HeldApart'
  BY <1>4, BatchDoes, CrashDoes, ApartStands DEF redis
<1>5. CASE UNCHANGED vars
  BY <1>5, ApartStands DEF vars
<1> QED BY <1>1, <1>2, <1>3, <1>4, <1>5 DEF Next

-----------------------------------------------------------------------------
(* The id in the hash of a task is written once                            *)

\* A hash without an id has no retries.
LEMMA NoRetries ==
  ASSUME NEW t, store[t].mid = 0
  PROVE  Retries(t) = {} /\ OneRetry(t)
BY DEF Retries, OneRetry

\* A coroutine that writes a hash writes the id that is there.
LEMMA WritesSame ==
  ASSUME TypeOK, MidStands, NEW s \in Slots, slot[s].pc \in {"start", "settlePersist"},
         Writes(s), NEW t \in Tasks, store[t].mid # 0
  PROVE  store'[t].mid = store[t].mid
BY DEF MidStands, Writes

LEMMA MidKept ==
  ASSUME TypeOK, NamesInv, MidStands, [Next]_vars, NEW t \in Tasks, store[t].mid # 0
  PROVE  store'[t].mid = store[t].mid
<1>1. ASSUME NEW s \in Slots, Work(s)
      PROVE  store'[t].mid = store[t].mid
  <2>1. CASE Start(s)
    BY <2>1, StartDoes, WritesSame
  <2>2. CASE SettlePersist(s)
    BY <2>2, SettlePersistDoes, WritesSame
  <2>3. CASE ~Start(s) /\ ~SettlePersist(s)
    <3>1. UNCHANGED store
      BY <1>1, <2>3, ClaimDoes, ReadDoes, LoadDoes, AckDroppedDoes, PublishDoes, HandlerDoes,
         SettleLoadDoes, SettleAckDoes DEF Work, redis
    <3> QED BY <3>1
  <2> QED BY <2>1, <2>2, <2>3
<1>2. ASSUME NEW u \in Tasks, Enqueue(u)
      PROVE  store'[t].mid = store[t].mid
  <2>1. call[u].pc = "persist" => u # t
    BY UnpublishedTask
  <2> QED BY <1>2, <2>1, EnqueueDoes
<1>3. ASSUME NEW u \in Tasks, Elapse(u) \/ EnqueueCrash(u)
      PROVE  store'[t].mid = store[t].mid
  BY <1>3, ElapseDoes, EnqueueCrashDoes DEF redis
<1>4. ASSUME NEW id \in pending, GrowStale(id)
      PROVE  store'[t].mid = store[t].mid
  BY <1>4 DEF GrowStale
<1>5. ASSUME NEW p \in Procs, Batch(p) \/ Crash(p)
      PROVE  store'[t].mid = store[t].mid
  BY <1>5, BatchDoes, CrashDoes DEF redis
<1>6. CASE UNCHANGED vars
  BY <1>6 DEF vars
<1> QED BY <1>1, <1>2, <1>3, <1>4, <1>5, <1>6 DEF Next

\* The stream only grows.
LEMMA StreamGrows ==
  ASSUME TypeOK, [Next]_vars
  PROVE  Grows(stream, stream')
<1>1. stream \in Seq(Tasks)
  BY DEF TypeOK
<1>2. UNCHANGED stream \/ \E t \in Tasks : stream' = Append(stream, t)
  <2>1. ASSUME NEW s \in Slots, Work(s)
        PROVE  UNCHANGED stream \/ \E t \in Tasks : stream' = Append(stream, t)
    BY <2>1, ClaimDoes, ReadDoes, LoadDoes, AckDroppedDoes, PublishDoes, StartDoes, HandlerDoes,
       SettleLoadDoes, SettlePersistDoes, SettleAckDoes DEF Work, redis
  <2>2. ASSUME NEW t \in Tasks, Enqueue(t) \/ Elapse(t) \/ EnqueueCrash(t)
        PROVE  UNCHANGED stream \/ \E u \in Tasks : stream' = Append(stream, u)
    BY <2>2, EnqueueDoes, ElapseDoes, EnqueueCrashDoes DEF redis
  <2>3. ASSUME NEW id \in pending, GrowStale(id)
        PROVE  UNCHANGED stream
    BY <2>3 DEF GrowStale
  <2>4. ASSUME NEW p \in Procs, Batch(p) \/ Crash(p)
        PROVE  UNCHANGED stream
    BY <2>4, BatchDoes, CrashDoes DEF redis
  <2>5. CASE UNCHANGED vars
    BY <2>5 DEF vars
  <2> QED BY <2>1, <2>2, <2>3, <2>4, <2>5 DEF Next
<1> QED BY <1>1, <1>2, AppendGrows, SameGrows

\* A task that is doubled stays so.
LEMMA DoubledStays ==
  ASSUME TypeOK, TypeOK', NamesInv, MidStands, [Next]_vars, NEW t \in Tasks, OneRetry(t)'
  PROVE  OneRetry(t)
<1>1. CASE store[t].mid = 0
  BY <1>1, NoRetries
<1>2. CASE store[t].mid # 0
  <2>1. store'[t].mid = store[t].mid /\ Grows(stream, stream')
    BY <1>2, MidKept, StreamGrows
  <2>2. Len(stream) \in Nat /\ Len(stream') \in Nat
    BY DEF TypeOK
  <2>3. \A id \in Retries(t) : id \in Retries(t)'
    BY <2>1, <2>2 DEF Retries, Grows
  <2> QED BY <2>3 DEF OneRetry
<1> QED BY <1>1, <1>2

\* Whoever loads a hash gets its id; whoever writes one where there was none is alone.
LEMMA MidStandsStep ==
  ASSUME TypeOK, TypeOK', NamesInv, MidStands, [Next]_vars,
         \A t \in Tasks : OneRetry(t) => OneHand(t)
  PROVE  MidStands'
<1>0. Grows(stream, stream') /\ \A t \in Tasks : store[t].mid # 0 => store'[t].mid = store[t].mid
  BY MidKept, StreamGrows
\* A coroutine that has not moved.
<1>1. ASSUME NEW r \in Slots, slot[r].pc \in {"start", "settlePersist"},
             slot'[r].pc = slot[r].pc, slot'[r].got = slot[r].got, slot'[r].arg = slot[r].arg,
             slot[r].arg # 0, store'[TaskOf(r)].mid = store[TaskOf(r)].mid,
             store'[TaskOf(r)'].mid # 0
      PROVE  slot[r].arg = store'[TaskOf(r)'].mid
  <2>1. slot[r].got \in 1 .. Len(stream)
    BY <1>1, AtWork, TaskOfType
  <2>2. TaskOf(r)' = TaskOf(r)
    BY <1>0, <1>1, <2>1 DEF TaskOf, Grows
  <2> QED BY <1>1, <2>2 DEF MidStands
<1>2. ASSUME NEW s \in Slots, Work(s)
      PROVE  MidStands'
  <2>1. Alone(s)
    BY <1>2, WorkHolds
  <2>2. CASE Start(s) \/ SettlePersist(s)
    <3>1. /\ UNCHANGED stream /\ Writes(s) /\ TaskOf(s) \in Tasks /\ slot[s].got # 0
          /\ slot[s].pc \in {"start", "settlePersist"}
      BY <2>2, StartDoes, SettlePersistDoes
    <3>2. slot'[s].pc \notin {"start", "settlePersist"}
      BY <2>2, StartDoes, SettlePersistDoes DEF Keeps, Sends, Frees
    <3> SUFFICES ASSUME NEW r \in Slots, r # s, slot'[r].pc \in {"start", "settlePersist"},
                        slot'[r].arg # 0, store'[TaskOf(r)'].mid # 0
                 PROVE  slot'[r].arg = store'[TaskOf(r)'].mid
      BY <3>2 DEF MidStands
    <3>3. slot'[r] = slot[r] /\ slot[r].got # 0 /\ TaskOf(r) \in Tasks
      BY <2>1, AtWork DEF Alone
    <3>4. store'[TaskOf(r)].mid = store[TaskOf(r)].mid
      <4>1. CASE TaskOf(r) # TaskOf(s)
        BY <3>1, <3>3, <4>1 DEF Writes
      <4>2. CASE TaskOf(r) = TaskOf(s) /\ store[TaskOf(s)].mid # 0
        BY <1>0, <3>1, <4>2
      <4>3. CASE TaskOf(r) = TaskOf(s) /\ store[TaskOf(s)].mid = 0
        <5>1. OneHand(TaskOf(s))
          BY <3>1, <4>3, NoRetries
        <5> QED BY <3>1, <3>3, <4>3, <5>1 DEF OneHand, On
      <4> QED BY <4>1, <4>2, <4>3
    <3> QED BY <1>1, <3>3, <3>4
  <2>3. CASE Load(s) \/ SettleLoad(s)
    <3>1. UNCHANGED <<stream, store>> /\ slot[s].got # 0
      BY <2>3, LoadDoes, SettleLoadDoes DEF redis
    <3>2. slot'[s].arg = MidAfterLoad(s) /\ slot'[s].got = slot[s].got
      BY <2>3, LoadDoes, SettleLoadDoes DEF Sends
    <3>3. TaskOf(s)' = TaskOf(s)
      BY <3>1, <3>2 DEF TaskOf
    <3>4. store[TaskOf(s)].mid # 0 => slot'[s].arg = store[TaskOf(s)].mid
      BY <3>2 DEF MidAfterLoad
    <3>5. \A r \in Slots \ {s} : slot'[r] = slot[r] /\ TaskOf(r)' = TaskOf(r)
      BY <2>1, <3>1 DEF Alone, TaskOf
    <3> QED BY <3>1, <3>3, <3>4, <3>5 DEF MidStands
  <2>4. CASE ~Start(s) /\ ~SettlePersist(s) /\ ~Load(s) /\ ~SettleLoad(s)
    <3>1. UNCHANGED store /\ slot'[s].pc \notin {"start", "settlePersist"}
      BY <1>2, <2>4, ClaimDoes, ReadDoes, AckDroppedDoes, PublishDoes, HandlerDoes, SettleAckDoes
      DEF Work, redis, Keeps, Frees, Sends, Takes
    <3>2. \A r \in Slots \ {s} : slot'[r] = slot[r]
      BY <2>1 DEF Alone
    <3> QED BY <1>1, <3>1, <3>2 DEF MidStands
  <2> QED BY <2>2, <2>3, <2>4
<1>3. ASSUME NEW t \in Tasks, Enqueue(t)
      PROVE  MidStands'
  <2>1. UNCHANGED slot
    BY <1>3, EnqueueDoes
  <2>2. \A r \in Slots : slot[r].pc \in {"start", "settlePersist"} =>
          slot[r].got # 0 /\ TaskOf(r) \in Tasks
    BY AtWork
  <2>3. \A r \in Slots : slot[r].pc \in {"start", "settlePersist"} =>
          store'[TaskOf(r)].mid = store[TaskOf(r)].mid
    <3>1. UNCHANGED store \/ (call[t].pc = "persist" /\ \A u \in Tasks \ {t} : store'[u] = store[u])
      BY <1>3, EnqueueDoes
    <3>2. call[t].pc = "persist" => \A r \in Slots : slot[r].got # 0 => TaskOf(r) # t
      BY UnpublishedTask
    <3> QED BY <2>2, <3>1, <3>2
  <2> QED BY <1>1, <2>1, <2>3 DEF MidStands
<1>4. ASSUME NEW t \in Tasks, Elapse(t) \/ EnqueueCrash(t)
      PROVE  MidStands'
  <2>1. \A u \in Tasks : store'[u].mid = store[u].mid
    BY <1>4, ElapseDoes, EnqueueCrashDoes DEF redis
  <2>2. UNCHANGED stream /\ \A r \in Slots :
          slot'[r].pc = slot[r].pc /\ slot'[r].got = slot[r].got /\ slot'[r].arg = slot[r].arg
    BY <1>4, ElapseDoes, EnqueueCrashDoes DEF redis
  <2>3. \A r \in Slots : slot[r].pc \in {"start", "settlePersist"} => TaskOf(r) \in Tasks
    BY AtWork
  <2> QED BY <1>1, <2>1, <2>2, <2>3 DEF MidStands
<1>5. ASSUME NEW id \in pending, GrowStale(id)
      PROVE  MidStands'
  BY <1>5 DEF GrowStale, MidStands, TaskOf
<1>6. ASSUME NEW p \in Procs, Batch(p) \/ Crash(p)
      PROVE  MidStands'
  <2>1. UNCHANGED <<stream, store>>
    BY <1>6, BatchDoes, CrashDoes DEF redis
  <2>2. \A r \in Slots : slot'[r] = slot[r] \/ slot'[r].pc \in {"rest", "claim"}
    BY <1>6, BatchDoes, CrashDoes
  <2> QED BY <2>1, <2>2 DEF MidStands, TaskOf
<1>7. CASE UNCHANGED vars
  BY <1>7 DEF vars, MidStands, TaskOf
<1> QED BY <1>2, <1>3, <1>4, <1>5, <1>6, <1>7 DEF Next

-----------------------------------------------------------------------------
(* One hand, step by step                                                  *)

\* Nothing happens to the messages of t.
SameMessages(t) ==
  /\ Grows(stream, stream')
  /\ \A id \in 1 .. Len(stream') : stream'[id] = t => id \in 1 .. Len(stream)
  /\ \A id \in 1 .. Len(stream) :
       stream[id] = t => /\ id \in pending' <=> id \in pending
                         /\ id > delivered' <=> id > delivered

LEMMA SameWaits ==
  ASSUME TypeOK, TypeOK', NEW t, SameMessages(t)
  PROVE  \A id : Waits(id, t)' <=> Waits(id, t)
<1>1. Len(stream) \in Nat /\ Len(stream') \in Nat /\ Len(stream) <= Len(stream')
  BY DEF TypeOK, SameMessages, Grows
<1>2. ASSUME NEW id, Waits(id, t)'
      PROVE  Waits(id, t)
  BY <1>2 DEF Waits, SameMessages, Grows
<1>3. ASSUME NEW id, Waits(id, t)
      PROVE  Waits(id, t)'
  BY <1>1, <1>3 DEF Waits, SameMessages, Grows
<1> QED BY <1>2, <1>3

\* A step that does nothing to t, its messages and its coroutines.
LEMMA HandStands ==
  ASSUME TypeOK, TypeOK', NEW t \in Tasks, InOneHand(t), SameMessages(t),
         store'[t].mid = store[t].mid, store'[t].state = store[t].state,
         \A r \in Slots : On(r, t)' =>
           /\ On(r, t)
           /\ slot'[r].pc = slot[r].pc /\ slot'[r].got = slot[r].got
           /\ slot'[r].arg = slot[r].arg /\ slot'[r].env.state = slot[r].env.state
           /\ mids'[ProcOf[r]][t] = mids[ProcOf[r]][t]
  PROVE  InOneHand(t)'
<1>0. Len(stream) \in Nat /\ Len(stream') \in Nat
  BY DEF TypeOK
<1>1. \A id : Waits(id, t)' <=> Waits(id, t)
  BY SameWaits
<1>2. \A id \in 1 .. Len(stream') : stream'[id] = t => id \in 1 .. Len(stream) /\ stream[id] = t
  BY DEF SameMessages, Grows
<1>3. LastWaits(t)'
  <2>1. \A id \in 1 .. Len(stream') : Waits(id, t)' => id \in 1 .. Len(stream)
    BY <1>2 DEF Waits
  <2> QED BY <1>1, <1>2, <2>1 DEF InOneHand, LastWaits
<1>4. OneHand(t)'
  BY DEF InOneHand, OneHand
<1>5. ASSUME NEW r \in Slots, On(r, t)'
      PROVE  HandOK(r, t)'
  <2>1. On(r, t) /\ HandOK(r, t)
    BY <1>5 DEF InOneHand
  <2>2. /\ slot'[r].pc = slot[r].pc /\ slot'[r].got = slot[r].got
        /\ slot'[r].arg = slot[r].arg /\ slot'[r].env.state = slot[r].env.state
        /\ mids'[ProcOf[r]][t] = mids[ProcOf[r]][t]
    BY <1>5
  <2>3. slot[r].got \in 1 .. Len(stream) /\ stream[slot[r].got] = t
    BY <2>1, TaskOfType DEF On, TaskOf
  <2>4. slot[r].got \in pending' <=> slot[r].got \in pending
    BY <2>3 DEF SameMessages
  <2>5. Retries(t)' = {} => Retries(t) = {}
    BY <1>0 DEF Retries, SameMessages, Grows
  <2>6. HoldsLast(r, t)'
    <3>1. \A id \in 1 .. Len(stream') : Waits(id, t)' => id = slot'[r].got
      BY <1>1, <2>1, <2>2 DEF HandOK, HoldsLast, Waits
    <3> QED BY <2>1, <2>2, <2>4, <2>5, <3>1 DEF HandOK, HoldsLast, InGap
  <2>7. IdsAgree(r, t)'
    BY <2>1, <2>2 DEF HandOK, IdsAgree, FirstId
  <2>8. StateAgrees(r, t)'
    BY <2>1, <2>2 DEF HandOK, StateAgrees
  <2> QED BY <2>6, <2>7, <2>8 DEF HandOK
<1> QED BY <1>3, <1>4, <1>5 DEF InOneHand

\* A step of a coroutine that works on another task.
LEMMA HandAside ==
  ASSUME TypeOK, TypeOK', NEW t \in Tasks, InOneHand(t), SameMessages(t),
         NEW s \in Slots, Alone(s), slot[s].got # 0 => TaskOf(s) # t,
         slot'[s].got \in {0, slot[s].got}, store'[t] = store[t],
         \A p \in Procs : mids'[p][t] = mids[p][t]
  PROVE  InOneHand(t)'
<1>1. ASSUME NEW r \in Slots, On(r, t)'
      PROVE  /\ On(r, t)
             /\ slot'[r].pc = slot[r].pc /\ slot'[r].got = slot[r].got
             /\ slot'[r].arg = slot[r].arg /\ slot'[r].env.state = slot[r].env.state
             /\ mids'[ProcOf[r]][t] = mids[ProcOf[r]][t]
  <2>1. slot'[r].got # 0 /\ slot'[r].got = slot[r].got
    BY <1>1 DEF On, Alone
  <2>2. TaskOf(r)' = TaskOf(r)
    BY <2>1, TaskOfType DEF TaskOf, SameMessages, Grows
  <2>3. On(r, t)
    BY <1>1, <2>1, <2>2 DEF On
  <2>4. r # s
    BY <2>3 DEF On
  <2>5. slot'[r] = slot[r] /\ ProcOf[r] \in Procs
    BY <2>4, ProcsAssumption DEF Alone
  <2> QED BY <2>3, <2>5
<1> QED BY <1>1, HandStands

\* A step of the one coroutine that works on t.
LEMMA HandMoves ==
  ASSUME TypeOK, NEW t \in Tasks, NEW s \in Slots, Alone(s), Grows(stream, stream'),
         \A r \in Slots : On(r, t) => r = s,
         LastWaits(t)', On(s, t)' => HandOK(s, t)'
  PROVE  InOneHand(t)'
<1>1. ASSUME NEW r \in Slots, On(r, t)'
      PROVE  r = s
  <2> SUFFICES ASSUME r # s PROVE FALSE
    OBVIOUS
  <2>1. slot'[r] = slot[r]
    BY DEF Alone
  <2>2. TaskOf(r)' = TaskOf(r)
    BY <1>1, <2>1, TaskOfType DEF On, TaskOf, Grows
  <2> QED BY <1>1, <2>1, <2>2 DEF On
<1> QED BY <1>1 DEF InOneHand, OneHand

\* The stream is as it was, and the messages of t that wait now waited before.
LEMMA LastStands ==
  ASSUME NEW t, LastWaits(t), UNCHANGED stream, \A id : Waits(id, t)' => Waits(id, t)
  PROVE  LastWaits(t)'
BY DEF LastWaits

\* The message in hand is the last one of its task, and so is the one that _load() finds
\* unless the task was published again.
LEMMA HandIsLast ==
  ASSUME TypeOK, NamesInv, NEW t \in Tasks, InOneHand(t), NEW s \in Slots, On(s, t), ~InGap(s)
  PROVE  /\ slot[s].got \in pending /\ Waits(slot[s].got, t)
         /\ Retries(t) = {} => FirstId(s, t) = slot[s].got
<1>1. /\ slot[s].got \in 1 .. Len(stream) /\ stream[slot[s].got] = t
      /\ slot[s].got \in pending
  BY TaskOfType DEF InOneHand, HandOK, HoldsLast, On, TaskOf
<1>2. Waits(slot[s].got, t)
  BY <1>1 DEF Waits
<1>3. ASSUME Retries(t) = {}, store[t].mid # 0
      PROVE  store[t].mid = slot[s].got
  <2>1. store[t].mid \in 1 .. Len(stream) /\ stream[store[t].mid] = t
    BY <1>3 DEF NamesInv, StoreNames, Names
  <2>2. store[t].mid <= slot[s].got
    BY <1>1, <1>2, <2>1 DEF InOneHand, LastWaits
  <2>3. ~(slot[s].got > store[t].mid)
    BY <1>1, <1>3 DEF Retries
  <2>4. store[t].mid \in Nat /\ slot[s].got \in Nat /\ Len(stream) \in Nat
    BY <1>1, <2>1 DEF TypeOK
  <2> QED BY <2>2, <2>3, <2>4
<1> QED BY <1>1, <1>2, <1>3 DEF FirstId

\* A message is acknowledged, by a coroutine that has no other one in hand.
LEMMA AckedAside ==
  ASSUME TypeOK, NamesInv, NEW t, NEW s \in Slots, slot[s].got # 0, TaskOf(s) # t,
         Acks(slot[s].arg), UNCHANGED <<stream, delivered>>
  PROVE  SameMessages(t)
<1>1. stream \in Seq(Tasks)
  BY DEF TypeOK
<1>2. \A id \in 1 .. Len(stream) : stream[id] = t => id # slot[s].arg
  BY OwnMessage
<1> QED BY <1>1, <1>2, SameGrows DEF SameMessages, Acks

LEMMA SameAside ==
  ASSUME TypeOK, NEW t, UNCHANGED <<stream, delivered, pending>>
  PROVE  SameMessages(t)
<1>1. stream \in Seq(Tasks)
  BY DEF TypeOK
<1> QED BY <1>1, SameGrows DEF SameMessages

\* A coroutine takes a message.
LEMMA HandTakes ==
  ASSUME TypeOK, TypeOK', NamesInv, HeldApart, NEW t \in Tasks, InOneHand(t),
         NEW s \in Slots, slot[s].got = 0, NEW id \in 1 .. Len(stream), Takes(s, id),
         UNCHANGED <<stream, store>>, id \in pending',
         \A i \in 1 .. Len(stream) : i > delivered' \/ i \in pending' =>
           i > delivered \/ i \in pending,
         \A i \in 1 .. Len(stream) : i # id => /\ i \in pending' <=> i \in pending
                                               /\ i > delivered' <=> i > delivered,
         \A r \in Slots : slot[r].got # 0 => slot[r].got # id,
         id > delivered \/ id \in pending
  PROVE  InOneHand(t)'
<1>0. Alone(s) /\ Notes(s, stream[id], id) /\ stream \in Seq(Tasks) /\ Grows(stream, stream)
  BY SameGrows DEF Takes, TypeOK
<1>1. CASE stream[id] # t
  <2>1. SameMessages(t)
    BY <1>0, <1>1 DEF SameMessages
  <2>2. \A p \in Procs : mids'[p][t] = mids[p][t]
    BY <1>0, <1>1 DEF Notes
  <2>3. ASSUME NEW r \in Slots, On(r, t)'
        PROVE  slot'[r] = slot[r] /\ On(r, t) /\ ProcOf[r] \in Procs
    <3>1. r # s
      BY <1>1, <2>3 DEF On, TaskOf, Takes
    <3> QED BY <1>0, <2>3, <3>1, ProcsAssumption DEF Alone, On, TaskOf
  <2> QED BY <2>1, <2>2, <2>3, HandStands
<1>2. CASE stream[id] = t
  <2>1. Waits(id, t)
    BY <1>2 DEF Waits
  \* Nobody works on t: he would hold this message.
  <2>2. \A r \in Slots : ~On(r, t)
    BY <2>1 DEF InOneHand, HandOK, HoldsLast, On
  <2>3. \A i : Waits(i, t)' => Waits(i, t)
    BY DEF Waits
  <2>4. LastWaits(t)'
    BY <2>3, LastStands DEF InOneHand
  <2>5. HandOK(s, t)'
    <3>1. slot'[s].pc = "load" /\ slot'[s].got = id
      BY DEF Takes
    <3>2. \A i \in 1 .. Len(stream) : Waits(i, t) => i = id
      <4>1. \A i \in 1 .. Len(stream) : Waits(i, t) => i <= id /\ id <= i
        BY <1>2, <2>1 DEF InOneHand, LastWaits, Waits
      <4>2. Len(stream) \in Nat
        BY <1>0
      <4> QED BY <4>1, <4>2
    <3>3. HoldsLast(s, t)'
      BY <2>3, <3>1, <3>2 DEF HoldsLast, InGap
    <3>4. mids'[ProcOf[s]][t] = id
      BY <1>0, <1>2, ProcsAssumption DEF Notes
    <3> QED BY <3>1, <3>3, <3>4 DEF HandOK, IdsAgree, StateAgrees
  <2> QED BY <1>0, <2>2, <2>4, <2>5, HandMoves
<1> QED BY <1>1, <1>2

LEMMA HandClaims ==
  ASSUME TypeOK, TypeOK', NamesInv, HeldApart, NEW t \in Tasks, InOneHand(t),
         NEW s \in Slots, Claim(s) \/ ReadNew(s)
  PROVE  InOneHand(t)'
<1>0. /\ slot[s].got = 0 /\ UNCHANGED <<stream, store>>
      /\ delivered \in Nat /\ pending \subseteq 1 .. delivered /\ stale \subseteq pending
      /\ Len(stream) \in Nat
      /\ \A r \in Slots : slot[r].got \in 0 .. delivered
  <2>1. slot[s].pc \in {"claim", "read"} /\ UNCHANGED <<stream, store>>
    BY ClaimDoes, ReadDoes
  <2>2. slot[s].got = 0
    BY <2>1 DEF NamesInv, RestsFree
  <2> QED BY <2>1, <2>2 DEF TypeOK
<1>1. CASE (Keeps(s, "read") \/ Frees(s)) /\ UNCHANGED <<delivered, pending, mids>>
  <2>1. Alone(s) /\ slot'[s].got \in {0, slot[s].got}
    BY <1>1 DEF Keeps, Frees
  <2>2. SameMessages(t)
    BY <1>0, <1>1, SameAside
  <2> QED BY <1>0, <1>1, <2>1, <2>2, HandAside
<1>2. ASSUME NEW id \in stale, Takes(s, id), UNCHANGED <<delivered, pending>>
      PROVE  InOneHand(t)'
  <2>1. id \in 1 .. Len(stream) /\ id \in pending
    BY <1>0 DEF TypeOK
  <2>2. \A r \in Slots : slot[r].got # 0 => slot[r].got # id
    BY DEF HeldApart
  <2> QED BY <1>0, <1>2, <2>1, <2>2, HandTakes
<1>3. CASE /\ delivered + 1 \in 1 .. Len(stream) /\ Takes(s, delivered + 1)
           /\ delivered' = delivered + 1 /\ pending' = pending \cup {delivered + 1}
  <2>1. PICK id \in 1 .. Len(stream) : id = delivered + 1
    BY <1>3
  <2>2. Takes(s, id) /\ delivered' = id /\ pending' = pending \cup {id}
    BY <1>3, <2>1
  <2>3. /\ id \in pending' /\ id > delivered
        /\ \A i \in 1 .. Len(stream) : i > delivered' \/ i \in pending' =>
             i > delivered \/ i \in pending
        /\ \A i \in 1 .. Len(stream) : i # id => /\ i \in pending' <=> i \in pending
                                                 /\ i > delivered' <=> i > delivered
        /\ \A r \in Slots : slot[r].got # id
    BY <1>0, <2>1, <2>2
  <2> QED BY <1>0, <2>2, <2>3, HandTakes
<1> QED BY <1>1, <1>2, <1>3, ClaimDoes, ReadDoes

LEMMA HandLoads ==
  ASSUME TypeOK, TypeOK', NamesInv, NEW t \in Tasks, InOneHand(t),
         NEW s \in Slots, Load(s) \/ SettleLoad(s)
  PROVE  InOneHand(t)'
<1>0. /\ UNCHANGED <<stream, delivered, pending, store>> /\ slot[s].got # 0
      /\ TaskOf(s) \in Tasks /\ Notes(s, TaskOf(s), MidAfterLoad(s))
      /\ stream \in Seq(Tasks) /\ Grows(stream, stream)
  BY LoadDoes, SettleLoadDoes, SameGrows DEF redis, TypeOK
<1>1. /\ Alone(s) /\ slot'[s].got = slot[s].got /\ slot'[s].arg = MidAfterLoad(s)
      /\ slot'[s].pc \in {"ackDropped", "start", "settlePersist"}
      /\ slot'[s].pc = "ackDropped" => slot'[s].env.state = store[TaskOf(s)].state
  BY LoadDoes, SettleLoadDoes DEF Sends
<1>2. SameMessages(t)
  BY <1>0, SameAside
<1>3. CASE TaskOf(s) # t
  <2>1. \A p \in Procs : mids'[p][t] = mids[p][t]
    BY <1>0, <1>3 DEF Notes
  <2> QED BY <1>0, <1>1, <1>2, <1>3, <2>1, HandAside
<1>4. CASE TaskOf(s) = t
  <2>1. On(s, t) /\ HandOK(s, t) /\ \A r \in Slots : On(r, t) => r = s
    BY <1>0, <1>4 DEF On, InOneHand, OneHand
  <2>2. \A id : Waits(id, t)' => Waits(id, t)
    BY <1>2, SameWaits
  <2>3. LastWaits(t)'
    BY <1>0, <2>2, LastStands DEF InOneHand
  <2>4. slot[s].pc \in {"load", "settleLoad"}
    BY LoadDoes, SettleLoadDoes
  \* Either the hash has the id, or the dictionary has that of the message in hand.
  <2>5. MidAfterLoad(s) = FirstId(s, t)
    BY <1>4, <2>1, <2>4 DEF MidAfterLoad, MidOf, FirstId, HandOK, IdsAgree
  <2>6. mids'[ProcOf[s]][t] = FirstId(s, t) /\ FirstId(s, t)' = FirstId(s, t)
    BY <1>0, <1>1, <1>4, <2>5, ProcsAssumption DEF Notes, FirstId
  <2>7. HoldsLast(s, t)'
    BY <1>0, <1>1, <2>1, <2>2, <2>4 DEF HandOK, HoldsLast, InGap
  <2>8. IdsAgree(s, t)' /\ StateAgrees(s, t)'
    BY <1>0, <1>1, <1>4, <2>5, <2>6 DEF IdsAgree, StateAgrees
  <2> QED BY <1>0, <1>1, <2>1, <2>3, <2>7, <2>8, HandMoves DEF HandOK
<1> QED BY <1>3, <1>4

LEMMA HandHandles ==
  ASSUME TypeOK, TypeOK', NamesInv, NEW t \in Tasks, InOneHand(t),
         NEW s \in Slots, HandlerReturns(s) \/ HandlerRaises(s) \/ NoHandler(s)
  PROVE  InOneHand(t)'
<1>0. /\ UNCHANGED <<stream, delivered, pending, store, mids>> /\ slot[s].got # 0
      /\ stream \in Seq(Tasks) /\ Grows(stream, stream) /\ slot[s].pc = "run"
  BY HandlerDoes, SameGrows DEF redis, TypeOK
<1>1. Alone(s) /\ slot'[s].got = slot[s].got /\ slot'[s].pc = "settleLoad"
  BY HandlerDoes DEF Sends
<1>2. SameMessages(t)
  BY <1>0, SameAside
<1>3. CASE TaskOf(s) # t
  BY <1>0, <1>1, <1>2, <1>3, HandAside
<1>4. CASE TaskOf(s) = t
  <2>1. On(s, t) /\ HandOK(s, t) /\ \A r \in Slots : On(r, t) => r = s
    BY <1>0, <1>4 DEF On, InOneHand, OneHand
  <2>2. \A id : Waits(id, t)' => Waits(id, t)
    BY <1>2, SameWaits
  <2>3. LastWaits(t)'
    BY <1>0, <2>2, LastStands DEF InOneHand
  <2>4. HoldsLast(s, t)'
    BY <1>0, <1>1, <2>1, <2>2 DEF HandOK, HoldsLast, InGap
  <2>5. IdsAgree(s, t)' /\ StateAgrees(s, t)'
    BY <1>0, <1>1, <2>1 DEF HandOK, IdsAgree, StateAgrees, FirstId
  <2> QED BY <1>0, <1>1, <2>1, <2>3, <2>4, <2>5, HandMoves DEF HandOK
<1> QED BY <1>3, <1>4

\* HSET: the hash has the id that _load() would have found.
LEMMA HandWrites ==
  ASSUME TypeOK, TypeOK', NamesInv, NEW t \in Tasks, InOneHand(t),
         NEW s \in Slots, Start(s) \/ SettlePersist(s)
  PROVE  InOneHand(t)'
<1>0. /\ UNCHANGED <<stream, delivered, pending, mids>> /\ slot[s].got # 0 /\ Writes(s)
      /\ stream \in Seq(Tasks) /\ Grows(stream, stream)
      /\ slot[s].pc \in {"start", "settlePersist"}
  BY StartDoes, SettlePersistDoes, SameGrows DEF TypeOK
<1>1. Alone(s) /\ slot'[s].got \in {0, slot[s].got}
  BY StartDoes, SettlePersistDoes DEF Keeps, Sends, Frees
<1>2. SameMessages(t)
  BY <1>0, SameAside
<1>3. CASE TaskOf(s) # t
  <2>1. store'[t] = store[t]
    BY <1>0, <1>3 DEF Writes
  <2> QED BY <1>0, <1>1, <1>2, <1>3, <2>1, HandAside
<1>4. CASE TaskOf(s) = t
  <2>1. On(s, t) /\ HandOK(s, t) /\ \A r \in Slots : On(r, t) => r = s
    BY <1>0, <1>4 DEF On, InOneHand, OneHand
  <2>2. \A id : Waits(id, t)' => Waits(id, t)
    BY <1>2, SameWaits
  <2>3. LastWaits(t)'
    BY <1>0, <2>2, LastStands DEF InOneHand
  <2>4. /\ slot[s].arg = FirstId(s, t) /\ MidOf(s) = FirstId(s, t) /\ FirstId(s, t) # 0
        /\ slot[s].got \in pending
    BY <1>0, <1>4, <2>1 DEF HandOK, HoldsLast, IdsAgree, MidOf, FirstId, InGap
  <2>5. /\ slot'[s].got = slot[s].got
        /\ \/ slot'[s].pc = "run"
           \/ /\ slot'[s].pc = "settleAck" /\ slot'[s].arg = MidOf(s)
              /\ slot'[s].env.state = slot[s].env.state
    BY <2>4, StartDoes, SettlePersistDoes DEF Keeps, Sends
  <2>6. store'[t].mid = FirstId(s, t) /\ store'[t].state = slot[s].env.state
    BY <1>0, <1>4, <2>4 DEF Writes
  <2>7. FirstId(s, t)' = FirstId(s, t)
    BY <2>4, <2>6 DEF FirstId
  <2>8. HoldsLast(s, t)'
    BY <1>0, <2>1, <2>2, <2>4, <2>5 DEF HandOK, HoldsLast, InGap
  <2>9. IdsAgree(s, t)' /\ StateAgrees(s, t)'
    BY <1>0, <1>4, <2>4, <2>5, <2>6, <2>7 DEF IdsAgree, StateAgrees, MidOf
  <2> QED BY <1>0, <1>1, <2>1, <2>3, <2>8, <2>9, HandMoves DEF HandOK
<1> QED BY <1>3, <1>4

\* XACK: in the gap nothing of the task waits, unless it is a retry.
LEMMA HandAcks ==
  ASSUME TypeOK, TypeOK', NamesInv, NEW t \in Tasks, InOneHand(t),
         NEW s \in Slots, AckDropped(s) \/ SettleAck(s)
  PROVE  InOneHand(t)'
<1>0. /\ UNCHANGED <<stream, delivered, store>> /\ slot[s].got # 0 /\ TaskOf(s) \in Tasks
      /\ Acks(slot[s].arg)
      /\ stream \in Seq(Tasks) /\ Grows(stream, stream)
      /\ slot[s].pc \in {"ackDropped", "settleAck"}
      /\ Notes(s, TaskOf(s), 0) \/ UNCHANGED mids
  BY AckDroppedDoes, SettleAckDoes, SameGrows DEF TypeOK
<1>1. /\ Alone(s) /\ slot'[s].got \in {0, slot[s].got}
      /\ slot'[s].got # 0 => slot'[s].pc \in {"republish", "settlePublish"}
  BY AckDroppedDoes, SettleAckDoes DEF Keeps, Frees
<1>2. CASE TaskOf(s) # t
  <2>1. SameMessages(t)
    BY <1>0, <1>2, AckedAside
  <2>2. \A p \in Procs : mids'[p][t] = mids[p][t]
    BY <1>0, <1>2 DEF Notes
  <2> QED BY <1>0, <1>1, <1>2, <2>1, <2>2, HandAside
<1>3. CASE TaskOf(s) = t
  <2>1. On(s, t) /\ HandOK(s, t) /\ \A r \in Slots : On(r, t) => r = s
    BY <1>0, <1>3 DEF On, InOneHand, OneHand
  <2>2. \A id : Waits(id, t)' => Waits(id, t)
    BY <1>0 DEF Acks, Waits
  <2>3. LastWaits(t)'
    BY <1>0, <2>2, LastStands DEF InOneHand
  <2>4. Retries(t) = {} => slot[s].got \notin pending'
    <3>1. slot[s].arg = FirstId(s, t)
      BY <1>0, <2>1 DEF HandOK, IdsAgree
    <3>2. ~InGap(s)
      BY <1>0 DEF InGap
    <3> QED BY <1>0, <2>1, <3>1, <3>2, HandIsLast DEF Acks
  <2>5. ASSUME On(s, t)'
        PROVE  HandOK(s, t)'
    <3>1. /\ slot'[s].got = slot[s].got
          /\ slot'[s].pc \in {"republish", "settlePublish"}
      BY <1>1, <2>5 DEF On
    <3>2. Retries(t)' = Retries(t)
      BY <1>0 DEF Retries
    <3>3. HoldsLast(s, t)'
      BY <1>0, <2>1, <2>2, <2>4, <3>1, <3>2 DEF HandOK, HoldsLast, InGap
    <3> QED BY <3>1, <3>3 DEF HandOK, IdsAgree, StateAgrees
  <2> QED BY <1>0, <1>1, <2>1, <2>3, <2>5, HandMoves
<1> QED BY <1>2, <1>3

\* XADD from the gap.
LEMMA HandPublishes ==
  ASSUME TypeOK, TypeOK', NamesInv, NEW t \in Tasks, InOneHand(t), OneRetry(t)',
         NEW s \in Slots, Republish(s) \/ SettlePublish(s)
  PROVE  InOneHand(t)'
<1>0. /\ UNCHANGED <<delivered, pending, store, mids>> /\ slot[s].got # 0 /\ TaskOf(s) \in Tasks
      /\ slot[s].pc \in {"republish", "settlePublish"}
      /\ stream' = Append(stream, TaskOf(s)) /\ Alone(s) /\ slot'[s].got = 0
  BY PublishDoes DEF Frees
<1>1. /\ stream \in Seq(Tasks) /\ Grows(stream, stream')
      /\ Len(stream) \in Nat /\ Len(stream') = Len(stream) + 1
      /\ stream'[Len(stream) + 1] = TaskOf(s)
      /\ pending \subseteq 1 .. delivered /\ delivered \in 0 .. Len(stream)
  BY <1>0, AppendGrows, AppendType DEF TypeOK
<1>2. CASE TaskOf(s) # t
  <2>1. SameMessages(t)
    <3>1. \A id \in 1 .. Len(stream') : stream'[id] = t => id \in 1 .. Len(stream)
      BY <1>1, <1>2
    <3> QED BY <1>0, <1>1, <3>1 DEF SameMessages
  <2> QED BY <1>0, <1>2, <2>1, HandAside
<1>3. CASE TaskOf(s) = t
  <2>1. On(s, t) /\ HandOK(s, t) /\ \A r \in Slots : On(r, t) => r = s
    BY <1>0, <1>3 DEF On, InOneHand, OneHand
  \* A second publication since the first delivery would double the task.
  <2>2. Retries(t) = {}
    <3> SUFFICES ASSUME NEW id \in Retries(t) PROVE FALSE
      OBVIOUS
    <3>1. id \in 1 .. Len(stream) /\ stream[id] = t /\ store[t].mid # 0 /\ id > store[t].mid
      BY DEF Retries
    <3>2. store[t].mid \in Nat /\ id \in Nat
      BY <3>1, <1>1 DEF TypeOK, Envelope
    <3>3. PICK new \in Nat : new = Len(stream) + 1
      BY <1>1
    <3>4. id \in Retries(t)'
      BY <1>0, <1>1, <3>1, <3>2 DEF Retries, Grows
    <3>5. new \in Retries(t)'
      BY <1>0, <1>1, <1>3, <3>1, <3>2, <3>3 DEF Retries
    <3>6. id # new
      BY <1>1, <3>1, <3>2, <3>3
    <3> QED BY <3>4, <3>5, <3>6 DEF OneRetry
  <2>3. \A id \in 1 .. Len(stream) : ~Waits(id, t)
    <3>1. slot[s].got \notin pending /\ \A id \in 1 .. Len(stream) : Waits(id, t) => id = slot[s].got
      BY <1>0, <2>1, <2>2 DEF HandOK, HoldsLast, InGap
    <3>2. slot[s].got <= delivered /\ slot[s].got \in Nat
      BY DEF TypeOK
    <3> QED BY <1>1, <3>1, <3>2 DEF Waits
  <2>4. LastWaits(t)'
    <3> SUFFICES ASSUME NEW id \in 1 .. Len(stream'), NEW other \in 1 .. Len(stream'),
                        Waits(id, t)'
                 PROVE  other <= id
      BY DEF LastWaits
    <3>1. id \notin 1 .. Len(stream)
      BY <1>0, <1>1, <2>3 DEF Waits, Grows
    <3> QED BY <1>1, <3>1
  <2>5. ~On(s, t)'
    BY <1>0 DEF On
  <2> QED BY <1>0, <1>1, <2>1, <2>4, <2>5, HandMoves
<1> QED BY <1>2, <1>3

LEMMA HandEnqueues ==
  ASSUME TypeOK, TypeOK', NamesInv, NEW t \in Tasks, InOneHand(t), NEW u \in Tasks, Enqueue(u)
  PROVE  InOneHand(t)'
<1>0. /\ UNCHANGED <<delivered, pending, mids, slot>> /\ stream \in Seq(Tasks)
      /\ Len(stream) \in Nat
  <2>1. UNCHANGED <<delivered, pending, mids, slot>>
    BY EnqueueDoes
  <2> QED BY <2>1 DEF TypeOK
\* Until its first message is published nothing works on a task.
<1>1. CASE t = u /\ call[u].pc # "returned"
  <2>1. /\ \A id \in 1 .. Len(stream) : stream[id] # t
        /\ \A s \in Slots : ~On(s, t)
    BY <1>1, UnpublishedTask DEF On
  <2>2. Grows(stream, stream') /\ Len(stream') \in {Len(stream), Len(stream) + 1}
    BY <1>0, EnqueueDoes, AppendGrows, SameGrows, AppendType
  <2>3. \A s \in Slots : ~On(s, t)'
    BY <1>0, <2>1, <2>2, TaskOfType DEF On, TaskOf, Grows
  <2>4. LastWaits(t)'
    <3> SUFFICES ASSUME NEW id \in 1 .. Len(stream'), NEW other \in 1 .. Len(stream'),
                        stream'[id] = t, stream'[other] = t
                 PROVE  other <= id
      BY DEF LastWaits, Waits
    <3>1. id \notin 1 .. Len(stream) /\ other \notin 1 .. Len(stream)
      BY <2>1, <2>2 DEF Grows
    <3> QED BY <1>0, <2>2, <3>1
  <2> QED BY <2>3, <2>4 DEF InOneHand, OneHand
<1>2. CASE t # u
  <2>1. SameMessages(t) /\ store'[t] = store[t]
    <3>1. CASE UNCHANGED stream
      BY <1>0, <1>2, <3>1, SameAside, EnqueueDoes
    <3>2. CASE UNCHANGED store /\ stream' = Append(stream, u)
      <4>1. Grows(stream, stream') /\ Len(stream') = Len(stream) + 1
            /\ stream'[Len(stream) + 1] = u
        BY <1>0, <3>2, AppendGrows, AppendType
      <4>2. \A id \in 1 .. Len(stream') : stream'[id] = t => id \in 1 .. Len(stream)
        BY <1>0, <1>2, <4>1
      <4> QED BY <1>0, <3>2, <4>1, <4>2 DEF SameMessages
    <3> QED BY <3>1, <3>2, EnqueueDoes
  <2>2. \A r \in Slots : On(r, t)' => On(r, t)
    BY <1>0, <2>1, TaskOfType DEF On, TaskOf, SameMessages, Grows
  <2> QED BY <1>0, <2>1, <2>2, HandStands
<1>3. call[u].pc # "returned"
  BY EnqueueDoes
<1> QED BY <1>1, <1>2, <1>3

LEMMA HandEnvironment ==
  ASSUME TypeOK, TypeOK', NamesInv, NEW t \in Tasks, InOneHand(t),
         \/ \E u \in Tasks : Elapse(u) \/ EnqueueCrash(u)
         \/ \E id \in pending : GrowStale(id)
         \/ \E p \in Procs : Batch(p) \/ Crash(p)
         \/ UNCHANGED vars
  PROVE  InOneHand(t)'
<1>1. UNCHANGED <<stream, delivered, pending>>
      /\ store'[t].mid = store[t].mid /\ store'[t].state = store[t].state
  BY ElapseDoes, EnqueueCrashDoes, BatchDoes, CrashDoes DEF redis, GrowStale, vars
<1>2. SameMessages(t)
  BY <1>1, SameAside
<1>3. ASSUME NEW r \in Slots, slot'[r].got # 0
      PROVE  /\ slot'[r].pc = slot[r].pc /\ slot'[r].got = slot[r].got
             /\ slot'[r].arg = slot[r].arg /\ slot'[r].env.state = slot[r].env.state
             /\ mids'[ProcOf[r]][t] = mids[ProcOf[r]][t]
  <2>1. ProcOf[r] \in Procs
    BY ProcsAssumption
  <2> QED BY <1>3, <2>1, ElapseDoes, EnqueueCrashDoes, BatchDoes, CrashDoes DEF GrowStale, vars
<1>4. \A r \in Slots : On(r, t)' => On(r, t)
  BY <1>1, <1>3 DEF On, TaskOf
<1> QED BY <1>1, <1>2, <1>3, <1>4, HandStands DEF On

LEMMA HandsStep ==
  ASSUME TypeOK, TypeOK', NamesInv, HandsInv, [Next]_vars
  PROVE  HandsInv'
<1> SUFFICES ASSUME overruns' = 0
             PROVE  /\ HeldApart' /\ MidStands'
                    /\ \A t \in Tasks : OneRetry(t)' => InOneHand(t)'
  BY DEF HandsInv
<1>1. overruns = 0
  <2>1. overruns' = overruns \/ overruns' = overruns + 1
    BY WorkHolds, EnqueueDoes, ElapseDoes, EnqueueCrashDoes, BatchDoes, CrashDoes
    DEF Next, counts, GrowStale, vars
  <2>2. overruns \in Nat
    BY DEF TypeOK
  <2> QED BY <2>1, <2>2
<1>2. HeldApart /\ MidStands /\ \A t \in Tasks : OneRetry(t) => InOneHand(t)
  BY <1>1 DEF HandsInv
<1>3. HeldApart'
  BY <1>2, ApartStep
<1>4. MidStands'
  BY <1>2, MidStandsStep DEF InOneHand
<1>5. ASSUME NEW t \in Tasks, OneRetry(t)'
      PROVE  InOneHand(t)'
  <2>1. InOneHand(t)
    BY <1>2, <1>5, DoubledStays
  <2>2. ASSUME NEW s \in Slots, Work(s)
        PROVE  InOneHand(t)'
    BY <1>2, <1>5, <2>1, <2>2, HandClaims, HandLoads, HandHandles, HandWrites, HandAcks,
       HandPublishes DEF Work
  <2> QED BY <2>1, <2>2, HandEnqueues, HandEnvironment DEF Next
<1> QED BY <1>3, <1>4, <1>5

LEMMA HandsInvariance == Spec => []HandsInv
<1>1. Init => HandsInv
  <2> SUFFICES ASSUME Init
               PROVE  HeldApart /\ MidStands /\ \A t \in Tasks : InOneHand(t)
    BY DEF HandsInv
  <2>1. \A s \in Slots : slot[s].got = 0 /\ slot[s].pc = "rest"
    BY DEF Init, IdleSlot, SlotAt
  <2>2. 1 .. Len(stream) = {}
    BY DEF Init
  <2> QED BY <2>1, <2>2 DEF HeldApart, MidStands, InOneHand, LastWaits, OneHand, On
<1>2. TypeOK /\ TypeOK' /\ NamesInv /\ HandsInv /\ [Next]_vars => HandsInv'
  BY HandsStep
<1> QED BY TypeCorrect, NamesInvariance, <1>1, <1>2, PTL DEF Spec

\* As long as no live worker is overrun and no retry follows a retry, the handler of a task
\* runs in one coroutine at a time, whatever crashes and is recovered.
THEOREM HandlersRunAlone == Spec => []OneRunner
<1>1. TypeOK /\ HandsInv => OneRunner
  <2> SUFFICES ASSUME TypeOK, HandsInv, NEW r \in Slots, NEW s \in Slots,
                      slot[r].pc = "run", slot[s].pc = "run",
                      TaskOf(r) = TaskOf(s), Undoubled(TaskOf(r))
               PROVE  r = s
    BY DEF OneRunner
  <2>1. slot[r].got # 0 /\ slot[s].got # 0 /\ TaskOf(r) \in Tasks
    BY AtWork
  <2>2. InOneHand(TaskOf(r))
    BY <2>1 DEF HandsInv, Undoubled, OneRetry
  <2> QED BY <2>1, <2>2 DEF InOneHand, OneHand, On
<1> QED BY TypeCorrect, HandsInvariance, <1>1, PTL

-----------------------------------------------------------------------------
(* Only a gap loses a task                                                 *)

LEMMA GapsOnly ==
  ASSUME TypeOK, TypeOK', NamesInv, Judged, HandsInv, [Next]_vars, NEW t \in Tasks,
         LosesTask(t)
  PROVE  \/ EnqueueCrash(t)
         \/ \E s \in Slots : /\ slot[s].pc \in {"republish", "settlePublish"}
                             /\ TaskOf(s) = t
                             /\ Crash(ProcOf[s])
<1>0. /\ store[t].state \in Live /\ Underway(t) /\ ~Underway(t)' /\ InOneHand(t)
      /\ Len(stream) \in Nat /\ Len(stream') \in Nat /\ Grows(stream, stream')
      /\ delivered \in 0 .. Len(stream)
  BY StreamGrows DEF LosesTask, HandsInv, Undoubled, OneRetry, TypeOK
<1>1. /\ \A id : ~Waits(id, t)' /\ \A s \in Slots : ~On(s, t)'
      /\ call'[t].pc # "publish"
  BY <1>0 DEF Underway, Waits, On
<1>2. \/ \E id : Waits(id, t)
      \/ \E s \in Slots : On(s, t)
      \/ call[t].pc = "publish"
  BY <1>0 DEF Underway, Waits, On
\* A coroutine that works on t has the one message that waits, or is in the gap.
<1>3. ASSUME SameMessages(t), NEW s \in Slots, On(s, t), ~InGap(s)
      PROVE  FALSE
  BY <1>0, <1>1, <1>3, HandIsLast, SameWaits
<1>4. ASSUME UNCHANGED call, SameMessages(t)
      PROVE  \E s \in Slots : On(s, t) /\ ~On(s, t)' /\ InGap(s)
  BY <1>1, <1>2, <1>3, <1>4, SameWaits
<1>5. ASSUME NEW s \in Slots, Work(s)
      PROVE  FALSE
  <2>1. Alone(s) /\ UNCHANGED call
    BY <1>5, WorkHolds
  <2>2. \A r \in Slots : r # s /\ On(r, t) => On(r, t)'
    BY <1>0, <2>1, TaskOfType DEF Alone, On, TaskOf, Grows
  <2>3. \A r \in Slots : ~On(r, t) \/ r = s
    BY <1>1, <2>2
  <2>4. ASSUME On(s, t), slot'[s].got = slot[s].got
        PROVE  FALSE
    BY <1>0, <1>1, <2>4, TaskOfType DEF On, TaskOf, Grows
  <2>5. CASE Claim(s) \/ ReadNew(s)
    <3>1. slot[s].pc \in {"claim", "read"} /\ UNCHANGED stream
      BY <2>5, ClaimDoes, ReadDoes
    <3>2. slot[s].got = 0
      BY <3>1 DEF NamesInv, RestsFree
    <3>3. \A id : Waits(id, t) => Waits(id, t)'
      <4>1. \/ UNCHANGED <<delivered, pending>>
            \/ delivered' = delivered + 1 /\ pending' = pending \cup {delivered + 1}
        BY <2>5, ClaimDoes, ReadDoes
      <4> QED BY <1>0, <3>1, <4>1 DEF Waits
    <3> QED BY <1>1, <1>2, <2>1, <2>3, <3>2, <3>3 DEF On
  <2>6. CASE \/ Load(s) \/ Start(s) \/ SettleLoad(s)
             \/ HandlerReturns(s) \/ HandlerRaises(s) \/ NoHandler(s)
    <3>1. slot'[s].got = slot[s].got /\ UNCHANGED <<stream, delivered, pending>>
      BY <2>6, LoadDoes, StartDoes, SettleLoadDoes, HandlerDoes DEF Keeps, Sends, redis
    <3> QED BY <1>4, <2>1, <2>3, <2>4, <3>1, SameAside
  <2>7. CASE AckDropped(s) \/ SettleAck(s)
    <3>1. /\ UNCHANGED <<stream, delivered, store>> /\ Acks(slot[s].arg) /\ slot[s].got # 0
          /\ slot[s].pc \in {"ackDropped", "settleAck"}
      BY <2>7, AckDroppedDoes, SettleAckDoes
    <3>2. TaskOf(s) = t
      <4>1. TaskOf(s) # t => SameMessages(t)
        BY <3>1, AckedAside
      <4> QED BY <1>4, <2>1, <2>3, <4>1 DEF On
    \* The hash is not settled, so the coroutine goes into the gap.
    <3>3. slot[s].env.state \in Live
      BY <1>0, <3>1, <3>2 DEF InOneHand, HandOK, StateAgrees, On
    <3>4. slot'[s].got = slot[s].got
      <4>1. CASE AckDropped(s)
        BY <3>3, <4>1, AckDroppedDoes DEF Keeps
      <4>2. CASE SettleAck(s)
        <5>1. slot[s].env.state = "queued"
          BY <3>3, <4>2, SettleAckDoes DEF Judged, Live, Settled
        <5> QED BY <4>2, <5>1, SettleAckDoes DEF Keeps
      <4> QED BY <2>7, <4>1, <4>2
    <3> QED BY <2>4, <3>1, <3>2, <3>4 DEF On
  <2>8. CASE SettlePersist(s)
    <3>1. UNCHANGED <<stream, delivered, pending>> /\ slot[s].pc = "settlePersist"
      BY <2>8, SettlePersistDoes
    <3>2. ~InGap(s) /\ SameMessages(t)
      BY <3>1, SameAside DEF InGap
    <3> QED BY <1>4, <2>1, <2>3, <3>2
  <2>9. CASE Republish(s) \/ SettlePublish(s)
    <3>1. /\ stream' = Append(stream, TaskOf(s)) /\ TaskOf(s) \in Tasks
          /\ UNCHANGED <<delivered, pending>>
      BY <2>9, PublishDoes
    <3>2. CASE TaskOf(s) = t
      <4>1. PICK new \in Nat : new = Len(stream) + 1
        BY <1>0
      <4>2. new \in 1 .. Len(stream') /\ stream'[new] = t /\ new > delivered
        BY <1>0, <3>1, <3>2, <4>1, AppendType
      <4>3. Waits(new, t)'
        BY <3>1, <4>2 DEF Waits
      <4> QED BY <1>1, <4>3
    <3>3. CASE TaskOf(s) # t
      <4>1. \A id : Waits(id, t) => Waits(id, t)'
        BY <1>0, <3>1 DEF Waits, Grows
      <4> QED BY <1>1, <1>2, <2>1, <2>3, <3>3, <4>1 DEF On
    <3> QED BY <3>2, <3>3
  <2> QED BY <1>5, <2>5, <2>6, <2>7, <2>8, <2>9 DEF Work
<1>6. ASSUME NEW u \in Tasks, Enqueue(u)
      PROVE  FALSE
  <2>1. /\ UNCHANGED <<slot, delivered, pending>> /\ call[u].pc # "returned"
        /\ UNCHANGED stream \/ stream' = Append(stream, u)
    BY <1>6, EnqueueDoes
  <2>2. \A s \in Slots : On(s, t) => On(s, t)'
    BY <1>0, <2>1, TaskOfType DEF On, TaskOf, Grows
  <2>3. \A id : Waits(id, t) => Waits(id, t)'
    BY <1>0, <2>1 DEF Waits, Grows
  <2>4. call[t].pc = "publish"
    BY <1>1, <1>2, <2>2, <2>3
  <2>5. CASE u = t
    <3>1. stream' = Append(stream, t)
      BY <1>6, <2>4, <2>5, EnqueueDoes
    <3>2. PICK new \in Nat : new = Len(stream) + 1
      BY <1>0
    <3>3. new \in 1 .. Len(stream') /\ stream'[new] = t /\ new > delivered
      BY <1>0, <3>1, <3>2, AppendType
    <3>4. Waits(new, t)'
      BY <2>1, <3>3 DEF Waits
    <3> QED BY <1>1, <3>4
  <2>6. CASE u # t
    <3>1. call'[t] = call[t]
      BY <1>6, <2>6, EnqueueDoes DEF Calls
    <3> QED BY <1>1, <2>4, <3>1
  <2> QED BY <2>5, <2>6
<1>7. ASSUME NEW u \in Tasks, EnqueueCrash(u), u # t
      PROVE  FALSE
  <2>1. UNCHANGED <<stream, delivered, pending, slot>> /\ call'[t] = call[t]
    BY <1>7, EnqueueCrashDoes DEF redis, Calls
  <2> QED BY <1>1, <1>2, <2>1 DEF Waits, On, TaskOf
<1>8. ASSUME NEW u \in Tasks, Elapse(u)
      PROVE  FALSE
  <2>1. UNCHANGED <<stream, delivered, pending, call>> /\ \A s \in Slots : slot'[s].got = slot[s].got
    BY <1>8, ElapseDoes
  <2> QED BY <1>1, <1>2, <2>1 DEF Waits, On, TaskOf
<1>9. ASSUME NEW id \in pending, GrowStale(id)
      PROVE  FALSE
  BY <1>1, <1>2, <1>9 DEF GrowStale, Waits, On, TaskOf
<1>10. ASSUME NEW p \in Procs, Batch(p)
       PROVE  FALSE
  <2>1. UNCHANGED <<stream, delivered, pending, call>>
    BY <1>10, BatchDoes DEF redis
  <2>2. \A s \in Slots : On(s, t) => On(s, t)'
    <3>1. \A s \in Slots : slot[s].pc = "rest" => slot[s].got = 0
      BY DEF NamesInv, RestsFree
    <3> QED BY <1>10, <2>1, <3>1, BatchDoes DEF On, TaskOf
  <2> QED BY <1>1, <1>2, <2>1, <2>2 DEF Waits
<1>11. ASSUME NEW p \in Procs, Crash(p)
       PROVE  \E s \in Slots : /\ slot[s].pc \in {"republish", "settlePublish"}
                               /\ TaskOf(s) = t
                               /\ Crash(ProcOf[s])
  <2>1. UNCHANGED <<stream, delivered, pending, call>>
    BY <1>11, CrashDoes DEF redis
  <2>2. PICK s \in Slots : On(s, t) /\ ~On(s, t)' /\ InGap(s)
    BY <1>4, <2>1, SameAside
  <2>3. ProcOf[s] = p
    BY <1>11, <2>1, <2>2, CrashDoes DEF On, TaskOf
  <2> QED BY <1>11, <2>2, <2>3 DEF InGap, On
<1>12. CASE UNCHANGED vars
  BY <1>1, <1>2, <1>12 DEF vars, Waits, On, TaskOf
<1> QED BY <1>5, <1>6, <1>7, <1>8, <1>9, <1>10, <1>11, <1>12 DEF Next

\* A task that is in one hand is lost by nothing but the death of a process between two calls
\* of Redis: before the first XADD, or between an XACK and the XADD that follows it.
THEOREM GapsAloneLoseTasks == Spec => OnlyGapsLoseTasks
<1>1. TypeOK /\ TypeOK' /\ NamesInv /\ KeptInv /\ HandsInv /\ [Next]_vars =>
        [\A t \in Tasks : LosesTask(t) =>
           \/ EnqueueCrash(t)
           \/ \E s \in Slots : /\ slot[s].pc \in {"republish", "settlePublish"}
                               /\ TaskOf(s) = t
                               /\ Crash(ProcOf[s])]_vars
  BY GapsOnly DEF KeptInv
<1> QED
  BY TypeCorrect, NamesInvariance, KeptInvariance, HandsInvariance, <1>1, PTL
  DEF Spec, OnlyGapsLoseTasks


-----------------------------------------------------------------------------
(* Tasks follow TaskLifecycle, as long as no worker is overrun and a task  *)
(* has one retry, without delay                                            *)

\* max_attempts allows one retry, which is not delayed, and no handler is late.
RetriesOnce == MaxAttempts <= 2 /\ MaxOverruns = 0 /\ RetryDelays \subseteq {FALSE}

\* enqueue() has yet to write the hash.
Asking == {"get", "reserve", "reget", "persist"}

\* The hash of a task: what its attempts say of its state, its id and its retries.
HashOK(t) ==
  /\ store[t].attempts >= 1 <=> store[t].mid # 0
  /\ IF store[t].attempts = 0 THEN store[t].state \in {"absent", "queued"}
                              ELSE store[t].state # "absent" /\ ~store[t].delayed
  /\ store[t].state = "queued" => store[t].attempts < MaxAttempts
  /\ Retries(t) # {} => store[t].attempts >= 2 \/ store[t].state = "queued"
  /\ OneRetry(t)
  /\ call[t].pc \in Asking => store[t].state = "absent"

\* The coroutine runs the handler, or has yet to write its verdict.
Runs == {"run", "settleLoad", "settlePersist"}

\* The envelope in hand is that of the hash, and only the first attempt is retried.
CopyOK(s, t) ==
  LET label == slot[s].pc
      env == slot[s].env IN
  /\ label = "start" =>
       /\ store[t].state \in Live
       /\ env.state = "running" /\ env.attempts = store[t].attempts + 1 /\ ~env.delayed
  /\ label \in Runs =>
       store[t].state = "running" /\ env.attempts = store[t].attempts
  /\ label \in {"settleLoad", "settlePersist"} /\ env.state = "queued" =>
       env.attempts < MaxAttempts
  /\ label = "settlePersist" => ~env.delayed
  /\ (label = "settleAck" /\ env.state = "queued") \/ label = "settlePublish" =>
       store[t].state = "queued" /\ store[t].mid # 0 /\ Retries(t) = {}
  /\ (label = "ackDropped" /\ env.state \in Live) \/ label = "republish" => store[t].mid = 0

\* A task whose hash says that it runs is in hand, unless the worker has died.
RunOK(t) ==
  crashes = 0 /\ store[t].state = "running" =>
    \E s \in Slots : On(s, t) /\ slot[s].pc \in Runs

LifeOK(t) == HashOK(t) /\ RunOK(t) /\ \A s \in Slots : On(s, t) => CopyOK(s, t)

LifeInv == overruns = 0 /\ \A t \in Tasks : LifeOK(t)

\* What the invariant says of the hash of t is as it was.
SameHash(t) ==
  /\ store'[t].state = store[t].state /\ store'[t].attempts = store[t].attempts
  /\ store'[t].mid = store[t].mid /\ (store'[t].delayed => store[t].delayed)

\* And so is the envelope in hand.
SameCopy(s) ==
  /\ slot'[s].pc = slot[s].pc
  /\ slot'[s].env.state = slot[s].env.state
  /\ slot'[s].env.attempts = slot[s].env.attempts
  /\ slot'[s].env.delayed => slot[s].env.delayed

LEMMA HashType ==
  ASSUME TypeOK, NEW t \in Tasks
  PROVE  /\ store[t].attempts \in Nat /\ store[t].mid \in Nat /\ store[t].delayed \in BOOLEAN
         /\ store[t].state \in {"absent"} \cup Live \cup Settled
BY DEF TypeOK, Envelope

LEMMA SameRetries ==
  ASSUME TypeOK, TypeOK', NEW t \in Tasks, SameMessages(t), store'[t].mid = store[t].mid
  PROVE  Retries(t)' = Retries(t)
<1>1. Len(stream) \in Nat /\ Len(stream') \in Nat /\ Len(stream) <= Len(stream')
  BY DEF TypeOK, SameMessages, Grows
<1>2. \A id : id \in Retries(t)' => id \in Retries(t)
  BY <1>1 DEF Retries, SameMessages, Grows
<1>3. \A id : id \in Retries(t) => id \in Retries(t)'
  BY <1>1 DEF Retries, SameMessages, Grows
<1> QED BY <1>2, <1>3

LEMMA HashStands ==
  ASSUME NEW t \in Tasks, HashOK(t), SameHash(t), Retries(t)' = Retries(t),
         call'[t].pc \in Asking => call[t].pc \in Asking
  PROVE  HashOK(t)'
BY DEF HashOK, SameHash, OneRetry, Asking

LEMMA CopyStands ==
  ASSUME NEW t \in Tasks, NEW s \in Slots, CopyOK(s, t), SameHash(t), Retries(t)' = Retries(t),
         SameCopy(s)
  PROVE  CopyOK(s, t)'
BY DEF CopyOK, SameHash, SameCopy, Runs

\* A step that does nothing to t; a coroutine may take a message of it.
LEMMA LifeStands ==
  ASSUME TypeOK, TypeOK', NEW t \in Tasks, LifeOK(t), SameHash(t), SameMessages(t),
         call'[t].pc \in Asking => call[t].pc \in Asking,
         \A s \in Slots : On(s, t)' => (On(s, t) /\ SameCopy(s)) \/ slot'[s].pc = "load",
         crashes' = 0 =>
           /\ crashes = 0
           /\ \A s \in Slots : On(s, t) /\ slot[s].pc \in Runs
                => On(s, t)' /\ slot'[s].pc = slot[s].pc
  PROVE  LifeOK(t)'
<1>1. Retries(t)' = Retries(t)
  BY SameRetries DEF SameHash
<1>2. HashOK(t)'
  BY <1>1, HashStands DEF LifeOK
<1>3. RunOK(t)'
  BY DEF LifeOK, RunOK, SameHash, Runs
<1>4. ASSUME NEW s \in Slots, On(s, t)'
      PROVE  CopyOK(s, t)'
  <2>1. CASE On(s, t) /\ SameCopy(s)
    BY <1>1, <2>1, CopyStands DEF LifeOK
  <2>2. CASE slot'[s].pc = "load"
    BY <2>2 DEF CopyOK, Runs
  <2> QED BY <1>4, <2>1, <2>2
<1> QED BY <1>2, <1>3, <1>4 DEF LifeOK

\* A step of a coroutine that works on another task, or takes a message.
LEMMA LifeAside ==
  ASSUME TypeOK, TypeOK', NEW t \in Tasks, LifeOK(t), SameMessages(t), store'[t] = store[t],
         UNCHANGED <<call, crashes>>, NEW s \in Slots, Alone(s),
         slot[s].got # 0 => TaskOf(s) # t,
         slot'[s].got \in {0, slot[s].got} \/ slot'[s].pc = "load"
  PROVE  LifeOK(t)'
<1>1. ASSUME NEW r \in Slots, On(r, t)'
      PROVE  (On(r, t) /\ SameCopy(r)) \/ slot'[r].pc = "load"
  <2>1. CASE r = s
    <3> SUFFICES ASSUME slot'[s].pc # "load" PROVE FALSE
      BY <2>1
    <3>1. slot'[s].got # 0 /\ slot'[s].got = slot[s].got
      BY <1>1, <2>1 DEF On
    <3>2. TaskOf(s)' = TaskOf(s)
      BY <3>1, TaskOfType DEF TaskOf, SameMessages, Grows
    <3> QED BY <1>1, <2>1, <3>1, <3>2 DEF On
  <2>2. CASE r # s
    <3>1. slot'[r] = slot[r] /\ slot[r].got # 0
      BY <1>1, <2>2 DEF Alone, On
    <3>2. TaskOf(r)' = TaskOf(r)
      BY <3>1, TaskOfType DEF TaskOf, SameMessages, Grows
    <3> QED BY <1>1, <3>1, <3>2 DEF On, SameCopy
  <2> QED BY <2>1, <2>2
<1>2. ASSUME NEW r \in Slots, On(r, t)
      PROVE  On(r, t)' /\ slot'[r].pc = slot[r].pc
  <2>1. slot'[r] = slot[r] /\ slot[r].got # 0
    BY <1>2 DEF Alone, On
  <2>2. TaskOf(r)' = TaskOf(r)
    BY <2>1, TaskOfType DEF TaskOf, SameMessages, Grows
  <2> QED BY <1>2, <2>1, <2>2 DEF On
<1>3. SameHash(t)
  BY DEF SameHash
<1> QED BY <1>1, <1>2, <1>3, LifeStands

\* A step of the one coroutine that works on t.
LEMMA LifeMoves ==
  ASSUME TypeOK, NEW t \in Tasks, NEW s \in Slots, Alone(s), Grows(stream, stream'),
         OneHand(t), On(s, t), HashOK(t)', RunOK(t)', On(s, t)' => CopyOK(s, t)'
  PROVE  LifeOK(t)'
<1>1. ASSUME NEW r \in Slots, On(r, t)', r # s
      PROVE  FALSE
  <2>1. slot'[r] = slot[r] /\ slot[r].got # 0
    BY <1>1 DEF Alone, On
  <2>2. TaskOf(r)' = TaskOf(r)
    BY <2>1, TaskOfType DEF TaskOf, Grows
  <2> QED BY <1>1, <2>1, <2>2 DEF On, OneHand
<1> QED BY <1>1 DEF LifeOK

-----------------------------------------------------------------------------
(* What the steps do to envelopes                                          *)

\* A coroutine goes on with another envelope.
Holding(s, label, env) ==
  /\ Alone(s) /\ slot'[s].pc = label /\ slot'[s].got = slot[s].got /\ slot'[s].env = env

LEMMA CarriesHolding ==
  ASSUME TypeOK, NEW s \in Slots, NEW label, NEW env, NEW id, Carries(s, label, env, id)
  PROVE  Holding(s, label, env)
<1>1. slot \in [Slots -> SlotState]
  BY DEF TypeOK
<1> QED BY <1>1 DEF Carries, Holding, Alone, SlotState

LEMMA PersistsCopy ==
  ASSUME TypeOK, NEW s \in Slots, slot[s].got # 0, Persists(s)
  PROVE  /\ store'[TaskOf(s)].attempts = slot[s].env.attempts
         /\ store'[TaskOf(s)].delayed = slot[s].env.delayed
<1>1. TaskOf(s) \in Tasks /\ store \in [Tasks -> Envelope] /\ slot[s].env \in Envelope
  BY TaskOfType DEF TypeOK, SlotState
<1> DEFINE id == IF slot[s].arg # 0 THEN slot[s].arg ELSE store[TaskOf(s)].mid
           env == [slot[s].env EXCEPT !.mid = id]
<1>2. env.attempts = slot[s].env.attempts /\ env.delayed = slot[s].env.delayed
  BY <1>1 DEF Envelope
<1>3. store' = [store EXCEPT ![TaskOf(s)] = env]
  BY DEF Persists
<1> HIDE DEF env
<1>4. store'[TaskOf(s)] = env
  BY <1>1, <1>3
<1> QED BY <1>2, <1>4

LEMMA LoadCopies ==
  ASSUME TypeOK, NEW s \in Slots, Load(s)
  PROVE  LET env == store[TaskOf(s)] IN
         \/ /\ env.state \notin Live \/ env.delayed
            /\ Holding(s, "ackDropped", env)
         \/ /\ env.state \in Live /\ ~env.delayed
            /\ Holding(s, "start", Running(env))
<1> DEFINE env == store[TaskOf(s)]
           drop == env.state \notin Live \/ env.delayed
<1>1. CASE drop
  BY <1>1, CarriesHolding DEF Load
<1>2. CASE ~drop
  BY <1>2, CarriesHolding DEF Load
<1> QED BY <1>1, <1>2

\* The verdict to retry is given below max_attempts only.
LEMMA HandlerCopies ==
  ASSUME TypeOK, NEW s \in Slots, HandlerReturns(s) \/ HandlerRaises(s) \/ NoHandler(s)
  PROVE  \E verdict \in {"queued", "completed", "dead_lettered"} :
           /\ Holding(s, "settleLoad", InState(slot[s].env, verdict, slot[s].env.delayed))
           /\ verdict = "queued" => slot[s].env.attempts < MaxAttempts
<1>1. ASSUME NEW verdict, Decides(s, verdict)
      PROVE  Holding(s, "settleLoad", InState(slot[s].env, verdict, slot[s].env.delayed))
  BY <1>1, CarriesHolding DEF Decides
<1>2. \E verdict \in {"queued", "completed", "dead_lettered"} :
        Decides(s, verdict) /\ (verdict = "queued" => slot[s].env.attempts < MaxAttempts)
  BY DEF HandlerReturns, HandlerRaises, NoHandler
<1> QED BY <1>1, <1>2

\* A retry is not delayed when the worker's backoff is zero.
LEMMA SettleLoadCopies ==
  ASSUME TypeOK, NEW s \in Slots, SettleLoad(s), RetryDelays \subseteq {FALSE}
  PROVE  \E delayed \in {FALSE, store[TaskOf(s)].delayed} :
           Holding(s, "settlePersist", InState(store[TaskOf(s)], Verdict(s), delayed))
<1>1. PICK delayed \in IF Verdict(s) = "queued" THEN RetryDelays ELSE {store[TaskOf(s)].delayed} :
        Carries(s, "settlePersist", InState(store[TaskOf(s)], Verdict(s), delayed),
                MidAfterLoad(s))
  BY DEF SettleLoad
<1>2. delayed \in {FALSE, store[TaskOf(s)].delayed}
  BY <1>1
<1> QED BY <1>1, <1>2, CarriesHolding

LEMMA SettlePersistCopies ==
  ASSUME TypeOK, NEW s \in Slots, SettlePersist(s)
  PROVE  /\ Frees(s) \/ \E label \in {"settleAck", "settlePublish"} : Holding(s, label, slot[s].env)
<1>1. CASE MidOf(s) # 0
  BY <1>1, CarriesHolding DEF SettlePersist
<1>2. CASE MidOf(s) = 0 /\ Verdict(s) = "queued"
  BY <1>2, GoesKeeps DEF SettlePersist, Keeps, Holding
<1>3. CASE MidOf(s) = 0 /\ Verdict(s) # "queued"
  BY <1>3, RestsFrees DEF SettlePersist
<1> QED BY <1>1, <1>2, <1>3

\* enqueue() stores a queued task, and asks no more once it has.
LEMMA EnqueueStores ==
  ASSUME TypeOK, NEW t \in Tasks, Enqueue(t)
  PROVE  /\ call'[t].pc \in Asking => call[t].pc \in Asking
         /\ \/ UNCHANGED store
            \/ /\ call[t].pc = "persist" /\ UNCHANGED stream /\ call'[t].pc = "publish"
               /\ \A u \in Tasks \ {t} : store'[u] = store[u]
               /\ store'[t].state = "queued" /\ store'[t].attempts = 0 /\ store'[t].mid = 0
<1>1. call \in [Tasks -> CallState]
  BY DEF TypeOK
<1>2. CASE EnqueueGet(t) \/ EnqueueReserve(t) \/ EnqueueReload(t) \/ EnqueuePublish(t)
  <2>1. UNCHANGED store
    BY <1>2 DEF EnqueueGet, EnqueueReserve, EnqueueReload, EnqueuePublish, redis
  <2>2. CASE EnqueueGet(t) \/ EnqueueReserve(t)
    BY <2>1, <2>2 DEF EnqueueGet, EnqueueReserve, Asking
  <2>3. CASE EnqueueReload(t) \/ EnqueuePublish(t)
    <3>1. call'[t].pc \in {"returned", "keyError"}
      BY <1>1, <2>3 DEF EnqueueReload, EnqueuePublish, EnqueueGoes, EnqueueReturns, CallState
    <3> QED BY <2>1, <3>1 DEF Asking
  <2> QED BY <1>2, <2>2, <2>3
<1>3. CASE EnqueuePersist(t)
  <2>1. /\ \A u \in Tasks \ {t} : store'[u] = store[u]
        /\ store'[t].state = "queued" /\ store'[t].attempts = 0 /\ store'[t].mid = 0
    BY <1>3 DEF EnqueuePersist, TypeOK
  <2>2. call'[t].pc = "publish"
    BY <1>1, <1>3 DEF EnqueuePersist, EnqueueGoes, CallState
  <2> QED BY <1>3, <2>1, <2>2 DEF EnqueuePersist, Asking
<1> QED BY <1>2, <1>3 DEF Enqueue

LEMMA ElapseCopies ==
  ASSUME TypeOK, NEW u \in Tasks, Elapse(u)
  PROVE  /\ \A t \in Tasks : SameHash(t)
         /\ \A s \in Slots : SameCopy(s)
<1>1. slot \in [Slots -> SlotState] /\ store \in [Tasks -> Envelope]
  BY DEF TypeOK
<1>2. \A t \in Tasks : SameHash(t)
  BY <1>1 DEF Elapse, Envelope, SameHash
<1>3. ASSUME NEW s \in Slots
      PROVE  LET late == [slot[s] EXCEPT !.env.delayed = FALSE] IN
             /\ late.pc = slot[s].pc /\ late.env.state = slot[s].env.state
             /\ late.env.attempts = slot[s].env.attempts /\ ~late.env.delayed
  BY <1>1 DEF SlotState, Envelope
<1>4. ASSUME NEW s \in Slots
      PROVE  SameCopy(s)
  <2>1. slot'[s] = [slot[s] EXCEPT !.env.delayed = FALSE] \/ slot'[s] = slot[s]
    BY DEF Elapse
  <2> QED BY <1>3, <2>1 DEF SameCopy
<1> QED BY <1>2, <1>4

-----------------------------------------------------------------------------
(* The steps of a coroutine                                                *)

\* A hash that is as it was, while the coroutine goes on or had not begun to run.
LEMMA RunStands ==
  ASSUME TypeOK, NEW t \in Tasks, RunOK(t), NEW s \in Slots, Alone(s), Grows(stream, stream'),
         store'[t].state = store[t].state, UNCHANGED crashes,
         On(s, t) /\ slot[s].pc \in Runs => On(s, t)' /\ slot'[s].pc \in Runs
  PROVE  RunOK(t)'
<1> SUFFICES ASSUME crashes' = 0, store'[t].state = "running"
             PROVE  \E r \in Slots : On(r, t)' /\ slot'[r].pc \in Runs
  BY DEF RunOK, Runs
<1>1. PICK r \in Slots : On(r, t) /\ slot[r].pc \in Runs
  BY DEF RunOK, Runs
<1>2. CASE r = s
  BY <1>1, <1>2
<1>3. CASE r # s
  <2>1. slot'[r] = slot[r] /\ slot[r].got # 0
    BY <1>1, <1>3 DEF Alone, On
  <2>2. TaskOf(r)' = TaskOf(r)
    BY <2>1, TaskOfType DEF TaskOf, Grows
  <2> QED BY <1>1, <2>1, <2>2 DEF On
<1> QED BY <1>2, <1>3

\* The coroutine goes on with its message, and the hash stays.
LEMMA LifeHolds ==
  ASSUME TypeOK, TypeOK', NEW t \in Tasks, LifeOK(t), OneHand(t),
         NEW s \in Slots, On(s, t), Alone(s), UNCHANGED <<stream, store, call, crashes>>,
         slot[s].pc \in Runs => slot'[s].got = slot[s].got /\ slot'[s].pc \in Runs,
         On(s, t)' => CopyOK(s, t)'
  PROVE  LifeOK(t)'
<1>1. stream \in Seq(Tasks) /\ Grows(stream, stream')
  BY SameGrows DEF TypeOK
<1>2. Retries(t)' = Retries(t)
  BY DEF Retries
<1>3. HashOK(t)'
  BY <1>2, HashStands DEF LifeOK, SameHash
<1>4. RunOK(t)'
  <2>1. slot'[s].got = slot[s].got => On(s, t)'
    BY DEF On, TaskOf
  <2> QED BY <1>1, <2>1, RunStands DEF LifeOK
<1> QED BY <1>1, <1>3, <1>4, LifeMoves

LEMMA LifeLoads ==
  ASSUME TypeOK, TypeOK', NEW t \in Tasks, LifeOK(t), OneHand(t),
         NEW s \in Slots, On(s, t), Load(s)
  PROVE  LifeOK(t)'
<1>1. UNCHANGED <<stream, store, call, crashes>> /\ slot[s].pc = "load" /\ TaskOf(s) = t
  BY LoadDoes DEF redis, counts, On
<1>2. HashOK(t) /\ store[t].attempts \in Nat /\ store[t].mid \in Nat
  BY HashType DEF LifeOK
<1>3. CASE /\ store[t].state \notin Live \/ store[t].delayed
           /\ Holding(s, "ackDropped", store[t])
  <2>1. store[t].delayed => store[t].mid = 0
    BY <1>2 DEF HashOK, Asking
  <2>2. CopyOK(s, t)'
    BY <1>1, <1>3, <2>1 DEF Holding, CopyOK, Runs
  <2> QED BY <1>1, <1>3, <2>2, LifeHolds DEF Holding, Runs
<1>4. CASE /\ store[t].state \in Live /\ ~store[t].delayed
           /\ Holding(s, "start", Running(store[t]))
  <2>1. CopyOK(s, t)'
    BY <1>1, <1>4 DEF Holding, Running, CopyOK, Runs
  <2> QED BY <1>1, <1>4, <2>1, LifeHolds DEF Holding, Runs
<1> QED BY <1>1, <1>3, <1>4, LoadCopies

LEMMA LifeHandles ==
  ASSUME TypeOK, TypeOK', NEW t \in Tasks, LifeOK(t), OneHand(t),
         NEW s \in Slots, On(s, t), HandlerReturns(s) \/ HandlerRaises(s) \/ NoHandler(s)
  PROVE  LifeOK(t)'
<1>1. UNCHANGED <<stream, store, call, crashes>> /\ slot[s].pc = "run"
  BY HandlerDoes DEF redis, counts
<1>2. PICK verdict \in {"queued", "completed", "dead_lettered"} :
        /\ Holding(s, "settleLoad", InState(slot[s].env, verdict, slot[s].env.delayed))
        /\ verdict = "queued" => slot[s].env.attempts < MaxAttempts
  BY HandlerCopies
<1>3. store[t].state = "running" /\ slot[s].env.attempts = store[t].attempts
  BY <1>1 DEF LifeOK, CopyOK, Runs
<1>4. CopyOK(s, t)'
  BY <1>1, <1>2, <1>3 DEF Holding, InState, CopyOK, Runs
<1> QED BY <1>1, <1>2, <1>4, LifeHolds DEF Holding, Runs

LEMMA LifeReloads ==
  ASSUME TypeOK, TypeOK', RetriesOnce, NEW t \in Tasks, LifeOK(t), OneHand(t),
         NEW s \in Slots, On(s, t), SettleLoad(s)
  PROVE  LifeOK(t)'
<1>1. /\ UNCHANGED <<stream, store, call, crashes>> /\ slot[s].pc = "settleLoad"
      /\ TaskOf(s) = t
  BY SettleLoadDoes DEF redis, counts, On
<1>2. PICK delayed \in {FALSE, store[t].delayed} :
        Holding(s, "settlePersist", InState(store[t], Verdict(s), delayed))
  BY <1>1, SettleLoadCopies DEF RetriesOnce
<1>3. /\ store[t].state = "running" /\ slot[s].env.attempts = store[t].attempts
      /\ Verdict(s) = "queued" => slot[s].env.attempts < MaxAttempts
  BY <1>1 DEF LifeOK, CopyOK, Verdict, Runs
<1>4. ~store[t].delayed
  BY <1>3 DEF LifeOK, HashOK, Asking
<1>5. CopyOK(s, t)'
  <2>1. /\ slot'[s].pc = "settlePersist" /\ slot'[s].env.state = Verdict(s)
        /\ slot'[s].env.attempts = store[t].attempts /\ slot'[s].env.delayed = delayed
    BY <1>2 DEF Holding, InState
  <2>2. ~slot'[s].env.delayed
    BY <1>2, <1>4, <2>1
  <2> QED BY <1>1, <1>3, <2>1, <2>2 DEF CopyOK, Runs
<1> QED BY <1>1, <1>2, <1>5, LifeHolds DEF Holding, Runs

LEMMA LifeAcks ==
  ASSUME TypeOK, TypeOK', NEW t \in Tasks, LifeOK(t), OneHand(t),
         NEW s \in Slots, On(s, t), AckDropped(s) \/ SettleAck(s)
  PROVE  LifeOK(t)'
<1>1. /\ UNCHANGED <<stream, store, call, crashes>> /\ slot[s].pc \in {"ackDropped", "settleAck"}
      /\ Alone(s)
  BY AckDroppedDoes, SettleAckDoes DEF counts, Keeps, Frees
<1>2. CopyOK(s, t) /\ Retries(t)' = Retries(t)
  BY <1>1 DEF LifeOK, Retries
<1>3. CASE slot'[s].got = 0
  BY <1>1, <1>3, LifeHolds DEF Runs, On
<1>4. CASE slot[s].pc = "ackDropped" /\ slot[s].env.state \in Live /\ slot'[s].pc = "republish"
  <2>1. CopyOK(s, t)'
    BY <1>1, <1>2, <1>4 DEF CopyOK, Runs
  <2> QED BY <1>1, <2>1, LifeHolds DEF Runs
<1>5. CASE slot[s].pc = "settleAck" /\ slot[s].env.state = "queued" /\ slot'[s].pc = "settlePublish"
  <2>1. CopyOK(s, t)'
    BY <1>1, <1>2, <1>5 DEF CopyOK, Runs
  <2> QED BY <1>1, <2>1, LifeHolds DEF Runs
<1> QED BY <1>3, <1>4, <1>5, AckDroppedDoes, SettleAckDoes DEF Keeps, Frees

\* HSET of a delivery: the message in hand becomes the first one of the task, and the
\* later ones are its retry.
LEMMA LifeStarts ==
  ASSUME TypeOK, TypeOK', NamesInv, NEW t \in Tasks, LifeOK(t), InOneHand(t),
         NEW s \in Slots, On(s, t), Start(s)
  PROVE  LifeOK(t)'
<1>0. /\ UNCHANGED <<stream, call, crashes>> /\ slot[s].pc = "start" /\ TaskOf(s) = t
      /\ Writes(s) /\ Keeps(s, "run")
      /\ stream \in Seq(Tasks) /\ Grows(stream, stream')
  BY StartDoes, SameGrows DEF counts, On, TypeOK
<1>1. /\ store[t].state \in Live /\ slot[s].env.state = "running"
      /\ slot[s].env.attempts = store[t].attempts + 1 /\ ~slot[s].env.delayed
  BY <1>0 DEF LifeOK, CopyOK, Runs
<1>2. HashOK(t) /\ store[t].attempts \in Nat /\ store[t].mid \in Nat
  BY HashType DEF LifeOK
<1>3. store'[t].state = "running" /\ store'[t].attempts = store[t].attempts + 1
      /\ ~store'[t].delayed
  <2>1. store'[t].attempts = slot[s].env.attempts /\ store'[t].delayed = slot[s].env.delayed
    BY <1>0, PersistsCopy DEF Start, On
  <2> QED BY <1>0, <1>1, <2>1 DEF Writes
<1>4. store'[t].mid = FirstId(s, t) /\ FirstId(s, t) # 0
  <2>1. slot[s].arg = FirstId(s, t)
    BY <1>0 DEF InOneHand, HandOK, IdsAgree
  <2>2. FirstId(s, t) # 0
    BY DEF FirstId, On
  <2> QED BY <1>0, <2>1, <2>2 DEF Writes
<1>5. On(s, t)' /\ slot'[s].pc = "run" /\ slot'[s].env = slot[s].env
  BY <1>0 DEF On, TaskOf, Keeps
<1>6. OneRetry(t)' /\ (Retries(t)' # {} => store'[t].attempts >= 2)
  <2>1. CASE store[t].mid # 0
    <3>1. Retries(t)' = Retries(t) /\ store[t].attempts >= 1
      BY <1>0, <1>2, <1>4, <2>1 DEF Retries, FirstId, HashOK, Asking
    <3> QED BY <1>2, <1>3, <3>1 DEF HashOK, OneRetry, Asking
  \* The first delivery: the message in hand is the last one of the task.
  <2>2. CASE store[t].mid = 0
    <3>1. store'[t].mid = slot[s].got
      BY <1>4, <2>2 DEF FirstId
    <3>2. Waits(slot[s].got, t) /\ slot[s].got \in 1 .. Len(stream)
      BY <1>0, HandIsLast, TaskOfType DEF InGap, On
    <3>3. \A id \in 1 .. Len(stream) : stream[id] = t => id <= slot[s].got
      BY <3>2 DEF InOneHand, LastWaits
    <3>4. Len(stream) \in Nat
      BY <1>0
    <3>5. Retries(t)' = {}
      BY <1>0, <3>1, <3>2, <3>3, <3>4 DEF Retries
    <3> QED BY <3>5 DEF OneRetry
  <2> QED BY <2>1, <2>2
<1>7. call'[t].pc = "returned"
  BY <1>0, UnpublishedTask DEF On
<1>8. HashOK(t)'
  <2>1. store'[t].attempts >= 1 /\ store'[t].attempts # 0
    BY <1>2, <1>3
  <2> QED BY <1>3, <1>4, <1>6, <1>7, <2>1 DEF HashOK, Asking
<1>9. RunOK(t)'
  BY <1>5 DEF RunOK, Runs
<1>10. CopyOK(s, t)'
  BY <1>1, <1>3, <1>5 DEF CopyOK, Runs
<1> QED BY <1>0, <1>8, <1>9, <1>10, LifeMoves DEF Keeps, InOneHand

\* HSET of a verdict.
LEMMA LifeSettles ==
  ASSUME TypeOK, TypeOK', NamesInv, Judged, MidStands, RetriesOnce,
         NEW t \in Tasks, LifeOK(t), OneHand(t), NEW s \in Slots, On(s, t), SettlePersist(s)
  PROVE  LifeOK(t)'
<1>0. /\ UNCHANGED <<stream, call, crashes>> /\ slot[s].pc = "settlePersist" /\ TaskOf(s) = t
      /\ Writes(s) /\ stream \in Seq(Tasks) /\ Grows(stream, stream')
  BY SettlePersistDoes, SameGrows DEF counts, On, TypeOK
<1>1. /\ store[t].state = "running" /\ slot[s].env.attempts = store[t].attempts
      /\ slot[s].env.state = "queued" => slot[s].env.attempts < MaxAttempts
      /\ ~slot[s].env.delayed
  BY <1>0 DEF LifeOK, CopyOK, Runs
<1>2. HashOK(t) /\ store[t].attempts \in Nat /\ store[t].mid \in Nat
  BY HashType DEF LifeOK
<1>3. slot[s].env.state \in {"queued"} \cup Settled
  BY <1>0 DEF Judged
<1>4. /\ store'[t].state = slot[s].env.state /\ store'[t].attempts = store[t].attempts
      /\ ~store'[t].delayed
  <2>1. store'[t].attempts = slot[s].env.attempts /\ store'[t].delayed = slot[s].env.delayed
    BY <1>0, PersistsCopy DEF SettlePersist, On
  <2> QED BY <1>0, <1>1, <2>1 DEF Writes
<1>5. store[t].attempts >= 1 /\ store[t].mid # 0 /\ store'[t].mid = store[t].mid
  <2>1. store[t].attempts # 0
    BY <1>1, <1>2 DEF HashOK, Asking
  <2>2. store[t].attempts >= 1
    BY <1>2, <2>1
  <2> QED BY <1>0, <1>2, <2>2, WritesSame DEF HashOK, Asking
<1>6. Retries(t)' = Retries(t)
  BY <1>0, <1>5 DEF Retries
<1>7. Retries(t) # {} => store[t].attempts >= 2
  BY <1>1, <1>2 DEF HashOK, Asking
<1>8. call'[t].pc = "returned"
  BY <1>0, UnpublishedTask DEF On
<1>9. HashOK(t)'
  <2>1. store'[t].attempts # 0 /\ store'[t].state # "absent"
    BY <1>2, <1>3, <1>4, <1>5 DEF Settled
  <2> QED BY <1>1, <1>2, <1>4, <1>5, <1>6, <1>7, <1>8, <2>1 DEF HashOK, OneRetry, Asking
<1>10. RunOK(t)'
  BY <1>3, <1>4 DEF RunOK, Settled, Runs
<1>11. store'[t].state = "queued" => Retries(t)' = {}
  <2>1. store'[t].state = "queued" => ~(store[t].attempts >= 2)
    BY <1>1, <1>2, <1>4, MaxAttemptsAssumption DEF RetriesOnce
  <2> QED BY <1>6, <1>7, <2>1
<1>12. ASSUME On(s, t)'
       PROVE  CopyOK(s, t)'
  <2>1. PICK label \in {"settleAck", "settlePublish"} : Holding(s, label, slot[s].env)
    BY <1>12, SettlePersistCopies DEF Frees, On
  <2>2. label = "settlePublish" => slot[s].env.state = "queued"
    BY <2>1, SettlePersistDoes DEF Holding, Sends, Frees
  <2> QED BY <1>4, <1>5, <1>11, <2>1, <2>2 DEF CopyOK, Holding, Runs
<1>13. Alone(s)
  BY SettlePersistDoes DEF Sends, Keeps, Frees
<1> QED BY <1>0, <1>9, <1>10, <1>12, <1>13, LifeMoves

\* XADD from the gap: of a task that was never delivered, or its one retry.
LEMMA LifePublishes ==
  ASSUME TypeOK, TypeOK', NEW t \in Tasks, LifeOK(t), OneHand(t),
         NEW s \in Slots, On(s, t), Republish(s) \/ SettlePublish(s)
  PROVE  LifeOK(t)'
<1>0. /\ UNCHANGED <<store, call, crashes>> /\ TaskOf(s) = t
      /\ slot[s].pc \in {"republish", "settlePublish"}
      /\ stream' = Append(stream, t) /\ Alone(s) /\ slot'[s].got = 0
  BY PublishDoes DEF Frees, On, counts
<1>1. /\ Grows(stream, stream') /\ Len(stream) \in Nat /\ Len(stream') = Len(stream) + 1
  BY <1>0, AppendGrows, AppendType DEF TypeOK
<1>2. HashOK(t) /\ CopyOK(s, t) /\ store[t].attempts \in Nat
  BY HashType DEF LifeOK
<1>3. Retries(t)' # {} => store[t].state = "queued"
  BY <1>0, <1>2, NoRetries DEF CopyOK, Retries, Runs
<1>4. OneRetry(t)'
  <2>1. CASE slot[s].pc = "republish"
    BY <1>0, <1>2, <2>1 DEF CopyOK, Retries, OneRetry, Runs
  <2>2. CASE slot[s].pc = "settlePublish"
    <3>1. Retries(t) = {} /\ store[t].mid # 0
      BY <1>2, <2>2 DEF CopyOK, Runs
    <3>2. ASSUME NEW id \in Retries(t)'
          PROVE  id = Len(stream) + 1
      <4>1. id \notin 1 .. Len(stream)
        BY <1>0, <1>1, <3>1, <3>2 DEF Retries, Grows
      <4>2. id \in 1 .. Len(stream) + 1
        BY <1>1, <3>2 DEF Retries
      <4> QED BY <1>1, <4>1, <4>2
    <3> QED BY <3>2 DEF OneRetry
  <2> QED BY <1>0, <2>1, <2>2
<1>5. HashOK(t)'
  BY <1>0, <1>2, <1>3, <1>4 DEF HashOK, Asking
<1>6. RunOK(t)'
  BY <1>0, <1>1, RunStands DEF LifeOK, Runs
<1>7. ~On(s, t)'
  BY <1>0 DEF On
<1> QED BY <1>0, <1>1, <1>5, <1>6, <1>7, LifeMoves

\* A coroutine takes a message, or finds none.
LEMMA LifeTakes ==
  ASSUME TypeOK, TypeOK', NamesInv, NEW t \in Tasks, LifeOK(t),
         NEW s \in Slots, Claim(s) \/ ReadNew(s)
  PROVE  LifeOK(t)'
<1>1. /\ UNCHANGED <<stream, store, call, crashes>> /\ slot[s].got = 0 /\ Alone(s)
      /\ slot'[s].got = 0 \/ slot'[s].pc = "load"
  <2>1. slot[s].pc \in {"claim", "read"}
    BY ClaimDoes, ReadDoes
  <2>2. slot[s].got = 0
    BY <2>1 DEF NamesInv, RestsFree
  <2> QED BY <2>2, ClaimDoes, ReadDoes DEF counts, Keeps, Frees, Takes
<1>2. stream \in Seq(Tasks) /\ Grows(stream, stream')
  BY <1>1, SameGrows DEF TypeOK
<1>3. Retries(t)' = Retries(t)
  BY <1>1 DEF Retries
<1>4. HashOK(t)'
  BY <1>1, <1>3, HashStands DEF LifeOK, SameHash
<1>5. RunOK(t)'
  BY <1>1, <1>2, RunStands DEF LifeOK, On
<1>6. ASSUME NEW r \in Slots, On(r, t)'
      PROVE  CopyOK(r, t)'
  <2>1. CASE r = s
    BY <1>1, <1>6, <2>1 DEF On, CopyOK, Runs
  <2>2. CASE r # s
    <3>1. slot'[r] = slot[r] /\ On(r, t)
      BY <1>1, <1>6, <2>2 DEF Alone, On, TaskOf
    <3> QED BY <1>1, <1>3, <3>1, CopyStands DEF LifeOK, SameCopy, SameHash
  <2> QED BY <2>1, <2>2
<1> QED BY <1>4, <1>5, <1>6 DEF LifeOK

LEMMA LifeWorks ==
  ASSUME TypeOK, TypeOK', NamesInv, Judged, MidStands, RetriesOnce,
         NEW t \in Tasks, LifeOK(t), InOneHand(t), NEW s \in Slots, Work(s)
  PROVE  LifeOK(t)'
<1>1. OneHand(t)
  BY DEF InOneHand
<1>2. CASE Claim(s) \/ ReadNew(s)
  BY <1>2, LifeTakes
<1>3. CASE On(s, t) /\ ~(Claim(s) \/ ReadNew(s))
  BY <1>1, <1>3, LifeLoads, LifeHandles, LifeReloads, LifeAcks, LifeStarts, LifeSettles,
     LifePublishes DEF Work
<1>4. CASE ~On(s, t) /\ ~(Claim(s) \/ ReadNew(s))
  <2>1. /\ Alone(s) /\ UNCHANGED <<call, crashes>> /\ slot'[s].got \in {0, slot[s].got}
        /\ TaskOf(s) # t /\ slot[s].got # 0 /\ TaskOf(s) \in Tasks
    <3>1. /\ Alone(s) /\ slot'[s].got \in {0, slot[s].got}
          /\ slot[s].got # 0 /\ TaskOf(s) \in Tasks
      BY <1>4, LoadDoes, HandlerDoes, SettleLoadDoes, AckDroppedDoes, SettleAckDoes, StartDoes,
         SettlePersistDoes, PublishDoes DEF Work, Keeps, Sends, Frees
    <3> QED BY <1>4, <3>1, WorkHolds DEF On, counts
  <2>2. store'[t] = store[t]
    <3>1. CASE Start(s) \/ SettlePersist(s)
      BY <2>1, <3>1, StartDoes, SettlePersistDoes DEF Writes
    <3>2. CASE ~(Start(s) \/ SettlePersist(s))
      BY <1>4, <3>2, LoadDoes, HandlerDoes, SettleLoadDoes, AckDroppedDoes, SettleAckDoes,
         PublishDoes DEF Work, redis
    <3> QED BY <3>1, <3>2
  <2>3. SameMessages(t)
    <3>1. CASE AckDropped(s) \/ SettleAck(s)
      BY <2>1, <3>1, AckedAside, AckDroppedDoes, SettleAckDoes
    <3>2. CASE Republish(s) \/ SettlePublish(s)
      <4>1. /\ UNCHANGED <<delivered, pending>> /\ Grows(stream, stream')
            /\ Len(stream) \in Nat /\ Len(stream') = Len(stream) + 1
            /\ stream'[Len(stream) + 1] = TaskOf(s)
        <5>1. UNCHANGED <<delivered, pending>> /\ stream' = Append(stream, TaskOf(s))
          BY <3>2, PublishDoes
        <5>2. stream \in Seq(Tasks) /\ Len(stream) \in Nat
          BY DEF TypeOK
        <5> QED BY <2>1, <5>1, <5>2, AppendGrows, AppendType
      <4>2. \A id \in 1 .. Len(stream') : stream'[id] = t => id \in 1 .. Len(stream)
        BY <2>1, <4>1
      <4> QED BY <4>1, <4>2 DEF SameMessages
    <3>3. CASE \/ Load(s) \/ Start(s) \/ HandlerReturns(s) \/ HandlerRaises(s) \/ NoHandler(s)
               \/ SettleLoad(s) \/ SettlePersist(s)
      <4>1. UNCHANGED <<stream, delivered, pending>>
        BY <3>3, LoadDoes, StartDoes, HandlerDoes, SettleLoadDoes, SettlePersistDoes DEF redis
      <4> QED BY <4>1, SameAside
    <3> QED BY <1>4, <3>1, <3>2, <3>3 DEF Work
  <2> QED BY <2>1, <2>2, <2>3, LifeAside
<1> QED BY <1>2, <1>3, <1>4

-----------------------------------------------------------------------------
(* The other steps                                                         *)

LEMMA LifeEnqueues ==
  ASSUME TypeOK, TypeOK', NamesInv, NEW t \in Tasks, LifeOK(t), NEW u \in Tasks, Enqueue(u)
  PROVE  LifeOK(t)'
<1>0. /\ UNCHANGED <<delivered, pending, mids, slot, crashes>> /\ stream \in Seq(Tasks)
      /\ Len(stream) \in Nat /\ call[u].pc # "returned"
  <2>1. UNCHANGED <<delivered, pending, mids, slot, crashes>> /\ call[u].pc # "returned"
    BY EnqueueDoes DEF counts
  <2> QED BY <2>1 DEF TypeOK
<1>1. Grows(stream, stream')
  BY <1>0, EnqueueDoes, AppendGrows, SameGrows
<1>2. ASSUME NEW r \in Slots
      PROVE  On(r, t)' <=> On(r, t)
  BY <1>0, <1>1, TaskOfType DEF On, TaskOf, Grows
\* Until its first message is published nothing works on a task.
<1>3. CASE t = u
  <2>1. (\A r \in Slots : ~On(r, t)) /\ store[t].mid = 0
    BY <1>0, <1>3, UnpublishedTask DEF On
  <2>2. \A r \in Slots : ~On(r, t)'
    BY <1>2, <2>1
  <2>3. store'[t].mid = 0
    BY <1>3, <2>1, EnqueueStores
  <2>4. Retries(t)' = {} /\ OneRetry(t)'
    BY <2>3 DEF Retries, OneRetry
  <2>5. HashOK(t)'
    <3>1. CASE UNCHANGED store
      BY <1>3, <2>4, <3>1, EnqueueStores DEF LifeOK, HashOK, Asking
    <3>2. CASE /\ store'[t].state = "queued" /\ store'[t].attempts = 0
               /\ call'[t].pc = "publish"
      BY <2>3, <2>4, <3>2, MaxAttemptsAssumption DEF HashOK, Asking
    <3> QED BY <1>3, <3>1, <3>2, EnqueueStores
  <2>6. RunOK(t)'
    BY <1>0, <1>3, <2>1, EnqueueStores DEF LifeOK, RunOK, Runs
  <2> QED BY <2>2, <2>5, <2>6 DEF LifeOK
<1>4. CASE t # u
  <2>1. SameMessages(t) /\ store'[t] = store[t] /\ call'[t] = call[t]
    <3>1. CASE UNCHANGED stream
      BY <1>0, <1>4, <3>1, SameAside, EnqueueDoes DEF Calls
    <3>2. CASE UNCHANGED store /\ stream' = Append(stream, u)
      <4>1. Len(stream') = Len(stream) + 1 /\ stream'[Len(stream) + 1] = u
        BY <3>2, AppendType
      <4>2. \A id \in 1 .. Len(stream') : stream'[id] = t => id \in 1 .. Len(stream)
        BY <1>0, <1>4, <4>1
      <4> QED BY <1>0, <1>1, <1>4, <3>2, <4>2, EnqueueDoes DEF SameMessages, Calls
    <3> QED BY <3>1, <3>2, EnqueueDoes
  <2> QED BY <1>0, <1>2, <2>1, LifeStands DEF SameHash, SameCopy
<1> QED BY <1>3, <1>4

LEMMA LifeEnvironment ==
  ASSUME TypeOK, TypeOK', NamesInv, NEW t \in Tasks, LifeOK(t),
         \/ \E u \in Tasks : Elapse(u) \/ EnqueueCrash(u)
         \/ \E id \in pending : GrowStale(id)
         \/ \E p \in Procs : Batch(p) \/ Crash(p)
         \/ UNCHANGED vars
  PROVE  LifeOK(t)'
<1>1. UNCHANGED <<stream, delivered, pending>> /\ SameHash(t)
  BY ElapseDoes, ElapseCopies, EnqueueCrashDoes, BatchDoes, CrashDoes
  DEF redis, GrowStale, vars, SameHash
<1>2. SameMessages(t)
  BY <1>1, SameAside
<1>3. call'[t].pc \in Asking => call[t].pc \in Asking
  <2>1. CASE UNCHANGED call
    BY <2>1
  <2>2. ASSUME NEW u \in Tasks, EnqueueCrash(u)
        PROVE  call'[t].pc \in Asking => call[t].pc \in Asking
    BY <2>2, EnqueueCrashDoes DEF Calls, Asking
  <2> QED BY <2>1, <2>2, ElapseDoes, BatchDoes, CrashDoes DEF GrowStale, vars
<1>4. ASSUME NEW r \in Slots, slot'[r].got # 0
      PROVE  SameCopy(r) /\ slot'[r].got = slot[r].got
  BY <1>4, ElapseDoes, ElapseCopies, EnqueueCrashDoes, BatchDoes, CrashDoes
  DEF GrowStale, vars, SameCopy
<1>5. \A r \in Slots : On(r, t)' => On(r, t) /\ SameCopy(r)
  BY <1>1, <1>4 DEF On, TaskOf
\* Unless a process dies every coroutine at work stays at work.
<1>6. ASSUME crashes' = 0
      PROVE  /\ crashes = 0
             /\ \A r \in Slots : On(r, t) => On(r, t)' /\ slot'[r].pc = slot[r].pc
  <2>1. UNCHANGED crashes
    BY <1>6, ElapseDoes, EnqueueCrashDoes, BatchDoes, CrashDoes DEF counts, GrowStale, vars
  <2>2. ASSUME NEW r \in Slots, slot[r].got # 0
        PROVE  slot'[r].got = slot[r].got /\ slot'[r].pc = slot[r].pc
    <3>1. slot[r].pc # "rest"
      BY <2>2 DEF NamesInv, RestsFree
    <3> QED BY <1>6, <3>1, ElapseDoes, EnqueueCrashDoes, BatchDoes, CrashDoes DEF GrowStale, vars
  <2> QED BY <1>1, <1>6, <2>1, <2>2 DEF On, TaskOf
<1> QED BY <1>1, <1>2, <1>3, <1>5, <1>6, LifeStands

LEMMA LifeStep ==
  ASSUME TypeOK, TypeOK', NamesInv, Judged, HandsInv, RetriesOnce, LifeInv, [Next]_vars
  PROVE  LifeInv'
<1>0. overruns = 0 /\ MidStands /\ \A t \in Tasks : LifeOK(t) /\ InOneHand(t)
  BY DEF LifeInv, LifeOK, HashOK, HandsInv, Asking
<1>1. overruns' = 0
  <2>1. ASSUME NEW id \in pending, GrowStale(id)
        PROVE  overruns' = overruns
    BY <1>0, <2>1 DEF GrowStale, RetriesOnce
  <2> QED
    BY <1>0, <2>1, WorkHolds, EnqueueDoes, ElapseDoes, EnqueueCrashDoes, BatchDoes, CrashDoes
    DEF Next, counts, vars
<1>2. ASSUME NEW t \in Tasks
      PROVE  LifeOK(t)'
  <2>1. ASSUME NEW s \in Slots, Work(s)
        PROVE  LifeOK(t)'
    BY <1>0, <2>1, LifeWorks
  <2> QED BY <1>0, <2>1, LifeEnqueues, LifeEnvironment DEF Next
<1> QED BY <1>1, <1>2 DEF LifeInv

LEMMA LifeInvariance == RetriesOnce => (Spec => []LifeInv)
<1> SUFFICES ASSUME RetriesOnce PROVE Spec => []LifeInv
  OBVIOUS
<1>1. Init => LifeInv
  <2> SUFFICES ASSUME Init PROVE LifeInv
    OBVIOUS
  <2>1. overruns = 0 /\ \A s \in Slots : slot[s].got = 0
    BY DEF Init, IdleSlot, SlotAt
  <2>2. \A t \in Tasks : store[t] = NoEnvelope
    BY DEF Init
  <2>3. ASSUME NEW t \in Tasks
        PROVE  HashOK(t)
    BY <2>2, NoRetries DEF HashOK, NoEnvelope, Asking
  <2>4. \A t \in Tasks : RunOK(t)
    BY <2>2 DEF RunOK, NoEnvelope, Runs
  <2> QED BY <2>1, <2>3, <2>4 DEF LifeInv, LifeOK, On
<1>2. TypeOK /\ TypeOK' /\ NamesInv /\ KeptInv /\ HandsInv /\ LifeInv /\ [Next]_vars => LifeInv'
  BY LifeStep DEF KeptInv
<1> QED BY TypeCorrect, NamesInvariance, KeptInvariance, HandsInvariance, <1>1, <1>2, PTL DEF Spec

-----------------------------------------------------------------------------
(* Every step is one of TaskLifecycle, or a stutter                        *)

\* Of the hashes only that of t changes its state or attempts.
Rewrites(t, state, attempts) ==
  /\ store'[t].state = state /\ store'[t].attempts = attempts
  /\ \A u \in Tasks \ {t} : store'[u] = store[u]

Stutters ==
  \A t \in Tasks : store'[t].state = store[t].state /\ store'[t].attempts = store[t].attempts

\* What may happen to the hash of t; a running task is delivered again only after a crash.
Proceeds(t) ==
  \/ store[t].state = "absent" /\ Rewrites(t, "queued", store[t].attempts)
  \/ /\ store[t].state \in Live /\ Rewrites(t, "running", store[t].attempts + 1)
     /\ crashes = 0 => store[t].state = "queued" /\ store[t].attempts < MaxAttempts
  \/ /\ store[t].state = "running" /\ store[t].attempts < MaxAttempts
     /\ Rewrites(t, "queued", store[t].attempts)
  \/ /\ store[t].state = "running"
     /\ \E final \in Settled : Rewrites(t, final, store[t].attempts)

LEMMA HashSteps ==
  ASSUME TypeOK, NamesInv, Judged, HandsInv, LifeInv, [Next]_vars
  PROVE  Stutters \/ \E t \in Tasks : Proceeds(t)
<1>0. /\ \A t \in Tasks : LifeOK(t) /\ OneHand(t)
      /\ \A t \in Tasks : UNCHANGED store => Stutters
  BY DEF LifeInv, LifeOK, HashOK, HandsInv, InOneHand, Stutters, Asking
<1>1. ASSUME NEW s \in Slots, Start(s)
      PROVE  Proceeds(TaskOf(s)) /\ TaskOf(s) \in Tasks
  <2>1. /\ TaskOf(s) \in Tasks /\ slot[s].pc = "start" /\ slot[s].got # 0 /\ Writes(s)
        /\ store'[TaskOf(s)].attempts = slot[s].env.attempts
    BY <1>1, StartDoes, PersistsCopy DEF Start
  <2>2. PICK t \in Tasks : t = TaskOf(s)
    BY <2>1
  <2>3. On(s, t) /\ CopyOK(s, t)
    BY <1>0, <2>1, <2>2 DEF On, LifeOK
  <2>4. store[t].state \in Live /\ Rewrites(t, "running", store[t].attempts + 1)
    BY <2>1, <2>2, <2>3 DEF CopyOK, Writes, Rewrites, Runs
  \* Without a crash a running task is in hand, and this coroutine does not run it yet.
  <2>5. ASSUME crashes = 0
        PROVE  store[t].state = "queued" /\ store[t].attempts < MaxAttempts
    <3>1. store[t].state # "running"
      BY <1>0, <2>1, <2>3, <2>5 DEF LifeOK, RunOK, OneHand, Runs
    <3>2. store[t].state = "queued"
      BY <2>4, <3>1 DEF Live
    <3> QED BY <1>0, <3>2 DEF LifeOK, HashOK, Asking
  <2> QED BY <2>2, <2>4, <2>5 DEF Proceeds
<1>2. ASSUME NEW s \in Slots, SettlePersist(s)
      PROVE  Proceeds(TaskOf(s)) /\ TaskOf(s) \in Tasks
  <2>1. /\ TaskOf(s) \in Tasks /\ slot[s].pc = "settlePersist" /\ slot[s].got # 0 /\ Writes(s)
        /\ store'[TaskOf(s)].attempts = slot[s].env.attempts
    BY <1>2, SettlePersistDoes, PersistsCopy DEF SettlePersist
  <2>2. PICK t \in Tasks : t = TaskOf(s)
    BY <2>1
  <2>3. On(s, t) /\ CopyOK(s, t) /\ slot[s].env.state \in {"queued"} \cup Settled
    BY <1>0, <2>1, <2>2 DEF On, LifeOK, Judged
  <2>4. store[t].state = "running" /\ Rewrites(t, slot[s].env.state, store[t].attempts)
        /\ (slot[s].env.state = "queued" => store[t].attempts < MaxAttempts)
    BY <2>1, <2>2, <2>3 DEF CopyOK, Writes, Rewrites, Runs
  <2> QED BY <2>2, <2>3, <2>4 DEF Proceeds
<1>3. ASSUME NEW s \in Slots, Work(s), ~Start(s), ~SettlePersist(s)
      PROVE  UNCHANGED store
  BY <1>3, ClaimDoes, ReadDoes, LoadDoes, AckDroppedDoes, PublishDoes, HandlerDoes,
     SettleLoadDoes, SettleAckDoes DEF Work, redis
<1>4. ASSUME NEW u \in Tasks, Enqueue(u)
      PROVE  UNCHANGED store \/ Proceeds(u)
  <2> SUFFICES ASSUME call[u].pc = "persist",
                      \A t \in Tasks \ {u} : store'[t] = store[t],
                      store'[u].state = "queued", store'[u].attempts = 0
               PROVE  Proceeds(u)
    BY <1>4, EnqueueStores
  <2>1. store[u].state = "absent" /\ store[u].attempts = 0
    <3>1. HashOK(u) /\ store[u].attempts \in Nat
      BY <1>0, HashType DEF LifeOK
    <3> QED BY <3>1 DEF HashOK, Asking
  <2> QED BY <2>1 DEF Proceeds, Rewrites
<1>5. ASSUME NEW u \in Tasks, Elapse(u)
      PROVE  Stutters
  BY <1>5, ElapseCopies DEF Stutters, SameHash
<1>6. CASE \/ \E u \in Tasks : EnqueueCrash(u)
           \/ \E id \in pending : GrowStale(id)
           \/ \E p \in Procs : Batch(p) \/ Crash(p)
           \/ UNCHANGED vars
  BY <1>6, EnqueueCrashDoes, BatchDoes, CrashDoes DEF GrowStale, vars, redis, Stutters
<1>7. UNCHANGED store => Stutters
  BY DEF Stutters
<1> QED BY <1>1, <1>2, <1>3, <1>4, <1>5, <1>6, <1>7 DEF Next

\* The maps that TaskLifecycle is instantiated with.
LEMMA Rewritten ==
  ASSUME NEW t \in Tasks, NEW state, NEW attempts, Rewrites(t, state, attempts)
  PROVE  /\ StateOf' = [StateOf EXCEPT ![t] = state]
         /\ AttemptsOf' = [AttemptsOf EXCEPT ![t] = attempts]
<1>1. StateOf' = [u \in Tasks |-> IF u = t THEN state ELSE StateOf[u]]
  BY DEF StateOf, Rewrites
<1>2. AttemptsOf' = [u \in Tasks |-> IF u = t THEN attempts ELSE AttemptsOf[u]]
  BY DEF AttemptsOf, Rewrites
<1>3. /\ [StateOf EXCEPT ![t] = state] = [u \in Tasks |-> IF u = t THEN state ELSE StateOf[u]]
      /\ [AttemptsOf EXCEPT ![t] = attempts]
           = [u \in Tasks |-> IF u = t THEN attempts ELSE AttemptsOf[u]]
  BY DEF StateOf, AttemptsOf
<1> QED BY <1>1, <1>2, <1>3

LEMMA Stuttered ==
  ASSUME Stutters
  PROVE  UNCHANGED <<StateOf, AttemptsOf>>
BY DEF Stutters, StateOf, AttemptsOf

LEMMA MapsAt ==
  ASSUME NEW t \in Tasks
  PROVE  /\ [AttemptsOf EXCEPT ![t] = store[t].attempts] = AttemptsOf
         /\ StateOf[t] = store[t].state /\ AttemptsOf[t] = store[t].attempts
BY DEF AttemptsOf, StateOf

LEMMA RedeliveryStep ==
  ASSUME NEW t \in Tasks, Proceeds(t)
  PROVE  AtLeastOnce!Next
<1>1. CASE store[t].state = "absent" /\ Rewrites(t, "queued", store[t].attempts)
  <2>1. AtLeastOnce!Submit(t)
    BY <1>1, Rewritten, MapsAt DEF AtLeastOnce!Submit
  <2> QED BY <2>1 DEF AtLeastOnce!Next
<1>2. CASE store[t].state \in Live /\ Rewrites(t, "running", store[t].attempts + 1)
  <2>1. AtLeastOnce!Deliver(t)
    BY <1>2, Rewritten, MapsAt DEF AtLeastOnce!Deliver, Live
  <2> QED BY <2>1 DEF AtLeastOnce!Next
<1>3. CASE /\ store[t].state = "running" /\ store[t].attempts < MaxAttempts
           /\ Rewrites(t, "queued", store[t].attempts)
  <2>1. AtLeastOnce!Retry(t)
    BY <1>3, Rewritten, MapsAt DEF AtLeastOnce!Retry
  <2> QED BY <2>1 DEF AtLeastOnce!Next
<1>4. CASE /\ store[t].state = "running"
           /\ \E final \in Settled : Rewrites(t, final, store[t].attempts)
  <2>1. AtLeastOnce!Settle(t)
    BY <1>4, Rewritten, MapsAt DEF AtLeastOnce!Settle, AtLeastOnce!Settled, Settled
  <2> QED BY <2>1 DEF AtLeastOnce!Next
<1> QED BY <1>1, <1>2, <1>3, <1>4 DEF Proceeds

LEMMA LifecycleStep ==
  ASSUME crashes = 0, NEW t \in Tasks, Proceeds(t)
  PROVE  ExactlyOnce!Next
<1>1. CASE store[t].state = "absent" /\ Rewrites(t, "queued", store[t].attempts)
  <2>1. ExactlyOnce!Submit(t)
    BY <1>1, Rewritten, MapsAt DEF ExactlyOnce!Submit
  <2> QED BY <2>1 DEF ExactlyOnce!Next
<1>2. CASE /\ store[t].state = "queued" /\ store[t].attempts < MaxAttempts
           /\ Rewrites(t, "running", store[t].attempts + 1)
  <2>1. ExactlyOnce!Deliver(t)
    BY <1>2, Rewritten, MapsAt DEF ExactlyOnce!Deliver
  <2> QED BY <2>1 DEF ExactlyOnce!Next
<1>3. CASE /\ store[t].state = "running" /\ store[t].attempts < MaxAttempts
           /\ Rewrites(t, "queued", store[t].attempts)
  <2>1. ExactlyOnce!Retry(t)
    BY <1>3, Rewritten, MapsAt DEF ExactlyOnce!Retry
  <2> QED BY <2>1 DEF ExactlyOnce!Next
<1>4. CASE /\ store[t].state = "running"
           /\ \E final \in Settled : Rewrites(t, final, store[t].attempts)
  <2>1. ExactlyOnce!Settle(t)
    BY <1>4, Rewritten, MapsAt DEF ExactlyOnce!Settle, ExactlyOnce!Settled, Settled
  <2> QED BY <2>1 DEF ExactlyOnce!Next
<1> QED BY <1>1, <1>2, <1>3, <1>4 DEF Proceeds

AllLive == crashes = 0

LEMMA NoCrashes == MaxCrashes = 0 => (Spec => []AllLive)
<1> SUFFICES ASSUME MaxCrashes = 0 PROVE Spec => []AllLive
  OBVIOUS
<1>1. Init => AllLive
  BY DEF Init, AllLive
<1>2. TypeOK /\ AllLive /\ [Next]_vars => AllLive'
  <2> SUFFICES ASSUME TypeOK, crashes = 0, [Next]_vars PROVE crashes' = 0
    BY DEF AllLive
  <2>1. /\ \A p \in Procs : ~Crash(p)
        /\ \A t \in Tasks : ~EnqueueCrash(t)
    BY DEF Crash, EnqueueCrash
  <2> QED BY <2>1, WorkHolds, EnqueueDoes, ElapseDoes, BatchDoes DEF Next, counts, GrowStale, vars
<1> QED BY TypeCorrect, <1>1, <1>2, PTL DEF Spec

\* With two attempts, no overrun and no backoff a task goes through the states of
\* TaskLifecycle, whatever crashes: it is delivered again, retried below max_attempts only,
\* and settled once.
THEOREM TasksFollowRedelivery ==
  ASSUME RetriesOnce
  PROVE  Spec => ImplementsRedelivery
<1>1. Init => AtLeastOnce!Init
  BY DEF Init, NoEnvelope, StateOf, AttemptsOf, AtLeastOnce!Init
<1>2. TypeOK /\ NamesInv /\ KeptInv /\ HandsInv /\ LifeInv /\ [Next]_vars
        => [AtLeastOnce!Next]_(AtLeastOnce!vars)
  BY HashSteps, RedeliveryStep, Stuttered DEF KeptInv, AtLeastOnce!vars
<1>3. Spec => []LifeInv
  BY LifeInvariance
<1> QED
  BY TypeCorrect, NamesInvariance, KeptInvariance, HandsInvariance, <1>1, <1>2, <1>3, PTL
  DEF Spec, ImplementsRedelivery, AtLeastOnce!Spec

\* And when no process dies no task is delivered while it runs, nor more than max_attempts
\* times.
THEOREM TasksFollowLifecycle ==
  ASSUME RetriesOnce, MaxCrashes = 0
  PROVE  Spec => ImplementsLifecycle
<1>1. Init => ExactlyOnce!Init
  BY DEF Init, NoEnvelope, StateOf, AttemptsOf, ExactlyOnce!Init
<1>2. TypeOK /\ NamesInv /\ KeptInv /\ HandsInv /\ LifeInv /\ AllLive /\ [Next]_vars
        => [ExactlyOnce!Next]_(ExactlyOnce!vars)
  BY HashSteps, LifecycleStep, Stuttered DEF KeptInv, AllLive, ExactlyOnce!vars
<1>3. Spec => [](LifeInv /\ AllLive)
  BY LifeInvariance, NoCrashes, PTL
<1> QED
  BY TypeCorrect, NamesInvariance, KeptInvariance, HandsInvariance, <1>1, <1>2, <1>3, PTL
  DEF Spec, ImplementsLifecycle, ExactlyOnce!Spec


\* docs/plugins.md:1526 is right of the same queues: a task is delivered max_attempts times at
\* most.  A third attempt, a delay, a late handler or a crash may break it.
THEOREM DeliveriesWithinMax ==
  ASSUME RetriesOnce, MaxCrashes = 0
  PROVE  Spec => []AttemptsWithinMax
<1>1. Init => AttemptsWithinMax
  BY MaxAttemptsAssumption DEF Init, NoEnvelope, AttemptsWithinMax
<1>2. TypeOK /\ NamesInv /\ KeptInv /\ HandsInv /\ LifeInv /\ AllLive /\ AttemptsWithinMax
        /\ [Next]_vars => AttemptsWithinMax'
  <2> SUFFICES ASSUME TypeOK, NamesInv, KeptInv, HandsInv, LifeInv, AllLive, AttemptsWithinMax,
                      [Next]_vars, NEW u \in Tasks
               PROVE  store'[u].attempts <= MaxAttempts
    BY DEF AttemptsWithinMax
  <2>1. store[u].attempts \in Nat /\ store[u].attempts <= MaxAttempts
    BY HashType DEF AttemptsWithinMax
  <2>2. CASE Stutters
    BY <2>1, <2>2 DEF Stutters
  <2>3. ASSUME NEW t \in Tasks, Proceeds(t), u # t
        PROVE  store'[u].attempts <= MaxAttempts
    BY <2>1, <2>3 DEF Proceeds, Rewrites
  <2>4. ASSUME Proceeds(u)
        PROVE  store'[u].attempts <= MaxAttempts
    <3>1. \/ store'[u].attempts = store[u].attempts
          \/ store'[u].attempts = store[u].attempts + 1 /\ store[u].attempts < MaxAttempts
      BY <2>4 DEF Proceeds, Rewrites, AllLive
    <3> QED BY <2>1, <3>1, MaxAttemptsAssumption
  <2> QED BY <2>2, <2>3, <2>4, HashSteps DEF KeptInv
<1>3. Spec => [](LifeInv /\ AllLive)
  BY LifeInvariance, NoCrashes, PTL
<1> QED
  BY TypeCorrect, NamesInvariance, KeptInvariance, HandsInvariance, <1>1, <1>2, <1>3, PTL
  DEF Spec
=============================================================================
