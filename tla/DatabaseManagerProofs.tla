----------------------- MODULE DatabaseManagerProofs -----------------------
(***************************************************************************)
(* The database manager, for any number of coroutines and calls: in every  *)
(* deployment close() finds the Redis clients that are live, and how far   *)
(* the thread lock is safe; in an application, and for threads that share  *)
(* the clients, the pools and clients are those that the manager can use   *)
(* and close.                                                              *)
(***************************************************************************)
EXTENDS DatabaseManager, TLAPS

\* Threads, with a loop and one coroutine each, that share the Redis clients of a manager.
Threads ==
  /\ \A c, d \in Callers : LoopOf[c] = LoopOf[d] => c = d
  /\ \A c \in Callers : Does[c] \subseteq {"get", "close"}

\* A client that a coroutine has closed is not live and never will be; a loop that pings has
\* no client.
ClosedAreDead ==
  /\ \A c \in Callers : caller[c].copy \in [Loops -> 0 .. made]
  /\ \A c \in Callers : \A l \in caller[c].shut : caller[c].copy[l] \notin live
  /\ \A c \in Callers :
       caller[c].shut # {} => caller[c].pc \in {"closingClient", "popRedis", "closed"}
  /\ \A c \in Callers : caller[c].pc = "ping" => clients[LoopOf[c]] = 0

\* The coroutine that has the turn of a loop is one of that loop.
OwnTurns == \A l \in Loops : turn[l] # None => LoopOf[turn[l]] = l

NeverCloseFails == failed \cap CloseFailures = {}

\* The coroutine that has _init_lock and has made the pool.
HasPool(c) == initLock = c /\ caller[c].pc \in {"probe", "get", "getLock", "ping"}

InitLabels == {"init", "initWait", "initLocked", "createPool", "probe", "get", "getLock", "ping"}
CloseLabels == {"close", "closingPool", "closeRedis", "closingClient", "popRedis", "closed"}

\* What a coroutine is at, in every deployment: nobody has _init_lock while the manager is
\* initialized, but one that is about to find that out.
Initializer(c) ==
  /\ initLock = c => caller[c].pc \in InitLabels \ {"init", "initWait"}
  /\ initLock = c /\ initialized => caller[c].pc = "initLocked"
  /\ caller[c].pc \in CloseLabels => caller[c].op = "close"

\* While initialize() makes the client of a loop, only coroutines that do not initialize()
\* first are at get_redis_client() there.
MakesFirst(c, d) ==
  c # d /\ LoopOf[c] = LoopOf[d] /\ initLock = d /\ redisLock = d
    => (caller[c].pc \in {"get", "getLock"} => caller[c].op = "get")

InitializersFirst == \A c, d \in Callers : Initializer(c) /\ MakesFirst(c, d)

\* What a coroutine is at, in the application.
Role(c) ==
  /\ caller[c].pc \in InitLabels => caller[c].op \in {"initialize", "use"}
  /\ caller[c].pc \in CloseLabels => caller[c].op = "close"
  /\ caller[c].pc = "idle" => caller[c] = AtRest
  /\ caller[c].op = "close" => "close" \in Does[c]
  /\ initLock = c => caller[c].pc \in InitLabels \ {"init", "initWait"}
  /\ initLock = c /\ initialized => caller[c].pc = "initLocked"
  /\ caller[c].error => ~NeverCloseFails

Roles == \A c \in Callers : Role(c)

\* What a coroutine knows of the client of its loop.
ClientRole(c) ==
  LET client == clients[LoopOf[c]] IN
  /\ caller[c].pc \in {"get", "getLock"} => initLock = c \/ client # 0
  /\ caller[c].pc = "ping" => initLock = c
  /\ caller[c].pc \in {"closingClient", "popRedis"} =>
       /\ client # 0 /\ caller[c].copy = clients
       /\ caller[c].todo \cup caller[c].shut = Loops
  /\ caller[c].pc = "popRedis" => caller[c].todo = {}
  /\ caller[c].pc = "closed" => client = 0

\* A loop has a client exactly while the manager is initialized.
ClientsWhileInitialized ==
  NeverCloseFails => \A c \in Callers :
    /\ ClientRole(c)
    /\ clients[LoopOf[c]] # 0 => initialized
    /\ initialized /\ clients[LoopOf[c]] = 0 => \E d \in Callers : caller[d].pc = "closed"

OnlyCreateFails == NeverCloseFails /\ failed \cap {"probe", "ping"} = {} /\ cancels = 0

\* What a coroutine that closes knows of the pool.
PoolRole(c) ==
  /\ caller[c].pc = "closingPool" => caller[c].target = pool /\ pool # 0
  /\ caller[c].pc \in {"closingClient", "popRedis"} => open = {}
  /\ caller[c].pc \in {"closeRedis", "closed"} => open = {} \/ \E d \in Callers : HasPool(d)

\* There is a pool only while somebody makes it, uses it or closes it.
PoolsAreOurs ==
  OnlyCreateFails =>
    /\ pool = 0 => open = {}
    /\ pool # 0 => open = {pool}
    /\ ~initialized /\ (\A c \in Callers : ~HasPool(c)) => open = {}
    /\ \A c \in Callers : PoolRole(c)

NobodyInterferes == NeverCloseFails /\ cancels = 0 /\ ~overlapped

\* Nobody closes what is being made, as long as no close() has run beside initialize().
UsableUnlessClosed ==
  /\ Overlap => overlapped
  /\ NobodyInterferes =>
       /\ \A c \in Callers : HasPool(c) => pool \in open
       /\ initialized /\ (\A c \in Callers : ~Closing(c)) => pool \in open /\ live # {}

AppInv == Roles /\ ClientsWhileInitialized /\ PoolsAreOurs /\ UsableUnlessClosed

\* Threads that only share the clients make no pool.
NeverInitialized ==
  /\ pool = 0 /\ open = {} /\ ~initialized /\ initLock = None
  /\ \A c \in Callers : caller[c].pc \notin {"init", "initWait", "initLocked", "createPool", "probe"}
  /\ \A c \in Callers : caller[c].op \in {"get", "close"}

IInv ==
  /\ TypeOK /\ OwnTurns /\ ClosedAreDead /\ ClientsReachable /\ InitializersFirst
  /\ Application => AppInv
  /\ Threads => NeverInitialized

-----------------------------------------------------------------------------
(* Types.                                                                  *)

\* Every initial state has the types.
LEMMA InitTyped == Init => TypeOK
<1> SUFFICES ASSUME Init PROVE TypeOK
  OBVIOUS
<1>1. AtRest \in CallerState
  BY DEF AtRest, CallerState, NoClients, Operations
<1>2. calls \in 0 .. MaxCalls /\ cancels \in 0 .. MaxCancels /\ made \in Nat
  BY BoundsAssumption DEF Init
<1>3. \A c \in Callers : caller[c].pc = "idle" /\ turn[LoopOf[c]] # c
  BY LoopsAssumption, NoneAssumption DEF Init, AtRest
<1>4. pool \in 0 .. made /\ clients \in [Loops -> 0 .. made] /\ open = {} /\ live = {}
  BY DEF Init, NoClients
<1> QED
  BY <1>1, <1>2, <1>3, <1>4, NoneAssumption DEF Init, TypeOK, Running

-----------------------------------------------------------------------------
(* What a step does to the coroutine that takes it, and to nothing else.   *)

\* The turn of a loop is that of the coroutine, or nobody's.
Has(c) == turn'[LoopOf[c]] = c
Gives(c) == turn'[LoopOf[c]] = None

Others(c) ==
  /\ caller' \in [Callers -> CallerState] /\ turn' \in [Loops -> Callers \cup {None}]
  /\ \A d \in Callers : d # c => caller'[d] = caller[d]
  /\ \A l \in Loops : l # LoopOf[c] => turn'[l] = turn[l]

\* The coroutine goes on to a label with what it knows.
Keeps(c) ==
  /\ caller'[c].op = caller[c].op /\ caller'[c].target = caller[c].target
  /\ caller'[c].copy = caller[c].copy /\ caller'[c].todo = caller[c].todo
  /\ caller'[c].shut = caller[c].shut /\ caller'[c].error = caller[c].error

Moves(c, label) == Others(c) /\ Keeps(c) /\ caller'[c].pc = label

Ends(c) == Others(c) /\ Gives(c) /\ caller'[c] = AtRest

LEMMA Going ==
  ASSUME TypeOK, NEW c \in Callers, NEW label \in {"idle"} \cup Waiting \cup Running
  PROVE  /\ Goes(c, label) => Moves(c, label) /\ Has(c)
         /\ Awaits(c, label) => Moves(c, label) /\ Gives(c)
         /\ Returns(c) => Ends(c)
<1> DEFINE new == [caller[c] EXCEPT !.pc = label]
<1>1. /\ caller \in [Callers -> CallerState] /\ caller[c] \in CallerState
      /\ turn \in [Loops -> Callers \cup {None}] /\ LoopOf[c] \in Loops
  BY LoopsAssumption DEF TypeOK
<1>2. /\ new \in CallerState /\ new.pc = label
      /\ new.op = caller[c].op /\ new.target = caller[c].target
      /\ new.copy = caller[c].copy /\ new.todo = caller[c].todo
      /\ new.shut = caller[c].shut /\ new.error = caller[c].error
  BY <1>1 DEF CallerState
<1>3. AtRest \in CallerState
  BY DEF AtRest, CallerState, NoClients, Operations
<1> HIDE DEF new
<1>4. ASSUME caller' = [caller EXCEPT ![c] = new]
      PROVE  /\ caller' \in [Callers -> CallerState] /\ caller'[c] = new
             /\ \A d \in Callers : d # c => caller'[d] = caller[d]
  BY <1>1, <1>2, <1>4
<1>5. ASSUME NEW t \in Callers \cup {None}, turn' = [turn EXCEPT ![LoopOf[c]] = t]
      PROVE  /\ turn' \in [Loops -> Callers \cup {None}] /\ turn'[LoopOf[c]] = t
             /\ \A l \in Loops : l # LoopOf[c] => turn'[l] = turn[l]
  BY <1>1, <1>5
<1>6. ASSUME caller' = [caller EXCEPT ![c] = AtRest]
      PROVE  /\ caller' \in [Callers -> CallerState] /\ caller'[c] = AtRest
             /\ \A d \in Callers : d # c => caller'[d] = caller[d]
  BY <1>1, <1>3, <1>6
<1>7. [caller EXCEPT ![c].pc = label] = [caller EXCEPT ![c] = new]
  BY <1>1 DEF new
<1>8. ASSUME Goes(c, label) PROVE Moves(c, label) /\ Has(c)
  BY <1>2, <1>4, <1>5, <1>7, <1>8 DEF Goes, Moves, Others, Keeps, Has
<1>9. ASSUME Awaits(c, label) PROVE Moves(c, label) /\ Gives(c)
  BY <1>2, <1>4, <1>5, <1>7, <1>9 DEF Awaits, Moves, Others, Keeps, Gives
<1>10. ASSUME Returns(c) PROVE Ends(c)
  BY <1>5, <1>6, <1>10 DEF Returns, Ends, Others, Gives
<1> QED
  BY <1>8, <1>9, <1>10

\* The parts of TypeOK: the resources, and the coroutines with their locks.
Data ==
  /\ pool \in 0 .. made /\ open \subseteq 1 .. made
  /\ clients \in [Loops -> 0 .. made] /\ live \subseteq 1 .. made
  /\ initialized \in BOOLEAN
  /\ failed \subseteq Failures /\ overlapped \in BOOLEAN
  /\ made \in Nat /\ calls \in 0 .. MaxCalls /\ cancels \in 0 .. MaxCancels

Control ==
  /\ initLock \in Callers \cup {None} /\ redisLock \in Callers \cup {None}
  /\ initLoop \in Loops \cup {None}
  /\ turn \in [Loops -> Callers \cup {None}]
  /\ caller \in [Callers -> CallerState]
  /\ \A c \in Callers : caller[c].pc \in Running <=> turn[LoopOf[c]] = c
  /\ \A c \in Callers : caller[c].pc \in {"initLocked", "createPool", "probe"} => initLock = c
  /\ \A c \in Callers : caller[c].pc = "ping" <=> redisLock = c

LEMMA TypeParts ==
  /\ TypeOK => Data /\ Control
  /\ Data' /\ Control' => TypeOK'
BY DEF TypeOK, Data, Control

\* One coroutine moves, and its lock moves with it.
LEMMA ControlKept ==
  ASSUME Control, NEW c \in Callers, Others(c), turn[LoopOf[c]] \in {c, None},
         \/ caller'[c].pc \in Running /\ Has(c)
         \/ caller'[c].pc \notin Running /\ Gives(c),
         initLoop' \in Loops \cup {None},
         initLock' \in {initLock, c, None},
         initLock' # initLock => initLock \in {c, None},
         caller'[c].pc \in {"initLocked", "createPool", "probe"} => initLock' = c,
         redisLock' \in {redisLock, c, None},
         redisLock' # redisLock => redisLock \in {c, None},
         caller'[c].pc = "ping" <=> redisLock' = c
  PROVE  Control'
<1>1. /\ caller' \in [Callers -> CallerState] /\ turn' \in [Loops -> Callers \cup {None}]
      /\ \A d \in Callers : d # c => caller'[d] = caller[d]
      /\ \A l \in Loops : l # LoopOf[c] => turn'[l] = turn[l]
  BY DEF Others
<1>2. \A d \in Callers : LoopOf[d] \in Loops
  BY LoopsAssumption
<1>3. \A d \in Callers : d # None
  BY NoneAssumption
<1>4. initLock' \in Callers \cup {None} /\ redisLock' \in Callers \cup {None}
  BY DEF Control
<1>5. ASSUME NEW d \in Callers PROVE caller'[d].pc \in Running <=> turn'[LoopOf[d]] = d
  <2>1. CASE d = c
    BY <2>1, <1>3 DEF Has, Gives
  <2>2. CASE d # c /\ LoopOf[d] = LoopOf[c]
    BY <2>2, <1>1, <1>3 DEF Control, Has, Gives
  <2>3. CASE d # c /\ LoopOf[d] # LoopOf[c]
    BY <2>3, <1>1, <1>2 DEF Control
  <2> QED
    BY <2>1, <2>2, <2>3
<1>6. ASSUME NEW d \in Callers
      PROVE  /\ caller'[d].pc \in {"initLocked", "createPool", "probe"} => initLock' = d
             /\ caller'[d].pc = "ping" <=> redisLock' = d
  <2>1. CASE d = c
    BY <2>1
  <2>2. CASE d # c
    BY <2>2, <1>1, <1>3 DEF Control
  <2> QED
    BY <2>1, <2>2
<1> QED
  BY <1>1, <1>4, <1>5, <1>6 DEF Control

-----------------------------------------------------------------------------
(* The effect of each step.                                                *)

\* A call of an operation.
LEMMA CallMoves ==
  ASSUME TypeOK, NEW c \in Callers, NEW op \in Operations, Call(c, op)
  PROVE  /\ Others(c) /\ Has(c) /\ turn[LoopOf[c]] = None
         /\ caller[c].pc = "idle" /\ op \in Does[c]
         /\ caller'[c].op = op
         /\ caller'[c].pc = IF op \in {"initialize", "use"} THEN "init" ELSE op
         /\ caller'[c].target = caller[c].target /\ caller'[c].copy = caller[c].copy
         /\ caller'[c].todo = caller[c].todo /\ caller'[c].shut = caller[c].shut
         /\ caller'[c].error = caller[c].error
<1> DEFINE label == IF op \in {"initialize", "use"} THEN "init" ELSE op
           new == [caller[c] EXCEPT !.op = op, !.pc = label]
<1>1. /\ caller \in [Callers -> CallerState] /\ caller[c] \in CallerState
      /\ turn \in [Loops -> Callers \cup {None}] /\ LoopOf[c] \in Loops
  BY LoopsAssumption DEF TypeOK
<1>2. label \in Running
  BY DEF Operations, Running
<1> HIDE DEF label
<1>3. /\ new \in CallerState /\ new.pc = label /\ new.op = op
      /\ new.target = caller[c].target /\ new.copy = caller[c].copy
      /\ new.todo = caller[c].todo /\ new.shut = caller[c].shut /\ new.error = caller[c].error
  BY <1>1, <1>2 DEF CallerState
<1>4. caller' = [caller EXCEPT ![c] = new] /\ turn' = [turn EXCEPT ![LoopOf[c]] = c]
  BY <1>1 DEF Call, label
<1> HIDE DEF new
<1>5. Others(c) /\ Has(c) /\ caller'[c] = new
  BY <1>1, <1>3, <1>4 DEF Others, Has
<1> QED
  BY <1>3, <1>5 DEF Call, Resumes, label

\* close() finds a pool and awaits that it closes.
LEMMA CloseMoves ==
  ASSUME TypeOK, NEW c \in Callers, Close(c), pool # 0
  PROVE  /\ Others(c) /\ Gives(c)
         /\ caller'[c].op = caller[c].op /\ caller'[c].pc = "closingPool"
         /\ caller'[c].target = pool /\ caller'[c].copy = caller[c].copy
         /\ caller'[c].todo = caller[c].todo /\ caller'[c].shut = caller[c].shut
         /\ caller'[c].error = caller[c].error
<1> DEFINE new == [caller[c] EXCEPT !.pc = "closingPool", !.target = pool]
<1>1. /\ caller \in [Callers -> CallerState] /\ caller[c] \in CallerState
      /\ turn \in [Loops -> Callers \cup {None}] /\ LoopOf[c] \in Loops
      /\ pool \in Nat
  BY LoopsAssumption DEF TypeOK
<1>3. /\ new \in CallerState /\ new.pc = "closingPool" /\ new.op = caller[c].op
      /\ new.target = pool /\ new.copy = caller[c].copy
      /\ new.todo = caller[c].todo /\ new.shut = caller[c].shut /\ new.error = caller[c].error
  BY <1>1 DEF CallerState, Waiting
<1>4. caller' = [caller EXCEPT ![c] = new] /\ turn' = [turn EXCEPT ![LoopOf[c]] = None]
  BY <1>1 DEF Close
<1> HIDE DEF new
<1>5. Others(c) /\ Gives(c) /\ caller'[c] = new
  BY <1>1, <1>3, <1>4 DEF Others, Gives
<1> QED
  BY <1>3, <1>5

\* A pool could not be closed: close() remembers the error and goes on.
LEMMA PoolCloseFailsMoves ==
  ASSUME TypeOK, NEW c \in Callers, PoolCloseFails(c)
  PROVE  /\ Others(c) /\ Has(c)
         /\ caller'[c].op = caller[c].op /\ caller'[c].pc = "closeRedis"
         /\ caller'[c].target = caller[c].target /\ caller'[c].copy = caller[c].copy
         /\ caller'[c].todo = caller[c].todo /\ caller'[c].shut = caller[c].shut
         /\ caller'[c].error
<1> DEFINE new == [caller[c] EXCEPT !.pc = "closeRedis", !.error = TRUE]
<1>1. /\ caller \in [Callers -> CallerState] /\ caller[c] \in CallerState
      /\ turn \in [Loops -> Callers \cup {None}] /\ LoopOf[c] \in Loops
  BY LoopsAssumption DEF TypeOK
<1>3. /\ new \in CallerState /\ new.pc = "closeRedis" /\ new.op = caller[c].op
      /\ new.target = caller[c].target /\ new.copy = caller[c].copy
      /\ new.todo = caller[c].todo /\ new.shut = caller[c].shut /\ new.error
  BY <1>1 DEF CallerState, Running
<1>4. caller' = [caller EXCEPT ![c] = new] /\ turn' = [turn EXCEPT ![LoopOf[c]] = c]
  BY <1>1 DEF PoolCloseFails
<1> HIDE DEF new
<1>5. Others(c) /\ Has(c) /\ caller'[c] = new
  BY <1>1, <1>3, <1>4 DEF Others, Has
<1> QED
  BY <1>3, <1>5

\* close() copies the clients and awaits that they close.
LEMMA CloseRedisMoves ==
  ASSUME TypeOK, NEW c \in Callers, CloseRedis(c), clients # NoClients
  PROVE  /\ Others(c) /\ Gives(c) /\ redisLock = None
         /\ caller'[c].op = caller[c].op /\ caller'[c].pc = "closingClient"
         /\ caller'[c].target = caller[c].target /\ caller'[c].copy = clients
         /\ caller'[c].todo = {l \in Loops : clients[l] # 0}
         /\ caller'[c].shut = caller[c].shut
         /\ caller'[c].error = caller[c].error
<1> DEFINE left == {l \in Loops : clients[l] # 0}
           new == [caller[c] EXCEPT !.pc = "closingClient", !.copy = clients, !.todo = left]
<1>1. /\ caller \in [Callers -> CallerState] /\ caller[c] \in CallerState
      /\ turn \in [Loops -> Callers \cup {None}] /\ LoopOf[c] \in Loops
      /\ clients \in [Loops -> Nat]
  BY LoopsAssumption DEF TypeOK
<1>2. left \in SUBSET Loops
  OBVIOUS
<1>4. /\ caller' = [caller EXCEPT ![c] = new] /\ turn' = [turn EXCEPT ![LoopOf[c]] = None]
      /\ redisLock = None
  BY <1>1 DEF CloseRedis
<1> HIDE DEF left
<1>3. /\ new \in CallerState /\ new.pc = "closingClient" /\ new.op = caller[c].op
      /\ new.target = caller[c].target /\ new.copy = clients
      /\ new.todo = left /\ new.shut = caller[c].shut /\ new.error = caller[c].error
  BY <1>1, <1>2 DEF CallerState, Waiting
<1> HIDE DEF new
<1>5. Others(c) /\ Gives(c) /\ caller'[c] = new
  BY <1>1, <1>3, <1>4 DEF Others, Gives
<1> QED
  BY <1>3, <1>4, <1>5 DEF left

\* One client is done with: the last one gives close() its turn again.
LEMMA ClientMoves ==
  ASSUME TypeOK, NEW c \in Callers, Resumes(c, "closingClient"), NEW l \in Loops,
         NEW done \in SUBSET Loops, NEW error \in BOOLEAN, ClientDone(c, l, done, error)
  PROVE  /\ Others(c) /\ l \in caller[c].todo
         /\ \/ caller'[c].pc = "popRedis" /\ caller'[c].todo = {} /\ Has(c)
            \/ caller'[c].pc = "closingClient" /\ Gives(c)
         /\ caller'[c].todo = caller[c].todo \ {l}
         /\ caller'[c].op = caller[c].op /\ caller'[c].target = caller[c].target
         /\ caller'[c].copy = caller[c].copy /\ caller'[c].shut = caller[c].shut \cup done
         /\ caller'[c].error = (caller[c].error \/ error)
<1> DEFINE left == caller[c].todo \ {l}
           label == IF left = {} THEN "popRedis" ELSE "closingClient"
           new == [caller[c] EXCEPT !.pc = label, !.todo = left, !.shut = @ \cup done,
                                    !.error = @ \/ error]
<1>1. /\ caller \in [Callers -> CallerState] /\ caller[c] \in CallerState
      /\ turn \in [Loops -> Callers \cup {None}] /\ LoopOf[c] \in Loops
      /\ turn[LoopOf[c]] = None /\ caller[c].pc = "closingClient"
  BY LoopsAssumption DEF TypeOK, Resumes
<1>2. left \in SUBSET Loops /\ label \in {"popRedis", "closingClient"}
  BY <1>1 DEF CallerState
<1>4. /\ caller' = [caller EXCEPT ![c] = new] /\ l \in caller[c].todo
      /\ turn' = IF left = {} THEN [turn EXCEPT ![LoopOf[c]] = c] ELSE turn
  BY <1>1 DEF ClientDone
<1>6. \/ left = {} /\ label = "popRedis"
      \/ left # {} /\ label = "closingClient"
  OBVIOUS
<1> HIDE DEF left, label
<1>3. /\ new \in CallerState /\ new.pc = label /\ new.op = caller[c].op
      /\ new.target = caller[c].target /\ new.copy = caller[c].copy
      /\ new.todo = left /\ new.shut = caller[c].shut \cup done
      /\ new.error = (caller[c].error \/ error)
  BY <1>1, <1>2 DEF CallerState, Waiting, Running
<1> HIDE DEF new
<1>5. Others(c) /\ caller'[c] = new
  BY <1>1, <1>3, <1>4, <1>6 DEF Others
<1>7. \/ left = {} /\ Has(c)
      \/ left # {} /\ Gives(c)
  BY <1>1, <1>4, <1>6 DEF Has, Gives
<1> QED
  BY <1>3, <1>4, <1>5, <1>6, <1>7 DEF left

\* Every step leaves each coroutine at a label of its own, with the turn and the locks it has.
LEMMA StepControl ==
  ASSUME TypeOK, NEW c \in Callers, Step(c)
  PROVE  Control'
<1> DEFINE Labels == {"idle"} \cup Waiting \cup Running
<1>1. Control /\ Data
  BY TypeParts
<1>2. /\ \A label \in Labels : Goes(c, label) => Moves(c, label) /\ Has(c)
      /\ \A label \in Labels : Awaits(c, label) => Moves(c, label) /\ Gives(c)
      /\ Returns(c) => Ends(c)
  BY Going
<1>3. /\ caller[c].pc \in {"initLocked", "createPool", "probe"} => initLock = c
      /\ caller[c].pc = "ping" <=> redisLock = c
      /\ LoopOf[c] \in Loops /\ c # None
  BY <1>1, LoopsAssumption, NoneAssumption DEF Control
<1>4. initLoop \in Loops \cup {None}
  BY <1>1 DEF Control
<1>5. AfterInit(c) => \/ Moves(c, "get") /\ Has(c)
                      \/ Ends(c)
  BY <1>2 DEF AfterInit, Running
<1> USE <1>1, <1>2, <1>3, <1>4, <1>5 DEF Labels, Waiting, Running
<1>6. CASE InitCheck(c)
  BY <1>6, ControlKept DEF InitCheck, Runs, Moves, Ends, AtRest, resources, locks
<1>7. CASE InitAcquire(c)
  BY <1>7, ControlKept DEF InitAcquire, Resumes, Moves, Ends, AtRest
<1>8. CASE InitLocked(c)
  BY <1>8, ControlKept DEF InitLocked, Runs, Moves, Ends, AtRest
<1>9. CASE PoolCreated(c)
  BY <1>9, ControlKept DEF PoolCreated, Resumes, Moves, Ends, AtRest, locks
<1>10. CASE Probed(c)
  BY <1>10, ControlKept DEF Probed, Resumes, Moves, Ends, AtRest, locks
<1>11. CASE InitFails(c)
  BY <1>11, ControlKept DEF InitFails, Resumes, Moves, Ends, AtRest
<1>12. CASE Get(c)
  BY <1>12, ControlKept DEF Get, Got, Runs, Moves, Ends, AtRest
<1>13. CASE GetLock(c)
  BY <1>13, ControlKept DEF GetLock, Got, Runs, Moves, Ends, AtRest
<1>14. CASE Pinged(c)
  BY <1>14, ControlKept DEF Pinged, Got, Resumes, Moves, Ends, AtRest
<1>15. CASE PingFails(c)
  BY <1>15, ControlKept DEF PingFails, Resumes, Moves, Ends, AtRest
<1>16. CASE Close(c)
  BY <1>16, ControlKept, CloseMoves DEF Close, Runs, Moves, Ends, AtRest, locks
<1>17. CASE PoolClosed(c)
  BY <1>17, ControlKept DEF PoolClosed, Resumes, Moves, Ends, AtRest, locks
<1>18. CASE PoolCloseFails(c)
  BY <1>18, ControlKept, PoolCloseFailsMoves DEF PoolCloseFails, Resumes, Moves, Ends, AtRest, locks
<1>19. CASE CloseRedis(c)
  <2>1. CASE clients = NoClients
    BY <1>19, <2>1, ControlKept DEF CloseRedis, Runs, Moves, locks
  <2>2. CASE clients # NoClients
    <3>1. /\ Others(c) /\ Gives(c) /\ caller'[c].pc = "closingClient"
      BY <1>19, <2>2, CloseRedisMoves
    <3>2. turn[LoopOf[c]] = c /\ caller[c].pc = "closeRedis" /\ UNCHANGED locks
      BY <1>19 DEF CloseRedis, Runs
    <3> QED
      BY <3>1, <3>2, ControlKept DEF locks
  <2> QED
    BY <2>1, <2>2
<1>20. CASE ClientClosed(c)
  BY <1>20, ControlKept, ClientMoves DEF ClientClosed, Resumes, Moves, Ends, AtRest, locks
<1>21. CASE ClientCloseFails(c)
  BY <1>21, ControlKept, ClientMoves DEF ClientCloseFails, Resumes, Moves, Ends, AtRest, locks
<1>22. CASE PopRedis(c)
  BY <1>22, ControlKept DEF PopRedis, Runs, Moves, Ends, AtRest, locks
<1>23. CASE Closed(c)
  BY <1>23, ControlKept DEF Closed, Runs, Moves, Ends, AtRest, locks
<1> QED
  BY <1>6, <1>7, <1>8, <1>9, <1>10, <1>11, <1>12, <1>13, <1>14, <1>15, <1>16, <1>17, <1>18,
     <1>19, <1>20, <1>21, <1>22, <1>23 DEF Step

\* The resources and counters that no step below makes keep their types.
LEMMA DataKept ==
  ASSUME Data,
         made' = made, calls' = calls, cancels' = cancels,
         pool' \in {pool, 0}, open' \subseteq open, live' \subseteq live,
         clients' \in [Loops -> 0 .. made], initialized' \in BOOLEAN,
         failed' \subseteq Failures, overlapped' \in BOOLEAN
  PROVE  Data'
<1>1. /\ pool \in 0 .. made /\ made \in Nat
      /\ open \subseteq 1 .. made /\ live \subseteq 1 .. made
      /\ calls \in 0 .. MaxCalls /\ cancels \in 0 .. MaxCancels
  BY DEF Data
<1>2. pool' \in 0 .. made
  BY <1>1
<1> QED
  BY <1>1, <1>2 DEF Data

\* A step keeps the types of the resources.
LEMMA StepData ==
  ASSUME TypeOK, NEW c \in Callers, Step(c), Recorded
  PROVE  Data'
<1>1. Data
  BY TypeParts
<1>2. overlapped' \in BOOLEAN
  BY <1>1 DEF Data, Recorded, Overlap
<1>3. /\ clients \in [Loops -> 0 .. made] /\ initialized \in BOOLEAN /\ failed \subseteq Failures
      /\ made \in Nat /\ MaxCalls \in Nat /\ MaxCancels \in Nat
      /\ pool \in 0 .. made /\ open \subseteq 1 .. made /\ live \subseteq 1 .. made
      /\ calls \in 0 .. MaxCalls /\ cancels \in 0 .. MaxCancels
  BY <1>1, BoundsAssumption DEF Data
<1>4. Got(c) => initialized' \in BOOLEAN
  BY <1>3 DEF Got
<1>5. LoopOf[c] \in Loops
  BY LoopsAssumption
<1> USE <1>1, <1>2, <1>3, <1>4, DataKept DEF resources, counts
<1>6. CASE InitCheck(c)
  BY <1>6 DEF InitCheck
<1>7. CASE InitAcquire(c)
  BY <1>7 DEF InitAcquire
<1>8. CASE InitLocked(c)
  BY <1>8 DEF InitLocked
<1>9. CASE PoolCreated(c)
  <2>1. pool' \in 0 .. made' /\ open' \subseteq 1 .. made' /\ made' \in Nat
    BY <1>3, <1>9 DEF PoolCreated
  <2>2. clients' \in [Loops -> 0 .. made']
    BY <1>3, <1>9 DEF PoolCreated
  <2>3. live' \subseteq 1 .. made'
    BY <1>3, <1>9 DEF PoolCreated
  <2> QED
    BY <1>9, <2>1, <2>2, <2>3 DEF PoolCreated, Data
<1>10. CASE Probed(c)
  BY <1>10 DEF Probed
<1>11. CASE InitFails(c)
  BY <1>11 DEF InitFails, Fails
<1>12. CASE Get(c)
  BY <1>12 DEF Get
<1>13. CASE GetLock(c)
  BY <1>13 DEF GetLock
<1>14. CASE Pinged(c)
  <2>1. pool' \in 0 .. made' /\ open' \subseteq 1 .. made' /\ made' \in Nat
    BY <1>3, <1>14 DEF Pinged
  <2>2. clients' \in [Loops -> 0 .. made']
    BY <1>3, <1>5, <1>14 DEF Pinged
  <2>3. live' \subseteq 1 .. made'
    BY <1>3, <1>14 DEF Pinged
  <2> QED
    BY <1>14, <2>1, <2>2, <2>3 DEF Pinged, Data
<1>15. CASE PingFails(c)
  BY <1>15 DEF PingFails, Fails
<1>16. CASE Close(c)
  BY <1>16 DEF Close
<1>17. CASE PoolClosed(c)
  BY <1>17 DEF PoolClosed
<1>18. CASE PoolCloseFails(c)
  BY <1>18 DEF PoolCloseFails, Fails
<1>19. CASE CloseRedis(c)
  BY <1>19 DEF CloseRedis
<1>20. CASE ClientClosed(c)
  BY <1>20 DEF ClientClosed
<1>21. CASE ClientCloseFails(c)
  BY <1>21 DEF ClientCloseFails, Fails
<1>22. CASE PopRedis(c)
  <2>1. clients' \in [Loops -> 0 .. made]
    BY <1>3, <1>22 DEF PopRedis
  <2> QED
    BY <1>22, <2>1 DEF PopRedis
<1>23. CASE Closed(c)
  BY <1>23 DEF Closed
<1> QED
  BY <1>6, <1>7, <1>8, <1>9, <1>10, <1>11, <1>12, <1>13, <1>14, <1>15, <1>16, <1>17, <1>18,
     <1>19, <1>20, <1>21, <1>22, <1>23 DEF Step

\* So do a cancellation and a call.
LEMMA OtherTyped ==
  ASSUME TypeOK, NEW c \in Callers, Recorded, Cancel(c) \/ \E op \in Operations : Call(c, op)
  PROVE  TypeOK'
<1>1. Data /\ Control
  BY TypeParts
<1>2. overlapped' \in BOOLEAN
  BY <1>1 DEF Data, Recorded, Overlap
<1>3. /\ clients \in [Loops -> 0 .. made] /\ initialized \in BOOLEAN /\ failed \subseteq Failures
      /\ made \in Nat /\ MaxCalls \in Nat /\ MaxCancels \in Nat
      /\ pool \in 0 .. made /\ open \subseteq 1 .. made /\ live \subseteq 1 .. made
      /\ calls \in 0 .. MaxCalls /\ cancels \in 0 .. MaxCancels
  BY <1>1, BoundsAssumption DEF Data
<1>4. /\ caller[c].pc \in {"initLocked", "createPool", "probe"} => initLock = c
      /\ caller[c].pc = "ping" <=> redisLock = c
      /\ c # None /\ initLoop \in Loops \cup {None}
  BY <1>1, NoneAssumption DEF Control
<1>5. CASE Cancel(c)
  <2>1. calls' \in 0 .. MaxCalls /\ cancels' \in 0 .. MaxCancels
    BY <1>3, <1>5 DEF Cancel
  <2>2. Data'
    BY <1>2, <1>3, <1>5, <2>1 DEF Cancel, Data, resources
  <2>3. Ends(c)
    BY <1>5, Going DEF Cancel, Waiting
  <2> QED
    BY <1>1, <1>4, <1>5, <2>2, <2>3, ControlKept, TypeParts DEF Cancel, Ends, AtRest, Running
<1>6. CASE \E op \in Operations : Call(c, op)
  <2>1. PICK op \in Operations : Call(c, op)
    BY <1>6
  <2>2. calls' \in 0 .. MaxCalls /\ cancels' \in 0 .. MaxCancels
    BY <1>3, <2>1 DEF Call
  <2>3. Data'
    BY <1>2, <1>3, <2>1, <2>2 DEF Call, Data, resources
  <2>4. caller'[c].pc \in {"init", "get", "close"}
    BY <2>1, CallMoves DEF Operations
  <2>5. UNCHANGED <<initLock, initLoop, redisLock>>
    BY <2>1 DEF Call, locks
  <2> QED
    BY <1>1, <1>4, <2>1, <2>3, <2>4, <2>5, CallMoves, ControlKept, TypeParts DEF Running
<1> QED
  BY <1>5, <1>6

\* Every step keeps the types.
LEMMA NextTyped ==
  ASSUME TypeOK, [Next]_vars
  PROVE  TypeOK'
<1>1. CASE Next
  <2>1. PICK c \in Callers : Step(c) \/ Cancel(c) \/ \E op \in Operations : Call(c, op)
    BY <1>1 DEF Next
  <2>2. Recorded
    BY <1>1 DEF Next
  <2> QED
    BY <2>1, <2>2, StepControl, StepData, OtherTyped, TypeParts
<1>2. CASE UNCHANGED vars
  BY <1>2 DEF vars, resources, locks, counts, TypeOK
<1> QED
  BY <1>1, <1>2

-----------------------------------------------------------------------------
(* Every live client is in the table, in every deployment.                 *)

ShutLabels == {"closingClient", "popRedis", "closed"}

\* A step that makes, closes and forgets no client.
LEMMA DeadKept ==
  ASSUME TypeOK, ClosedAreDead, ClientsReachable, NEW c \in Callers, Others(c),
         made' = made, clients' = clients, live' = live,
         \/ /\ caller'[c].copy = caller[c].copy
            /\ caller'[c].shut = caller[c].shut
            /\ caller[c].pc \in ShutLabels => caller'[c].pc \in ShutLabels
         \/ caller'[c] = AtRest,
         caller'[c].pc = "ping" => clients[LoopOf[c]] = 0
  PROVE  ClosedAreDead' /\ ClientsReachable'
<1>1. ClientsReachable'
  BY DEF ClientsReachable
<1>2. made \in Nat
  BY DEF TypeOK
<1>3. AtRest.copy \in [Loops -> 0 .. made] /\ AtRest.shut = {} /\ AtRest.pc = "idle"
  BY <1>2 DEF AtRest, NoClients
<1>4. \A d \in Callers : d # c => caller'[d] = caller[d]
  BY DEF Others
<1>5. ASSUME NEW d \in Callers
      PROVE  /\ caller'[d].copy \in [Loops -> 0 .. made]
             /\ \A l \in caller'[d].shut : caller'[d].copy[l] \notin live
             /\ caller'[d].shut # {} => caller'[d].pc \in ShutLabels
             /\ caller'[d].pc = "ping" => clients[LoopOf[d]] = 0
  <2>1. CASE d # c
    BY <1>4, <2>1 DEF ClosedAreDead, ShutLabels
  <2>2. CASE d = c
    BY <1>3, <2>2 DEF ClosedAreDead, ShutLabels
  <2> QED
    BY <2>1, <2>2
<1> QED
  BY <1>1, <1>5 DEF ClosedAreDead, ShutLabels

\* A client is made for a loop that has none.
LEMMA PingedDead ==
  ASSUME TypeOK, ClosedAreDead, ClientsReachable, NEW c \in Callers, Pinged(c)
  PROVE  ClosedAreDead' /\ ClientsReachable'
<1>1. /\ made \in Nat /\ clients \in [Loops -> 0 .. made] /\ live \subseteq 1 .. made
      /\ LoopOf \in [Callers -> Loops]
      /\ \A d \in Callers : caller[d].pc = "ping" <=> redisLock = d
  BY LoopsAssumption DEF TypeOK
<1>2. /\ made' = made + 1 /\ live' = live \cup {made + 1}
      /\ clients' = [clients EXCEPT ![LoopOf[c]] = made + 1]
      /\ caller[c].pc = "ping"
  BY DEF Pinged, Resumes
<1>3. clients[LoopOf[c]] = 0
  BY <1>2 DEF ClosedAreDead
<1>4. ClientsReachable'
  <2>1. clients'[LoopOf[c]] = made + 1
    BY <1>1, <1>2
  <2>2. \A l \in Loops : l # LoopOf[c] => clients'[l] = clients[l]
    BY <1>1, <1>2
  <2>3. 0 \notin live
    BY <1>1
  <2> QED
    BY <1>1, <1>2, <1>3, <2>1, <2>2, <2>3 DEF ClientsReachable
<1>5. Others(c) /\ caller'[c].pc # "ping"
      /\ \/ /\ caller'[c].copy = caller[c].copy /\ caller'[c].shut = caller[c].shut
         \/ caller'[c].copy = NoClients /\ caller'[c].shut = {}
  BY Going DEF Pinged, Got, AfterInit, Moves, Keeps, Ends, AtRest, Running
<1>6. \A d \in Callers : d # c => caller'[d] = caller[d] /\ caller[d].pc # "ping"
  BY <1>1, <1>2, <1>5 DEF Others
<1>7. NoClients \in [Loops -> 0 .. made + 1]
  BY <1>1 DEF NoClients
<1>8. \A f \in [Loops -> 0 .. made] : f \in [Loops -> 0 .. made + 1] /\ \A l \in Loops : f[l] # made + 1
  BY <1>1
<1>9. ASSUME NEW d \in Callers
      PROVE  /\ caller'[d].copy \in [Loops -> 0 .. made + 1]
             /\ \A l \in caller'[d].shut : caller'[d].copy[l] \notin live'
             /\ caller'[d].shut # {} => caller'[d].pc \in ShutLabels
             /\ caller'[d].pc # "ping"
  <2>1. /\ caller[d].copy \in [Loops -> 0 .. made]
        /\ \A l \in caller[d].shut : caller[d].copy[l] \notin live
        /\ caller[d].shut # {} => caller[d].pc \in ShutLabels
    BY DEF ClosedAreDead, ShutLabels
  <2>2. caller[d].shut \subseteq Loops
    BY DEF TypeOK, CallerState
  <2>3. caller[c].shut = {}
    BY <1>2 DEF ClosedAreDead
  <2>4. CASE d # c
    BY <1>2, <1>6, <1>8, <2>1, <2>2, <2>4
  <2>5. CASE d = c
    BY <1>5, <1>7, <1>8, <2>1, <2>3, <2>5
  <2> QED
    BY <2>4, <2>5
<1> QED
  BY <1>2, <1>4, <1>9 DEF ClosedAreDead, ShutLabels

\* A closed client is dead at once; close() forgets it later.
LEMMA CloseDead ==
  ASSUME TypeOK, ClosedAreDead, ClientsReachable, NEW c \in Callers,
         CloseRedis(c) \/ ClientClosed(c) \/ ClientCloseFails(c) \/ PopRedis(c)
  PROVE  ClosedAreDead' /\ ClientsReachable'
<1>1. /\ made \in Nat /\ clients \in [Loops -> 0 .. made] /\ live \subseteq 1 .. made
      /\ LoopOf \in [Callers -> Loops]
  BY LoopsAssumption DEF TypeOK
<1>2. ASSUME NEW d \in Callers
      PROVE  /\ caller[d].copy \in [Loops -> 0 .. made]
             /\ \A l \in caller[d].shut : caller[d].copy[l] \notin live
             /\ caller[d].shut # {} => caller[d].pc \in ShutLabels
             /\ caller[d].pc = "ping" => clients[LoopOf[d]] = 0
             /\ caller[d].shut \subseteq Loops
  BY DEF ClosedAreDead, ShutLabels, TypeOK, CallerState
<1>3. CASE CloseRedis(c)
  <2>1. CASE clients = NoClients
    BY <1>3, <2>1, Going, DeadKept
       DEF CloseRedis, Runs, Moves, Keeps, Running, ShutLabels, resources
  <2>2. CASE clients # NoClients
    <3>1. /\ Others(c) /\ caller'[c].copy = clients /\ caller'[c].shut = caller[c].shut
          /\ caller'[c].pc = "closingClient"
      BY <1>3, <2>2, CloseRedisMoves
    <3>2. caller[c].shut = {}
      BY <1>2, <1>3 DEF CloseRedis, Runs, ShutLabels
    <3>3. UNCHANGED resources
      BY <1>3 DEF CloseRedis
    <3> QED
      BY <1>1, <1>2, <3>1, <3>2, <3>3
      DEF ClosedAreDead, ClientsReachable, Others, ShutLabels, resources
  <2> QED
    BY <2>1, <2>2
<1>4. CASE ClientClosed(c)
  <2>1. PICK l \in Loops : ClientDone(c, l, {l}, FALSE) /\ live' = live \ {caller[c].copy[l]}
    BY <1>4 DEF ClientClosed
  <2>2. /\ Others(c) /\ caller'[c].copy = caller[c].copy
        /\ caller'[c].shut = caller[c].shut \cup {l}
        /\ caller'[c].pc \in {"popRedis", "closingClient"}
    BY <1>4, <2>1, ClientMoves DEF ClientClosed
  <2>3. UNCHANGED <<clients, made>>
    BY <1>4 DEF ClientClosed
  <2>4. \A d \in Callers : d # c => caller'[d] = caller[d]
    BY <2>2 DEF Others
  <2>5. ASSUME NEW d \in Callers
        PROVE  /\ caller'[d].copy \in [Loops -> 0 .. made]
               /\ \A k \in caller'[d].shut : caller'[d].copy[k] \notin live'
               /\ caller'[d].shut # {} => caller'[d].pc \in ShutLabels
               /\ caller'[d].pc = "ping" => clients[LoopOf[d]] = 0
    <3>1. CASE d # c
      BY <1>2, <2>1, <2>4, <3>1
    <3>2. CASE d = c
      BY <1>2, <2>1, <2>2, <3>2 DEF ShutLabels
    <3> QED
      BY <3>1, <3>2
  <2> QED
    BY <2>1, <2>3, <2>5 DEF ClosedAreDead, ClientsReachable, ShutLabels
<1>5. CASE ClientCloseFails(c)
  <2>1. PICK l \in Loops : ClientDone(c, l, {}, TRUE)
    BY <1>5 DEF ClientCloseFails
  <2>2. /\ Others(c) /\ caller'[c].copy = caller[c].copy
        /\ caller'[c].shut = caller[c].shut \cup {}
        /\ caller'[c].pc \in {"popRedis", "closingClient"}
    BY <1>5, <2>1, ClientMoves DEF ClientCloseFails
  <2>3. UNCHANGED <<made, clients, live>>
    BY <1>5 DEF ClientCloseFails, resources
  <2> QED
    BY <2>2, <2>3, DeadKept DEF ShutLabels
<1>6. CASE PopRedis(c)
  <2>1. /\ Others(c) /\ caller'[c].copy = caller[c].copy
        /\ caller'[c].shut = caller[c].shut /\ caller'[c].pc = "closed"
    BY <1>6, Going DEF PopRedis, Moves, Keeps, Running
  <2>2. UNCHANGED <<live, made>>
    BY <1>6 DEF PopRedis
  <2>3. \A l \in Loops : \/ clients'[l] = clients[l]
                         \/ clients'[l] = 0 /\ clients[l] \notin live
    BY <1>2, <1>6 DEF PopRedis
  <2>4. ClientsReachable'
    BY <2>2, <2>3 DEF ClientsReachable
  <2> QED
    BY <1>1, <1>2, <2>1, <2>2, <2>3, <2>4 DEF ClosedAreDead, Others, ShutLabels
<1> QED
  BY <1>3, <1>4, <1>5, <1>6

\* Every step keeps the live clients in the table, and the closed ones dead.
LEMMA NextReachable ==
  ASSUME TypeOK, ClosedAreDead, ClientsReachable, [Next]_vars
  PROVE  ClosedAreDead' /\ ClientsReachable'
<1>1. CASE UNCHANGED vars
  BY <1>1 DEF vars, resources, ClosedAreDead, ClientsReachable
<1>2. ASSUME NEW c \in Callers, Step(c) PROVE ClosedAreDead' /\ ClientsReachable'
  <2> DEFINE Labels == {"idle"} \cup Waiting \cup Running
  <2>1. /\ \A label \in Labels : Goes(c, label) => Moves(c, label) /\ Has(c)
        /\ \A label \in Labels : Awaits(c, label) => Moves(c, label) /\ Gives(c)
        /\ Returns(c) => Ends(c)
    BY Going
  <2>2. AfterInit(c) => \/ Moves(c, "get") \/ Ends(c)
    BY <2>1 DEF AfterInit, Running
  <2>0. AtRest.pc = "idle"
    BY DEF AtRest
  <2> USE <2>0, <2>1, <2>2, DeadKept DEF Labels, Waiting, Running, ShutLabels, Moves, Keeps, Ends,
                                   resources
  <2>3. CASE InitCheck(c)
    BY <2>3 DEF InitCheck, Runs
  <2>4. CASE InitAcquire(c)
    BY <2>4 DEF InitAcquire, Resumes
  <2>5. CASE InitLocked(c)
    BY <2>5 DEF InitLocked, Runs
  <2>6. CASE Probed(c)
    BY <2>6 DEF Probed, Resumes
  <2>7. CASE InitFails(c)
    BY <2>7 DEF InitFails, Resumes
  <2>8. CASE Get(c)
    BY <2>8 DEF Get, Got, Runs
  <2>9. CASE GetLock(c)
    BY <2>9 DEF GetLock, Got, Runs, Client
  <2>10. CASE PingFails(c)
    BY <2>10 DEF PingFails, Resumes
  <2>11. CASE Close(c)
    BY <2>11, CloseMoves DEF Close, Runs
  <2>12. CASE PoolClosed(c)
    BY <2>12 DEF PoolClosed, Resumes
  <2>13. CASE PoolCloseFails(c)
    BY <2>13, PoolCloseFailsMoves DEF PoolCloseFails, Resumes
  <2>14. CASE Closed(c)
    BY <2>14 DEF Closed, Runs
  <2>15. CASE PoolCreated(c)
    <3>1. /\ Others(c) /\ caller'[c].copy = caller[c].copy /\ caller'[c].shut = caller[c].shut
          /\ caller[c].pc = "createPool" /\ caller'[c].pc = "probe"
          /\ made' = made + 1 /\ UNCHANGED <<clients, live>>
      BY <2>15 DEF PoolCreated, Resumes
    <3>2. made \in Nat
      BY DEF TypeOK
    <3>3. 0 .. made \subseteq 0 .. made + 1
      BY <3>2
    <3>4. \A f \in [Loops -> 0 .. made] : f \in [Loops -> 0 .. made + 1]
      BY <3>3
    <3>5. caller[c].shut = {}
      BY <3>1 DEF ClosedAreDead
    <3> QED
      BY <3>1, <3>4, <3>5 DEF ClosedAreDead, ClientsReachable, Others
  <2> HIDE <2>0, <2>1, <2>2, DeadKept DEF Moves, Keeps, Ends, resources
  <2> QED
    BY <1>2, <2>3, <2>4, <2>5, <2>6, <2>7, <2>8, <2>9, <2>10, <2>11, <2>12, <2>13, <2>14, <2>15,
       PingedDead, CloseDead DEF Step
<1>3. ASSUME NEW c \in Callers, Cancel(c) PROVE ClosedAreDead' /\ ClientsReachable'
  <2>1. AtRest.pc = "idle"
    BY DEF AtRest
  <2> QED
    BY <1>3, <2>1, Going, DeadKept DEF Cancel, Ends, resources
<1>4. ASSUME NEW c \in Callers, NEW op \in Operations, Call(c, op)
      PROVE  ClosedAreDead' /\ ClientsReachable'
  <2>1. /\ Others(c) /\ caller'[c].copy = caller[c].copy /\ caller'[c].shut = caller[c].shut
        /\ caller[c].pc = "idle" /\ caller'[c].pc \in {"init", "get", "close"}
    BY <1>4, CallMoves DEF Operations
  <2> QED
    BY <1>4, <2>1, DeadKept DEF Call, resources, ShutLabels
<1> QED
  BY <1>1, <1>2, <1>3, <1>4 DEF Next

-----------------------------------------------------------------------------
(* Threads that share the clients.                                         *)

\* A step leaves the turn of a loop to a coroutine of that loop.
LEMMA TurnsKept ==
  ASSUME TypeOK, OwnTurns, [Next]_vars
  PROVE  OwnTurns'
<1>1. CASE UNCHANGED vars
  BY <1>1 DEF vars, OwnTurns
<1>2. ASSUME NEW c \in Callers, NEW t \in {c, None}, turn' = [turn EXCEPT ![LoopOf[c]] = t]
      PROVE  OwnTurns'
  <2>1. turn \in [Loops -> Callers \cup {None}] /\ LoopOf[c] \in Loops
    BY LoopsAssumption DEF TypeOK
  <2> QED
    BY <1>2, <2>1 DEF OwnTurns
<1>3. ASSUME NEW c \in Callers, UNCHANGED turn PROVE OwnTurns'
  BY <1>3 DEF OwnTurns
<1>4. ASSUME NEW c \in Callers, Step(c) \/ Cancel(c) \/ \E op \in Operations : Call(c, op)
      PROVE  \/ \E t \in {c, None} : turn' = [turn EXCEPT ![LoopOf[c]] = t]
             \/ UNCHANGED turn
  BY <1>4 DEF Step, Cancel, Call, Goes, Awaits, Returns, AfterInit, Got, ClientDone,
     InitCheck, InitAcquire, InitLocked, PoolCreated, Probed, InitFails, Get, GetLock, Pinged,
     PingFails, Close, PoolClosed, PoolCloseFails, CloseRedis, ClientClosed, ClientCloseFails,
     PopRedis, Closed
<1> QED
  BY <1>1, <1>2, <1>3, <1>4 DEF Next

\* One coroutine moves.
LEMMA FirstKept ==
  ASSUME TypeOK, InitializersFirst, NEW c \in Callers,
         Others(c), turn[LoopOf[c]] \in {c, None}, Initializer(c)',
         initLock' \in {initLock, c, None}, redisLock' \in {redisLock, c, None},
         initialized' => initialized \/ initLock = c,
         caller'[c].pc \in {"get", "getLock"} /\ caller'[c].op # "get" =>
           \/ initialized \/ initLock = c
           \/ caller[c].pc \in {"get", "getLock"} /\ caller'[c].op = caller[c].op
  PROVE  InitializersFirst'
<1>1. /\ \A d \in Callers : d # None /\ Initializer(d)
      /\ \A a, d \in Callers : MakesFirst(a, d)
      /\ \A d \in Callers : d # c => caller'[d] = caller[d]
  BY NoneAssumption DEF InitializersFirst, Others
<1>2. ASSUME NEW d \in Callers, d # c PROVE Initializer(d)'
  BY <1>1, <1>2 DEF Initializer
<1>3. ASSUME NEW a \in Callers, NEW d \in Callers, a # c PROVE MakesFirst(a, d)'
  <2>1. CASE d # c
    BY <1>1, <1>3, <2>1 DEF MakesFirst
  <2>2. CASE d = c
    <3>1. LoopOf[a] = LoopOf[c] => caller[a].pc \notin Running
      BY <1>1, <1>3 DEF TypeOK
    <3> QED
      BY <1>1, <1>3, <2>2, <3>1 DEF MakesFirst, Running
  <2> QED
    BY <2>1, <2>2
<1>4. ASSUME NEW d \in Callers PROVE MakesFirst(c, d)'
  <2> SUFFICES ASSUME d # c, LoopOf[c] = LoopOf[d], initLock' = d, redisLock' = d,
                      caller'[c].pc \in {"get", "getLock"}, caller'[c].op # "get"
               PROVE  FALSE
    BY DEF MakesFirst
  <2>1. initLock = d /\ redisLock = d
    BY <1>1
  <2>2. caller[d].pc = "ping"
    BY <2>1 DEF TypeOK
  <2>3. ~initialized
    BY <1>1, <2>1, <2>2 DEF Initializer
  <2> QED
    BY <1>1, <2>1, <2>3 DEF MakesFirst
<1> QED
  BY <1>2, <1>3, <1>4 DEF InitializersFirst

\* Initializers come first, after every step of any deployment.
LEMMA NextFirst ==
  ASSUME TypeOK, InitializersFirst, [Next]_vars
  PROVE  InitializersFirst'
<1>1. CASE UNCHANGED vars
  BY <1>1 DEF vars, resources, locks, InitializersFirst, Initializer, MakesFirst
<1>2. ASSUME NEW c \in Callers, Step(c) PROVE InitializersFirst'
  <2> DEFINE Labels == {"idle"} \cup Waiting \cup Running
  <2>1. /\ \A label \in Labels : Goes(c, label) => Moves(c, label) /\ Has(c)
        /\ \A label \in Labels : Awaits(c, label) => Moves(c, label) /\ Gives(c)
        /\ Returns(c) => Ends(c)
    BY Going
  <2>2. Initializer(c) /\ c # None /\ initialized \in BOOLEAN
    BY NoneAssumption DEF InitializersFirst, TypeOK
  <2>3. AtRest.pc = "idle" /\ AtRest.op = "get"
    BY DEF AtRest
  <2>4. AfterInit(c) => \/ Moves(c, "get")
                        \/ Ends(c)
    BY <2>1 DEF AfterInit, Running
  <2>5. /\ caller[c].pc \in {"initLocked", "createPool", "probe"} => initLock = c
        /\ caller[c].pc = "ping" <=> redisLock = c
    BY DEF TypeOK
  <2> USE FirstKept, <2>1, <2>2, <2>3, <2>4, <2>5
      DEF Labels, Waiting, Running, Moves, Keeps, Ends, Initializer, InitLabels, CloseLabels
  <2>6. CASE InitCheck(c)
    BY <2>6 DEF InitCheck, Runs, locks
  <2>7. CASE InitAcquire(c)
    BY <2>7 DEF InitAcquire, Resumes
  <2>8. CASE InitLocked(c)
    BY <2>8 DEF InitLocked, Runs
  <2>9. CASE PoolCreated(c)
    BY <2>9 DEF PoolCreated, Resumes, locks
  <2>10. CASE Probed(c)
    BY <2>10 DEF Probed, Resumes, locks
  <2>11. CASE InitFails(c)
    BY <2>11 DEF InitFails, Resumes
  <2>12. CASE Get(c)
    BY <2>12 DEF Get, Got, Runs
  <2>13. CASE GetLock(c)
    BY <2>13 DEF GetLock, Got, Runs
  <2>14. CASE Pinged(c)
    BY <2>14 DEF Pinged, Got, Resumes
  <2>15. CASE PingFails(c)
    BY <2>15 DEF PingFails, Resumes
  <2>16. CASE Close(c)
    BY <2>16, CloseMoves DEF Close, Runs, locks
  <2>17. CASE PoolClosed(c)
    BY <2>17 DEF PoolClosed, Resumes, locks
  <2>18. CASE PoolCloseFails(c)
    <3>1. /\ Others(c) /\ caller'[c].op = caller[c].op /\ caller'[c].pc = "closeRedis"
      BY <2>18, PoolCloseFailsMoves
    <3>2. UNCHANGED <<initialized, locks>> /\ Resumes(c, "closingPool")
      BY <2>18 DEF PoolCloseFails
    <3> QED
      BY <3>1, <3>2 DEF Resumes, locks
  <2>19. CASE CloseRedis(c)
    <3>1. CASE clients = NoClients
      BY <2>19, <3>1 DEF CloseRedis, Runs, locks
    <3>2. CASE clients # NoClients
      <4>1. /\ Others(c) /\ caller'[c].op = caller[c].op /\ caller'[c].pc = "closingClient"
        BY <2>19, <3>2, CloseRedisMoves
      <4>2. UNCHANGED <<initialized, locks>> /\ Runs(c, "closeRedis")
        BY <2>19 DEF CloseRedis
      <4> QED
        BY <4>1, <4>2 DEF Runs, locks
    <3> QED
      BY <3>1, <3>2
  <2>20. CASE ClientClosed(c)
    <3>1. /\ Others(c) /\ caller'[c].op = caller[c].op
          /\ caller'[c].pc \in {"popRedis", "closingClient"}
      BY <2>20, ClientMoves DEF ClientClosed
    <3>2. UNCHANGED <<initialized, locks>> /\ Resumes(c, "closingClient")
      BY <2>20 DEF ClientClosed
    <3> QED
      BY <3>1, <3>2 DEF Resumes, locks
  <2>21. CASE ClientCloseFails(c)
    BY <2>21, ClientMoves DEF ClientCloseFails, Resumes, locks
  <2>22. CASE PopRedis(c)
    BY <2>22 DEF PopRedis, Runs, locks
  <2>23. CASE Closed(c)
    BY <2>23 DEF Closed, Runs, locks
  <2> HIDE FirstKept, <2>1, <2>2, <2>3, <2>4, <2>5
      DEF Moves, Keeps, Ends, Initializer, InitLabels, CloseLabels
  <2> QED
    BY <1>2, <2>6, <2>7, <2>8, <2>9, <2>10, <2>11, <2>12, <2>13, <2>14, <2>15, <2>16, <2>17,
       <2>18, <2>19, <2>20, <2>21, <2>22, <2>23 DEF Step
<1>3. ASSUME NEW c \in Callers, Cancel(c) PROVE InitializersFirst'
  <2>1. /\ Ends(c) /\ turn[LoopOf[c]] = None /\ initialized' = initialized
        /\ initLock' \in {initLock, None} /\ initLock' # c
        /\ redisLock' \in {redisLock, None}
    BY <1>3, Going, NoneAssumption DEF Cancel
  <2>2. AtRest.pc = "idle" /\ Initializer(c)'
    BY <2>1 DEF AtRest, Ends, Initializer, CloseLabels
  <2> QED
    BY <2>1, <2>2, FirstKept DEF Ends
<1>4. ASSUME NEW c \in Callers, NEW op \in Operations, Call(c, op)
      PROVE  InitializersFirst'
  <2>1. /\ Others(c) /\ turn[LoopOf[c]] = None /\ caller[c].pc = "idle" /\ caller'[c].op = op
        /\ caller'[c].pc = IF op \in {"initialize", "use"} THEN "init" ELSE op
    BY <1>4, CallMoves
  <2>2. /\ initLock # c /\ UNCHANGED <<initLock, redisLock, initialized>>
    BY <1>4, <2>1 DEF Call, locks, InitializersFirst, Initializer, InitLabels
  <2>3. \/ op \in {"initialize", "use"} /\ caller'[c].pc = "init"
        \/ op \in {"get", "close"} /\ caller'[c].pc = op
    BY <2>1 DEF Operations
  <2>4. Initializer(c)'
    BY <2>1, <2>2, <2>3 DEF Initializer, CloseLabels
  <2> QED
    BY <2>1, <2>2, <2>3, <2>4, FirstKept
<1> QED
  BY <1>1, <1>2, <1>3, <1>4 DEF Next

\* Threads never come to initialize the manager.
LEMMA NextNeverInitialized ==
  ASSUME TypeOK, Threads, NeverInitialized, [Next]_vars
  PROVE  NeverInitialized'
<1> DEFINE Unmade == {"init", "initWait", "initLocked", "createPool", "probe"}
<1>1. CASE UNCHANGED vars
  BY <1>1 DEF vars, resources, locks, NeverInitialized
<1>2. ASSUME NEW c \in Callers, Others(c), caller'[c].pc \notin Unmade,
             caller'[c].op \in {"get", "close"}, UNCHANGED <<pool, open, initLock>>,
             ~initialized'
      PROVE  NeverInitialized'
  BY <1>2 DEF NeverInitialized, Others
<1>3. ASSUME NEW c \in Callers, Step(c) PROVE NeverInitialized'
  <2> DEFINE Labels == {"idle"} \cup Waiting \cup Running
  <2>1. /\ \A label \in Labels : Goes(c, label) => Moves(c, label) /\ Has(c)
        /\ \A label \in Labels : Awaits(c, label) => Moves(c, label) /\ Gives(c)
        /\ Returns(c) => Ends(c)
    BY Going
  <2>2. /\ pool = 0 /\ open = {} /\ ~initialized /\ initLock = None /\ None # c
        /\ caller[c].pc \notin Unmade /\ caller[c].op \in {"get", "close"}
    BY NoneAssumption DEF NeverInitialized
  <2>3. AtRest.pc = "idle" /\ AtRest.op = "get"
    BY DEF AtRest
  <2> USE <1>2, <2>1, <2>2, <2>3 DEF Labels, Waiting, Running, Moves, Keeps, Ends, resources, locks
  <2>4. CASE InitCheck(c)
    BY <2>4 DEF InitCheck, Runs
  <2>5. CASE InitAcquire(c)
    BY <2>5 DEF InitAcquire, Resumes
  <2>6. CASE InitLocked(c)
    BY <2>6 DEF InitLocked, Runs
  <2>7. CASE PoolCreated(c)
    BY <2>7 DEF PoolCreated, Resumes
  <2>8. CASE Probed(c)
    BY <2>8 DEF Probed, Resumes
  <2>9. CASE InitFails(c)
    BY <2>9 DEF InitFails, Resumes
  <2>10. CASE Get(c)
    BY <2>10 DEF Get, Got
  <2>11. CASE GetLock(c)
    BY <2>11 DEF GetLock, Got
  <2>12. CASE Pinged(c)
    BY <2>12 DEF Pinged, Got
  <2>13. CASE PingFails(c)
    BY <2>13 DEF PingFails
  <2>14. CASE Close(c)
    BY <2>14 DEF Close
  <2>15. CASE PoolClosed(c)
    BY <2>15 DEF PoolClosed
  <2>16. CASE PoolCloseFails(c)
    BY <2>16, PoolCloseFailsMoves DEF PoolCloseFails
  <2>17. CASE CloseRedis(c)
    <3>1. CASE clients = NoClients
      BY <2>17, <3>1 DEF CloseRedis
    <3>2. CASE clients # NoClients
      <4>1. Others(c) /\ caller'[c].op = caller[c].op /\ caller'[c].pc = "closingClient"
        BY <2>17, <3>2, CloseRedisMoves
      <4>2. UNCHANGED <<pool, open, initLock, initialized>>
        BY <2>17 DEF CloseRedis
      <4> QED
        BY <4>1, <4>2
    <3> QED
      BY <3>1, <3>2
  <2>18. CASE ClientClosed(c)
    BY <2>18, ClientMoves DEF ClientClosed
  <2>19. CASE ClientCloseFails(c)
    BY <2>19, ClientMoves DEF ClientCloseFails
  <2>20. CASE PopRedis(c)
    BY <2>20 DEF PopRedis
  <2>21. CASE Closed(c)
    BY <2>21 DEF Closed
  <2> HIDE <1>2, <2>1, <2>2, <2>3 DEF Moves, Keeps, Ends, resources, locks
  <2> QED
    BY <1>3, <2>4, <2>5, <2>6, <2>7, <2>8, <2>9, <2>10, <2>11, <2>12, <2>13, <2>14, <2>15, <2>16,
       <2>17, <2>18, <2>19, <2>20, <2>21 DEF Step
<1>4. ASSUME NEW c \in Callers, Cancel(c) PROVE NeverInitialized'
  <2>1. AtRest.pc = "idle" /\ AtRest.op = "get"
    BY DEF AtRest
  <2>2. UNCHANGED <<pool, open, initialized>> /\ initLock' = None /\ Ends(c)
    BY <1>4, Going DEF Cancel, resources, NeverInitialized
  <2> QED
    BY <1>2, <2>1, <2>2 DEF Ends, NeverInitialized
<1>5. ASSUME NEW c \in Callers, NEW op \in Operations, Call(c, op)
      PROVE  NeverInitialized'
  <2>1. Others(c) /\ op \in Does[c] /\ caller'[c].op = op
        /\ caller'[c].pc = IF op \in {"initialize", "use"} THEN "init" ELSE op
    BY <1>5, CallMoves
  <2>2. op \in {"get", "close"}
    BY <2>1 DEF Threads
  <2>3. UNCHANGED <<pool, open, initialized, initLock>>
    BY <1>5 DEF Call, resources, locks
  <2> QED
    BY <1>2, <2>1, <2>2, <2>3 DEF NeverInitialized
<1> QED
  BY <1>1, <1>3, <1>4, <1>5 DEF Next

-----------------------------------------------------------------------------
(* The application.                                                        *)

\* The coroutines of one loop run one at a time and share its client.
LEMMA OneLoop ==
  ASSUME TypeOK, Application, NEW c \in Callers
  PROVE  /\ \A d \in Callers : LoopOf[d] = LoopOf[c]
         /\ turn[LoopOf[c]] = c => \A d \in Callers : d # c => caller[d].pc \notin Running
         /\ turn[LoopOf[c]] = None => \A d \in Callers : caller[d].pc \notin Running
<1>1. \A d \in Callers : LoopOf[d] = LoopOf[c]
  BY LoopsAssumption DEF Application
<1>2. \A d \in Callers : caller[d].pc \in Running <=> turn[LoopOf[d]] = d
  BY DEF TypeOK
<1> QED
  BY <1>1, <1>2, NoneAssumption

\* A step of one coroutine leaves the others in their roles.
LEMMA RolesKept ==
  ASSUME Roles, NEW c \in Callers, Others(c), initLock' \in {initLock, c, None},
         initialized' => initialized \/ initLock' \in {c, None}, failed \subseteq failed', Role(c)'
  PROVE  Roles'
<1>1. ASSUME NEW d \in Callers, d # c PROVE Role(d)'
  <2>1. caller'[d] = caller[d] /\ d # None
    BY <1>1, NoneAssumption DEF Others
  <2> QED
    BY <1>1, <2>1 DEF Role, Roles, NeverCloseFails
<1> QED
  BY <1>1 DEF Roles

\* A step that leaves the clients as they are, and the manager initialized or not.
LEMMA ClientsKept ==
  ASSUME TypeOK, Application, ClientsWhileInitialized, NEW c \in Callers, Others(c),
         failed \subseteq failed', clients' = clients, initialized' = initialized,
         initLock' \in {initLock, c, None}, initLock' # initLock => initLock \in {c, None},
         NeverCloseFails => ClientRole(c)',
         caller[c].pc = "closed" => caller'[c].pc = "closed"
  PROVE  ClientsWhileInitialized'
<1>1. NeverCloseFails' => NeverCloseFails
  BY DEF NeverCloseFails
<1>2. ASSUME NeverCloseFails, NEW d \in Callers, d # c PROVE ClientRole(d)'
  <2>1. caller'[d] = caller[d] /\ d # None
    BY <1>2, NoneAssumption DEF Others
  <2> QED
    BY <1>2, <2>1 DEF ClientRole, ClientsWhileInitialized
<1>3. ASSUME NEW d \in Callers, caller[d].pc = "closed" PROVE caller'[d].pc = "closed"
  BY <1>3 DEF Others
<1> QED
  BY <1>1, <1>2, <1>3 DEF ClientsWhileInitialized

\* A step that leaves the pools as they are.
LEMMA PoolsKept ==
  ASSUME PoolsAreOurs, NEW c \in Callers, Others(c), failed \subseteq failed',
         cancels' = 0 => cancels = 0, UNCHANGED <<pool, open>>,
         initLock' \in {initLock, c, None}, initLock' # initLock => initLock \in {c, None},
         initialized' = initialized, HasPool(c)' <=> HasPool(c),
         OnlyCreateFails => PoolRole(c)'
  PROVE  PoolsAreOurs'
<1>1. OnlyCreateFails' => OnlyCreateFails
  BY DEF OnlyCreateFails, NeverCloseFails
<1>2. ASSUME NEW d \in Callers PROVE HasPool(d)' <=> HasPool(d)
  BY NoneAssumption DEF HasPool, Others
<1>3. ASSUME OnlyCreateFails, NEW d \in Callers PROVE PoolRole(d)'
  <2>1. CASE d = c
    BY <1>3, <2>1
  <2>2. CASE d # c
    BY <1>2, <1>3, <2>2 DEF PoolRole, PoolsAreOurs, Others
  <2> QED
    BY <2>1, <2>2
<1> QED
  BY <1>1, <1>2, <1>3 DEF PoolsAreOurs

\* A step that leaves the resources as they are and ends no close().
LEMMA UsableKept ==
  ASSUME UsableUnlessClosed, Recorded, NEW c \in Callers, Others(c), failed \subseteq failed',
         cancels' = 0 => cancels = 0, UNCHANGED <<pool, open>>, live' = live \/ Closing(c)',
         initLock' \in {initLock, c, None}, initLock' # initLock => initLock \in {c, None},
         initialized' => initialized, HasPool(c)' => HasPool(c),
         NeverCloseFails' /\ Closing(c) => Closing(c)' \/ ~initialized' \/ cancels' # 0
  PROVE  UsableUnlessClosed'
<1>1. Overlap' => overlapped'
  BY DEF Recorded
<1>2. NobodyInterferes' => NobodyInterferes /\ NeverCloseFails' /\ cancels' = 0
  BY DEF NobodyInterferes, NeverCloseFails, Recorded
<1>3. ASSUME NEW d \in Callers PROVE HasPool(d)' => HasPool(d)
  BY NoneAssumption DEF HasPool, Others
<1>4. ASSUME NEW d \in Callers, d # c PROVE Closing(d)' <=> Closing(d)
  BY <1>4 DEF Closing, Others
<1> QED
  BY <1>1, <1>2, <1>3, <1>4 DEF UsableUnlessClosed

\* What the invariant says of the coroutine that takes a step, and of the others.
LEMMA Known ==
  ASSUME TypeOK, ClosedAreDead, Application, AppInv, NEW c \in Callers
  PROVE  /\ Roles /\ ClientsWhileInitialized /\ PoolsAreOurs /\ UsableUnlessClosed
         /\ Role(c) /\ (NeverCloseFails => ClientRole(c)) /\ (OnlyCreateFails => PoolRole(c))
         /\ c # None
         /\ caller[c].pc \in {"initLocked", "createPool", "probe"} => initLock = c
         /\ caller[c].pc = "ping" <=> redisLock = c
         /\ NeverCloseFails /\ initialized /\ turn[LoopOf[c]] \in {c, None}
              /\ caller[c].pc # "closed"
              => clients[LoopOf[c]] # 0
<1>1. ASSUME NeverCloseFails, initialized, turn[LoopOf[c]] \in {c, None}, caller[c].pc # "closed",
             clients[LoopOf[c]] = 0
      PROVE  FALSE
  <2>1. PICK d \in Callers : caller[d].pc = "closed"
    BY <1>1 DEF AppInv, ClientsWhileInitialized
  <2> QED
    BY <1>1, <2>1, OneLoop DEF Running
<1> QED
  BY <1>1, NoneAssumption DEF AppInv, Roles, ClientsWhileInitialized, PoolsAreOurs, TypeOK

\* The steps of initialize() that make nothing.
LEMMA InitKeeps ==
  ASSUME TypeOK, ClosedAreDead, Application, AppInv, Recorded, NEW c \in Callers,
         InitCheck(c) \/ InitAcquire(c) \/ InitLocked(c) \/ Probed(c)
  PROVE  AppInv'
<1> DEFINE Labels == {"idle"} \cup Waiting \cup Running
<1>1. /\ \A label \in Labels : Goes(c, label) => Moves(c, label)
      /\ \A label \in Labels : Awaits(c, label) => Moves(c, label)
      /\ Returns(c) => Ends(c)
  BY Going
<1>2. /\ Roles /\ ClientsWhileInitialized /\ PoolsAreOurs /\ UsableUnlessClosed
      /\ Role(c) /\ c # None
      /\ caller[c].pc \in {"initLocked", "createPool", "probe"} => initLock = c
      /\ NeverCloseFails /\ initialized /\ turn[LoopOf[c]] \in {c, None}
           /\ caller[c].pc # "closed"
           => clients[LoopOf[c]] # 0
  BY Known
<1>3. AfterInit(c) => \/ Moves(c, "get")
                      \/ Ends(c)
  BY <1>1 DEF AfterInit, Running
<1>4. UNCHANGED <<pool, open, clients, live, initialized, failed, cancels>>
  BY DEF InitCheck, InitAcquire, InitLocked, Probed, resources, counts
<1>5. /\ initLock' \in {initLock, c, None}
      /\ initLock' # initLock => initLock \in {c, None}
      /\ initLock' = c \/ ~HasPool(c)
      /\ turn[LoopOf[c]] \in {c, None}
      /\ caller[c].pc \in {"init", "initWait", "initLocked", "probe"}
      /\ \/ /\ Moves(c, "get")
            /\ \/ HasPool(c) /\ initLock' = c /\ ~initialized
               \/ ~HasPool(c) /\ initLock' # c /\ initialized
         \/ Moves(c, "initLocked") /\ initLock' = c /\ ~HasPool(c)
         \/ Moves(c, "initWait") /\ initLock' # c /\ ~HasPool(c)
         \/ Moves(c, "createPool") /\ initLock' = c /\ ~initialized /\ ~HasPool(c)
         \/ Ends(c) /\ initLock' # c /\ ~HasPool(c)
  BY <1>1, <1>2, <1>3
  DEF InitCheck, InitAcquire, InitLocked, Probed, Runs, Resumes, Role, HasPool, locks,
      Waiting, Running, InitLabels
<1>6. Others(c) /\ AtRest.pc = "idle" /\ AtRest.op = "get" /\ ~AtRest.error
  BY <1>5 DEF Moves, Ends, AtRest
<1>7. caller[c].op \in {"initialize", "use"} /\ (caller[c].error => ~NeverCloseFails)
  BY <1>2, <1>5 DEF Role, InitLabels
<1>8. Role(c)'
  <2>1. CASE Ends(c)
    BY <1>4, <1>5, <1>6, <2>1 DEF Role, Ends, Moves, InitLabels, CloseLabels, NeverCloseFails
  <2>2. ASSUME NEW label \in {"get", "initLocked", "initWait", "createPool"}, Moves(c, label),
               initLock' = c => label \notin {"init", "initWait"},
               initLock' = c /\ initialized => label = "initLocked"
        PROVE  Role(c)'
    BY <1>2, <1>4, <1>7, <2>2 DEF Role, Moves, Keeps, InitLabels, CloseLabels, NeverCloseFails
  <2> QED
    BY <1>5, <2>1, <2>2
<1>9. NeverCloseFails => ClientRole(c)'
  <2>1. CASE Moves(c, "get")
    <3>1. initLock' = c \/ initialized
      BY <1>5, <1>6, <2>1 DEF Moves, Ends
    <3>2. caller'[c].pc = "get" /\ caller[c].pc # "closed"
      BY <1>5, <2>1 DEF Moves
    <3>3. NeverCloseFails => initLock' = c \/ clients'[LoopOf[c]] # 0
      BY <1>2, <1>4, <1>5, <3>1, <3>2
    <3> QED
      BY <3>2, <3>3 DEF ClientRole
  <2>2. ASSUME caller'[c].pc \in {"initLocked", "initWait", "createPool", "idle"}
        PROVE  ClientRole(c)'
    BY <2>2 DEF ClientRole
  <2> QED
    BY <1>5, <1>6, <2>1, <2>2 DEF Moves, Ends
<1>10. HasPool(c)' <=> HasPool(c)
  <2>1. CASE Moves(c, "get")
    BY <1>5, <2>1 DEF HasPool, Moves
  <2>2. CASE ~Moves(c, "get")
    <3>1. caller'[c].pc \in {"initLocked", "initWait", "createPool", "idle"} /\ ~HasPool(c)
      BY <1>5, <1>6, <2>2 DEF Moves, Ends
    <3> QED
      BY <3>1 DEF HasPool
  <2> QED
    BY <2>1, <2>2
<1>11. PoolRole(c)'
  BY <1>5, <1>6 DEF PoolRole, Moves, Ends
<1> QED
  BY <1>2, <1>4, <1>5, <1>6, <1>7, <1>8, <1>9, <1>10, <1>11, RolesKept, ClientsKept, PoolsKept,
     UsableKept DEF AppInv, Closing

\* After a failed close() the application promises its roles only.
LEMMA AfterFailure ==
  ASSUME ~NeverCloseFails', Recorded, Roles'
  PROVE  AppInv'
BY DEF AppInv, ClientsWhileInitialized, PoolsAreOurs, OnlyCreateFails, UsableUnlessClosed,
       NobodyInterferes, Recorded

\* initialize() fails to make or to probe its pool.
LEMMA InitFailsKeeps ==
  ASSUME TypeOK, ClosedAreDead, Application, AppInv, Recorded, NEW c \in Callers, InitFails(c)
  PROVE  AppInv'
<1>1. /\ Roles /\ ClientsWhileInitialized /\ PoolsAreOurs /\ UsableUnlessClosed
      /\ Role(c) /\ c # None
      /\ caller[c].pc \in {"initLocked", "createPool", "probe"} => initLock = c
  BY Known
<1>2. /\ UNCHANGED <<pool, open, clients, live, cancels>>
      /\ caller[c].pc \in {"createPool", "probe"} /\ initLock = c
      /\ failed' = failed \cup {IF caller[c].pc = "probe" THEN "probe" ELSE "create"}
      /\ initLock' = None /\ ~initialized'
  BY <1>1 DEF InitFails, Resumes, Fails, resources, counts
<1>3. ~initialized /\ caller[c].op # "close"
  BY <1>1, <1>2 DEF Role, InitLabels
<1>4. initialized' = initialized
  <2>1. initialized' = FALSE
    BY DEF InitFails
  <2>2. initialized \in BOOLEAN
    BY DEF TypeOK
  <2> QED
    BY <1>3, <2>1, <2>2
<1>5. Ends(c) /\ Others(c) /\ AtRest.pc = "idle" /\ AtRest.op = "get" /\ ~AtRest.error
  BY Going DEF InitFails, Ends, AtRest
<1>6. caller'[c] = AtRest /\ failed \subseteq failed'
  BY <1>2, <1>5 DEF Ends
<1>7. Role(c)' /\ ClientRole(c)' /\ PoolRole(c)' /\ ~HasPool(c)'
  BY <1>1, <1>2, <1>5, <1>6 DEF Role, ClientRole, PoolRole, HasPool, InitLabels, CloseLabels
<1>8. Roles'
  BY <1>1, <1>2, <1>5, <1>6, <1>7, RolesKept
<1>9. ClientsWhileInitialized'
  BY <1>1, <1>2, <1>4, <1>5, <1>6, <1>7, ClientsKept
<1>10. PoolsAreOurs'
  <2>1. CASE caller[c].pc = "probe"
    BY <1>2, <2>1 DEF PoolsAreOurs, OnlyCreateFails
  <2>2. CASE caller[c].pc = "createPool"
    BY <1>1, <1>2, <1>4, <1>5, <1>6, <1>7, <2>2, PoolsKept DEF HasPool
  <2> QED
    BY <1>2, <2>1, <2>2
<1>11. UsableUnlessClosed'
  BY <1>1, <1>2, <1>3, <1>4, <1>5, <1>6, <1>7, UsableKept DEF Closing
<1> QED
  BY <1>8, <1>9, <1>10, <1>11 DEF AppInv

\* A pool is made when there is none.
LEMMA PoolCreatedKeeps ==
  ASSUME TypeOK, ClosedAreDead, Application, AppInv, Recorded, NEW c \in Callers, PoolCreated(c)
  PROVE  AppInv'
<1>1. /\ Roles /\ ClientsWhileInitialized /\ PoolsAreOurs /\ UsableUnlessClosed
      /\ Role(c) /\ c # None
      /\ caller[c].pc \in {"initLocked", "createPool", "probe"} => initLock = c
  BY Known
<1>2. /\ UNCHANGED <<clients, live, initialized, initLock, failed, cancels>>
      /\ caller[c].pc = "createPool" /\ initLock = c
      /\ pool' = made + 1 /\ open' = open \cup {made + 1}
      /\ made + 1 # 0 /\ made + 1 \notin open
  BY <1>1 DEF PoolCreated, Resumes, locks, counts, TypeOK
<1>3. Moves(c, "probe") /\ Others(c) /\ Keeps(c) /\ caller'[c].pc = "probe"
  BY Going DEF PoolCreated, Waiting, Moves
<1>4. ~initialized /\ caller[c].op \in {"initialize", "use"}
      /\ (caller[c].error => ~NeverCloseFails)
  BY <1>1, <1>2 DEF Role, InitLabels
<1>5. Role(c)' /\ ClientRole(c)'
  BY <1>2, <1>3, <1>4 DEF Role, Keeps, ClientRole, InitLabels, CloseLabels, NeverCloseFails
<1>6. Roles' /\ ClientsWhileInitialized'
  BY <1>1, <1>2, <1>3, <1>5, RolesKept, ClientsKept
<1>7. ASSUME OnlyCreateFails
      PROVE  /\ open' = {made + 1}
             /\ \A d \in Callers : PoolRole(d)'
  <2>1. \A d \in Callers : ~HasPool(d)
    BY <1>2 DEF HasPool
  <2>2. open = {} /\ pool = 0
    BY <1>1, <1>4, <1>7, <2>1 DEF PoolsAreOurs
  <2>3. HasPool(c)'
    BY <1>2, <1>3 DEF HasPool
  <2>4. ASSUME NEW d \in Callers, d # c PROVE PoolRole(d)'
    <3>1. caller'[d] = caller[d] /\ caller[d].pc # "closingPool"
      BY <1>1, <1>3, <1>7, <2>2, <2>4 DEF PoolsAreOurs, PoolRole, Others
    <3>2. caller[d].pc \notin {"closingClient", "popRedis"}
      BY <1>1, <1>4, <1>7 DEF ClientsWhileInitialized, ClientRole, OnlyCreateFails
    <3> QED
      BY <2>3, <3>1, <3>2 DEF PoolRole
  <2> QED
    BY <1>2, <1>3, <2>2, <2>4 DEF PoolRole
<1>8. PoolsAreOurs'
  <2>1. OnlyCreateFails' => OnlyCreateFails
    BY <1>2 DEF OnlyCreateFails, NeverCloseFails
  <2>2. HasPool(c)'
    BY <1>2, <1>3 DEF HasPool
  <2>3. OnlyCreateFails => open' = {pool'} /\ pool' # 0 /\ \A d \in Callers : PoolRole(d)'
    BY <1>2, <1>7
  <2> QED
    BY <2>1, <2>2, <2>3 DEF PoolsAreOurs
<1>9. UsableUnlessClosed'
  <2>1. \A d \in Callers : HasPool(d)' => pool' \in open'
    BY <1>2
  <2> QED
    BY <1>2, <1>4, <2>1 DEF UsableUnlessClosed, Recorded
<1> QED
  BY <1>6, <1>8, <1>9 DEF AppInv

\* A user looks for the client of the loop, and looks again under the thread lock.
LEMMA GetKeeps ==
  ASSUME TypeOK, ClosedAreDead, Application, AppInv, Recorded, NEW c \in Callers,
         Get(c) \/ GetLock(c)
  PROVE  AppInv'
<1> DEFINE Labels == {"idle"} \cup Waiting \cup Running
<1>1. /\ \A label \in Labels : Goes(c, label) => Moves(c, label)
      /\ \A label \in Labels : Awaits(c, label) => Moves(c, label)
      /\ Returns(c) => Ends(c)
  BY Going
<1>2. /\ Roles /\ ClientsWhileInitialized /\ PoolsAreOurs /\ UsableUnlessClosed
      /\ Role(c) /\ c # None /\ (NeverCloseFails => ClientRole(c))
  BY Known
<1>3. AfterInit(c) => \/ Moves(c, "get")
                      \/ Ends(c)
  BY <1>1 DEF AfterInit, Running
<1>4. /\ UNCHANGED <<pool, open, clients, live, failed, cancels>>
      /\ caller[c].pc \in {"get", "getLock"}
  BY DEF Get, GetLock, Runs, resources, counts
<1>5. \/ /\ clients[LoopOf[c]] = 0 /\ initialized' = initialized /\ initLock' = initLock
         /\ \/ Moves(c, "getLock")
            \/ Moves(c, "ping")
      \/ /\ clients[LoopOf[c]] # 0 /\ initLock # c
         /\ initialized' = initialized /\ initLock' = initLock /\ Ends(c)
      \/ /\ clients[LoopOf[c]] # 0 /\ initLock = c /\ initialized' /\ initLock' = None
         /\ \/ Moves(c, "get")
            \/ Ends(c)
  BY <1>1, <1>3 DEF Get, GetLock, Got, Client, Waiting, Running
<1>6. AtRest.pc = "idle" /\ AtRest.op = "get" /\ ~AtRest.error
  BY DEF AtRest
<1>7. /\ caller[c].op \in {"initialize", "use"} /\ (caller[c].error => ~NeverCloseFails)
      /\ initLock = c => ~initialized
  BY <1>2, <1>4 DEF Role, InitLabels
<1>8. ASSUME clients[LoopOf[c]] # 0, initLock = c PROVE ~NeverCloseFails
  BY <1>2, <1>7, <1>8 DEF ClientsWhileInitialized
<1>9. ASSUME NEW label \in {"get", "getLock", "ping"}, Moves(c, label),
             initLock' = c => ~initialized'
      PROVE  Role(c)'
  BY <1>4, <1>7, <1>9 DEF Role, Moves, Keeps, InitLabels, CloseLabels, NeverCloseFails
<1>10. ASSUME Ends(c), initLock' # c PROVE Role(c)'
  BY <1>6, <1>10 DEF Role, Ends, InitLabels, CloseLabels
<1>11. CASE clients[LoopOf[c]] = 0
  <2>1. PICK label \in {"getLock", "ping"} : Moves(c, label)
    BY <1>5, <1>11
  <2>2. UNCHANGED <<initialized, initLock>>
    BY <1>5, <1>11
  <2>3. Others(c) /\ caller'[c].pc = label
    BY <2>1 DEF Moves
  <2>4. Role(c)'
    BY <1>7, <1>9, <2>1, <2>2
  <2>5. NeverCloseFails => ClientRole(c)'
    BY <1>2, <1>4, <1>11, <2>2, <2>3 DEF ClientRole
  <2>6. PoolRole(c)' /\ (HasPool(c)' <=> HasPool(c))
    BY <1>4, <2>2, <2>3 DEF PoolRole, HasPool
  <2>7. Closing(c)' <=> Closing(c)
    BY <2>1 DEF Closing, Moves, Keeps
  <2> QED
    BY <1>2, <1>4, <2>2, <2>3, <2>4, <2>5, <2>6, <2>7, RolesKept, ClientsKept, PoolsKept, UsableKept
    DEF AppInv
<1>12. CASE clients[LoopOf[c]] # 0 /\ initLock # c
  <2>1. Ends(c) /\ Others(c) /\ UNCHANGED <<initialized, initLock>> /\ caller'[c].pc = "idle"
    BY <1>5, <1>6, <1>12 DEF Ends
  <2>2. Role(c)' /\ ClientRole(c)' /\ PoolRole(c)' /\ ~HasPool(c)' /\ ~HasPool(c)
    BY <1>10, <1>12, <2>1 DEF ClientRole, PoolRole, HasPool
  <2>3. ~Closing(c)
    BY <1>7 DEF Closing
  <2> QED
    BY <1>2, <1>4, <2>1, <2>2, <2>3, RolesKept, ClientsKept, PoolsKept, UsableKept DEF AppInv
<1>13. CASE clients[LoopOf[c]] # 0 /\ initLock = c
  <2>1. ~NeverCloseFails' /\ initLock' = None
    BY <1>4, <1>5, <1>8, <1>13 DEF NeverCloseFails
  <2>2. Others(c) /\ Role(c)'
    BY <1>2, <1>5, <1>9, <1>10, <1>13, <2>1 DEF Moves, Ends
  <2>3. Roles'
    BY <1>2, <1>4, <2>1, <2>2, RolesKept
  <2> QED
    BY <2>1, <2>3, AfterFailure
<1> QED
  BY <1>11, <1>12, <1>13

\* The first client is made, and initialize() is complete.
LEMMA PingedKeeps ==
  ASSUME TypeOK, ClosedAreDead, Application, AppInv, Recorded, NEW c \in Callers, Pinged(c)
  PROVE  AppInv'
<1>1. /\ Roles /\ ClientsWhileInitialized /\ PoolsAreOurs /\ UsableUnlessClosed
      /\ Role(c) /\ c # None /\ (NeverCloseFails => ClientRole(c))
      /\ caller[c].pc = "ping" <=> redisLock = c
  BY Known
<1>2. /\ UNCHANGED <<pool, open, failed, cancels>>
      /\ caller[c].pc = "ping" /\ turn[LoopOf[c]] = None
      /\ clients' = [clients EXCEPT ![LoopOf[c]] = made + 1]
      /\ live' = live \cup {made + 1}
  BY DEF Pinged, Resumes, counts
<1>3. AfterInit(c) => \/ Moves(c, "get")
                      \/ Ends(c)
  BY Going DEF AfterInit, Running
<1>4. /\ initLock = c => initialized' /\ initLock' = None
      /\ initLock # c => initialized' = initialized /\ initLock' = initLock /\ Ends(c)
      /\ \/ Moves(c, "get")
         \/ Ends(c)
  BY <1>3, Going DEF Pinged, Got
<1>5. AtRest.pc = "idle" /\ AtRest.op = "get" /\ ~AtRest.error
  BY DEF AtRest
<1>6. /\ caller[c].op \in {"initialize", "use"} /\ (caller[c].error => ~NeverCloseFails)
      /\ initLock = c => ~initialized
  BY <1>1, <1>2 DEF Role, InitLabels
<1>7. Others(c) /\ caller'[c].pc \in {"get", "idle"} /\ initLock' # c
      /\ initLock' \in {initLock, None}
  BY <1>1, <1>4, <1>5 DEF Moves, Ends
<1>8. Role(c)'
  <2>1. CASE Ends(c)
    BY <1>5, <1>7, <2>1 DEF Role, Ends, InitLabels, CloseLabels
  <2>2. CASE Moves(c, "get")
    BY <1>2, <1>6, <1>7, <2>2 DEF Role, Moves, Keeps, InitLabels, CloseLabels, NeverCloseFails
  <2> QED
    BY <1>4, <2>1, <2>2
<1>9. Roles'
  BY <1>1, <1>2, <1>4, <1>7, <1>8, RolesKept
<1>10. CASE ~NeverCloseFails
  BY <1>2, <1>9, <1>10, AfterFailure DEF NeverCloseFails
<1>11. CASE NeverCloseFails
  <2>1. initLock = c /\ initialized' /\ initLock' = None /\ ~initialized
    BY <1>1, <1>2, <1>4, <1>6, <1>11 DEF ClientRole
  <2>2. \A d \in Callers : clients[LoopOf[d]] = 0 /\ clients'[LoopOf[d]] # 0
    <3>1. /\ made \in Nat /\ clients \in [Loops -> 0 .. made] /\ LoopOf[c] \in Loops
      BY LoopsAssumption DEF TypeOK
    <3>2. clients[LoopOf[c]] = 0 /\ clients'[LoopOf[c]] # 0
      BY <1>2, <3>1 DEF ClosedAreDead
    <3> QED
      BY <3>2, OneLoop
  <2>3. \A d \in Callers : /\ caller[d].pc \notin Running
                           /\ d # c => caller'[d] = caller[d] /\ caller[d].pc # "ping"
    BY <1>1, <1>2, <1>7, OneLoop DEF Others, TypeOK
  <2>4. ASSUME NEW d \in Callers PROVE ClientRole(d)'
    <3>1. CASE d = c
      BY <1>7, <2>2, <3>1 DEF ClientRole
    <3>2. CASE d # c
      BY <1>1, <1>11, <2>2, <2>3, <3>2 DEF ClientRole, ClientsWhileInitialized, Running
    <3> QED
      BY <3>1, <3>2
  <2>5. ClientsWhileInitialized'
    BY <2>1, <2>2, <2>4 DEF ClientsWhileInitialized
  <2>6. ASSUME OnlyCreateFails, NEW d \in Callers PROVE PoolRole(d)'
    <3>1. CASE d = c
      BY <1>7, <3>1 DEF PoolRole
    <3>2. CASE d # c
      BY <1>1, <1>2, <2>3, <2>6, <3>2 DEF PoolRole, PoolsAreOurs, Running
    <3> QED
      BY <3>1, <3>2
  <2>7. PoolsAreOurs'
    BY <1>1, <1>2, <2>1, <2>6 DEF PoolsAreOurs, OnlyCreateFails, NeverCloseFails
  <2>8. HasPool(c) /\ \A d \in Callers : ~HasPool(d)'
    BY <1>2, <2>1, NoneAssumption DEF HasPool
  <2>9. UsableUnlessClosed'
    BY <1>1, <1>2, <2>8 DEF UsableUnlessClosed, NobodyInterferes, NeverCloseFails, Recorded
  <2> QED
    BY <1>9, <2>5, <2>7, <2>9 DEF AppInv
<1> QED
  BY <1>10, <1>11

\* The first client cannot be made: initialize() fails.
LEMMA PingFailsKeeps ==
  ASSUME TypeOK, ClosedAreDead, Application, AppInv, Recorded, NEW c \in Callers, PingFails(c)
  PROVE  AppInv'
<1>1. /\ Roles /\ ClientsWhileInitialized /\ PoolsAreOurs /\ UsableUnlessClosed
      /\ Role(c) /\ c # None /\ (NeverCloseFails => ClientRole(c))
  BY Known
<1>2. /\ UNCHANGED <<pool, open, clients, live, cancels>>
      /\ caller[c].pc = "ping" /\ failed' = failed \cup {"ping"}
      /\ initLock = c => initialized' = FALSE /\ initLock' = None
      /\ initLock # c => initialized' = initialized /\ initLock' = initLock
  BY DEF PingFails, Resumes, Fails, resources, counts
<1>3. /\ caller[c].op # "close"
      /\ initLock = c => ~initialized
  BY <1>1, <1>2 DEF Role, InitLabels
<1>4. initialized' = initialized
  <2>1. initialized \in BOOLEAN
    BY DEF TypeOK
  <2> QED
    BY <1>2, <1>3, <2>1
<1>5. Ends(c) /\ Others(c) /\ AtRest.pc = "idle" /\ AtRest.op = "get" /\ ~AtRest.error
  BY Going DEF PingFails, Ends, AtRest
<1>6. caller'[c] = AtRest /\ failed \subseteq failed' /\ initLock' # c
      /\ initLock' \in {initLock, None} /\ (initLock' # initLock => initLock = c)
  BY <1>1, <1>2, <1>5 DEF Ends
<1>7. Role(c)' /\ ClientRole(c)' /\ ~HasPool(c)'
  BY <1>5, <1>6 DEF Role, ClientRole, HasPool, InitLabels, CloseLabels
<1>8. Roles'
  BY <1>1, <1>4, <1>5, <1>6, <1>7, RolesKept
<1>9. ClientsWhileInitialized'
  BY <1>1, <1>2, <1>4, <1>5, <1>6, <1>7, ClientsKept
<1>10. PoolsAreOurs'
  BY <1>2 DEF PoolsAreOurs, OnlyCreateFails
<1>11. UsableUnlessClosed'
  BY <1>1, <1>2, <1>3, <1>4, <1>5, <1>6, <1>7, UsableKept DEF Closing
<1> QED
  BY <1>8, <1>9, <1>10, <1>11 DEF AppInv

\* close() finds a pool or none.
LEMMA CloseKeeps ==
  ASSUME TypeOK, ClosedAreDead, Application, AppInv, Recorded, NEW c \in Callers, Close(c)
  PROVE  AppInv'
<1>1. /\ Roles /\ ClientsWhileInitialized /\ PoolsAreOurs /\ UsableUnlessClosed
      /\ Role(c) /\ c # None
  BY Known
<1>2. /\ UNCHANGED <<pool, open, clients, live, initialized, initLock, failed, cancels>>
      /\ caller[c].pc = "close"
  BY DEF Close, Runs, resources, locks, counts
<1>3. /\ Others(c) /\ caller'[c].op = caller[c].op /\ caller'[c].error = caller[c].error
      /\ \/ caller'[c].pc = "closingPool" /\ pool # 0 /\ caller'[c].target = pool
         \/ caller'[c].pc = "closeRedis" /\ pool = 0
  BY Going, CloseMoves DEF Close, Moves, Keeps, Running
<1>4. /\ caller[c].op = "close" /\ "close" \in Does[c] /\ initLock # c
      /\ caller[c].error => ~NeverCloseFails
  BY <1>1, <1>2 DEF Role, InitLabels, CloseLabels
<1>5. Role(c)'
  BY <1>2, <1>3, <1>4 DEF Role, InitLabels, CloseLabels, NeverCloseFails
<1>6. ClientRole(c)' /\ ~HasPool(c)' /\ ~HasPool(c) /\ Closing(c)'
  BY <1>2, <1>3, <1>4 DEF ClientRole, HasPool, Closing
<1>7. OnlyCreateFails => PoolRole(c)'
  BY <1>1, <1>2, <1>3 DEF PoolRole, PoolsAreOurs
<1> QED
  BY <1>1, <1>2, <1>3, <1>5, <1>6, <1>7, RolesKept, ClientsKept, PoolsKept, UsableKept DEF AppInv

\* close() has closed the pool.
LEMMA PoolClosedKeeps ==
  ASSUME TypeOK, ClosedAreDead, Application, AppInv, Recorded, NEW c \in Callers, PoolClosed(c)
  PROVE  AppInv'
<1>1. /\ Roles /\ ClientsWhileInitialized /\ PoolsAreOurs /\ UsableUnlessClosed
      /\ Role(c) /\ c # None /\ (OnlyCreateFails => PoolRole(c))
  BY Known
<1>2. /\ UNCHANGED <<clients, live, initialized, initLock, failed, cancels>>
      /\ caller[c].pc = "closingPool"
      /\ pool' = 0 /\ open' = open \ {caller[c].target}
  BY DEF PoolClosed, Resumes, locks, counts
<1>3. /\ Others(c) /\ caller'[c].op = caller[c].op /\ caller'[c].error = caller[c].error
      /\ caller'[c].pc = "closeRedis"
  BY Going DEF PoolClosed, Moves, Keeps, Running
<1>4. /\ caller[c].op = "close" /\ "close" \in Does[c] /\ initLock # c
      /\ caller[c].error => ~NeverCloseFails
  BY <1>1, <1>2 DEF Role, InitLabels, CloseLabels
<1>5. Role(c)'
  BY <1>2, <1>3, <1>4 DEF Role, InitLabels, CloseLabels, NeverCloseFails
<1>6. ClientRole(c)' /\ Closing(c)'
  BY <1>3, <1>4 DEF ClientRole, Closing
<1>7. Roles' /\ ClientsWhileInitialized'
  BY <1>1, <1>2, <1>3, <1>5, <1>6, RolesKept, ClientsKept
<1>8. PoolsAreOurs'
  <2>1. OnlyCreateFails' => OnlyCreateFails
    BY <1>2 DEF OnlyCreateFails, NeverCloseFails
  <2>2. OnlyCreateFails => open' = {}
    BY <1>1, <1>2 DEF PoolRole, PoolsAreOurs
  <2>3. \A d \in Callers : caller'[d].pc # "closingPool"
    BY <1>1, <1>3, <1>4 DEF Roles, Role, CloseLabels, Application, Others
  <2>4. \A d \in Callers : OnlyCreateFails => PoolRole(d)'
    BY <2>2, <2>3 DEF PoolRole
  <2> QED
    BY <1>2, <2>1, <2>2, <2>4 DEF PoolsAreOurs
<1>9. UsableUnlessClosed'
  <2>1. \A d \in Callers : HasPool(d)' => overlapped'
    BY <1>6, NoneAssumption DEF HasPool, Recorded, Overlap
  <2> QED
    BY <1>6, <2>1 DEF UsableUnlessClosed, NobodyInterferes, Recorded
<1> QED
  BY <1>7, <1>8, <1>9 DEF AppInv

\* close() has failed to close the pool.
LEMMA PoolCloseFailsKeeps ==
  ASSUME TypeOK, ClosedAreDead, Application, AppInv, Recorded, NEW c \in Callers, PoolCloseFails(c)
  PROVE  AppInv'
<1>1. Roles /\ Role(c)
  BY Known
<1>2. /\ UNCHANGED <<initialized, initLock>> /\ caller[c].pc = "closingPool"
      /\ failed' = failed \cup {"closePool"}
  BY DEF PoolCloseFails, Resumes, Fails, locks
<1>3. Others(c) /\ caller'[c].op = caller[c].op /\ caller'[c].pc = "closeRedis"
  BY PoolCloseFailsMoves
<1>4. ~NeverCloseFails'
  BY <1>2 DEF NeverCloseFails, CloseFailures
<1>5. Role(c)'
  BY <1>1, <1>2, <1>3, <1>4 DEF Role, InitLabels, CloseLabels
<1> QED
  BY <1>1, <1>2, <1>3, <1>4, <1>5, RolesKept, AfterFailure

\* close() finds clients or none.
LEMMA CloseRedisKeeps ==
  ASSUME TypeOK, ClosedAreDead, Application, AppInv, Recorded, NEW c \in Callers, CloseRedis(c)
  PROVE  AppInv'
<1>1. /\ Roles /\ ClientsWhileInitialized /\ PoolsAreOurs /\ UsableUnlessClosed
      /\ Role(c) /\ c # None
  BY Known
<1>2. /\ UNCHANGED <<pool, open, clients, live, initialized, initLock, failed, cancels>>
      /\ caller[c].pc = "closeRedis"
  BY DEF CloseRedis, Runs, resources, locks, counts
<1>3. /\ caller[c].op = "close" /\ "close" \in Does[c] /\ initLock # c
      /\ caller[c].error => ~NeverCloseFails
  BY <1>1, <1>2 DEF Role, InitLabels, CloseLabels
<1>4. \A l \in Loops : l = LoopOf[c]
  BY LoopsAssumption DEF Application
<1>5. CASE clients = NoClients
  <2>1. /\ Others(c) /\ caller'[c].op = caller[c].op /\ caller'[c].error = caller[c].error
        /\ caller'[c].pc = "closed"
    BY <1>5, Going DEF CloseRedis, Moves, Keeps, Running
  <2>2. Role(c)'
    BY <1>2, <1>3, <2>1 DEF Role, InitLabels, CloseLabels, NeverCloseFails
  <2>3. clients[LoopOf[c]] = 0
    BY <1>5, LoopsAssumption DEF NoClients
  <2>4. ClientRole(c)' /\ ~HasPool(c)' /\ ~HasPool(c) /\ Closing(c)'
    BY <1>2, <1>3, <2>1, <2>3 DEF ClientRole, HasPool, Closing
  <2>5. \A d \in Callers : HasPool(d) => HasPool(d)'
    BY <1>2, <1>3, <2>1 DEF HasPool, Others
  <2>6. OnlyCreateFails => PoolRole(c)'
    BY <1>1, <1>2, <2>1, <2>5 DEF PoolRole, PoolsAreOurs
  <2> QED
    BY <1>1, <1>2, <2>1, <2>2, <2>4, <2>6, RolesKept, ClientsKept, PoolsKept, UsableKept DEF AppInv
<1>6. CASE clients # NoClients
  <2>1. /\ Others(c) /\ caller'[c].op = caller[c].op /\ caller'[c].error = caller[c].error
        /\ caller'[c].pc = "closingClient" /\ caller'[c].copy = clients
        /\ caller'[c].todo = {l \in Loops : clients[l] # 0}
    BY <1>6, CloseRedisMoves
  <2>2. Role(c)'
    BY <1>2, <1>3, <2>1 DEF Role, InitLabels, CloseLabels, NeverCloseFails
  <2>3. clients[LoopOf[c]] # 0
    <3>1. clients \in [Loops -> 0 .. made]
      BY DEF TypeOK
    <3>2. ASSUME clients[LoopOf[c]] = 0 PROVE clients = NoClients
      BY <1>4, <3>1, <3>2 DEF NoClients
    <3> QED
      BY <1>6, <3>2
  <2>4. caller'[c].todo = Loops /\ caller'[c].shut \subseteq Loops
    BY <1>4, <2>1, <2>3 DEF Others, CallerState
  <2>5. ClientRole(c)'
    BY <1>2, <2>1, <2>3, <2>4 DEF ClientRole
  <2>6. ~HasPool(c)' /\ ~HasPool(c) /\ Closing(c)'
    BY <1>2, <1>3, <2>1 DEF HasPool, Closing
  <2>7. OnlyCreateFails => PoolRole(c)'
    <3>1. ASSUME OnlyCreateFails, NEW d \in Callers, HasPool(d) PROVE FALSE
      BY <1>1, <2>3, <3>1 DEF ClientsWhileInitialized, Roles, Role, HasPool, OnlyCreateFails
    <3>2. OnlyCreateFails => open = {}
      BY <1>1, <1>2, <3>1 DEF PoolRole, PoolsAreOurs
    <3> QED
      BY <1>2, <2>1, <3>2 DEF PoolRole
  <2> QED
    BY <1>1, <1>2, <2>1, <2>2, <2>5, <2>6, <2>7, RolesKept, ClientsKept, PoolsKept, UsableKept
    DEF AppInv
<1> QED
  BY <1>5, <1>6

\* close() has closed a client.
LEMMA ClientClosedKeeps ==
  ASSUME TypeOK, ClosedAreDead, Application, AppInv, Recorded, NEW c \in Callers, ClientClosed(c)
  PROVE  AppInv'
<1>1. /\ Roles /\ ClientsWhileInitialized /\ PoolsAreOurs /\ UsableUnlessClosed
      /\ Role(c) /\ c # None /\ (NeverCloseFails => ClientRole(c))
      /\ (OnlyCreateFails => PoolRole(c))
  BY Known
<1>2. /\ UNCHANGED <<pool, open, clients, initialized, initLock, failed, cancels>>
      /\ caller[c].pc = "closingClient"
  BY DEF ClientClosed, Resumes, locks, counts
<1>3. PICK l \in Loops : ClientDone(c, l, {l}, FALSE)
  BY DEF ClientClosed
<1>4. /\ Others(c) /\ caller'[c].op = caller[c].op
      /\ caller'[c].error = (caller[c].error \/ FALSE)
      /\ \/ caller'[c].pc = "popRedis" /\ caller'[c].todo = {}
         \/ caller'[c].pc = "closingClient"
      /\ caller'[c].copy = caller[c].copy /\ caller'[c].todo = caller[c].todo \ {l}
      /\ caller'[c].shut = caller[c].shut \cup {l}
  <2>1. Resumes(c, "closingClient") /\ {l} \in SUBSET Loops /\ FALSE \in BOOLEAN
    BY DEF ClientClosed
  <2>2. PICK done \in SUBSET Loops, error \in BOOLEAN :
          done = {l} /\ error = FALSE /\ ClientDone(c, l, done, error)
    BY <1>3, <2>1
  <2>3. /\ Others(c) /\ caller'[c].op = caller[c].op
        /\ caller'[c].error = (caller[c].error \/ error)
        /\ \/ caller'[c].pc = "popRedis" /\ caller'[c].todo = {}
           \/ caller'[c].pc = "closingClient"
        /\ caller'[c].copy = caller[c].copy /\ caller'[c].todo = caller[c].todo \ {l}
        /\ caller'[c].shut = caller[c].shut \cup done
    BY <2>1, <2>2, ClientMoves
  <2> QED
    BY <2>2, <2>3
<1>5. /\ caller[c].op = "close" /\ "close" \in Does[c] /\ initLock # c
      /\ caller[c].error => ~NeverCloseFails
  BY <1>1, <1>2 DEF Role, InitLabels, CloseLabels
<1>6. Role(c)'
  <2>1. caller'[c].error => ~NeverCloseFails'
    BY <1>2, <1>4, <1>5 DEF NeverCloseFails
  <2> QED
    BY <1>2, <1>4, <1>5, <2>1 DEF Role, InitLabels, CloseLabels
<1>7. NeverCloseFails => ClientRole(c)'
  BY <1>1, <1>2, <1>4 DEF ClientRole
<1>8. ~HasPool(c)' /\ ~HasPool(c) /\ Closing(c)'
  BY <1>2, <1>4, <1>5 DEF HasPool, Closing
<1>9. OnlyCreateFails => PoolRole(c)'
  BY <1>1, <1>2, <1>4 DEF PoolRole
<1> QED
  BY <1>1, <1>2, <1>4, <1>6, <1>7, <1>8, <1>9, RolesKept, ClientsKept, PoolsKept, UsableKept
  DEF AppInv

\* close() has failed to close a client.
LEMMA ClientCloseFailsKeeps ==
  ASSUME TypeOK, ClosedAreDead, Application, AppInv, Recorded, NEW c \in Callers,
         ClientCloseFails(c)
  PROVE  AppInv'
<1>1. Roles /\ Role(c)
  BY Known
<1>2. /\ UNCHANGED <<initialized, initLock>> /\ caller[c].pc = "closingClient"
      /\ failed' = failed \cup {"closeClient"}
  BY DEF ClientCloseFails, Resumes, Fails, locks
<1>3. PICK l \in Loops : ClientDone(c, l, {}, TRUE)
  BY DEF ClientCloseFails
<1>4. /\ Others(c) /\ caller'[c].op = caller[c].op
      /\ caller'[c].pc \in {"popRedis", "closingClient"}
  BY <1>3, ClientMoves DEF ClientCloseFails
<1>5. ~NeverCloseFails'
  BY <1>2 DEF NeverCloseFails, CloseFailures
<1>6. Role(c)'
  BY <1>1, <1>2, <1>4, <1>5 DEF Role, InitLabels, CloseLabels
<1> QED
  BY <1>1, <1>2, <1>4, <1>5, <1>6, RolesKept, AfterFailure

\* close() forgets the clients it has closed.
LEMMA PopRedisKeeps ==
  ASSUME TypeOK, ClosedAreDead, Application, AppInv, Recorded, NEW c \in Callers, PopRedis(c)
  PROVE  AppInv'
<1>1. /\ Roles /\ ClientsWhileInitialized /\ PoolsAreOurs /\ UsableUnlessClosed
      /\ Role(c) /\ c # None /\ (NeverCloseFails => ClientRole(c))
      /\ (OnlyCreateFails => PoolRole(c))
  BY Known
<1>2. /\ UNCHANGED <<pool, open, live, initialized, initLock, failed, cancels>>
      /\ turn[LoopOf[c]] = c /\ caller[c].pc = "popRedis"
      /\ clients' = [l \in Loops |->
           IF l \in caller[c].shut /\ clients[l] = caller[c].copy[l] THEN 0 ELSE clients[l]]
  BY DEF PopRedis, Runs, locks, counts
<1>3. /\ Others(c) /\ caller'[c].op = caller[c].op /\ caller'[c].error = caller[c].error
      /\ caller'[c].pc = "closed"
  BY Going DEF PopRedis, Moves, Keeps, Running
<1>4. /\ caller[c].op = "close" /\ "close" \in Does[c] /\ initLock # c
      /\ caller[c].error => ~NeverCloseFails
  BY <1>1, <1>2 DEF Role, InitLabels, CloseLabels
<1>5. Role(c)'
  BY <1>2, <1>3, <1>4 DEF Role, InitLabels, CloseLabels, NeverCloseFails
<1>6. ClientsWhileInitialized'
  <2>1. NeverCloseFails' => NeverCloseFails
    BY <1>2 DEF NeverCloseFails
  <2>2. ASSUME NeverCloseFails
        PROVE  initialized /\ \A d \in Callers : clients'[LoopOf[d]] = 0
    <3>1. caller[c].shut = Loops /\ caller[c].copy = clients /\ initialized
      BY <1>1, <1>2, <2>2 DEF ClientRole, ClientsWhileInitialized
    <3> QED
      BY <1>2, <3>1, LoopsAssumption
  <2>3. \A d \in Callers : d # c => caller'[d] = caller[d] /\ caller[d].pc \notin Running
    BY <1>2, <1>3, OneLoop DEF Others
  <2>4. \A d \in Callers : d # c => caller[d].pc # "closingClient"
    BY <1>1, <1>4 DEF Roles, Role, CloseLabels, Application
  <2>5. ASSUME NeverCloseFails, NEW d \in Callers PROVE ClientRole(d)'
    <3>1. CASE d = c
      BY <1>3, <2>2, <2>5, <3>1 DEF ClientRole
    <3>2. CASE d # c
      BY <1>1, <1>2, <2>3, <2>4, <2>5, <3>2 DEF ClientRole, ClientsWhileInitialized, Running
    <3> QED
      BY <3>1, <3>2
  <2> QED
    BY <1>2, <1>3, <2>1, <2>2, <2>5 DEF ClientsWhileInitialized
<1>7. ~HasPool(c)' /\ ~HasPool(c) /\ Closing(c)'
  BY <1>2, <1>3, <1>4 DEF HasPool, Closing
<1>8. OnlyCreateFails => PoolRole(c)'
  BY <1>1, <1>2, <1>3 DEF PoolRole
<1>9. PoolsAreOurs'
  BY <1>1, <1>2, <1>3, <1>7, <1>8, PoolsKept
<1>10. Roles' /\ UsableUnlessClosed'
  BY <1>1, <1>2, <1>3, <1>5, <1>7, RolesKept, UsableKept
<1> QED
  BY <1>6, <1>9, <1>10 DEF AppInv

\* close() returns or raises.
LEMMA ClosedKeeps ==
  ASSUME TypeOK, ClosedAreDead, Application, AppInv, Recorded, NEW c \in Callers, Closed(c)
  PROVE  AppInv'
<1>1. /\ Roles /\ ClientsWhileInitialized /\ PoolsAreOurs /\ UsableUnlessClosed
      /\ Role(c) /\ c # None /\ (NeverCloseFails => ClientRole(c))
      /\ (OnlyCreateFails => PoolRole(c))
  BY Known
<1>2. /\ UNCHANGED <<pool, open, clients, live, initLock, failed, cancels>>
      /\ caller[c].pc = "closed"
      /\ initialized' = (initialized /\ caller[c].error)
  BY DEF Closed, Runs, resources, locks, counts
<1>3. Ends(c) /\ Others(c) /\ AtRest.pc = "idle" /\ AtRest.op = "get" /\ ~AtRest.error
  BY Going DEF Closed, Ends, AtRest
<1>4. /\ initLock # c
      /\ caller[c].error => ~NeverCloseFails
  BY <1>1, <1>2 DEF Role, InitLabels, CloseLabels
<1>5. /\ initialized' => initialized
      /\ NeverCloseFails => ~initialized'
  BY <1>2, <1>4
<1>6. caller'[c] = AtRest /\ caller'[c].pc = "idle"
  BY <1>3 DEF Ends
<1>7. Role(c)' /\ ClientRole(c)' /\ PoolRole(c)' /\ ~HasPool(c)' /\ ~HasPool(c)
  BY <1>2, <1>3, <1>4, <1>6 DEF Role, ClientRole, PoolRole, HasPool, InitLabels, CloseLabels
<1>8. Roles'
  BY <1>1, <1>2, <1>3, <1>5, <1>7, RolesKept
<1>9. CASE ~NeverCloseFails
  BY <1>2, <1>8, <1>9, AfterFailure DEF NeverCloseFails
<1>10. CASE NeverCloseFails
  <2>1. ~initialized' /\ \A d \in Callers : clients'[LoopOf[d]] = 0
    BY <1>1, <1>2, <1>5, <1>10, OneLoop DEF ClientRole
  <2>2. ASSUME NEW d \in Callers PROVE ClientRole(d)'
    <3>1. CASE d = c
      BY <1>7, <3>1
    <3>2. CASE d # c
      BY <1>1, <1>2, <1>3, <1>10, <3>2 DEF ClientRole, ClientsWhileInitialized, Others
    <3> QED
      BY <3>1, <3>2
  <2>3. ClientsWhileInitialized'
    BY <2>1, <2>2 DEF ClientsWhileInitialized
  <2>4. OnlyCreateFails' => OnlyCreateFails
    BY <1>2 DEF OnlyCreateFails, NeverCloseFails
  <2>5. \A d \in Callers : HasPool(d)' <=> HasPool(d)
    BY <1>2, <1>3, <1>4 DEF HasPool, Others
  <2>6. OnlyCreateFails => open = {} \/ \E d \in Callers : HasPool(d)'
    BY <1>1, <1>2, <2>5 DEF PoolRole
  <2>7. ASSUME OnlyCreateFails, NEW d \in Callers PROVE PoolRole(d)'
    <3>1. CASE d = c
      BY <1>7, <3>1
    <3>2. CASE d # c
      BY <1>1, <1>2, <1>3, <2>5, <2>7, <3>2 DEF PoolRole, PoolsAreOurs, Others
    <3> QED
      BY <3>1, <3>2
  <2>8. PoolsAreOurs'
    BY <1>1, <1>2, <2>4, <2>6, <2>7 DEF PoolsAreOurs
  <2>9. UsableUnlessClosed'
    BY <1>1, <1>2, <1>3, <1>5, <1>7, <2>1, UsableKept
  <2> QED
    BY <1>8, <2>3, <2>8, <2>9 DEF AppInv
<1> QED
  BY <1>9, <1>10

\* A coroutine that awaits is cancelled.
LEMMA CancelKeeps ==
  ASSUME TypeOK, ClosedAreDead, Application, AppInv, Recorded, NEW c \in Callers, Cancel(c)
  PROVE  AppInv'
<1>1. /\ Roles /\ ClientsWhileInitialized /\ PoolsAreOurs /\ UsableUnlessClosed
      /\ Role(c) /\ c # None
  BY Known
<1>2. /\ UNCHANGED <<pool, open, clients, live, initialized, failed>>
      /\ caller[c].pc \in Waiting /\ cancels' = cancels + 1
      /\ initLock' = IF initLock = c THEN None ELSE initLock
  BY DEF Cancel, resources
<1>3. cancels' # 0
  BY <1>2 DEF TypeOK
<1>4. Ends(c) /\ Others(c) /\ AtRest.pc = "idle" /\ AtRest.op = "get" /\ ~AtRest.error
  BY Going DEF Cancel, Ends, AtRest
<1>5. /\ caller'[c] = AtRest /\ caller'[c].pc = "idle" /\ caller[c].pc # "closed"
      /\ initLock' \in {initLock, None} /\ initLock' # c /\ (initLock' # initLock => initLock = c)
  BY <1>1, <1>2, <1>4 DEF Ends, Waiting
<1>6. Role(c)' /\ ClientRole(c)'
  BY <1>4, <1>5 DEF Role, ClientRole, InitLabels, CloseLabels
<1>7. Roles' /\ ClientsWhileInitialized'
  BY <1>1, <1>2, <1>4, <1>5, <1>6, RolesKept, ClientsKept
<1>8. PoolsAreOurs' /\ UsableUnlessClosed'
  BY <1>3 DEF PoolsAreOurs, OnlyCreateFails, UsableUnlessClosed, NobodyInterferes, Recorded
<1> QED
  BY <1>7, <1>8 DEF AppInv

\* A coroutine calls an operation.
LEMMA CallKeeps ==
  ASSUME TypeOK, ClosedAreDead, Application, AppInv, Recorded, NEW c \in Callers,
         NEW op \in Operations, Call(c, op)
  PROVE  AppInv'
<1>1. /\ Roles /\ ClientsWhileInitialized /\ PoolsAreOurs /\ UsableUnlessClosed
      /\ Role(c) /\ c # None
  BY Known
<1>2. UNCHANGED <<pool, open, clients, live, initialized, initLock, failed, cancels>>
  BY DEF Call, resources, locks
<1>3. /\ Others(c) /\ caller[c].pc = "idle" /\ op \in Does[c]
      /\ caller'[c].op = op /\ caller'[c].error = caller[c].error
      /\ caller'[c].pc = IF op \in {"initialize", "use"} THEN "init" ELSE op
  BY CallMoves
<1>4. \/ op \in {"initialize", "use"} /\ caller'[c].pc = "init"
      \/ op = "close" /\ caller'[c].pc = "close"
  BY <1>3 DEF Application
<1>5. initLock # c /\ ~caller[c].error /\ caller[c].op # "close"
  BY <1>1, <1>3 DEF Role, InitLabels, AtRest
<1>6. Role(c)'
  BY <1>2, <1>3, <1>4, <1>5 DEF Role, InitLabels, CloseLabels
<1>7. ClientRole(c)' /\ PoolRole(c)' /\ ~HasPool(c)' /\ ~HasPool(c)
  BY <1>2, <1>4, <1>5 DEF ClientRole, PoolRole, HasPool
<1> QED
  BY <1>1, <1>2, <1>3, <1>5, <1>6, <1>7, RolesKept, ClientsKept, PoolsKept, UsableKept
  DEF AppInv, Closing

-----------------------------------------------------------------------------
(* Every reachable state.                                                  *)

\* Every initial state satisfies the inductive invariant.
LEMMA InitInv == Init => IInv
<1> SUFFICES ASSUME Init PROVE IInv
  OBVIOUS
<1>1. TypeOK
  BY InitTyped
<1>2. /\ \A c \in Callers : caller[c] = AtRest /\ LoopOf[c] \in Loops
      /\ clients = NoClients /\ live = {} /\ open = {} /\ pool = 0
      /\ ~initialized /\ initLock = None /\ made = 0
      /\ \A l \in Loops : turn[l] = None
  BY LoopsAssumption DEF Init
<1>3. /\ AtRest.pc = "idle" /\ AtRest.op = "get" /\ ~AtRest.error
      /\ AtRest.shut = {} /\ AtRest.copy = NoClients
  BY DEF AtRest
<1>4. NoClients \in [Loops -> 0 .. made] /\ \A c \in Callers : clients[LoopOf[c]] = 0
  BY <1>2 DEF NoClients
<1>5. ClosedAreDead /\ ClientsReachable /\ OwnTurns
  BY <1>2, <1>3, <1>4 DEF ClosedAreDead, ClientsReachable, OwnTurns
<1>6. \A c \in Callers : Role(c) /\ ClientRole(c) /\ PoolRole(c) /\ ~HasPool(c)
  BY <1>2, <1>3, NoneAssumption
  DEF Role, ClientRole, PoolRole, HasPool, InitLabels, CloseLabels
<1>9. InitializersFirst
  BY <1>2, <1>3, NoneAssumption
  DEF InitializersFirst, Initializer, MakesFirst, CloseLabels
<1>7. AppInv
  BY <1>2, <1>4, <1>6
  DEF AppInv, Roles, ClientsWhileInitialized, PoolsAreOurs, UsableUnlessClosed, Overlap
<1>8. NeverInitialized
  BY <1>2, <1>3 DEF NeverInitialized
<1> QED
  BY <1>1, <1>5, <1>7, <1>8, <1>9 DEF IInv

\* Every step of the application keeps what it knows.
LEMMA NextApp ==
  ASSUME TypeOK, ClosedAreDead, Application, AppInv, [Next]_vars
  PROVE  AppInv'
<1>1. CASE UNCHANGED vars
  BY <1>1
  DEF vars, resources, locks, counts, AppInv, Roles, Role, ClientsWhileInitialized, ClientRole,
      PoolsAreOurs, PoolRole, OnlyCreateFails, UsableUnlessClosed, NobodyInterferes,
      NeverCloseFails, HasPool, Overlap, Closing
<1>2. CASE Next
  <2>1. Recorded
    BY <1>2 DEF Next
  <2>2. ASSUME NEW c \in Callers, Step(c) PROVE AppInv'
    BY <2>1, <2>2, InitKeeps, InitFailsKeeps, PoolCreatedKeeps, GetKeeps, PingedKeeps,
       PingFailsKeeps, CloseKeeps, PoolClosedKeeps, PoolCloseFailsKeeps, CloseRedisKeeps,
       ClientClosedKeeps, ClientCloseFailsKeeps, PopRedisKeeps, ClosedKeeps DEF Step
  <2> QED
    BY <1>2, <2>1, <2>2, CancelKeeps, CallKeeps DEF Next
<1> QED
  BY <1>1, <1>2

\* The inductive invariant holds in every reachable state, for any coroutines and loops.
THEOREM Invariance == Spec => []IInv
<1>1. Init => IInv
  BY InitInv
<1>2. IInv /\ [Next]_vars => IInv'
  <2> SUFFICES ASSUME IInv, [Next]_vars PROVE IInv'
    OBVIOUS
  <2>1. TypeOK /\ OwnTurns /\ ClosedAreDead /\ ClientsReachable /\ InitializersFirst
    BY DEF IInv
  <2>2. TypeOK' /\ OwnTurns' /\ ClosedAreDead' /\ ClientsReachable' /\ InitializersFirst'
    BY <2>1, NextTyped, TurnsKept, NextReachable, NextFirst
  <2>3. Application => AppInv'
    BY <2>1, NextApp DEF IInv
  <2>4. Threads => NeverInitialized'
    BY <2>1, NextNeverInitialized DEF IInv
  <2> QED
    BY <2>2, <2>3, <2>4 DEF IInv, Application, Threads
<1> QED
  BY <1>1, <1>2, PTL DEF Spec

\* close() of database/manager.py finds every live Redis client in _redis_clients, in every
\* deployment: get_redis_client() puts a client there only where there is none, and close()
\* takes out only what it has closed.
THEOREM ClientsAreFound == Spec => []ClientsReachable
<1>1. IInv => ClientsReachable
  BY DEF IInv
<1> QED
  BY <1>1, Invariance, PTL

\* How far the thread lock of get_redis_client() is safe, in every deployment.  Behind
\* initialize() the first coroutine to make the client of its loop has _init_lock and the
\* manager is not initialized yet, so that no other that initializes first comes to the
\* thread lock before the client is there.  In an application that client is the only one.
THEOREM ThreadLockIsSafe == Spec => []UsersNeverDeadlock
<1>1. IInv => UsersNeverDeadlock
  <2> SUFFICES ASSUME IInv, NEW l \in Loops, Deadlocked(l)
               PROVE  /\ Application /\ NeverCloseFails => FALSE
                      /\ redisLock = initLock => caller[turn[l]].op \in {"get", "close"}
    BY DEF UsersNeverDeadlock, NeverCloseFails
  <2>1. TypeOK /\ OwnTurns /\ ClosedAreDead /\ InitializersFirst
    BY DEF IInv
  <2>2. PICK c \in Callers : turn[l] = c /\ LoopOf[c] = l
    BY <2>1 DEF TypeOK, OwnTurns, Deadlocked
  <2>3. PICK d \in Callers : redisLock = d /\ LoopOf[d] = l
    BY <2>1 DEF TypeOK, Deadlocked
  <2>4. caller[d].pc = "ping" /\ caller[c].pc # "ping"
    BY <2>1, <2>2, <2>3 DEF TypeOK, Running
  <2>5. ASSUME Application, NeverCloseFails PROVE FALSE
    <3>1. clients[l] = 0 /\ initLock = d /\ d # c /\ AppInv
      BY <2>1, <2>3, <2>4, <2>5
      DEF IInv, AppInv, ClosedAreDead, ClientsWhileInitialized, ClientRole
    <3>2. ~(caller[c].pc \in {"getLock", "popRedis"})
      BY <2>2, <2>5, <3>1 DEF AppInv, ClientsWhileInitialized, ClientRole
    <3>3. clients # NoClients
      BY <2>2, <3>2 DEF Deadlocked
    <3>4. clients = NoClients
      <4>1. clients \in [Loops -> 0 .. made] /\ \A k \in Loops : k = l
        BY <2>1, <2>5 DEF TypeOK, Application
      <4> QED
        BY <3>1, <4>1 DEF NoClients
    <3> QED
      BY <3>3, <3>4
  <2>6. ASSUME redisLock = initLock PROVE caller[turn[l]].op \in {"get", "close"}
    <3>1. Initializer(c) /\ MakesFirst(c, d) /\ c # d /\ initLock = d
      BY <2>1, <2>3, <2>4, <2>6 DEF InitializersFirst
    <3>2. caller[c].pc \in {"getLock", "popRedis", "closeRedis"}
      BY <2>2 DEF Deadlocked
    <3> QED
      BY <2>2, <2>3, <3>1, <3>2 DEF Initializer, MakesFirst, CloseLabels
  <2> QED
    BY <2>5, <2>6
<1> QED
  BY <1>1, Invariance, PTL

\* The deployments of the theorem below.
Deployment == Application \/ Threads

\* What the manager has opened it can use, and close() can find.
THEOREM ManagerIsSound == ASSUME Deployment PROVE Spec => []ResourcesSound
<1>1. IInv => ResourcesSound
  <2> SUFFICES ASSUME IInv PROVE ResourcesSound
    OBVIOUS
  <2>1. TypeOK /\ ClientsReachable
    BY DEF IInv
  <2>2. CASE Threads
    <3>1. open = {} /\ ~initialized
      BY <2>2 DEF IInv, NeverInitialized
    <3> QED
      BY <2>1, <3>1 DEF ResourcesSound, PoolsReachable, InitializedIsUsable
  <2>3. CASE Application
    <3>1. PoolsAreOurs /\ UsableUnlessClosed
      BY <2>3 DEF IInv, AppInv
    <3>2. PoolsReachable
      <4>1. failed \subseteq {"create"} /\ cancels = 0 => OnlyCreateFails
        BY DEF OnlyCreateFails, NeverCloseFails, CloseFailures
      <4> QED
        BY <3>1, <4>1 DEF PoolsReachable, PoolsAreOurs
    <3>3. InitializedIsUsable
      BY <3>1 DEF InitializedIsUsable, UsableUnlessClosed, NobodyInterferes, NeverCloseFails
    <3> QED
      BY <2>1, <3>2, <3>3 DEF ResourcesSound
  <2> QED
    BY <2>2, <2>3 DEF Deployment
<1> QED
  BY <1>1, Invariance, PTL
=============================================================================
