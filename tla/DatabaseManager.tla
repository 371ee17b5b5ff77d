-------------------------- MODULE DatabaseManager --------------------------
(***************************************************************************)
(* DatabaseManager (database/manager.py) with MySQL and Redis enabled: one *)
(* MySQL pool, one Redis client per event loop, initialize(), close() and  *)
(* get_redis_client(), called by the coroutines of one or more event loops.*)
(*                                                                         *)
(* A loop runs one coroutine at a time (turn) until that coroutine awaits  *)
(* or returns; loops are threads and interleave between any two actions.   *)
(* _init_lock is an asyncio.Lock: a coroutine that waits for it gives up   *)
(* its turn.  _redis_lock is a threading.Lock, held across the await of    *)
(* ping(): a coroutine that waits for it keeps its turn, so that its loop  *)
(* does nothing else.                                                      *)
(***************************************************************************)
EXTENDS Naturals, FiniteSets

CONSTANTS
  Callers,      \* coroutines
  Loops,        \* event loops, each in a thread of its own
  LoopOf,       \* the loop of each coroutine
  Does,         \* the operations each coroutine may call
  None,
  Failures,     \* the calls to the servers that may fail
  MaxCalls,     \* bound on calls
  MaxCancels    \* bound on cancelled calls

\* "use" is what lock and unit of work do: initialize(), then get_redis_client().
Operations == {"initialize", "use", "get", "close"}

ASSUME LoopsAssumption == LoopOf \in [Callers -> Loops]
ASSUME DoesAssumption == Does \in [Callers -> SUBSET Operations]
ASSUME NoneAssumption == None \notin Callers \cup Loops
ASSUME FailuresAssumption ==
  Failures \subseteq {"create", "probe", "ping", "closePool", "closeClient"}
ASSUME BoundsAssumption == {MaxCalls, MaxCancels} \subseteq Nat

VARIABLES
  pool,         \* _mysql_pool, 0 for None; pools are numbered as they are made
  open,         \* the pools that are not closed
  clients,      \* _redis_clients, 0 for no entry
  live,         \* the Redis clients that are not closed
  initialized,  \* _initialized
  initLock,     \* who holds _init_lock
  initLoop,     \* the loop _init_lock is bound to, once a coroutine has waited for it
  redisLock,    \* who holds _redis_lock
  turn,         \* the coroutine each loop is running
  caller,       \* the local state of each coroutine
  made,         \* pools and clients made so far
  failed,       \* the calls to the servers that have failed so far
  overlapped,   \* has a close() run beside an initialize()
  calls, cancels

resources == <<pool, open, clients, live, made>>
locks == <<initLock, initLoop, redisLock>>
counts == <<calls, cancels>>

vars == <<resources, initialized, locks, turn, caller, failed, overlapped, counts>>

Waiting == {"initWait", "createPool", "probe", "ping", "closingPool", "closingClient"}
Running == {"init", "initLocked", "get", "getLock", "close", "closeRedis", "popRedis", "closed"}

\* target: the pool that close() closes; copy: the Redis clients it closes, of
\* which todo are still to do and shut are closed.
CallerState ==
  [pc: {"idle"} \cup Waiting \cup Running, op: Operations, target: Nat,
   copy: [Loops -> Nat], todo: SUBSET Loops, shut: SUBSET Loops, error: BOOLEAN]

NoClients == [l \in Loops |-> 0]

TypeOK ==
  /\ pool \in 0 .. made /\ open \subseteq 1 .. made
  /\ clients \in [Loops -> 0 .. made] /\ live \subseteq 1 .. made
  /\ initialized \in BOOLEAN
  /\ initLock \in Callers \cup {None} /\ redisLock \in Callers \cup {None}
  /\ initLoop \in Loops \cup {None}
  /\ turn \in [Loops -> Callers \cup {None}]
  /\ caller \in [Callers -> CallerState]
  /\ \A c \in Callers : caller[c].pc \in Running <=> turn[LoopOf[c]] = c
  /\ \A c \in Callers : caller[c].pc \in {"initLocked", "createPool", "probe"} => initLock = c
  /\ \A c \in Callers : caller[c].pc = "ping" <=> redisLock = c
  /\ failed \subseteq Failures /\ overlapped \in BOOLEAN
  /\ made \in Nat /\ calls \in 0 .. MaxCalls /\ cancels \in 0 .. MaxCancels

AtRest == [pc |-> "idle", op |-> "get", target |-> 0, copy |-> NoClients,
           todo |-> {}, shut |-> {}, error |-> FALSE]

Init ==
  /\ pool = 0 /\ open = {}
  /\ clients = NoClients /\ live = {}
  /\ initialized = FALSE
  /\ initLock = None /\ initLoop = None /\ redisLock = None
  /\ turn = [l \in Loops |-> None]
  /\ caller = [c \in Callers |-> AtRest]
  /\ made = 0 /\ failed = {} /\ overlapped = FALSE /\ calls = 0 /\ cancels = 0

-----------------------------------------------------------------------------
(* Control of a coroutine                                                  *)

\* c runs at a label; the result of the call c awaits has come and its loop is free.
Runs(c, label) == turn[LoopOf[c]] = c /\ caller[c].pc = label
Resumes(c, label) == turn[LoopOf[c]] = None /\ caller[c].pc = label

Goes(c, label) ==
  /\ turn' = [turn EXCEPT ![LoopOf[c]] = c]
  /\ caller' = [caller EXCEPT ![c].pc = label]

Awaits(c, label) ==
  /\ turn' = [turn EXCEPT ![LoopOf[c]] = None]
  /\ caller' = [caller EXCEPT ![c].pc = label]

Returns(c) ==
  /\ turn' = [turn EXCEPT ![LoopOf[c]] = None]
  /\ caller' = [caller EXCEPT ![c] = AtRest]

Fails(what) == what \in Failures /\ failed' = failed \cup {what}

Call(c, op) ==
  /\ Resumes(c, "idle")
  /\ op \in Does[c]
  /\ calls < MaxCalls
  /\ calls' = calls + 1
  /\ turn' = [turn EXCEPT ![LoopOf[c]] = c]
  /\ caller' = [caller EXCEPT ![c].op = op,
                  ![c].pc = IF op \in {"initialize", "use"} THEN "init" ELSE op]
  /\ UNCHANGED <<resources, initialized, locks, failed, cancels>>

-----------------------------------------------------------------------------
(* initialize()                                                            *)

\* initialize() returns; a user of Redis goes on to get_redis_client().
AfterInit(c) == IF caller[c].op = "use" THEN Goes(c, "get") ELSE Returns(c)

\* Mutant: initialize() does without its lock.
InitCheckUnlocked(c) ==
  /\ Runs(c, "init")
  /\ IF initialized
     THEN AfterInit(c) /\ UNCHANGED locks
     ELSE initLock' = c /\ Goes(c, "initLocked") /\ UNCHANGED <<initLoop, redisLock>>
  /\ UNCHANGED <<resources, initialized, failed, counts>>

\* asyncio.Lock is bound to the first loop that waits for it, and raises a
\* RuntimeError in any other.
InitCheck(c) ==
  /\ Runs(c, "init")
  /\ IF initialized
     THEN AfterInit(c) /\ UNCHANGED locks
     ELSE IF initLock = None
     THEN initLock' = c /\ Goes(c, "initLocked") /\ UNCHANGED <<initLoop, redisLock>>
     ELSE IF initLoop \in {None, LoopOf[c]}
     THEN initLoop' = LoopOf[c] /\ Awaits(c, "initWait") /\ UNCHANGED <<initLock, redisLock>>
     ELSE Returns(c) /\ UNCHANGED locks
  /\ UNCHANGED <<resources, initialized, failed, counts>>

InitAcquire(c) ==
  /\ Resumes(c, "initWait")
  /\ initLock = None
  /\ initLock' = c
  /\ Goes(c, "initLocked")
  /\ UNCHANGED <<resources, initialized, initLoop, redisLock, failed, counts>>

\* Mutant: _initialized is not looked at again.
InitLockedBlindly(c) ==
  /\ Runs(c, "initLocked")
  /\ Awaits(c, "createPool")
  /\ UNCHANGED <<resources, initialized, locks, failed, counts>>

\* The second look at _initialized, under the lock.
InitLocked(c) ==
  /\ Runs(c, "initLocked")
  /\ IF initialized
     THEN initLock' = None /\ AfterInit(c)
     ELSE Awaits(c, "createPool") /\ UNCHANGED initLock
  /\ UNCHANGED <<resources, initialized, initLoop, redisLock, failed, counts>>

\* _initialize_mysql(): the pool is stored before its connections are probed.
PoolCreated(c) ==
  /\ Resumes(c, "createPool")
  /\ made' = made + 1
  /\ pool' = made + 1
  /\ open' = open \cup {made + 1}
  /\ Awaits(c, "probe")
  /\ UNCHANGED <<clients, live, initialized, locks, failed, counts>>

\* Mutant: the manager is initialized before it has a client.
ProbedInitializes(c) ==
  /\ Resumes(c, "probe")
  /\ initialized' = TRUE
  /\ Goes(c, "get")
  /\ UNCHANGED <<resources, locks, failed, counts>>

Probed(c) ==
  /\ Resumes(c, "probe")
  /\ Goes(c, "get")
  /\ UNCHANGED <<resources, initialized, locks, failed, counts>>

\* initialize() raises.
InitFails(c) ==
  /\ \/ Resumes(c, "createPool") /\ Fails("create")
     \/ Resumes(c, "probe") /\ Fails("probe")
  /\ initialized' = FALSE
  /\ initLock' = None
  /\ Returns(c)
  /\ UNCHANGED <<resources, initLoop, redisLock, counts>>

-----------------------------------------------------------------------------
(* get_redis_client()                                                      *)

Client(c) == clients[LoopOf[c]]

\* The client is at hand: the caller has it, or initialize() is complete.
Got(c) ==
  IF initLock = c
  THEN initialized' = TRUE /\ initLock' = None /\ AfterInit(c)
  ELSE Returns(c) /\ UNCHANGED <<initialized, initLock>>

Get(c) ==
  /\ Runs(c, "get")
  /\ IF Client(c) # 0
     THEN Got(c)
     ELSE Goes(c, "getLock") /\ UNCHANGED <<initialized, initLock>>
  /\ UNCHANGED <<resources, initLoop, redisLock, failed, counts>>

\* "with self._redis_lock": the second look, and ping() of a new client.
GetLock(c) ==
  /\ Runs(c, "getLock")
  /\ redisLock = None
  /\ IF Client(c) # 0
     THEN Got(c) /\ UNCHANGED redisLock
     ELSE redisLock' = c /\ Awaits(c, "ping") /\ UNCHANGED <<initialized, initLock>>
  /\ UNCHANGED <<resources, initLoop, failed, counts>>

Pinged(c) ==
  /\ Resumes(c, "ping")
  /\ made' = made + 1
  /\ clients' = [clients EXCEPT ![LoopOf[c]] = made + 1]
  /\ live' = live \cup {made + 1}
  /\ redisLock' = None
  /\ Got(c)
  /\ UNCHANGED <<pool, open, initLoop, failed, counts>>

\* Mutant: a failed ping() leaves the lock taken.
PingFailsLocked(c) ==
  /\ Resumes(c, "ping")
  /\ Fails("ping")
  /\ IF initLock = c
     THEN initialized' = FALSE /\ initLock' = None
     ELSE UNCHANGED <<initialized, initLock>>
  /\ Returns(c)
  /\ UNCHANGED <<resources, initLoop, redisLock, counts>>

PingFails(c) ==
  /\ Resumes(c, "ping")
  /\ Fails("ping")
  /\ redisLock' = None
  /\ IF initLock = c
     THEN initialized' = FALSE /\ initLock' = None
     ELSE UNCHANGED <<initialized, initLock>>
  /\ Returns(c)
  /\ UNCHANGED <<resources, initLoop, counts>>

-----------------------------------------------------------------------------
(* close()                                                                 *)

Close(c) ==
  /\ Runs(c, "close")
  /\ IF pool # 0
     THEN /\ turn' = [turn EXCEPT ![LoopOf[c]] = None]
          /\ caller' = [caller EXCEPT ![c].pc = "closingPool", ![c].target = pool]
     ELSE Goes(c, "closeRedis")
  /\ UNCHANGED <<resources, initialized, locks, failed, counts>>

PoolClosed(c) ==
  /\ Resumes(c, "closingPool")
  /\ open' = open \ {caller[c].target}
  /\ pool' = 0
  /\ Goes(c, "closeRedis")
  /\ UNCHANGED <<clients, live, made, initialized, locks, failed, counts>>

PoolCloseFails(c) ==
  /\ Resumes(c, "closingPool")
  /\ Fails("closePool")
  /\ turn' = [turn EXCEPT ![LoopOf[c]] = c]
  /\ caller' = [caller EXCEPT ![c].pc = "closeRedis", ![c].error = TRUE]
  /\ UNCHANGED <<resources, initialized, locks, counts>>

\* The clients are copied under _redis_lock.
CloseRedis(c) ==
  /\ Runs(c, "closeRedis")
  /\ IF clients = NoClients
     THEN Goes(c, "closed")
     ELSE /\ redisLock = None
          /\ turn' = [turn EXCEPT ![LoopOf[c]] = None]
          /\ caller' = [caller EXCEPT ![c].pc = "closingClient", ![c].copy = clients,
                          ![c].todo = {l \in Loops : clients[l] # 0}]
  /\ UNCHANGED <<resources, initialized, locks, failed, counts>>

\* One aclose() has ended; the next one is awaited, or the lock is taken again.
ClientDone(c, l, shut, error) ==
  LET left == caller[c].todo \ {l} IN
  /\ l \in caller[c].todo
  /\ turn' = IF left = {} THEN [turn EXCEPT ![LoopOf[c]] = c] ELSE turn
  /\ caller' = [caller EXCEPT
       ![c].pc = IF left = {} THEN "popRedis" ELSE "closingClient",
       ![c].todo = left, ![c].shut = @ \cup shut, ![c].error = @ \/ error]

ClientClosed(c) ==
  /\ Resumes(c, "closingClient")
  /\ \E l \in Loops : /\ ClientDone(c, l, {l}, FALSE)
                      /\ live' = live \ {caller[c].copy[l]}
  /\ UNCHANGED <<pool, open, clients, made, initialized, locks, failed, counts>>

ClientCloseFails(c) ==
  /\ Resumes(c, "closingClient")
  /\ Fails("closeClient")
  /\ \E l \in Loops : ClientDone(c, l, {}, TRUE)
  /\ UNCHANGED <<resources, initialized, locks, counts>>

PopRedis(c) ==
  /\ Runs(c, "popRedis")
  /\ redisLock = None
  /\ clients' = [l \in Loops |->
       IF l \in caller[c].shut /\ clients[l] = caller[c].copy[l] THEN 0 ELSE clients[l]]
  /\ Goes(c, "closed")
  /\ UNCHANGED <<pool, open, live, made, initialized, locks, failed, counts>>

\* close() returns, or raises its first error.
Closed(c) ==
  /\ Runs(c, "closed")
  /\ initialized' = (initialized /\ caller[c].error)
  /\ Returns(c)
  /\ UNCHANGED <<resources, locks, failed, counts>>

-----------------------------------------------------------------------------
\* CancelledError leaves the locks; initialize() does not handle it.
Cancel(c) ==
  /\ turn[LoopOf[c]] = None
  /\ caller[c].pc \in Waiting
  /\ cancels < MaxCancels
  /\ cancels' = cancels + 1
  /\ initLock' = IF initLock = c THEN None ELSE initLock
  /\ redisLock' = IF redisLock = c THEN None ELSE redisLock
  /\ Returns(c)
  /\ UNCHANGED <<resources, initialized, initLoop, failed, calls>>

Step(c) ==
  \/ InitCheck(c) \/ InitAcquire(c) \/ InitLocked(c)
  \/ PoolCreated(c) \/ Probed(c) \/ InitFails(c)
  \/ Get(c) \/ GetLock(c) \/ Pinged(c) \/ PingFails(c)
  \/ Close(c) \/ PoolClosed(c) \/ PoolCloseFails(c) \/ CloseRedis(c)
  \/ ClientClosed(c) \/ ClientCloseFails(c) \/ PopRedis(c) \/ Closed(c)

Closing(c) == caller[c].op = "close"
Overlap == initLock # None /\ \E c \in Callers : Closing(c)

Recorded == overlapped' = (overlapped \/ Overlap')

Progress(c) == Step(c) /\ Recorded

Next ==
  /\ \E c \in Callers : Step(c) \/ Cancel(c) \/ \E op \in Operations : Call(c, op)
  /\ Recorded

Spec == Init /\ [][Next]_vars

\* The servers answer, a loop gives each of its ready coroutines its turn again and
\* again, and so does _redis_lock with the threads that wait for it.
Fairness == \A c \in Callers : SF_vars(Progress(c))

-----------------------------------------------------------------------------
(* Properties                                                              *)

\* A loop that will never run again: the coroutine that has its turn waits for the
\* thread lock that another coroutine of the loop holds while it awaits ping().
Deadlocked(l) ==
  /\ turn[l] # None /\ redisLock # None
  /\ LoopOf[redisLock] = l /\ caller[redisLock].pc = "ping"
  /\ \/ caller[turn[l]].pc \in {"getLock", "popRedis"}
     \/ caller[turn[l]].pc = "closeRedis" /\ clients # NoClients

CloseFailures == {"closePool", "closeClient"}

\* An application: one loop, whose coroutines initialize() before they use Redis, and one
\* of them, its lifespan, that closes the manager.
Application ==
  /\ \A k, l \in Loops : k = l
  /\ \A c \in Callers : Does[c] \subseteq {"initialize", "use", "close"}
  /\ \A c, d \in Callers : "close" \in Does[c] \cap Does[d] => c = d

\* How far the thread lock of get_redis_client() is safe behind initialize().  In an
\* application no loop is deadlocked unless a close() has failed and left _initialized true
\* without a client.  In every deployment, a loop whose client initialize() is making is not
\* deadlocked by a coroutine that calls initialize() first.  On a loop other than the one
\* that initialized the manager _initialized is true before there is a client, and two
\* coroutines that use Redis there do deadlock it.
UsersNeverDeadlock ==
  \A l \in Loops : Deadlocked(l) =>
    /\ Application => failed \cap CloseFailures # {}
    /\ redisLock = initLock => caller[turn[l]].op \in {"get", "close"}

\* Every open pool is the one close() will close, unless an initialize() that had made one
\* has failed or was cancelled, so that the next one replaces its pool, or a close() has
\* failed: a client that is made then outlives the next close(), and the close() after it
\* forgets the pool that an initialize() makes beside it.  Where the manager is not that of
\* an application a close() may do so too when it overlaps with initialize() on another loop.
PoolsReachable ==
  failed \subseteq {"create"} /\ cancels = 0 /\ (Application \/ ~overlapped) => open \subseteq {pool}

\* An initialized manager has an open pool and a live client, before and after any
\* sequence of initialize() and close(), failed ones of the former included.
InitializedIsUsable ==
  /\ failed \cap CloseFailures = {} /\ cancels = 0 /\ ~overlapped
  /\ \A c \in Callers : ~Closing(c)
  /\ initialized
  => pool \in open /\ live # {}

\* Every live Redis client is one a later close() will find, though loops make and
\* close clients beside each other and closing one may fail.
ClientsReachable == live \subseteq {clients[l] : l \in Loops}

\* What the manager has opened it can use, and close() can find.
ResourcesSound == TypeOK /\ PoolsReachable /\ InitializedIsUsable /\ ClientsReachable

\* Every call returns or raises, unless some loop is deadlocked, which keeps the thread lock
\* from all.
CallsReturn ==
  \A c \in Callers : caller[c].pc # "idle" ~> caller[c].pc = "idle" \/ \E l \in Loops : Deadlocked(l)
=============================================================================
