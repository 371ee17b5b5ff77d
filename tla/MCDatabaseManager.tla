------------------------- MODULE MCDatabaseManager -------------------------
(* Small instances of DatabaseManager, checked in one run: the manager of an *)
(* application, and one that two loops share.                                *)
EXTENDS DatabaseManager, TLC

CONSTANTS
  x, y, z, one, two,
  SharedLoops, SharedCalls, SharedCancels  \* of the manager that two loops share

\* In the application two requests initialize lazily beside the owner of the manager.
Where == [c \in Callers |-> one]
Requests == (x :> {"use"}) @@ (y :> {"use"}) @@ (z :> {"initialize", "close"})

\* Two threads, with a loop each, use and close a manager; or the owner of a manager is on
\* one loop and two coroutines that use it are on the other.
SharedWhere == (x :> two) @@ (y :> two) @@ (z :> one)
Role(d) ==
  IF d = "threads"
  THEN (x :> {"get", "close"}) @@ (y :> {}) @@ (z :> {"get", "close"})
  ELSE (x :> {"use"}) @@ (y :> {"use"}) @@ (z :> {"initialize", "close"})

VARIABLES
  deployment,
  sPool, sOpen, sClients, sLive, sInitialized, sInitLock, sInitLoop, sRedisLock, sTurn,
  sCaller, sMade, sFailed, sOverlapped, sCalls, sCancels

sharedVars ==
  <<sPool, sOpen, sClients, sLive, sInitialized, sInitLock, sInitLoop, sRedisLock, sTurn,
    sCaller, sMade, sFailed, sOverlapped, sCalls, sCancels>>

Shared == INSTANCE DatabaseManager WITH
  Loops <- SharedLoops, LoopOf <- SharedWhere,
  MaxCalls <- SharedCalls, MaxCancels <- SharedCancels,
  Does <- [c \in Callers |-> Role("threads")[c] \cup Role("owner")[c]],
  pool <- sPool, open <- sOpen, clients <- sClients, live <- sLive,
  initialized <- sInitialized, initLock <- sInitLock, initLoop <- sInitLoop,
  redisLock <- sRedisLock, turn <- sTurn, caller <- sCaller, made <- sMade,
  failed <- sFailed, overlapped <- sOverlapped, calls <- sCalls, cancels <- sCancels

KeepsRole(c) == sCaller'[c].pc = "idle" \/ sCaller'[c].op \in Role(deployment)[c]

MCInit ==
  /\ Init /\ Shared!Init
  /\ deployment \in {"application", "threads", "owner"}

MCNext ==
  \/ deployment = "application" /\ Next /\ UNCHANGED <<deployment, sharedVars>>
  \/ /\ deployment # "application" /\ Shared!Next /\ UNCHANGED <<deployment, vars>>
     /\ \A c \in Callers : KeepsRole(c)

\* Fairness and Shared!Fairness in one, as only one of the managers takes steps.
ProgressOfOne(c) ==
  \/ Progress(c) /\ UNCHANGED sharedVars
  \/ Shared!Progress(c) /\ UNCHANGED vars

MCSpec ==
  /\ MCInit
  /\ [][MCNext]_<<vars, sharedVars, deployment>>
  /\ \A c \in Callers : SF_<<vars, sharedVars>>(ProgressOfOne(c))

\* What DatabaseManager says of any manager, of the one that loops share.
SharedAsStated == Shared!UsersNeverDeadlock /\ Shared!ResourcesSound
=============================================================================
