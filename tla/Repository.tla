----------------------------- MODULE Repository -----------------------------
(***************************************************************************)
(* BaseRepository and UnitOfWork (database/repository.py) over the pool of *)
(* DatabaseManager.  An operation of a repository borrows a connection of  *)
(* its own, under a timeout and a retry (http/resilience.py); update()     *)
(* borrows a second one to read the row back.  A unit of work keeps one    *)
(* from __aenter__() to __aexit__() and waits for it without a timeout.    *)
(* The connections are in autocommit mode (manager.py:112); the pool and   *)
(* the database are external.                                              *)
(***************************************************************************)
EXTENDS Naturals, FiniteSets

CONSTANTS
  Callers,
  PoolSize,     \* mysql_pool_maxsize
  MaxAttempts,  \* DB_RETRY.max_attempts
  MaxWrites,    \* bound on the statements of a unit on its own connection
  MaxCalls,     \* bound on the calls
  MaxFaults     \* bound on statements that fail or take too long

VARIABLES
  free,     \* connections in the pool
  caller,   \* [pc, op, attempt, inner, held, mode]: inner is the attempt of the read in
            \* update(), held counts connections, mode is that of the unit around op
  work,     \* what the call has done; see Nothing
  leaked,   \* connections held by units whose __aenter__() failed
  calls, faults

poolVars == <<free, caller, work, leaked, calls, faults>>

Idle == [pc |-> "idle", op |-> "none", attempt |-> 1, inner |-> 1, held |-> 0, mode |-> "none"]

\* rows inserted by create() and those of attempts that raised; whether the data has an id;
\* of a unit: its writes, those not yet committed, those kept, and what became of it.
Nothing == [op |-> "none", rows |-> 0, lost |-> 0, id |-> FALSE, used |-> FALSE, written |-> 0, pending |-> 0,
            kept |-> 0, manual |-> FALSE, doubt |-> FALSE, result |-> "none"]

Init ==
  /\ free = PoolSize
  /\ caller = [c \in Callers |-> Idle]
  /\ work = [c \in Callers |-> Nothing]
  /\ leaked = 0 /\ calls = 0 /\ faults = 0

Becomes(c, state) == caller' = [caller EXCEPT ![c] = state]

Faulty == faults < MaxFaults /\ faults' = faults + 1

\* The connections a caller holds for the operation, and not for the unit around it.
Borrowed(c) == caller[c].held - IF caller[c].mode = "none" THEN 0 ELSE 1

\* The operation returns: to the body of the unit, if it is in one.
Return(c) ==
  /\ free' = free + Borrowed(c)
  /\ Becomes(c, IF caller[c].mode = "none" THEN Idle
                ELSE [caller[c] EXCEPT !.pc = "open", !.held = 1])

Results(c, result) == IF caller[c].mode = "none" THEN result ELSE "none"

-----------------------------------------------------------------------------
(* The operations of a repository                                          *)

Call(c, op, id) ==
  /\ caller[c].pc = "idle"
  /\ calls < MaxCalls /\ calls' = calls + 1
  /\ Becomes(c, [Idle EXCEPT !.pc = IF op = "unit" THEN "enter" ELSE "acquire", !.op = op])
  /\ work' = [work EXCEPT ![c] = [Nothing EXCEPT !.op = op, !.id = id]]
  /\ UNCHANGED <<free, leaked, faults>>

Borrow(c, next) ==
  /\ free > 0 /\ free' = free - 1
  /\ Becomes(c, [caller[c] EXCEPT !.pc = next, !.held = @ + 1])
  /\ UNCHANGED <<work, leaked, calls, faults>>

Acquire(c) == caller[c].pc = "acquire" /\ Borrow(c, "execute")

\* The row is there from an attempt that raised: a second one cannot have its id.
Taken(c) == work[c].id /\ work[c].rows > 0

GetReturns(c) ==
  /\ caller[c].pc = "execute" /\ caller[c].op = "get"
  /\ Return(c)
  /\ work' = [work EXCEPT ![c].result = Results(c, "ok")]
  /\ UNCHANGED <<leaked, calls, faults>>

CreateReturns(c) ==
  /\ caller[c].pc = "execute" /\ caller[c].op = "create" /\ ~Taken(c)
  /\ Return(c)
  /\ work' = [work EXCEPT ![c].rows = @ + 1, ![c].result = Results(c, "ok")]
  /\ UNCHANGED <<leaked, calls, faults>>

\* update() has committed and keeps its connection for get_by_id().
Updated(c) ==
  /\ caller[c].pc = "execute" /\ caller[c].op = "update"
  /\ Becomes(c, [caller[c] EXCEPT !.pc = "reread"])
  /\ UNCHANGED <<free, work, leaked, calls, faults>>

Reread(c) == caller[c].pc = "reread" /\ Borrow(c, "read")

UpdateReturns(c) ==
  /\ caller[c].pc = "read"
  /\ Return(c)
  /\ work' = [work EXCEPT ![c].result = Results(c, "ok")]
  /\ UNCHANGED <<leaked, calls, faults>>

\* Mutant: only one of the connections is returned.
GiveUpOne(c) ==
  /\ free' = free + 1
  /\ Becomes(c, IF caller[c].attempt < MaxAttempts
                THEN [caller[c] EXCEPT !.pc = "acquire", !.attempt = @ + 1, !.inner = 1,
                                       !.held = @ - Borrowed(c)]
                ELSE IF caller[c].mode = "none" THEN Idle
                ELSE [caller[c] EXCEPT !.pc = "open", !.held = 1])

\* An attempt has raised; its connections are back in the pool.
GiveUp(c) ==
  IF caller[c].attempt < MaxAttempts
  THEN /\ free' = free + Borrowed(c)
       /\ Becomes(c, [caller[c] EXCEPT !.pc = "acquire", !.attempt = @ + 1, !.inner = 1,
                                       !.held = @ - Borrowed(c)])
  ELSE Return(c)

Raised(c) == IF caller[c].attempt < MaxAttempts THEN "none" ELSE Results(c, "error")

\* The statement raises or runs into DB_TIMEOUT, before or after it has taken effect.
AttemptFails(c) ==
  /\ caller[c].pc = "execute"
  /\ Faulty
  /\ GiveUp(c)
  /\ \E effect \in IF caller[c].op = "create" /\ ~Taken(c) THEN {0, 1} ELSE {0} :
       work' = [work EXCEPT ![c].rows = @ + effect, ![c].lost = @ + effect,
                            ![c].result = Raised(c)]
  /\ UNCHANGED <<leaked, calls>>

\* An INSERT with an id that is there.
DuplicateKey(c) ==
  /\ caller[c].pc = "execute" /\ caller[c].op = "create" /\ Taken(c)
  /\ GiveUp(c)
  /\ work' = [work EXCEPT ![c].result = Raised(c)]
  /\ UNCHANGED <<leaked, calls, faults>>

\* get_by_id() has attempts of its own; when they are used up, update() has failed.
RereadFails(c) ==
  /\ caller[c].pc = "read"
  /\ Faulty
  /\ IF caller[c].inner < MaxAttempts
     THEN /\ free' = free + 1
          /\ Becomes(c, [caller[c] EXCEPT !.pc = "reread", !.inner = @ + 1, !.held = @ - 1])
          /\ UNCHANGED work
     ELSE GiveUp(c) /\ work' = [work EXCEPT ![c].result = Raised(c)]
  /\ UNCHANGED <<leaked, calls>>

\* Mutant: the wait inside update() has no timeout.
WaitingFirst(c) == caller[c].pc = "acquire"

Waiting(c) == caller[c].pc \in {"acquire", "reread"}

\* DB_TIMEOUT ends an attempt that waits for a connection.
WaitTimesOut(c) ==
  /\ Waiting(c) /\ free = 0
  /\ GiveUp(c)
  /\ work' = [work EXCEPT ![c].result = Raised(c)]
  /\ UNCHANGED <<leaked, calls, faults>>

-----------------------------------------------------------------------------
(* UnitOfWork                                                              *)

Enter(c) == caller[c].pc = "enter" /\ Borrow(c, "begin")

Begin(c) ==
  /\ caller[c].pc = "begin"
  /\ Becomes(c, [caller[c] EXCEPT !.pc = "open", !.mode = "transaction"])
  /\ UNCHANGED <<free, work, leaked, calls, faults>>

\* The ping or begin() raises: __aexit__() is not called.
EntryFails(c) ==
  /\ caller[c].pc = "begin"
  /\ Faulty
  /\ leaked' = leaked + 1
  /\ Becomes(c, Idle)
  /\ work' = [work EXCEPT ![c].result = "error"]
  /\ UNCHANGED <<free, calls>>

InUnit(c) == caller[c].pc = "open"

\* After commit() or rollback() each statement commits itself.
Write(c) ==
  /\ InUnit(c) /\ work[c].written < MaxWrites
  /\ work' = IF caller[c].mode = "transaction"
             THEN [work EXCEPT ![c].written = @ + 1, ![c].pending = @ + 1]
             ELSE [work EXCEPT ![c].written = @ + 1, ![c].kept = @ + 1]
  /\ UNCHANGED <<free, caller, leaked, calls, faults>>

\* create() and update() take no connection: they borrow one and commit by themselves.
UseRepository(c, op) ==
  /\ InUnit(c) /\ ~work[c].used
  /\ Becomes(c, [caller[c] EXCEPT !.pc = "acquire", !.op = op, !.attempt = 1, !.inner = 1])
  /\ work' = [work EXCEPT ![c].used = TRUE]
  /\ UNCHANGED <<free, leaked, calls, faults>>

CommitOrRollback(c) ==
  /\ InUnit(c) /\ caller[c].mode = "transaction"
  /\ \E kept \in {0, work[c].pending} :
       work' = [work EXCEPT ![c].kept = @ + kept, ![c].pending = 0, ![c].manual = TRUE]
  /\ Becomes(c, [caller[c] EXCEPT !.mode = "autocommit"])
  /\ UNCHANGED <<free, leaked, calls, faults>>

Release(c) == free' = free + 1 /\ Becomes(c, Idle)

\* The body ends: what it wrote is committed.
Leave(c) ==
  /\ InUnit(c)
  /\ Release(c)
  /\ work' = [work EXCEPT ![c].kept = @ + work[c].pending, ![c].pending = 0, ![c].result = "ok"]
  /\ UNCHANGED <<leaked, calls, faults>>

\* A commit raises, before or after it has taken effect.
CommitFails(c) ==
  /\ InUnit(c) /\ caller[c].mode = "transaction"
  /\ Faulty
  /\ Release(c)
  /\ \E kept \in {0, work[c].pending} :
       work' = [work EXCEPT ![c].kept = @ + kept, ![c].pending = 0, ![c].doubt = TRUE,
                            ![c].result = "error"]
  /\ UNCHANGED <<leaked, calls>>

\* Mutant: __aexit__() commits whatever has happened.
AbortCommits(c) ==
  /\ InUnit(c)
  /\ Release(c)
  /\ work' = [work EXCEPT ![c].kept = @ + work[c].pending, ![c].pending = 0,
                          ![c].result = "error"]
  /\ UNCHANGED <<leaked, calls, faults>>

\* The body raises or is cancelled: what has not been committed is rolled back.
Abort(c) ==
  /\ InUnit(c)
  /\ Release(c)
  /\ work' = [work EXCEPT ![c].pending = 0, ![c].result = "error"]
  /\ UNCHANGED <<leaked, calls, faults>>

Advance(c) ==
  \/ Acquire(c) \/ GetReturns(c) \/ CreateReturns(c) \/ Updated(c) \/ Reread(c)
  \/ UpdateReturns(c) \/ DuplicateKey(c) \/ WaitTimesOut(c)
  \/ Enter(c) \/ Begin(c) \/ Leave(c) \/ Abort(c)

Next ==
  \E c \in Callers :
    \/ \E op \in {"get", "create", "update", "unit"}, id \in BOOLEAN :
         (id => op = "create") /\ Call(c, op, id)
    \/ Advance(c)
    \/ AttemptFails(c) \/ RereadFails(c) \/ EntryFails(c) \/ CommitFails(c)
    \/ Write(c) \/ CommitOrRollback(c) \/ \E op \in {"create", "update"} : UseRepository(c, op)

\* The body of a unit ends, statements return or run into their timeout.
Fairness == \A c \in Callers : WF_poolVars(Advance(c))

Spec == Init /\ [][Next]_poolVars /\ Fairness

-----------------------------------------------------------------------------

\* The connections that calls hold: caller c has those from <<c, 1>> to <<c, held>>.
Holdings == UNION {{c} \X (1 .. caller[c].held) : c \in Callers}

\* Whatever raises or is retried, a call that has ended has given its connections back; only
\* a unit whose __aenter__() fails keeps one for ever.
ConnectionsReturn == free + leaked + Cardinality(Holdings) = PoolSize

\* Operations that hold a connection and wait for another one cannot block each other for
\* ever, since the repository's waits time out; a unit gets its connection, unless those
\* that failed to begin have taken all of the pool.
CallsEnd ==
  \A c \in Callers :
    caller[c].pc # "idle" ~> caller[c].pc = "idle" \/ leaked = PoolSize

\* create() that returns has stored its entity, and an id in the data keeps it to one;
\* without an id every attempt that raised after its INSERT has left another.
CreatedOnce ==
  \A c \in Callers :
    /\ work[c].id => work[c].rows <= 1
    /\ work[c].op = "create" /\ work[c].result = "ok" => work[c].rows = 1 + work[c].lost

\* A unit keeps all that was written on its connection if it ends well, and nothing if it
\* raises, provided that it was left to commit by itself and no commit was cut short.
UnitIsAtomic ==
  \A c \in Callers :
    ~work[c].manual /\ ~work[c].doubt =>
      /\ work[c].result = "ok" => work[c].kept = work[c].written
      /\ work[c].result = "error" => work[c].kept = 0

\* What the caller is told of its writes is what became of them.
WritesAsReported == CreatedOnce /\ UnitIsAtomic

\* As the docstring of UnitOfWork has it, repositories work in the unit's transaction: of a
\* unit that raises nothing is left.
UnitCoversRepositories ==
  \A c \in Callers : work[c].used /\ work[c].result = "error" => work[c].rows = 0
=============================================================================
