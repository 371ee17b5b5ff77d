------------------------------- MODULE Storage -------------------------------
(***************************************************************************)
(* Components over the database and Redis that share no state, each under  *)
(* its own name: migrations, the leases of a lock, repositories and units  *)
(* of work over one pool.                                                  *)
(***************************************************************************)
EXTENDS Naturals, FiniteSets

CONSTANTS
  Runners, Versions, Statements, MaxMigrates, MaxFailures,          \* SqlMigrations
  Clients, TTL, Patience, MaxTokens, MaxDeaths,                     \* LockManager
  Callers, PoolSize, MaxTries, MaxWrites, MaxCalls, MaxFaults       \* Repository

\* Versions are numbered in their order, and no runner is called like the absence of one.
ASSUME MigrationsAssumption ==
  /\ Versions \subseteq Nat /\ Statements \in Nat
  /\ IsFiniteSet(Runners) /\ "nobody" \notin Runners

\* A lease lasts, and acquire() tries a number of times.
ASSUME LeaseAssumption == TTL \in Nat \ {0} /\ Patience \in Nat

\* Finitely many coroutines share a pool, and an operation is attempted at least once.
ASSUME PoolAssumption ==
  IsFiniteSet(Callers) /\ PoolSize \in Nat /\ MaxTries \in Nat \ {0}

VARIABLES guarded, transactional, holder, recorded, ran, runner, migrates, failures
VARIABLES lease, ttl, client, made, lapsed, deaths
VARIABLES free, caller, work, leaked, calls, faults

Sql == INSTANCE SqlMigrations

Lock == INSTANCE LockManager

Pool == INSTANCE Repository WITH MaxAttempts <- MaxTries

\* What the module of each component says of it.
AppliedAsRecorded == Sql!AppliedAsRecorded
MigratesEnd == Sql!MigratesEnd
MutualExclusion == Lock!MutualExclusion
LeasesEnd == Lock!LeasesEnd
ConnectionsReturn == Pool!ConnectionsReturn
WritesAsReported == Pool!WritesAsReported
CallsEnd == Pool!CallsEnd
UnitCoversRepositories == Pool!UnitCoversRepositories
=============================================================================
