--------------------------- MODULE SqlMigrations ---------------------------
(***************************************************************************)
(* SqlMigrationRunner (database/migrations.py): several processes that     *)
(* call migrate() on one database when they are deployed, with or without  *)
(* a MigrationLock and a transaction_factory.  The lock is a lease and the *)
(* factory's transactions undo what they did not commit: both are outside  *)
(* this code.  Migration files do not change, so checksums are left out.   *)
(***************************************************************************)
EXTENDS Naturals, FiniteSetsExt

CONSTANTS
  Runners,       \* processes that migrate
  Versions,      \* the migrations, numbered in the order of their versions
  Statements,    \* each has the statements 1 .. Statements
  MaxMigrates,   \* bound on calls of migrate()
  MaxFailures    \* bound on statements that fail, crashes and leases that end early

VARIABLES
  guarded,        \* a lock was given
  transactional,  \* a transaction_factory was given
  holder,         \* of the lock, or none
  recorded,       \* the versions in infra_schema_migrations
  ran,            \* how often each statement's effect was committed
  runner,         \* [pc, todo, at]: todo are the pending versions left
  migrates, failures

bounds == <<migrates, failures>>
migrationVars == <<guarded, transactional, holder, recorded, ran, runner, bounds>>

Nobody == "nobody"
Asleep == [pc |-> "idle", todo |-> {}, at |-> 1]

Init ==
  /\ guarded \in BOOLEAN /\ transactional \in BOOLEAN
  /\ holder = Nobody
  /\ recorded = {}
  /\ ran = [v \in Versions |-> [s \in 1 .. Statements |-> 0]]
  /\ runner = [r \in Runners |-> Asleep]
  /\ migrates = 0 /\ failures = 0

Becomes(r, state) == runner' = [runner EXCEPT ![r] = state]

Underway(r) == runner[r].pc \in {"pending", "apply", "release"}

Migrate(r) ==
  /\ runner[r].pc = "idle"
  /\ migrates < MaxMigrates
  /\ migrates' = migrates + 1
  /\ Becomes(r, [Asleep EXCEPT !.pc = IF guarded THEN "acquire" ELSE "pending"])
  /\ UNCHANGED <<guarded, transactional, holder, recorded, ran, failures>>

Acquire(r) ==
  /\ runner[r].pc = "acquire"
  /\ holder = Nobody
  /\ holder' = r
  /\ Becomes(r, [Asleep EXCEPT !.pc = "pending"])
  /\ UNCHANGED <<guarded, transactional, recorded, ran, bounds>>

Pending(r) ==
  /\ runner[r].pc = "pending"
  /\ LET todo == Versions \ recorded IN
       Becomes(r, [pc |-> IF todo = {} THEN "release" ELSE "apply", todo |-> todo, at |-> 1])
  /\ UNCHANGED <<guarded, transactional, holder, recorded, ran, bounds>>

Applying(r) == Min(runner[r].todo)

\* Each statement commits at once, unless the migration has a transaction.
Statement(r) ==
  /\ runner[r].pc = "apply" /\ runner[r].at <= Statements
  /\ ran' = IF transactional THEN ran ELSE [ran EXCEPT ![Applying(r)][runner[r].at] = @ + 1]
  /\ Becomes(r, [runner[r] EXCEPT !.at = @ + 1])
  /\ UNCHANGED <<guarded, transactional, holder, recorded, bounds>>

\* Mutant: the record has no primary key.
RecordAgain(r) ==
  /\ runner[r].pc = "apply" /\ runner[r].at > Statements
  /\ LET v == Applying(r)
         left == runner[r].todo \ {v} IN
       /\ recorded' = recorded \cup {v}
       /\ ran' = IF transactional
                 THEN [ran EXCEPT ![v] = [s \in 1 .. Statements |-> @[s] + 1]]
                 ELSE ran
       /\ Becomes(r, [pc |-> IF left = {} THEN "release" ELSE "apply", todo |-> left, at |-> 1])
  /\ UNCHANGED <<guarded, transactional, holder, bounds>>

\* The INSERT of the record, which commits alone or with the whole transaction.
Record(r) ==
  /\ runner[r].pc = "apply" /\ runner[r].at > Statements
  /\ LET v == Applying(r)
         left == runner[r].todo \ {v} IN
       /\ v \notin recorded
       /\ recorded' = recorded \cup {v}
       /\ ran' = IF transactional
                 THEN [ran EXCEPT ![v] = [s \in 1 .. Statements |-> @[s] + 1]]
                 ELSE ran
       /\ Becomes(r, [pc |-> IF left = {} THEN "release" ELSE "apply", todo |-> left, at |-> 1])
  /\ UNCHANGED <<guarded, transactional, holder, bounds>>

\* Mutant: the INSERT is repeated until it succeeds.
RecordRepeated(r) ==
  /\ runner[r].pc = "apply" /\ runner[r].at > Statements
  /\ Applying(r) \in recorded
  /\ UNCHANGED migrationVars

\* version is the primary key: the INSERT of a version another runner recorded raises.
RecordRefused(r) ==
  /\ runner[r].pc = "apply" /\ runner[r].at > Statements
  /\ Applying(r) \in recorded
  /\ Becomes(r, [Asleep EXCEPT !.pc = "release"])
  /\ UNCHANGED <<guarded, transactional, holder, recorded, ran, bounds>>

\* A statement raises: no later statement or version is tried.
StatementFails(r) ==
  /\ runner[r].pc = "apply"
  /\ failures < MaxFailures /\ failures' = failures + 1
  /\ Becomes(r, [Asleep EXCEPT !.pc = "release"])
  /\ UNCHANGED <<guarded, transactional, holder, recorded, ran, migrates>>

Release(r) ==
  /\ runner[r].pc = "release"
  /\ holder' = IF holder = r THEN Nobody ELSE holder
  /\ Becomes(r, Asleep)
  /\ UNCHANGED <<guarded, transactional, recorded, ran, bounds>>

Crash(r) ==
  /\ runner[r].pc # "idle"
  /\ failures < MaxFailures /\ failures' = failures + 1
  /\ Becomes(r, Asleep)
  /\ UNCHANGED <<guarded, transactional, holder, recorded, ran, migrates>>

\* The lease of a runner that died ends; that of a live one may end too early.
LeaseEnds ==
  /\ holder # Nobody /\ ~Underway(holder)
  /\ holder' = Nobody
  /\ UNCHANGED <<guarded, transactional, recorded, ran, runner, bounds>>

LeaseEndsEarly ==
  /\ holder # Nobody /\ Underway(holder)
  /\ failures < MaxFailures /\ failures' = failures + 1
  /\ holder' = Nobody
  /\ UNCHANGED <<guarded, transactional, recorded, ran, runner, migrates>>

Step(r) == Pending(r) \/ Statement(r) \/ Record(r) \/ RecordRefused(r) \/ Release(r)

Next ==
  \/ \E r \in Runners :
       Migrate(r) \/ Acquire(r) \/ Step(r) \/ StatementFails(r) \/ Crash(r)
  \/ LeaseEnds \/ LeaseEndsEarly

\* A runner that has begun goes on; the lock is granted to a waiter in the end and ends
\* with a holder that died.
Fairness ==
  /\ \A r \in Runners :
       WF_migrationVars(Step(r)) /\ SF_migrationVars(Acquire(r))
  /\ WF_migrationVars(LeaseEnds)

Spec == Init /\ [][Next]_migrationVars /\ Fairness

-----------------------------------------------------------------------------

\* With transactions a version is applied exactly once if it is recorded and not at all
\* otherwise, whatever fails or crashes, even without a lock or past its lease.
TransactionsApplyOnce ==
  transactional =>
    \A v \in Versions, s \in 1 .. Statements : ran[v][s] = IF v \in recorded THEN 1 ELSE 0

\* Without them a recorded version has run completely, and no version runs before those
\* with a smaller number are recorded.
AppliedInOrder ==
  \A v \in Versions :
    /\ v \in recorded => \A s \in 1 .. Statements : ran[v][s] > 0
    /\ (\E s \in 1 .. Statements : ran[v][s] > 0) => \A w \in Versions : w < v => w \in recorded

\* Under a lock, a statement runs again only for a run that failed, crashed or lost its
\* lease between the statement and the record.
LockedRunsOnce ==
  guarded =>
    \A v \in Versions, s \in 1 .. Statements : ran[v][s] <= 1 + failures

\* What is recorded has been applied, in order, and as often as lock and transactions
\* promise, whatever fails or crashes between the statements.
AppliedAsRecorded == TransactionsApplyOnce /\ AppliedInOrder /\ LockedRunsOnce

\* Every call of migrate() ends, those that wait for a holder that died too.
MigratesEnd == \A r \in Runners : runner[r].pc # "idle" ~> runner[r].pc = "idle"
=============================================================================
