---------------------------- MODULE StorageProofs ----------------------------
(***************************************************************************)
(* Proofs about the components of Storage, for every value of the          *)
(* constants: each about the specification of one component.               *)
(***************************************************************************)
EXTENDS Storage, FiniteSetTheorems, WellFoundedInduction, TLAPS

-----------------------------------------------------------------------------
(* SqlMigrations, for any number of runners, versions, statements,         *)
(* failures, crashes and leases that end too early.                        *)

\* Versions are numbered, and who holds the lock is a runner.
Setting ==
  /\ Versions \subseteq Nat /\ Statements \in Nat
  /\ IsFiniteSet(Runners) /\ Sql!Nobody \notin Runners

RunnerType ==
  [pc: {"idle", "acquire", "pending", "apply", "release"}, todo: SUBSET Versions, at: Nat \ {0}]

MigrationsTypeOK ==
  /\ guarded \in BOOLEAN /\ transactional \in BOOLEAN
  /\ holder \in Runners \cup {Sql!Nobody}
  /\ recorded \subseteq Versions
  /\ ran \in [Versions -> [1 .. Statements -> Nat]]
  /\ runner \in [Runners -> RunnerType]
  /\ failures \in Nat

Applies(r) == runner[r].pc = "apply"

\* The versions left to a runner are all that are not recorded, and without a transaction
\* the statements behind it have run.
ProgressInv ==
  \A r \in Runners : Applies(r) =>
    /\ runner[r].todo # {}
    /\ Versions \ recorded \subseteq runner[r].todo
    /\ ~transactional =>
         \A s \in 1 .. Statements : s < runner[r].at => ran[Sql!Applying(r)][s] > 0

\* The runners underway that may yet run a statement.
ToRun(v, s) ==
  {r \in Runners :
     \/ runner[r].pc = "pending" /\ v \notin recorded
     \/ /\ Applies(r) /\ v \in runner[r].todo
        /\ v = Sql!Applying(r) => runner[r].at <= s}

\* The holder of the lock is at work.
Live == holder \in Runners /\ runner[holder].pc \in {"pending", "apply"}

\* A statement that has run or may yet run once too often is paid for by a failure: a
\* runner can begin only when the one before it has recorded all, has failed or has lost
\* its lease.
LeaseInv ==
  guarded /\ ~transactional =>
    \A v \in Versions, s \in 1 .. Statements :
      /\ ran[v][s] + Cardinality(ToRun(v, s)) <= failures + 1
      /\ ~Live /\ v \notin recorded => ran[v][s] + Cardinality(ToRun(v, s)) <= failures

MigrationInv ==
  /\ MigrationsTypeOK /\ ProgressInv /\ LeaseInv
  /\ Sql!TransactionsApplyOnce /\ Sql!AppliedInOrder

-----------------------------------------------------------------------------
(* Smallest elements, sizes and counts                                     *)

LEMMA Smallest ==
  ASSUME NEW S, S \subseteq Nat, S # {}
  PROVE  Sql!Min(S) \in S /\ \A y \in S : Sql!Min(S) <= y
<1>1. PICK x \in S : \A y \in S : ~(<<y, x>> \in OpToRel(<, Nat))
  BY NatLessThanWellFounded, WFMin
<1>2. \A y \in S : x <= y
  <2> SUFFICES ASSUME NEW y \in S PROVE ~(y < x)
    OBVIOUS
  <2>1. y < x => <<y, x>> \in OpToRel(<, Nat)
    BY DEF OpToRel
  <2> QED  BY <1>1, <2>1
<1> QED  BY <1>2 DEF Sql!Min

LEMMA Sizes ==
  ASSUME NEW R, IsFiniteSet(R), NEW A \in SUBSET R, NEW B \in SUBSET R, NEW x
  PROVE  /\ Cardinality(A) \in Nat /\ Cardinality(B) \in Nat
         /\ A \subseteq B => Cardinality(A) <= Cardinality(B)
         /\ x \in B /\ A \subseteq B \ {x} => Cardinality(A) + 1 <= Cardinality(B)
         /\ A \subseteq B \cup {x} => Cardinality(A) <= Cardinality(B) + 1
<1>1. IsFiniteSet(A) /\ IsFiniteSet(B)
  BY FS_Subset
<1>2. Cardinality(A) \in Nat /\ Cardinality(B) \in Nat
  BY <1>1, FS_CardinalityType
<1>3. ASSUME A \subseteq B PROVE Cardinality(A) <= Cardinality(B)
  BY <1>1, <1>3, FS_Subset
<1>4. ASSUME x \in B, A \subseteq B \ {x} PROVE Cardinality(A) + 1 <= Cardinality(B)
  <2>1. IsFiniteSet(B \ {x}) /\ Cardinality(B \ {x}) = Cardinality(B) - 1
    BY <1>1, <1>4, FS_RemoveElement
  <2>2. Cardinality(A) <= Cardinality(B \ {x})
    BY <1>4, <2>1, FS_Subset
  <2> QED  BY <1>2, <2>1, <2>2
<1>5. ASSUME A \subseteq B \cup {x} PROVE Cardinality(A) <= Cardinality(B) + 1
  <2>1. /\ IsFiniteSet(B \cup {x})
        /\ Cardinality(B \cup {x}) = Cardinality(B) \/ Cardinality(B \cup {x}) = Cardinality(B) + 1
    BY <1>1, FS_AddElement
  <2>2. Cardinality(A) <= Cardinality(B \cup {x})
    BY <1>5, <2>1, FS_Subset
  <2> QED  BY <1>2, <2>1, <2>2
<1> QED  BY <1>2, <1>3, <1>4, <1>5

LEMMA Added ==
  ASSUME NEW I, NEW f \in [I -> Nat], NEW i \in I
  PROVE  /\ [s \in I |-> f[s] + 1] \in [I -> Nat]
         /\ [f EXCEPT ![i] = @ + 1] \in [I -> Nat]
         /\ \A s \in I : [f EXCEPT ![i] = @ + 1][s] = IF s = i THEN f[s] + 1 ELSE f[s]
<1>1. \A s \in I : f[s] \in Nat /\ f[s] + 1 \in Nat
  OBVIOUS
<1> QED  BY <1>1

LEMMA SettingHolds == Setting
BY MigrationsAssumption DEF Setting, Sql!Nobody

LEMMA MigrationsInitially == ASSUME Setting, Sql!Init PROVE MigrationInv
<1> USE DEF Sql!Init, Sql!Asleep
<1>1. MigrationsTypeOK
  <2>1. Sql!Asleep \in RunnerType
    BY DEF RunnerType
  <2>2. failures \in Nat
    BY DEF Sql!bounds
  <2> HIDE DEF Sql!Asleep
  <2> QED  BY <2>1, <2>2 DEF MigrationsTypeOK
<1>2. ProgressInv
  BY DEF ProgressInv, Applies
<1>3. Sql!TransactionsApplyOnce /\ Sql!AppliedInOrder
  BY DEF Sql!TransactionsApplyOnce, Sql!AppliedInOrder
<1>4. ASSUME NEW v \in Versions, NEW s \in 1 .. Statements
      PROVE  ran[v][s] = 0 /\ Cardinality(ToRun(v, s)) = 0 /\ failures = 0
  <2>1. ToRun(v, s) = {}
    BY DEF ToRun, Applies
  <2> QED  BY <2>1, FS_EmptySet
<1>5. LeaseInv
  <2> HIDE DEF Sql!Init
  <2> QED  BY <1>4 DEF LeaseInv
<1> QED  BY <1>1, <1>2, <1>3, <1>5 DEF MigrationInv

-----------------------------------------------------------------------------
(* Types and progress                                                      *)

\* What a runner that applies a version is about to do.
LEMMA NextVersion ==
  ASSUME Setting, MigrationsTypeOK, ProgressInv, NEW r \in Runners, Applies(r)
  PROVE  /\ Sql!Applying(r) \in runner[r].todo /\ Sql!Applying(r) \in Versions
         /\ \A v \in Versions : v < Sql!Applying(r) => v \in recorded
         /\ runner[r].at \in Nat \ {0} /\ runner[r].todo \subseteq Versions
<1>1. /\ runner[r].todo # {} /\ runner[r].todo \subseteq Versions /\ Versions \subseteq Nat
      /\ Versions \ recorded \subseteq runner[r].todo /\ runner[r].at \in Nat \ {0}
  BY DEF Setting, MigrationsTypeOK, RunnerType, ProgressInv
<1>2. Sql!Applying(r) \in runner[r].todo /\ \A v \in runner[r].todo : Sql!Applying(r) <= v
  BY <1>1, Smallest DEF Sql!Applying
<1>3. ASSUME NEW v \in Versions, v < Sql!Applying(r), v \notin recorded PROVE FALSE
  <2>1. v \in Nat /\ Sql!Applying(r) \in Nat /\ v \in runner[r].todo
    BY <1>1, <1>2, <1>3
  <2>2. Sql!Applying(r) <= v
    BY <1>2, <2>1
  <2> QED  BY <1>3, <2>1, <2>2
<1> QED  BY <1>1, <1>2, <1>3

\* The state that a step gives to one runner.
LEMMA OneChanges ==
  ASSUME NEW r \in Runners, NEW new, MigrationsTypeOK, Sql!Becomes(r, new)
  PROVE  /\ runner'[r] = new
         /\ \A q \in Runners \ {r} : runner'[q] = runner[q]
         /\ new \in RunnerType => runner' \in [Runners -> RunnerType]
BY DEF MigrationsTypeOK, Sql!Becomes

\* What a record changes of the counts.
LEMMA Recorded ==
  ASSUME Setting, MigrationsTypeOK, ProgressInv, NEW r \in Runners, Sql!Record(r)
  PROVE  /\ Applies(r) /\ Sql!Applying(r) \in Versions /\ Sql!Applying(r) \notin recorded
         /\ runner[r].at > Statements
         /\ recorded' = recorded \cup {Sql!Applying(r)}
         /\ ran' \in [Versions -> [1 .. Statements -> Nat]]
         /\ \A v \in Versions, s \in 1 .. Statements :
              ran'[v][s] = IF transactional /\ v = Sql!Applying(r) THEN ran[v][s] + 1 ELSE ran[v][s]
<1>1. Applies(r) /\ runner[r].at > Statements /\ Sql!Applying(r) \notin recorded
      /\ recorded' = recorded \cup {Sql!Applying(r)}
      /\ ran' = IF transactional
                THEN [ran EXCEPT ![Sql!Applying(r)] = [s \in 1 .. Statements |-> @[s] + 1]]
                ELSE ran
  BY DEF Sql!Record, Applies
<1>2. Sql!Applying(r) \in Versions
  BY <1>1, NextVersion
<1>3. ran \in [Versions -> [1 .. Statements -> Nat]]
  BY DEF MigrationsTypeOK
<1>4. CASE transactional
  <2> DEFINE more == [s \in 1 .. Statements |-> ran[Sql!Applying(r)][s] + 1]
  <2>1. more \in [1 .. Statements -> Nat]
    <3>1. ran[Sql!Applying(r)] \in [1 .. Statements -> Nat]
      BY <1>2, <1>3
    <3> QED  BY <3>1, Added
  <2>2. ran' = [ran EXCEPT ![Sql!Applying(r)] = more]
    BY <1>1, <1>4
  <2>3. \A s \in 1 .. Statements : more[s] = ran[Sql!Applying(r)][s] + 1
    OBVIOUS
  <2> HIDE DEF more
  <2>4. ran' \in [Versions -> [1 .. Statements -> Nat]]
    BY <1>2, <1>3, <2>1, <2>2
  <2> QED  BY <1>1, <1>2, <1>3, <1>4, <2>2, <2>3, <2>4
<1>5. CASE ~transactional
  BY <1>1, <1>2, <1>3, <1>5
<1> QED  BY <1>4, <1>5

\* And what a statement does.
LEMMA Ran ==
  ASSUME Setting, MigrationsTypeOK, ProgressInv, NEW r \in Runners, Sql!Statement(r)
  PROVE  /\ Applies(r) /\ Sql!Applying(r) \in Versions /\ runner[r].at \in 1 .. Statements
         /\ ran' \in [Versions -> [1 .. Statements -> Nat]]
         /\ \A v \in Versions, s \in 1 .. Statements :
              ran'[v][s] = IF ~transactional /\ v = Sql!Applying(r) /\ s = runner[r].at
                           THEN ran[v][s] + 1 ELSE ran[v][s]
<1>1. /\ Applies(r) /\ runner[r].at <= Statements
      /\ ran' = IF transactional THEN ran ELSE [ran EXCEPT ![Sql!Applying(r)][runner[r].at] = @ + 1]
  BY DEF Sql!Statement, Applies
<1>2. Sql!Applying(r) \in Versions /\ runner[r].at \in Nat \ {0} /\ Statements \in Nat
  BY <1>1, NextVersion DEF Setting
<1>3. ran \in [Versions -> [1 .. Statements -> Nat]] /\ runner[r].at \in 1 .. Statements
  BY <1>1, <1>2 DEF MigrationsTypeOK
<1>4. CASE transactional
  BY <1>1, <1>2, <1>3, <1>4
<1>5. CASE ~transactional
  <2> DEFINE v0 == Sql!Applying(r)
             s0 == runner[r].at
  <2>1. ran' = [ran EXCEPT ![v0][s0] = @ + 1] /\ v0 \in Versions /\ s0 \in 1 .. Statements
    BY <1>1, <1>2, <1>3, <1>5
  <2> HIDE DEF v0, s0
  <2>2. /\ ran' \in [Versions -> [1 .. Statements -> Nat]]
        /\ \A v \in Versions, s \in 1 .. Statements :
             ran'[v][s] = IF v = v0 /\ s = s0 THEN ran[v][s] + 1 ELSE ran[v][s]
    <3> DEFINE more == [ran[v0] EXCEPT ![s0] = @ + 1]
    <3>1. ran[v0] \in [1 .. Statements -> Nat]
      BY <1>3, <2>1
    <3>2. /\ more \in [1 .. Statements -> Nat]
          /\ \A s \in 1 .. Statements : more[s] = IF s = s0 THEN ran[v0][s] + 1 ELSE ran[v0][s]
      BY <2>1, <3>1, Added
    <3>3. ran' = [ran EXCEPT ![v0] = more]
      BY <2>1
    <3> HIDE DEF more
    <3> QED  BY <1>3, <2>1, <3>2, <3>3
  <2> QED  BY <1>1, <1>2, <1>3, <1>5, <2>2 DEF v0, s0
<1> QED  BY <1>4, <1>5

\* The state that each step of a runner gives it, and what it leaves alone.
LEMMA Steps ==
  ASSUME Setting, MigrationsTypeOK, ProgressInv, NEW r \in Runners,
         \/ Sql!Migrate(r) \/ Sql!Acquire(r) \/ Sql!Step(r) \/ Sql!StatementFails(r) \/ Sql!Crash(r)
  PROVE  \E new \in RunnerType :
           /\ Sql!Becomes(r, new)
           /\ UNCHANGED <<guarded, transactional>>
           /\ holder' \in Runners \cup {Sql!Nobody}
           /\ recorded \subseteq recorded' /\ recorded' \subseteq Versions
           /\ failures' \in {failures, failures + 1}
           /\ new.pc = "apply" => Sql!Pending(r) \/ Sql!Statement(r) \/ Sql!Record(r)
           /\ ~(Sql!Statement(r) \/ Sql!Record(r)) => ran' = ran /\ recorded' = recorded
<1> DEFINE Given(new) ==
      /\ Sql!Becomes(r, new)
      /\ UNCHANGED <<guarded, transactional>>
      /\ holder' \in Runners \cup {Sql!Nobody}
      /\ recorded \subseteq recorded' /\ recorded' \subseteq Versions
      /\ failures' \in {failures, failures + 1}
      /\ new.pc = "apply" => Sql!Pending(r) \/ Sql!Statement(r) \/ Sql!Record(r)
      /\ ~(Sql!Statement(r) \/ Sql!Record(r)) => ran' = ran /\ recorded' = recorded
<1>0. /\ recorded \subseteq Versions /\ holder \in Runners \cup {Sql!Nobody}
      /\ runner[r] \in RunnerType
  BY DEF MigrationsTypeOK
<1>1. ASSUME NEW pc \in {"idle", "acquire", "pending", "release"}
      PROVE  [Sql!Asleep EXCEPT !.pc = pc] \in RunnerType /\ [Sql!Asleep EXCEPT !.pc = pc].pc = pc
  BY DEF Sql!Asleep, RunnerType
<1>2. Sql!Asleep \in RunnerType /\ Sql!Asleep.pc = "idle"
  BY DEF Sql!Asleep, RunnerType
<1>3. CASE Sql!Migrate(r)
  <2> DEFINE pc == IF guarded THEN "acquire" ELSE "pending"
  <2>1. pc \in {"idle", "acquire", "pending", "release"} /\ pc # "apply"
    OBVIOUS
  <2>2. Sql!Becomes(r, [Sql!Asleep EXCEPT !.pc = pc])
    BY <1>3 DEF Sql!Migrate
  <2>3. UNCHANGED <<guarded, transactional, holder, recorded, ran, failures>>
    BY <1>3 DEF Sql!Migrate
  <2> HIDE DEF pc
  <2>4. Given([Sql!Asleep EXCEPT !.pc = pc])
    BY <1>0, <1>1, <2>1, <2>2, <2>3
  <2> QED  BY <1>1, <2>1, <2>4
<1>4. CASE Sql!Acquire(r)
  <2>1. Given([Sql!Asleep EXCEPT !.pc = "pending"])
    BY <1>0, <1>1, <1>4 DEF Sql!Acquire, Sql!bounds
  <2> QED  BY <1>1, <2>1
<1>5. CASE Sql!Pending(r)
  <2> DEFINE todo == Versions \ recorded
             new == [pc |-> IF todo = {} THEN "release" ELSE "apply", todo |-> todo, at |-> 1]
  <2>1. new \in RunnerType
    BY DEF RunnerType
  <2>2. Given(new)
    <3> HIDE DEF new
    <3>1. Sql!Becomes(r, new)
      BY <1>5 DEF Sql!Pending, new
    <3> QED  BY <1>0, <1>5, <3>1 DEF Sql!Pending, Sql!bounds
  <2> QED  BY <2>1, <2>2
<1>6. CASE Sql!Statement(r)
  <2> DEFINE new == [runner[r] EXCEPT !.at = @ + 1]
  <2>1. new \in RunnerType
    <3>1. runner[r].at + 1 \in Nat \ {0}
      BY <1>0 DEF RunnerType
    <3> QED  BY <1>0, <3>1 DEF RunnerType
  <2> HIDE DEF new
  <2>2. Sql!Becomes(r, new) /\ UNCHANGED <<guarded, transactional, holder, recorded, failures>>
    BY <1>6 DEF Sql!Statement, Sql!bounds, new
  <2>3. Given(new)
    BY <1>0, <1>6, <2>2
  <2> QED  BY <2>1, <2>3
<1>7. CASE Sql!Record(r)
  <2> DEFINE left == runner[r].todo \ {Sql!Applying(r)}
             new == [pc |-> IF left = {} THEN "release" ELSE "apply", todo |-> left, at |-> 1]
  <2>1. new \in RunnerType
    BY <1>0 DEF RunnerType
  <2> HIDE DEF new
  <2>2. Sql!Becomes(r, new) /\ UNCHANGED <<guarded, transactional, holder, failures>>
    BY <1>7 DEF Sql!Record, Sql!bounds, new
  <2>3. Given(new)
    BY <1>0, <1>7, <2>2, Recorded
  <2> QED  BY <2>1, <2>3
<1>8. CASE Sql!RecordRefused(r)
  <2>1. Given([Sql!Asleep EXCEPT !.pc = "release"])
    BY <1>0, <1>1, <1>8 DEF Sql!RecordRefused, Sql!bounds
  <2> QED  BY <1>1, <2>1
<1>9. CASE Sql!StatementFails(r)
  <2>1. Given([Sql!Asleep EXCEPT !.pc = "release"])
    BY <1>0, <1>1, <1>9 DEF Sql!StatementFails
  <2> QED  BY <1>1, <2>1
<1>10. CASE Sql!Release(r)
  <2>1. Given(Sql!Asleep)
    BY <1>0, <1>2, <1>10 DEF Sql!Release, Sql!bounds
  <2> QED  BY <1>2, <2>1
<1>11. CASE Sql!Crash(r)
  <2>1. Given(Sql!Asleep)
    BY <1>0, <1>2, <1>11 DEF Sql!Crash
  <2> QED  BY <1>2, <2>1
<1> QED
  BY <1>3, <1>4, <1>5, <1>6, <1>7, <1>8, <1>9, <1>10, <1>11 DEF Sql!Step

LEMMA TypeKept ==
  ASSUME Setting, MigrationsTypeOK, ProgressInv, [Sql!Next]_(Sql!migrationVars)
  PROVE  MigrationsTypeOK'
<1>1. CASE UNCHANGED Sql!migrationVars
  BY <1>1 DEF MigrationsTypeOK, Sql!migrationVars, Sql!bounds
<1>2. CASE Sql!LeaseEnds \/ Sql!LeaseEndsEarly
  <2>1. /\ UNCHANGED <<guarded, transactional, recorded, ran, runner>>
        /\ holder' = Sql!Nobody /\ failures' \in {failures, failures + 1}
    BY <1>2 DEF Sql!LeaseEnds, Sql!LeaseEndsEarly, Sql!bounds
  <2> QED  BY <2>1 DEF MigrationsTypeOK
<1>3. ASSUME NEW r \in Runners,
             \/ Sql!Migrate(r) \/ Sql!Acquire(r) \/ Sql!Step(r) \/ Sql!StatementFails(r)
             \/ Sql!Crash(r)
      PROVE  MigrationsTypeOK'
  <2>1. PICK new \in RunnerType :
          /\ Sql!Becomes(r, new)
          /\ UNCHANGED <<guarded, transactional>>
          /\ holder' \in Runners \cup {Sql!Nobody}
          /\ recorded' \subseteq Versions
          /\ failures' \in {failures, failures + 1}
          /\ ~(Sql!Statement(r) \/ Sql!Record(r)) => ran' = ran
    BY <1>3, Steps
  <2>2. ran' \in [Versions -> [1 .. Statements -> Nat]]
    BY <2>1, Ran, Recorded DEF MigrationsTypeOK
  <2>3. runner' \in [Runners -> RunnerType]
    BY <2>1, OneChanges
  <2>4. failures' \in Nat
    BY <2>1 DEF MigrationsTypeOK
  <2>5. guarded' \in BOOLEAN /\ transactional' \in BOOLEAN
    BY <2>1 DEF MigrationsTypeOK
  <2> QED  BY <2>1, <2>2, <2>3, <2>4, <2>5 DEF MigrationsTypeOK
<1> QED  BY <1>1, <1>2, <1>3 DEF Sql!Next

\* Records stay, counts do not shrink, and only a runner's own step touches its state.
LEMMA Grows ==
  ASSUME Setting, MigrationsTypeOK, ProgressInv, [Sql!Next]_(Sql!migrationVars)
  PROVE  /\ UNCHANGED <<guarded, transactional>> /\ recorded \subseteq recorded'
         /\ \A v \in Versions, s \in 1 .. Statements :
              /\ ran[v][s] \in Nat /\ ran'[v][s] \in Nat
              /\ ran[v][s] > 0 => ran'[v][s] > 0
<1>0. \A v \in Versions, s \in 1 .. Statements : ran[v][s] \in Nat /\ ran'[v][s] \in Nat
  BY TypeKept DEF MigrationsTypeOK
<1>1. CASE UNCHANGED Sql!migrationVars \/ Sql!LeaseEnds \/ Sql!LeaseEndsEarly
  <2>1. UNCHANGED <<guarded, transactional, recorded, ran>>
    BY <1>1 DEF Sql!migrationVars, Sql!LeaseEnds, Sql!LeaseEndsEarly
  <2> QED  BY <1>0, <2>1
<1>2. ASSUME NEW r \in Runners,
             \/ Sql!Migrate(r) \/ Sql!Acquire(r) \/ Sql!Step(r) \/ Sql!StatementFails(r)
             \/ Sql!Crash(r)
      PROVE  /\ UNCHANGED <<guarded, transactional>> /\ recorded \subseteq recorded'
             /\ \A v \in Versions, s \in 1 .. Statements :
                  ran[v][s] > 0 => ran'[v][s] > 0
  <2>1. /\ UNCHANGED <<guarded, transactional>> /\ recorded \subseteq recorded'
        /\ ~(Sql!Statement(r) \/ Sql!Record(r)) => ran' = ran
    BY <1>2, Steps
  <2>2. ASSUME NEW v \in Versions, NEW s \in 1 .. Statements, ran[v][s] > 0
        PROVE  ran'[v][s] > 0
    <3>1. ran'[v][s] = ran[v][s] \/ ran'[v][s] = ran[v][s] + 1
      BY <2>1, Ran, Recorded
    <3> QED  BY <1>0, <2>2, <3>1
  <2> QED  BY <2>1, <2>2
<1> QED  BY <1>0, <1>1, <1>2 DEF Sql!Next

LEMMA ProgressKept ==
  ASSUME Setting, MigrationsTypeOK, ProgressInv, [Sql!Next]_(Sql!migrationVars) PROVE ProgressInv'
<1> DEFINE Ok(q) ==
      Applies(q)' =>
        /\ runner'[q].todo # {}
        /\ Versions \ recorded' \subseteq runner'[q].todo
        /\ ~transactional' =>
             \A s \in 1 .. Statements : s < runner'[q].at => ran'[Sql!Applying(q)'][s] > 0
<1>1. ASSUME NEW q \in Runners, runner'[q] = runner[q] PROVE Ok(q)
  <2> SUFFICES ASSUME Applies(q) PROVE Ok(q)
    BY <1>1 DEF Applies
  <2>1. Sql!Applying(q)' = Sql!Applying(q) /\ Sql!Applying(q) \in Versions
    BY <1>1, NextVersion DEF Sql!Applying
  <2>2. /\ runner[q].todo # {} /\ Versions \ recorded \subseteq runner[q].todo
        /\ ~transactional =>
             \A s \in 1 .. Statements : s < runner[q].at => ran[Sql!Applying(q)][s] > 0
    BY DEF ProgressInv
  <2> QED  BY <1>1, <2>1, <2>2, Grows
<1>2. CASE UNCHANGED Sql!migrationVars \/ Sql!LeaseEnds \/ Sql!LeaseEndsEarly
  <2>1. runner' = runner
    BY <1>2 DEF Sql!migrationVars, Sql!LeaseEnds, Sql!LeaseEndsEarly
  <2> QED  BY <1>1, <2>1 DEF ProgressInv
<1>3. ASSUME NEW r \in Runners,
             \/ Sql!Migrate(r) \/ Sql!Acquire(r) \/ Sql!Step(r) \/ Sql!StatementFails(r)
             \/ Sql!Crash(r)
      PROVE  ProgressInv'
  <2>1. PICK new \in RunnerType :
          /\ Sql!Becomes(r, new)
          /\ new.pc = "apply" => Sql!Pending(r) \/ Sql!Statement(r) \/ Sql!Record(r)
    BY <1>3, Steps
  <2>2. runner'[r] = new /\ \A q \in Runners \ {r} : runner'[q] = runner[q]
    BY <2>1, OneChanges
  <2>3. \A s \in 1 .. Statements : ~(s < 1)
    BY DEF Setting
  <2>4. ASSUME Sql!Pending(r) PROVE Ok(r)
    <3> DEFINE todo == Versions \ recorded
    <3>1. /\ runner'[r] = [pc |-> IF todo = {} THEN "release" ELSE "apply", todo |-> todo, at |-> 1]
          /\ recorded' = recorded
      BY <2>4, OneChanges DEF Sql!Pending
    <3> QED  BY <2>3, <3>1 DEF Applies
  <2>5. ASSUME Sql!Statement(r) PROVE Ok(r)
    <3>1. /\ Applies(r) /\ Sql!Applying(r) \in Versions /\ runner[r].at \in 1 .. Statements
          /\ ~transactional => ran'[Sql!Applying(r)][runner[r].at] > 0
      BY <2>5, Ran, Grows
    <3>2. runner'[r] = [runner[r] EXCEPT !.at = @ + 1] /\ recorded' = recorded
      BY <2>5, OneChanges DEF Sql!Statement
    <3>3. runner[r] \in RunnerType
      BY DEF MigrationsTypeOK
    <3>4. /\ runner'[r].todo = runner[r].todo /\ runner'[r].at = runner[r].at + 1
          /\ Sql!Applying(r)' = Sql!Applying(r)
      BY <3>2, <3>3 DEF RunnerType, Sql!Applying
    <3>5. /\ runner[r].todo # {} /\ Versions \ recorded \subseteq runner[r].todo
          /\ ~transactional =>
               \A s \in 1 .. Statements : s < runner[r].at => ran[Sql!Applying(r)][s] > 0
      BY <3>1 DEF ProgressInv
    <3>6. ASSUME ~transactional, NEW s \in 1 .. Statements, s < runner[r].at + 1
          PROVE  ran'[Sql!Applying(r)][s] > 0
      <4>1. s < runner[r].at \/ s = runner[r].at
        BY <3>1, <3>6 DEF Setting
      <4> QED  BY <3>1, <3>5, <3>6, <4>1, Grows
    <3> QED  BY <3>2, <3>4, <3>5, <3>6, Grows
  <2>6. ASSUME Sql!Record(r) PROVE Ok(r)
    <3> DEFINE left == runner[r].todo \ {Sql!Applying(r)}
    <3>1. runner'[r] = [pc |-> IF left = {} THEN "release" ELSE "apply", todo |-> left, at |-> 1]
      BY <2>6, OneChanges DEF Sql!Record
    <3>2. /\ recorded' = recorded \cup {Sql!Applying(r)}
          /\ Versions \ recorded \subseteq runner[r].todo
      BY <2>6, Recorded DEF ProgressInv
    <3> QED  BY <2>3, <3>1, <3>2 DEF Applies
  <2>7. Ok(r)
    BY <2>1, <2>2, <2>4, <2>5, <2>6 DEF Applies
  <2> QED  BY <1>1, <2>2, <2>7 DEF ProgressInv
<1> QED  BY <1>2, <1>3 DEF Sql!Next

LEMMA OnceKept ==
  ASSUME Setting, MigrationInv, [Sql!Next]_(Sql!migrationVars) PROVE Sql!TransactionsApplyOnce'
<1> SUFFICES ASSUME transactional, NEW v \in Versions, NEW s \in 1 .. Statements
             PROVE  ran'[v][s] = IF v \in recorded' THEN 1 ELSE 0
  BY Grows DEF Sql!TransactionsApplyOnce, MigrationInv
<1>1. ran[v][s] = IF v \in recorded THEN 1 ELSE 0
  BY DEF MigrationInv, Sql!TransactionsApplyOnce
<1>2. CASE UNCHANGED Sql!migrationVars \/ Sql!LeaseEnds \/ Sql!LeaseEndsEarly
  BY <1>1, <1>2 DEF Sql!migrationVars, Sql!LeaseEnds, Sql!LeaseEndsEarly
<1>3. ASSUME NEW r \in Runners,
             \/ Sql!Migrate(r) \/ Sql!Acquire(r) \/ Sql!Step(r) \/ Sql!StatementFails(r)
             \/ Sql!Crash(r)
      PROVE  ran'[v][s] = IF v \in recorded' THEN 1 ELSE 0
  <2>1. CASE Sql!Record(r)
    BY <1>1, <2>1, Recorded DEF MigrationInv
  <2>2. CASE Sql!Statement(r)
    <3>1. recorded' = recorded
      BY <2>2 DEF Sql!Statement
    <3>2. ran'[v][s] = ran[v][s]
      BY <2>2, Ran DEF MigrationInv
    <3> QED  BY <1>1, <3>1, <3>2
  <2>3. CASE ~(Sql!Statement(r) \/ Sql!Record(r))
    <3>1. ran' = ran /\ recorded' = recorded
      BY <1>3, <2>3, Steps DEF MigrationInv
    <3> QED  BY <1>1, <3>1
  <2> QED  BY <2>1, <2>2, <2>3
<1> QED  BY <1>2, <1>3 DEF Sql!Next

LEMMA OrderKept ==
  ASSUME Setting, MigrationInv, [Sql!Next]_(Sql!migrationVars) PROVE Sql!AppliedInOrder'
<1>0. MigrationsTypeOK /\ ProgressInv
  BY DEF MigrationInv
<1>1. ASSUME NEW v \in recorded, NEW s \in 1 .. Statements PROVE ran'[v][s] > 0
  BY <1>0, <1>1, Grows DEF MigrationInv, Sql!AppliedInOrder, MigrationsTypeOK
<1>2. ASSUME NEW v \in Versions, NEW s \in 1 .. Statements, ran[v][s] > 0,
             NEW w \in Versions, w < v
      PROVE  w \in recorded'
  BY <1>0, <1>2, Grows DEF MigrationInv, Sql!AppliedInOrder
<1>3. CASE ran' = ran /\ recorded' = recorded
  BY <1>3 DEF MigrationInv, Sql!AppliedInOrder
<1>4. ASSUME NEW r \in Runners, Sql!Record(r) PROVE Sql!AppliedInOrder'
  <2>1. /\ Applies(r) /\ Sql!Applying(r) \in Versions /\ runner[r].at > Statements
        /\ recorded' = recorded \cup {Sql!Applying(r)}
        /\ \A v \in Versions, s \in 1 .. Statements :
             ran'[v][s] = IF transactional /\ v = Sql!Applying(r) THEN ran[v][s] + 1 ELSE ran[v][s]
    BY <1>0, <1>4, Recorded
  <2>2. ASSUME NEW s \in 1 .. Statements PROVE ran'[Sql!Applying(r)][s] > 0
    <3>1. ran[Sql!Applying(r)][s] \in Nat
      BY <1>0, <2>1, Grows
    <3>2. s < runner[r].at
      BY <1>0, <2>1 DEF Setting, MigrationsTypeOK, RunnerType
    <3>3. CASE transactional
      BY <2>1, <3>1, <3>3
    <3>4. CASE ~transactional
      BY <1>0, <2>1, <3>2, <3>4 DEF ProgressInv
    <3> QED  BY <3>3, <3>4
  <2>3. ASSUME NEW v \in Versions, NEW s \in 1 .. Statements, ran'[v][s] > 0,
               NEW w \in Versions, w < v
        PROVE  w \in recorded'
    <3>1. CASE v = Sql!Applying(r)
      BY <1>0, <2>1, <2>3, <3>1, NextVersion
    <3>2. CASE v # Sql!Applying(r)
      BY <1>2, <2>1, <2>3, <3>2
    <3> QED  BY <3>1, <3>2
  <2> QED  BY <1>1, <2>1, <2>2, <2>3 DEF Sql!AppliedInOrder
<1>5. ASSUME NEW r \in Runners, Sql!Statement(r) PROVE Sql!AppliedInOrder'
  <2>1. /\ Applies(r) /\ Sql!Applying(r) \in Versions /\ recorded' = recorded
        /\ \A v \in Versions, s \in 1 .. Statements : v # Sql!Applying(r) => ran'[v][s] = ran[v][s]
    BY <1>0, <1>5, Ran DEF Sql!Statement
  <2>2. ASSUME NEW v \in Versions, NEW s \in 1 .. Statements, ran'[v][s] > 0,
               NEW w \in Versions, w < v
        PROVE  w \in recorded'
    <3>1. CASE v = Sql!Applying(r)
      BY <1>0, <2>1, <2>2, <3>1, NextVersion
    <3>2. CASE v # Sql!Applying(r)
      BY <1>2, <2>1, <2>2, <3>2
    <3> QED  BY <3>1, <3>2
  <2> QED  BY <1>1, <2>1, <2>2 DEF Sql!AppliedInOrder
<1>6. ASSUME NEW r \in Runners,
             \/ Sql!Migrate(r) \/ Sql!Acquire(r) \/ Sql!Step(r) \/ Sql!StatementFails(r)
             \/ Sql!Crash(r)
      PROVE  Sql!AppliedInOrder'
  <2>1. ~(Sql!Statement(r) \/ Sql!Record(r)) => ran' = ran /\ recorded' = recorded
    BY <1>0, <1>6, Steps
  <2> QED  BY <1>3, <1>4, <1>5, <2>1
<1>7. CASE UNCHANGED Sql!migrationVars \/ Sql!LeaseEnds \/ Sql!LeaseEndsEarly
  BY <1>3, <1>7 DEF Sql!migrationVars, Sql!LeaseEnds, Sql!LeaseEndsEarly
<1> QED  BY <1>6, <1>7 DEF Sql!Next

-----------------------------------------------------------------------------
(* The lock                                                                *)

\* Only a runner's own step can make it one that is to run a statement.
LEMMA OthersToRun ==
  ASSUME Setting, MigrationsTypeOK, NEW r \in Runners, NEW new, Sql!Becomes(r, new),
         recorded \subseteq recorded',
         NEW v \in Versions, NEW s \in 1 .. Statements
  PROVE  /\ ToRun(v, s)' \subseteq ToRun(v, s) \cup {r}
         /\ r \notin ToRun(v, s)' => ToRun(v, s)' \subseteq ToRun(v, s) \ {r}
         /\ r \in ToRun(v, s)' <=> \/ new.pc = "pending" /\ v \notin recorded'
                                   \/ /\ new.pc = "apply" /\ v \in new.todo
                                      /\ v = Sql!Min(new.todo) => new.at <= s
<1>1. runner'[r] = new /\ \A q \in Runners \ {r} : runner'[q] = runner[q]
  BY OneChanges
<1>2. ASSUME NEW q \in Runners \ {r}, q \in ToRun(v, s)' PROVE q \in ToRun(v, s)
  <2>1. runner'[q] = runner[q] /\ Sql!Applying(q)' = Sql!Applying(q)
    BY <1>1 DEF Sql!Applying
  <2> QED  BY <1>2, <2>1 DEF ToRun, Applies
<1>3. ToRun(v, s)' \subseteq Runners
  BY DEF ToRun
<1>4. r \in ToRun(v, s)' <=> \/ new.pc = "pending" /\ v \notin recorded'
                             \/ /\ new.pc = "apply" /\ v \in new.todo
                                /\ v = Sql!Min(new.todo) => new.at <= s
  BY <1>1 DEF ToRun, Applies, Sql!Applying
<1> QED  BY <1>2, <1>3, <1>4

LEMMA LeaseKept ==
  ASSUME Setting, MigrationInv, [Sql!Next]_(Sql!migrationVars) PROVE LeaseInv'
<1>0. /\ MigrationsTypeOK /\ ProgressInv /\ MigrationsTypeOK'
      /\ guarded' = guarded /\ transactional' = transactional
  BY TypeKept, Grows DEF MigrationInv
<1> SUFFICES ASSUME guarded, ~transactional, NEW v \in Versions, NEW s \in 1 .. Statements
             PROVE  /\ ran'[v][s] + Cardinality(ToRun(v, s)') <= failures' + 1
                    /\ ~Live' /\ v \notin recorded' =>
                         ran'[v][s] + Cardinality(ToRun(v, s)') <= failures'
  BY <1>0 DEF LeaseInv
<1> DEFINE n == ran[v][s]
           m == ran'[v][s]
           B == ToRun(v, s)
           A == ToRun(v, s)'
           b == Cardinality(B)
           a == Cardinality(A)
           Ok == m + a <= failures' + 1 /\ (~Live' /\ v \notin recorded' => m + a <= failures')
<1>1. /\ n + b <= failures + 1
      /\ ~Live /\ v \notin recorded => n + b <= failures
  BY DEF MigrationInv, LeaseInv
<1>2. A \in SUBSET Runners /\ B \in SUBSET Runners /\ IsFiniteSet(Runners)
  BY DEF ToRun, Setting
<1>3. a \in Nat /\ b \in Nat /\ (A \subseteq B => a <= b)
  <2> HIDE DEF A, B
  <2> QED  BY <1>2, Sizes
<1>4. n \in Nat /\ m \in Nat /\ failures \in Nat
  BY <1>0, Grows DEF MigrationsTypeOK
<1> HIDE DEF n, m, a, b
\* What is left to show of a step by what it changes.
<1>5. ASSUME m = n, A \subseteq B, failures' = failures,
             ~Live' /\ v \notin recorded' => v \notin recorded /\ (~Live \/ a + 1 <= b)
      PROVE  Ok
  BY <1>1, <1>3, <1>4, <1>5
<1>6. ASSUME m = n, A \subseteq B, failures' = failures + 1 PROVE Ok
  BY <1>1, <1>3, <1>4, <1>6
<1>7. ASSUME UNCHANGED Sql!migrationVars \/ Sql!LeaseEnds \/ Sql!LeaseEndsEarly PROVE Ok
  <2>1. UNCHANGED <<recorded, ran, runner>>
    BY <1>7 DEF Sql!migrationVars, Sql!LeaseEnds, Sql!LeaseEndsEarly
  <2>2. A = B /\ m = n
    BY <2>1 DEF ToRun, Applies, Sql!Applying, m, n
  <2>3. CASE UNCHANGED Sql!migrationVars
    BY <1>5, <2>1, <2>2, <2>3 DEF Sql!migrationVars, Sql!bounds, Live
  <2>4. CASE Sql!LeaseEnds
    BY <1>5, <2>1, <2>2, <2>4 DEF Sql!LeaseEnds, Sql!bounds, Live, Sql!Underway
  <2>5. CASE Sql!LeaseEndsEarly
    BY <1>6, <2>1, <2>2, <2>5 DEF Sql!LeaseEndsEarly
  <2> QED  BY <1>7, <2>3, <2>4, <2>5 DEF Ok
<1>8. ASSUME NEW r \in Runners,
             \/ Sql!Migrate(r) \/ Sql!Acquire(r) \/ Sql!Step(r) \/ Sql!StatementFails(r)
             \/ Sql!Crash(r)
      PROVE  Ok
  <2>1. PICK new \in RunnerType :
          /\ Sql!Becomes(r, new)
          /\ recorded \subseteq recorded'
          /\ ~(Sql!Statement(r) \/ Sql!Record(r)) => ran' = ran /\ recorded' = recorded
    BY <1>0, <1>8, Steps
  <2>2. /\ A \subseteq B \cup {r} /\ (r \notin A => A \subseteq B \ {r})
        /\ r \in A <=> \/ new.pc = "pending" /\ v \notin recorded'
                     \/ /\ new.pc = "apply" /\ v \in new.todo
                        /\ v = Sql!Min(new.todo) => new.at <= s
    BY <1>0, <2>1, OthersToRun
  <2>3. runner'[r] = new /\ \A q \in Runners \ {r} : runner'[q] = runner[q]
    BY <1>0, <2>1, OneChanges
  <2>4. r \in B <=> \/ runner[r].pc = "pending" /\ v \notin recorded
                   \/ /\ Applies(r) /\ v \in runner[r].todo
                      /\ v = Sql!Applying(r) => runner[r].at <= s
    BY DEF ToRun
  <2>5. ~(Sql!Statement(r) \/ Sql!Record(r)) => m = n
    BY <2>1 DEF m, n
  <2> HIDE DEF A, B
  <2>0. /\ r \in B /\ A \subseteq B \ {r} => a + 1 <= b
        /\ A \subseteq B \cup {r} => a <= b + 1
    BY <1>2, Sizes DEF a, b
  <2>6. holder' = holder /\ (holder = r => new.pc \in {"pending", "apply"}) /\ Live => Live'
    BY <2>3 DEF Live
  <2>7. (r \in A => r \in B) => A \subseteq B
    BY <2>2
  <2>8. CASE Sql!Migrate(r)
    <3>1. new.pc = "acquire" /\ runner[r].pc = "idle"
      BY <2>3, <2>8, OneChanges, <1>0 DEF Sql!Migrate, Sql!Asleep
    <3>2. UNCHANGED <<holder, recorded, ran, failures>>
      BY <2>8 DEF Sql!Migrate
    <3>3. Live => Live'
      BY <2>3, <3>1, <3>2 DEF Live
    <3> QED  BY <1>5, <2>2, <2>5, <2>7, <2>8, <3>1, <3>2, <3>3 DEF Sql!Migrate, m, n
  <2>9. CASE Sql!Acquire(r)
    <3>1. new.pc = "pending" /\ holder = Sql!Nobody /\ holder' = r
      BY <2>3, <2>9, OneChanges, <1>0 DEF Sql!Acquire, Sql!Asleep
    <3>2. UNCHANGED <<recorded, ran, failures>>
      BY <2>9 DEF Sql!Acquire, Sql!bounds
    <3>3. Live' /\ ~Live
      BY <2>3, <3>1 DEF Live, Setting
    <3>4. m = n
      BY <3>2 DEF m, n
    <3>5. CASE v \in recorded
      BY <1>5, <2>2, <2>7, <3>1, <3>2, <3>3, <3>4, <3>5
    <3>6. CASE v \notin recorded
      <4>1. a <= b + 1 /\ n + b <= failures
        BY <1>1, <2>0, <2>2, <3>3, <3>6
      <4> QED  BY <1>3, <1>4, <3>2, <3>3, <3>4, <4>1
    <3> QED  BY <3>5, <3>6
  <2>10. CASE Sql!StatementFails(r) \/ Sql!Crash(r)
    <3>1. new.pc \in {"release", "idle"} /\ failures' = failures + 1 /\ ran' = ran
      BY <2>3, <2>10, OneChanges, <1>0 DEF Sql!StatementFails, Sql!Crash, Sql!Asleep
    <3> QED  BY <1>6, <2>2, <2>7, <3>1 DEF m, n
  <2>11. CASE Sql!Pending(r)
    <3> DEFINE todo == Versions \ recorded
    <3>1. /\ new = [pc |-> IF todo = {} THEN "release" ELSE "apply", todo |-> todo, at |-> 1]
          /\ runner[r].pc = "pending"
      BY <1>0, <2>3, <2>11, OneChanges DEF Sql!Pending
    <3>2. new.todo = todo /\ new.pc = IF todo = {} THEN "release" ELSE "apply"
      BY <3>1
    <3>3. UNCHANGED <<holder, recorded, ran, failures>>
      BY <2>11 DEF Sql!Pending, Sql!bounds
    <3>4. r \in A => r \in B
      BY <2>2, <2>4, <3>1, <3>2
    <3>5. v \notin recorded => (Live => Live')
      BY <2>6, <3>2, <3>3
    <3> QED  BY <1>5, <2>7, <3>3, <3>4, <3>5 DEF m, n
  <2>12. CASE Sql!Statement(r)
    <3>1. /\ Applies(r) /\ Sql!Applying(r) \in Versions /\ runner[r].at \in 1 .. Statements
          /\ m = IF v = Sql!Applying(r) /\ s = runner[r].at THEN n + 1 ELSE n
      BY <1>0, <2>12, Ran DEF m, n
    <3>2. new = [runner[r] EXCEPT !.at = @ + 1] /\ runner[r] \in RunnerType
      BY <1>0, <2>3, <2>12, OneChanges DEF Sql!Statement, MigrationsTypeOK
    <3>3. /\ new.pc = "apply" /\ new.todo = runner[r].todo /\ new.at = runner[r].at + 1
          /\ Sql!Min(new.todo) = Sql!Applying(r)
      BY <3>1, <3>2 DEF RunnerType, Applies, Sql!Applying
    <3>4. UNCHANGED <<holder, recorded, failures>>
      BY <2>12 DEF Sql!Statement, Sql!bounds
    <3>5. Live => Live'
      BY <2>6, <3>3, <3>4
    <3>6. CASE v = Sql!Applying(r) /\ s = runner[r].at
      <4>1. r \in B /\ r \notin A /\ m = n + 1
        BY <1>0, <2>2, <2>4, <3>1, <3>3, <3>6, NextVersion
      <4>2. a + 1 <= b
        BY <2>0, <2>2, <4>1
      <4> QED  BY <1>1, <1>3, <1>4, <3>4, <3>5, <4>1, <4>2
    <3>7. CASE ~(v = Sql!Applying(r) /\ s = runner[r].at)
      <4>1. runner[r].at + 1 <= s => runner[r].at <= s
        BY <3>1 DEF Setting
      <4>2. r \in A => r \in B
        BY <2>2, <2>4, <3>1, <3>3, <4>1
      <4> QED  BY <1>5, <2>7, <3>1, <3>4, <3>5, <3>7, <4>2
    <3> QED  BY <3>6, <3>7
  <2>13. CASE Sql!Record(r)
    <3> DEFINE left == runner[r].todo \ {Sql!Applying(r)}
    <3>1. new = [pc |-> IF left = {} THEN "release" ELSE "apply", todo |-> left, at |-> 1]
      BY <1>0, <2>3, <2>13, OneChanges DEF Sql!Record
    <3>2. new.todo = left /\ new.pc = IF left = {} THEN "release" ELSE "apply"
      BY <3>1
    <3>3. /\ Applies(r) /\ recorded' = recorded \cup {Sql!Applying(r)} /\ m = n
          /\ Versions \ recorded \subseteq runner[r].todo
      BY <1>0, <2>13, Recorded DEF ProgressInv, m, n
    <3>4. UNCHANGED <<holder, failures>>
      BY <2>13 DEF Sql!Record, Sql!bounds
    <3>5. r \in A => r \in B
      BY <2>2, <2>4, <3>2, <3>3
    <3>6. v \notin recorded' => v \notin recorded /\ (Live => Live')
      BY <2>6, <3>2, <3>3, <3>4
    <3> QED  BY <1>5, <2>7, <3>3, <3>4, <3>5, <3>6
  <2>14. CASE Sql!RecordRefused(r)
    <3>1. new.pc = "release" /\ Applies(r) /\ Sql!Applying(r) \in recorded
      BY <1>0, <2>3, <2>14, OneChanges DEF Sql!RecordRefused, Sql!Asleep, Applies
    <3>2. UNCHANGED <<recorded, ran, failures>>
      BY <2>14 DEF Sql!RecordRefused, Sql!bounds
    <3>3. v \notin recorded => r \in B
      BY <1>0, <2>4, <3>1 DEF ProgressInv
    <3>4. v \notin recorded => a + 1 <= b
      BY <2>0, <2>2, <3>1, <3>3
    <3> QED  BY <1>5, <2>2, <2>7, <3>1, <3>2, <3>4 DEF m, n
  <2>15. CASE Sql!Release(r)
    <3>1. new.pc = "idle" /\ runner[r].pc = "release"
      BY <1>0, <2>3, <2>15, OneChanges DEF Sql!Release, Sql!Asleep
    <3>2. UNCHANGED <<recorded, ran, failures>> /\ (holder # r => holder' = holder)
      BY <2>15 DEF Sql!Release, Sql!bounds
    <3>3. Live => Live'
      BY <2>3, <3>1, <3>2 DEF Live
    <3> QED  BY <1>5, <2>2, <2>7, <3>1, <3>2, <3>3 DEF m, n
  <2> QED
    BY <1>8, <2>8, <2>9, <2>10, <2>11, <2>12, <2>13, <2>14, <2>15 DEF Sql!Step
<1>9. Ok
  BY <1>7, <1>8 DEF Sql!Next
<1> QED  BY <1>9 DEF a, m, A

-----------------------------------------------------------------------------

\* The invariant: who applies a version has before it all that is not recorded, and what
\* may yet run twice under the lock is paid for by a failure or a lost lease.
THEOREM MigrationsInvariance == Sql!Spec => []MigrationInv
<1>1. Sql!Init => MigrationInv
  BY MigrationsInitially, SettingHolds
<1>2. MigrationInv /\ [Sql!Next]_(Sql!migrationVars) => MigrationInv'
  BY SettingHolds, TypeKept, ProgressKept, OnceKept, OrderKept, LeaseKept DEF MigrationInv
<1> QED  BY <1>1, <1>2, PTL DEF Sql!Spec

\* However runners overlap, fail and crash: with transactions a version is applied once if
\* it is recorded and not at all otherwise, versions are applied in their order, and under
\* the lock a statement runs again only for a run that failed, crashed or lost its lease.
THEOREM Applied == Sql!Spec => []AppliedAsRecorded
<1>1. ASSUME MigrationInv PROVE Sql!LockedRunsOnce
  <2> SUFFICES ASSUME guarded, NEW v \in Versions, NEW s \in 1 .. Statements
               PROVE  ran[v][s] <= 1 + failures
    BY DEF Sql!LockedRunsOnce
  <2>1. ran[v][s] \in Nat /\ failures \in Nat
    BY <1>1 DEF MigrationInv, MigrationsTypeOK
  <2>2. CASE transactional
    <3>1. ran[v][s] \in {0, 1}
      BY <1>1, <2>2 DEF MigrationInv, Sql!TransactionsApplyOnce
    <3> QED  BY <2>1, <3>1
  <2>3. CASE ~transactional
    <3>1. ran[v][s] + Cardinality(ToRun(v, s)) <= failures + 1
      BY <1>1, <2>3 DEF MigrationInv, LeaseInv
    <3>2. ToRun(v, s) \in SUBSET Runners /\ IsFiniteSet(Runners)
      BY SettingHolds DEF ToRun, Setting
    <3>3. Cardinality(ToRun(v, s)) \in Nat
      BY <3>2, FS_Subset, FS_CardinalityType
    <3> QED  BY <2>1, <3>1, <3>3
  <2> QED  BY <2>2, <2>3
<1>2. MigrationInv => AppliedAsRecorded
  BY <1>1 DEF MigrationInv, AppliedAsRecorded, Sql!AppliedAsRecorded
<1> QED  BY MigrationsInvariance, <1>2, PTL

-----------------------------------------------------------------------------
(* Repository, for any number of callers, connections, attempts, writes,   *)
(* calls and failures.                                                     *)

CallerType ==
  [pc: {"idle", "acquire", "execute", "reread", "read", "enter", "begin", "open"},
   op: {"none", "get", "create", "update", "unit"},
   attempt: Nat, inner: Nat, held: 0 .. 3, mode: {"none", "transaction", "autocommit"}]

WorkType ==
  [op: {"none", "get", "create", "update", "unit"}, rows: Nat, lost: Nat, id: BOOLEAN,
   used: BOOLEAN, written: Nat, pending: Nat, kept: Nat, manual: BOOLEAN, doubt: BOOLEAN,
   result: {"none", "ok", "error"}]

\* What a caller k holds at each point: one connection for the unit, one for the operation
\* and one for the row that update() reads back.
HoldsRight(k) ==
  LET unit == IF k.mode = "none" THEN 0 ELSE 1 IN
  /\ k.pc \in {"idle", "enter"} => k.held = 0 /\ k.mode = "none"
  /\ k.pc = "begin" => k.held = 1 /\ k.mode = "none"
  /\ k.pc = "open" => k.held = 1 /\ k.mode # "none"
  /\ k.pc = "acquire" => k.held = unit
  /\ k.pc \in {"execute", "reread"} => k.held = unit + 1
  /\ k.pc = "read" => k.held = unit + 2

\* Which operation the caller is in, of the call whose work is w.
InOperation(k, w) ==
  /\ k.pc \in {"acquire", "execute"} => k.op \in {"get", "create", "update"}
  /\ k.pc \in {"reread", "read"} => k.op = "update"
  /\ k.pc # "idle" => w.result = "none"
  /\ k.pc \notin {"idle", "open"} /\ k.mode = "none" => w.op = k.op
  /\ k.pc \in {"enter", "begin"} => k.op = "unit"
  /\ k.mode # "none" => w.op = "unit"

\* The rows of create() while it is under way and when it has returned.
RowsRight(k, w) ==
  /\ w.id => w.op = "create" /\ w.rows <= 1
  /\ w.op = "create" /\ k.pc # "idle" => w.rows = w.lost
  /\ w.op = "create" /\ w.result = "ok" => w.rows = 1 + w.lost

\* A unit in its transaction has everything pending; one that ended has kept all or nothing.
UnitRight(k, w) ==
  /\ w.op # "unit" \/ k.pc \in {"enter", "begin"} => w.written = 0 /\ w.pending = 0 /\ w.kept = 0
  /\ k.mode = "transaction" => w.kept = 0 /\ w.pending = w.written
  /\ k.mode = "autocommit" => w.manual
  /\ ~w.manual /\ ~w.doubt =>
       /\ w.result = "ok" => w.kept = w.written
       /\ w.result = "error" => w.kept = 0

Right(k, w) == HoldsRight(k) /\ InOperation(k, w) /\ RowsRight(k, w) /\ UnitRight(k, w)

PoolInv ==
  /\ caller \in [Callers -> CallerType] /\ work \in [Callers -> WorkType]
  /\ free \in Nat /\ leaked \in Nat
  /\ \A c \in Callers : Right(caller[c], work[c])
  /\ Pool!ConnectionsReturn

LEMMA SameCardinality == \A S : Pool!Cardinality(S) = Cardinality(S)
BY DEF Pool!Cardinality, Cardinality

\* The connections of one caller are as many as it holds.
LEMMA HoldingsOfOne ==
  ASSUME NEW c, NEW h \in 0 .. 3
  PROVE  IsFiniteSet({c} \X (1 .. h)) /\ Cardinality({c} \X (1 .. h)) = h
<1>1. IsFiniteSet({c}) /\ Cardinality({c}) = 1
  BY FS_Singleton
<1>2. IsFiniteSet(1 .. h) /\ Cardinality(1 .. h) = h
  <2>1. 1 \in Int /\ h \in Int
    OBVIOUS
  <2>2. IsFiniteSet(1 .. h) /\ Cardinality(1 .. h) = IF 1 > h THEN 0 ELSE h - 1 + 1
    BY <2>1, FS_Interval, Zenon
  <2> QED
    BY <2>2
<1> QED
  BY <1>1, <1>2, FS_Product

\* All connections that are held, for given numbers of them.
All(f) == UNION {{c} \X (1 .. f[c]) : c \in Callers}

LEMMA HoldingsSplit ==
  ASSUME NEW f \in [Callers -> 0 .. 3], NEW c \in Callers
  PROVE  LET others == UNION {{d} \X (1 .. f[d]) : d \in Callers \ {c}} IN
         /\ IsFiniteSet(others)
         /\ Cardinality(All(f)) = Cardinality(others) + f[c]
<1> DEFINE others == UNION {{d} \X (1 .. f[d]) : d \in Callers \ {c}}
           own == {c} \X (1 .. f[c])
<1>1. others \subseteq Callers \X (1 .. 3)
  <2> SUFFICES ASSUME NEW x \in others PROVE x \in Callers \X (1 .. 3)
    OBVIOUS
  <2>1. PICK d \in Callers \ {c} : x \in {d} \X (1 .. f[d])
    OBVIOUS
  <2>2. f[d] \in 0 .. 3
    OBVIOUS
  <2> QED
    BY <2>1, <2>2
<1>2. IsFiniteSet(Callers \X (1 .. 3))
  <2>1. 1 \in Int /\ 3 \in Int
    OBVIOUS
  <2>2. IsFiniteSet(1 .. 3)
    BY <2>1, FS_Interval, Zenon
  <2> QED
    BY <2>2, PoolAssumption, FS_Product
<1>3. IsFiniteSet(others)
  BY <1>1, <1>2, FS_Subset
<1>4. IsFiniteSet(own) /\ Cardinality(own) = f[c]
  <2>1. f[c] \in 0 .. 3
    OBVIOUS
  <2> QED
    BY <2>1, HoldingsOfOne
<1>5. others \cap own = {}
  OBVIOUS
<1>6. All(f) = others \cup own
  BY DEF All
<1>7. Cardinality(others \cup own) = Cardinality(others) + Cardinality(own) - Cardinality({})
  <2> HIDE DEF others, own
  <2> QED
    BY <1>3, <1>4, <1>5, FS_Union
<1>8. Cardinality({}) = 0 /\ Cardinality(others) \in Nat /\ Cardinality(own) \in Nat
  BY <1>3, <1>4, FS_EmptySet, FS_CardinalityType
<1> QED
  BY <1>3, <1>4, <1>6, <1>7, <1>8

\* One caller that holds more or less changes the sum by just that.
LEMMA HoldingsChange ==
  ASSUME NEW f \in [Callers -> 0 .. 3], NEW g \in [Callers -> 0 .. 3], NEW c \in Callers,
         \A d \in Callers \ {c} : f[d] = g[d]
  PROVE  /\ Cardinality(All(f)) \in Nat /\ Cardinality(All(g)) \in Nat
         /\ Cardinality(All(g)) + f[c] = Cardinality(All(f)) + g[c]
<1> DEFINE others(h) == UNION {{d} \X (1 .. h[d]) : d \in Callers \ {c}}
<1>1. others(f) = others(g)
  OBVIOUS
<1>2. IsFiniteSet(others(f)) /\ Cardinality(All(f)) = Cardinality(others(f)) + f[c]
  BY HoldingsSplit
<1>3. Cardinality(All(g)) = Cardinality(others(g)) + g[c]
  BY HoldingsSplit
<1>4. Cardinality(others(f)) \in Nat
  BY <1>2, FS_CardinalityType
<1>5. f[c] \in 0 .. 3 /\ g[c] \in 0 .. 3
  OBVIOUS
<1> HIDE DEF others
<1> QED
  BY <1>1, <1>2, <1>3, <1>4, <1>5

\* The numbers of connections that the callers hold.
Held == [c \in Callers |-> caller[c].held]

LEMMA HoldingsAre ==
  ASSUME caller \in [Callers -> CallerType]
  PROVE  Held \in [Callers -> 0 .. 3] /\ Pool!Holdings = All(Held)
<1>1. \A c \in Callers : caller[c].held \in 0 .. 3
  BY DEF CallerType
<1> QED
  BY <1>1 DEF Held, Pool!Holdings, All

LEMMA PoolInitially == Pool!Init => PoolInv
<1> SUFFICES ASSUME Pool!Init PROVE PoolInv
  OBVIOUS
<1>1. /\ free = PoolSize /\ leaked = 0 /\ PoolSize \in Nat
      /\ \A c \in Callers : caller[c] = Pool!Idle /\ work[c] = Pool!Nothing
  BY PoolAssumption DEF Pool!Init
<1>2. Pool!Idle \in CallerType /\ Pool!Nothing \in WorkType
  BY DEF Pool!Idle, Pool!Nothing, CallerType, WorkType
<1>3. caller \in [Callers -> CallerType] /\ work \in [Callers -> WorkType]
  BY <1>2 DEF Pool!Init
<1>4. Right(Pool!Idle, Pool!Nothing)
  BY DEF Right, HoldsRight, InOperation, RowsRight, UnitRight, Pool!Idle, Pool!Nothing
<1>5. Pool!Holdings = {}
  BY <1>1 DEF Pool!Holdings, Pool!Idle
<1>6. Pool!ConnectionsReturn
  BY <1>1, <1>5, FS_EmptySet, SameCardinality DEF Pool!ConnectionsReturn
<1> QED
  BY <1>1, <1>3, <1>4, <1>6 DEF PoolInv

LEMMA SumOfTwo == \A x, y \in Nat : x + y \in Nat
OBVIOUS

\* What one caller gets the pool loses, and the other way round.
LEMMA SumKept ==
  ASSUME NEW f \in [Callers -> 0 .. 3], NEW g \in [Callers -> 0 .. 3], NEW c \in Callers,
         \A d \in Callers \ {c} : f[d] = g[d],
         NEW x \in Nat, NEW y \in Nat, x + g[c] = y + f[c],
         y + Cardinality(All(f)) = PoolSize
  PROVE  x + Cardinality(All(g)) = PoolSize
<1>1. /\ Cardinality(All(f)) \in Nat /\ Cardinality(All(g)) \in Nat
      /\ Cardinality(All(g)) + f[c] = Cardinality(All(f)) + g[c]
  BY HoldingsChange
<1>2. f[c] \in 0 .. 3 /\ g[c] \in 0 .. 3
  OBVIOUS
<1> QED
  BY <1>1, <1>2

\* A step of one caller keeps the invariant if what the caller gets the pool loses.
LEMMA CallerSteps ==
  ASSUME PoolInv, NEW c \in Callers, NEW k \in CallerType, NEW w \in WorkType,
         caller' = [caller EXCEPT ![c] = k],
         work' = [work EXCEPT ![c] = w],
         Right(k, w),
         free' \in Nat, leaked' \in Nat,
         free' + leaked' + k.held = free + leaked + caller[c].held
  PROVE  PoolInv'
<1>1. caller' \in [Callers -> CallerType] /\ work' \in [Callers -> WorkType]
  BY DEF PoolInv
<1>2. \A d \in Callers : Right(caller'[d], work'[d])
  BY DEF PoolInv
<1>3. PICK f, g : f = Held /\ g = Held'
  OBVIOUS
<1>4. /\ f \in [Callers -> 0 .. 3] /\ Pool!Holdings = All(f)
      /\ g \in [Callers -> 0 .. 3] /\ Pool!Holdings' = All(g)
  <2>1. Held \in [Callers -> 0 .. 3] /\ Pool!Holdings = All(Held)
    BY HoldingsAre DEF PoolInv
  <2>2. \A d \in Callers : caller'[d].held \in 0 .. 3
    BY <1>1 DEF CallerType
  <2>3. Held' \in [Callers -> 0 .. 3] /\ Pool!Holdings' = All(Held')
    BY <2>2 DEF Held, Pool!Holdings, All
  <2> QED
    BY <2>1, <2>3, <1>3
<1>5. f[c] = caller[c].held /\ g[c] = k.held /\ \A d \in Callers \ {c} : f[d] = g[d]
  BY <1>3 DEF Held, PoolInv
<1>6. PICK x \in Nat, y \in Nat : x = free' + leaked' /\ y = free + leaked
  <2>1. free \in Nat /\ leaked \in Nat
    BY DEF PoolInv
  <2>2. free' \in Nat /\ leaked' \in Nat
    OBVIOUS
  <2>3. free + leaked \in Nat /\ free' + leaked' \in Nat
    BY <2>1, <2>2, SumOfTwo, Zenon
  <2> QED
    BY <2>3, Zenon
<1>7. y + Cardinality(All(f)) = PoolSize
  BY <1>4, <1>6, SameCardinality DEF PoolInv, Pool!ConnectionsReturn
<1>8. x + Cardinality(All(g)) = PoolSize
  BY <1>4, <1>5, <1>6, <1>7, SumKept
<1>9. Pool!ConnectionsReturn'
  BY <1>4, <1>6, <1>8, SameCardinality DEF Pool!ConnectionsReturn
<1> QED
  BY <1>1, <1>2, <1>9 DEF PoolInv

LEMMA CallerTyped ==
  ASSUME PoolInv, NEW c \in Callers
  PROVE  /\ caller[c] \in CallerType /\ work[c] \in WorkType
         /\ Right(caller[c], work[c])
         /\ free \in Nat /\ leaked \in Nat
         /\ caller = [caller EXCEPT ![c] = caller[c]]
         /\ work = [work EXCEPT ![c] = work[c]]
BY DEF PoolInv

-----------------------------------------------------------------------------
(* The operations of a repository                                          *)

InRepository(c) == caller[c].pc \in {"acquire", "execute", "reread", "read"}

\* An attempt has ended in k: the operation has returned, to its caller or to the body of the
\* unit, or it is tried again, and the connections that it had borrowed are free.
Ended(c, k) ==
  /\ k \in CallerType /\ HoldsRight(k) /\ k.mode = caller[c].mode
  /\ caller' = [caller EXCEPT ![c] = k]
  /\ free' \in Nat /\ free' + k.held = free + caller[c].held
  /\ \/ k.pc = "idle" /\ k.mode = "none"
     \/ k.pc = "open" /\ k.mode # "none"
     \/ k.pc = "acquire" /\ k.op = caller[c].op

\* What the call has been told then.
Told(k, result) == IF k.pc = "idle" THEN result ELSE "none"

LEMMA BorrowedIs ==
  ASSUME PoolInv, NEW c \in Callers, InRepository(c)
  PROVE  /\ Pool!Borrowed(c) \in 0 .. 2
         /\ caller[c].mode = "none" => caller[c].held = Pool!Borrowed(c)
         /\ caller[c].mode # "none" => caller[c].held = Pool!Borrowed(c) + 1
<1>1. caller[c] \in CallerType /\ HoldsRight(caller[c])
  BY CallerTyped DEF Right
<1>2. caller[c].held \in 0 .. 3
  BY <1>1 DEF CallerType
<1>3. CASE caller[c].mode = "none"
  BY <1>1, <1>2, <1>3 DEF HoldsRight, InRepository, Pool!Borrowed
<1>4. CASE caller[c].mode # "none"
  BY <1>1, <1>2, <1>4 DEF HoldsRight, InRepository, Pool!Borrowed
<1> QED
  BY <1>3, <1>4

LEMMA Returned ==
  ASSUME PoolInv, NEW c \in Callers, InRepository(c), Pool!Return(c)
  PROVE  \E k : /\ Ended(c, k) /\ k.pc # "acquire"
                /\ \A result : Pool!Results(c, result) = Told(k, result)
<1>1. caller[c] \in CallerType /\ free \in Nat
  BY CallerTyped
<1>2. free' = free + Pool!Borrowed(c)
  BY DEF Pool!Return
<1>3. CASE caller[c].mode = "none"
  <2>1. caller' = [caller EXCEPT ![c] = Pool!Idle]
    BY <1>3 DEF Pool!Return, Pool!Becomes
  <2>2. /\ Pool!Idle \in CallerType /\ HoldsRight(Pool!Idle) /\ Pool!Idle.mode = "none"
        /\ Pool!Idle.pc = "idle" /\ Pool!Idle.held = 0
    BY DEF Pool!Idle, CallerType, HoldsRight
  <2>3. free' \in Nat /\ free' + 0 = free + caller[c].held
    BY <1>1, <1>2, <1>3, BorrowedIs
  <2>4. Ended(c, Pool!Idle)
    BY <1>3, <2>1, <2>2, <2>3 DEF Ended
  <2>5. \A result : Pool!Results(c, result) = Told(Pool!Idle, result)
    BY <1>3, <2>2 DEF Pool!Results, Told
  <2> QED
    BY <2>2, <2>4, <2>5
<1>4. CASE caller[c].mode # "none"
  <2>1. PICK k : k = [caller[c] EXCEPT !.pc = "open", !.held = 1]
    OBVIOUS
  <2>2. caller' = [caller EXCEPT ![c] = k]
    BY <1>4, <2>1 DEF Pool!Return, Pool!Becomes
  <2>3. /\ k \in CallerType /\ k.mode = caller[c].mode /\ k.pc = "open" /\ k.held = 1
    <3>1. 1 \in 0 .. 3
      OBVIOUS
    <3>2. PICK h \in 0 .. 3 : h = 1
      BY <3>1
    <3>3. k = [caller[c] EXCEPT !.pc = "open", !.held = h]
      BY <2>1, <3>2
    <3>4. k \in CallerType /\ k.mode = caller[c].mode /\ k.pc = "open" /\ k.held = h
      BY <1>1, <3>3 DEF CallerType
    <3> QED
      BY <3>2, <3>4
  <2>4. HoldsRight(k)
    BY <1>4, <2>3 DEF HoldsRight
  <2>5. free' \in Nat /\ free' + 1 = free + caller[c].held
    BY <1>1, <1>2, <1>4, BorrowedIs
  <2>6. Ended(c, k)
    BY <1>4, <2>2, <2>3, <2>4, <2>5 DEF Ended
  <2>7. \A result : Pool!Results(c, result) = Told(k, result)
    BY <1>4, <2>3 DEF Pool!Results, Told
  <2> QED
    BY <2>3, <2>6, <2>7
<1> QED
  BY <1>3, <1>4

LEMMA GivenUp ==
  ASSUME PoolInv, NEW c \in Callers, InRepository(c), Pool!GiveUp(c)
  PROVE  \E k : Ended(c, k) /\ Pool!Raised(c) = Told(k, "error")
<1>1. CASE ~(caller[c].attempt < MaxTries)
  <2>1. Pool!Return(c) /\ Pool!Raised(c) = Pool!Results(c, "error")
    BY <1>1 DEF Pool!GiveUp, Pool!Raised
  <2> QED
    BY <2>1, Returned
<1>2. CASE caller[c].attempt < MaxTries
  <2>0. caller[c] \in CallerType /\ free \in Nat
    BY CallerTyped
  <2>1. PICK k : k = [caller[c] EXCEPT !.pc = "acquire", !.attempt = @ + 1, !.inner = 1,
                                       !.held = @ - Pool!Borrowed(c)]
    OBVIOUS
  <2>2. caller' = [caller EXCEPT ![c] = k] /\ free' = free + Pool!Borrowed(c)
    BY <1>2, <2>1 DEF Pool!GiveUp, Pool!Becomes
  <2>3. caller[c].held - Pool!Borrowed(c) = IF caller[c].mode = "none" THEN 0 ELSE 1
    BY BorrowedIs
  <2>4. /\ k \in CallerType /\ k.mode = caller[c].mode /\ k.pc = "acquire" /\ k.op = caller[c].op
        /\ k.held = IF caller[c].mode = "none" THEN 0 ELSE 1
    <3>1. PICK h \in 0 .. 3 : h = IF caller[c].mode = "none" THEN 0 ELSE 1
      <4>1. 0 \in 0 .. 3 /\ 1 \in 0 .. 3
        OBVIOUS
      <4> QED
        BY <4>1
    <3>4. PICK attempt \in Nat : attempt = caller[c].attempt + 1
      BY <2>0 DEF CallerType
    <3>2. k = [caller[c] EXCEPT !.pc = "acquire", !.attempt = attempt, !.inner = 1, !.held = h]
      BY <2>1, <2>3, <3>1, <3>4
    <3>3. /\ k \in CallerType /\ k.mode = caller[c].mode /\ k.pc = "acquire"
          /\ k.op = caller[c].op /\ k.held = h
      BY <2>0, <3>2 DEF CallerType
    <3> QED
      BY <3>1, <3>3
  <2>5. HoldsRight(k)
    BY <2>4 DEF HoldsRight
  <2>6. free' \in Nat /\ free' + k.held = free + caller[c].held
    BY <2>0, <2>2, <2>4, BorrowedIs
  <2>7. Ended(c, k)
    BY <2>2, <2>4, <2>5, <2>6 DEF Ended
  <2>8. Pool!Raised(c) = Told(k, "error")
    BY <1>2, <2>4 DEF Pool!Raised, Told
  <2> QED
    BY <2>7, <2>8
<1> QED
  BY <1>1, <1>2

LEMMA SumMoves ==
  ASSUME NEW x \in Nat, NEW y \in Nat, NEW m \in 0 .. 3, NEW n \in 0 .. 3, x + m = y + n,
         NEW z \in Nat, NEW zz, zz = z
  PROVE  x + zz + m = y + z + n
OBVIOUS

\* What an attempt may have done to the work of its call: rows of create().
RowsOnly(v, w) ==
  /\ w \in WorkType
  /\ w.op = v.op /\ w.id = v.id /\ w.written = v.written /\ w.pending = v.pending
  /\ w.kept = v.kept /\ w.manual = v.manual /\ w.doubt = v.doubt

LEMMA EndKeeps ==
  ASSUME PoolInv, NEW c \in Callers, InRepository(c), NEW k, Ended(c, k),
         NEW w, RowsOnly(work[c], w), NEW result \in {"ok", "error"}, w.result = Told(k, result),
         work' = [work EXCEPT ![c] = w], leaked' = leaked,
         w.id => w.rows <= 1,
         w.op = "create" /\ caller[c].op = "create" =>
           w.rows = IF w.result = "ok" THEN 1 + w.lost ELSE w.lost
  PROVE  PoolInv'
<1>1. /\ caller[c] \in CallerType /\ work[c] \in WorkType /\ k \in CallerType /\ w \in WorkType
      /\ HoldsRight(k) /\ InOperation(caller[c], work[c])
      /\ RowsRight(caller[c], work[c]) /\ UnitRight(caller[c], work[c])
      /\ leaked \in Nat
  BY CallerTyped DEF Right, Ended, RowsOnly
<1>2. /\ k.mode = caller[c].mode /\ w.op = work[c].op
      /\ \/ k.pc = "idle" /\ k.mode = "none"
         \/ k.pc = "open" /\ k.mode # "none"
         \/ k.pc = "acquire" /\ k.op = caller[c].op
  BY DEF Ended, RowsOnly
<1>3. caller[c].op \in {"get", "create", "update"}
  BY <1>1 DEF InRepository, InOperation
<1>4. caller[c].mode = "none" => work[c].op = caller[c].op
  BY <1>1 DEF InRepository, InOperation
<1>5. InOperation(k, w)
  BY <1>1, <1>2, <1>3, <1>4 DEF InOperation, Told
<1>6. RowsRight(k, w)
  <2>1. w.id => w.op = "create"
    BY <1>1 DEF RowsOnly, RowsRight
  <2>2. w.op = "create" => caller[c].op = "create"
    BY <1>1, <1>2, <1>4 DEF InOperation
  <2>3. k.pc # "idle" => w.result = "none"
    BY DEF Told
  <2>4. k.pc = "idle" => w.result = result
    BY DEF Told
  <2> QED
    BY <2>1, <2>2, <2>3 DEF RowsRight
<1>7. UnitRight(k, w)
  <2>1. CASE k.mode = "none"
    <3>1. w.written = 0 /\ w.pending = 0 /\ w.kept = 0
      BY <1>1, <1>2, <1>3, <1>4, <2>1 DEF UnitRight, RowsOnly
    <3> QED
      BY <2>1, <3>1 DEF UnitRight
  <2>2. CASE k.mode # "none"
    <3>1. w.result = "none" /\ w.op = "unit" /\ k.pc \notin {"enter", "begin"}
      BY <1>1, <1>2, <2>2 DEF Told, InOperation
    <3>2. /\ w.written = work[c].written /\ w.pending = work[c].pending
          /\ w.kept = work[c].kept /\ w.manual = work[c].manual
      BY DEF RowsOnly
    <3> QED
      BY <1>1, <1>2, <3>1, <3>2 DEF UnitRight
  <2> QED
    BY <2>1, <2>2
<1>8. Right(k, w)
  BY <1>1, <1>5, <1>6, <1>7 DEF Right
<1>9. free' + leaked' + k.held = free + leaked + caller[c].held
  <2>1. /\ free' \in Nat /\ free \in Nat /\ k.held \in 0 .. 3 /\ caller[c].held \in 0 .. 3
        /\ free' + k.held = free + caller[c].held
    BY <1>1, CallerTyped DEF Ended, CallerType
  <2> QED
    <3>1. PICK x \in Nat, y \in Nat, z \in Nat : x = free' /\ y = free /\ z = leaked
      BY <1>1, <2>1
    <3>2. PICK m \in 0 .. 3, n \in 0 .. 3 : m = k.held /\ n = caller[c].held
      BY <2>1
    <3>3. x + m = y + n
      BY <2>1, <3>1, <3>2
    <3>4. x + z + m = y + z + n
      BY <3>3, SumMoves
    <3> QED
      BY <3>1, <3>2, <3>4
<1>10. caller' = [caller EXCEPT ![c] = k] /\ free' \in Nat /\ leaked' \in Nat
  BY <1>1 DEF Ended
<1> QED
  BY <1>1, <1>8, <1>9, <1>10, CallerSteps

LEMMA CallBegins ==
  ASSUME PoolInv, NEW c \in Callers, NEW op \in {"get", "create", "update", "unit"},
         NEW id \in BOOLEAN, id => op = "create", Pool!Call(c, op, id)
  PROVE  PoolInv'
<1>1. PICK k : k = [Pool!Idle EXCEPT !.pc = IF op = "unit" THEN "enter" ELSE "acquire", !.op = op]
  OBVIOUS
<1>2. PICK w : w = [Pool!Nothing EXCEPT !.op = op, !.id = id]
  OBVIOUS
<1>3. /\ caller' = [caller EXCEPT ![c] = k] /\ work' = [work EXCEPT ![c] = w]
      /\ UNCHANGED <<free, leaked>> /\ caller[c].pc = "idle"
  BY <1>1, <1>2 DEF Pool!Call, Pool!Becomes
<1>4. /\ k \in CallerType /\ k.pc = IF op = "unit" THEN "enter" ELSE "acquire"
      /\ k.op = op /\ k.held = 0 /\ k.mode = "none"
  <2>1. Pool!Idle \in CallerType /\ Pool!Idle.held = 0 /\ Pool!Idle.mode = "none"
    BY DEF Pool!Idle, CallerType
  <2> QED
    BY <1>1, <2>1 DEF CallerType
<1>5. /\ w \in WorkType /\ w.op = op /\ w.rows = 0 /\ w.lost = 0 /\ w.written = 0
      /\ w.pending = 0 /\ w.kept = 0 /\ w.result = "none" /\ w.id = id
  <2>1. /\ Pool!Nothing \in WorkType /\ Pool!Nothing.rows = 0 /\ Pool!Nothing.lost = 0
        /\ Pool!Nothing.written = 0 /\ Pool!Nothing.pending = 0 /\ Pool!Nothing.kept = 0
        /\ Pool!Nothing.result = "none"
    BY DEF Pool!Nothing, WorkType
  <2> QED
    BY <1>2, <2>1 DEF WorkType
<1>6. Right(k, w)
  BY <1>4, <1>5 DEF Right, HoldsRight, InOperation, RowsRight, UnitRight
<1>7. caller[c].held = 0 /\ free \in Nat /\ leaked \in Nat
  BY <1>3, CallerTyped DEF Right, HoldsRight
<1> QED
  BY <1>3, <1>4, <1>5, <1>6, <1>7, CallerSteps

\* What a caller gets the pool loses.
LEMMA BorrowGives ==
  ASSUME PoolInv, NEW c \in Callers, NEW next, Pool!Borrow(c, next),
         caller[c].pc \in {"acquire", "reread", "enter"}, next \in {"execute", "read", "begin"}
  PROVE  \E k \in CallerType :
           /\ k.pc = next /\ k.held = caller[c].held + 1 /\ k.op = caller[c].op
           /\ k.mode = caller[c].mode
           /\ caller' = [caller EXCEPT ![c] = k]
           /\ free' \in Nat /\ leaked' \in Nat
           /\ free' + leaked' + k.held = free + leaked + caller[c].held
           /\ work' = [work EXCEPT ![c] = work[c]]
<1>1. /\ caller[c] \in CallerType /\ HoldsRight(caller[c]) /\ free \in Nat /\ leaked \in Nat
      /\ work = [work EXCEPT ![c] = work[c]]
  BY CallerTyped DEF Right
<1>2. caller[c].held \in 0 .. 2
  BY <1>1 DEF HoldsRight
<1>3. PICK h \in 0 .. 3 : h = caller[c].held + 1
  BY <1>2
<1>4. PICK k : k = [caller[c] EXCEPT !.pc = next, !.held = h]
  OBVIOUS
<1>5. /\ k \in CallerType /\ k.pc = next /\ k.held = h /\ k.op = caller[c].op
      /\ k.mode = caller[c].mode
  BY <1>1, <1>4 DEF CallerType
<1>6. /\ free > 0 /\ free' = free - 1 /\ leaked' = leaked /\ work' = work
      /\ caller' = [caller EXCEPT ![c] = k]
  BY <1>3, <1>4 DEF Pool!Borrow, Pool!Becomes
<1>7. free' \in Nat /\ leaked' \in Nat
  BY <1>1, <1>6
<1>8. free' + leaked' + k.held = free + leaked + caller[c].held
  BY <1>1, <1>2, <1>3, <1>5, <1>6
<1> QED
  BY <1>1, <1>3, <1>5, <1>6, <1>7, <1>8

LEMMA BorrowKeeps ==
  ASSUME PoolInv, NEW c \in Callers,
         Pool!Acquire(c) \/ Pool!Reread(c) \/ Pool!Enter(c)
  PROVE  PoolInv'
<1>1. PICK next :
        /\ Pool!Borrow(c, next)
        /\ \/ caller[c].pc = "acquire" /\ next = "execute"
           \/ caller[c].pc = "reread" /\ next = "read"
           \/ caller[c].pc = "enter" /\ next = "begin"
  BY DEF Pool!Acquire, Pool!Reread, Pool!Enter
<1>2. PICK k \in CallerType :
        /\ k.pc = next /\ k.held = caller[c].held + 1 /\ k.op = caller[c].op
        /\ k.mode = caller[c].mode
        /\ caller' = [caller EXCEPT ![c] = k]
        /\ free' \in Nat /\ leaked' \in Nat
        /\ free' + leaked' + k.held = free + leaked + caller[c].held
        /\ work' = [work EXCEPT ![c] = work[c]]
  BY <1>1, BorrowGives
<1>3. Right(caller[c], work[c]) /\ work[c] \in WorkType
  BY CallerTyped
<1>4. HoldsRight(k)
  BY <1>1, <1>2, <1>3 DEF Right, HoldsRight
<1>5. InOperation(k, work[c])
  BY <1>1, <1>2, <1>3 DEF Right, InOperation
<1>6. RowsRight(k, work[c])
  BY <1>1, <1>2, <1>3 DEF Right, RowsRight
<1>7. UnitRight(k, work[c])
  BY <1>1, <1>2, <1>3 DEF Right, UnitRight, InOperation
<1> QED
  BY <1>2, <1>3, <1>4, <1>5, <1>6, <1>7, CallerSteps DEF Right

LEMMA UpdatedKeeps ==
  ASSUME PoolInv, NEW c \in Callers, Pool!Updated(c)
  PROVE  PoolInv'
<1>1. PICK k : k = [caller[c] EXCEPT !.pc = "reread"]
  OBVIOUS
<1>2. /\ caller' = [caller EXCEPT ![c] = k] /\ UNCHANGED <<free, work, leaked>>
      /\ caller[c].pc = "execute" /\ caller[c].op = "update"
  BY <1>1 DEF Pool!Updated, Pool!Becomes
<1>3. /\ caller[c] \in CallerType /\ work[c] \in WorkType /\ Right(caller[c], work[c])
      /\ free \in Nat /\ leaked \in Nat /\ work = [work EXCEPT ![c] = work[c]]
  BY CallerTyped
<1>4. /\ k \in CallerType /\ k.pc = "reread" /\ k.op = caller[c].op
      /\ k.held = caller[c].held /\ k.mode = caller[c].mode
  BY <1>1, <1>3 DEF CallerType
<1>5. Right(k, work[c])
  BY <1>2, <1>3, <1>4 DEF Right, HoldsRight, InOperation, RowsRight, UnitRight
<1> QED
  BY <1>2, <1>3, <1>4, <1>5, CallerSteps

\* The operation returns, and create() has stored its row.
LEMMA ReturnsKeep ==
  ASSUME PoolInv, NEW c \in Callers,
         Pool!GetReturns(c) \/ Pool!CreateReturns(c) \/ Pool!UpdateReturns(c)
  PROVE  PoolInv'
<1>1. /\ InRepository(c) /\ Pool!Return(c) /\ leaked' = leaked
      /\ caller[c].pc \in {"execute", "read"}
  BY DEF Pool!GetReturns, Pool!CreateReturns, Pool!UpdateReturns, InRepository
<1>2. /\ work[c] \in WorkType /\ InOperation(caller[c], work[c])
      /\ RowsRight(caller[c], work[c])
  BY CallerTyped DEF Right
<1>3. PICK k : /\ Ended(c, k) /\ k.pc # "acquire"
               /\ \A result : Pool!Results(c, result) = Told(k, result)
  BY <1>1, Returned
<1>4. CASE Pool!CreateReturns(c)
  <2>1. caller[c].op = "create" /\ ~(work[c].id /\ work[c].rows > 0)
    BY <1>4 DEF Pool!CreateReturns, Pool!Taken
  <2>2. PICK rows \in Nat : rows = work[c].rows + 1
    BY <1>2 DEF WorkType
  <2>3. PICK result \in {"none", "ok", "error"} : result = Told(k, "ok")
    BY DEF Told
  <2>4. PICK w : w = [work[c] EXCEPT !.rows = rows, !.result = result]
    OBVIOUS
  <2>5. work' = [work EXCEPT ![c] = w]
    <3>1. work' = [work EXCEPT ![c].rows = @ + 1, ![c].result = Pool!Results(c, "ok")]
      BY <1>4 DEF Pool!CreateReturns
    <3>2. Pool!Results(c, "ok") = result
      BY <1>3, <2>3
    <3>3. w = [work[c] EXCEPT !.rows = @ + 1, !.result = result]
      BY <2>2, <2>4
    <3>4. work'[c] = w /\ \A d \in Callers \ {c} : work'[d] = work[d]
      BY <3>1, <3>2, <3>3 DEF PoolInv
    <3>5. work' = [d \in Callers |-> work'[d]]
      BY <3>1 DEF PoolInv
    <3> QED
      BY <3>4, <3>5 DEF PoolInv
  <2>6. RowsOnly(work[c], w) /\ w.rows = rows /\ w.result = result /\ w.lost = work[c].lost
    BY <1>2, <2>4 DEF WorkType, RowsOnly
  <2>7. w.id => w.rows <= 1
    BY <1>2, <2>1, <2>2, <2>6 DEF RowsOnly, WorkType
  <2>8. w.op = "create" /\ caller[c].op = "create" =>
          w.rows = IF w.result = "ok" THEN 1 + w.lost ELSE w.lost
    <3> SUFFICES ASSUME w.op = "create"
                 PROVE  w.rows = IF w.result = "ok" THEN 1 + w.lost ELSE w.lost
      OBVIOUS
    <3>1. caller[c].mode = "none" /\ work[c].op = "create"
      BY <1>2, <2>6 DEF InOperation, RowsOnly
    <3>2. w.result = "ok"
      BY <1>3, <2>3, <2>6, <3>1 DEF Ended, Told
    <3>3. work[c].rows = work[c].lost /\ work[c].lost \in Nat
      BY <1>1, <1>2, <3>1 DEF RowsRight, WorkType
    <3> QED
      BY <2>2, <2>6, <3>2, <3>3
  <2> QED
    BY <1>1, <1>3, <2>3, <2>5, <2>6, <2>7, <2>8, EndKeeps
<1>5. CASE Pool!GetReturns(c) \/ Pool!UpdateReturns(c)
  <2>1. caller[c].op # "create"
    BY <1>2, <1>5 DEF Pool!GetReturns, Pool!UpdateReturns, InOperation
  <2>2. PICK result \in {"none", "ok", "error"} : result = Told(k, "ok")
    BY DEF Told
  <2>3. PICK w : w = [work[c] EXCEPT !.result = result]
    OBVIOUS
  <2>4. work' = [work EXCEPT ![c] = w]
    <3>1. work' = [work EXCEPT ![c] = [@ EXCEPT !.result = Told(k, "ok")]]
      BY <1>3, <1>5 DEF Pool!GetReturns, Pool!UpdateReturns
    <3> QED
      BY <2>2, <2>3, <3>1 DEF PoolInv
  <2>5. RowsOnly(work[c], w) /\ w.result = result /\ w.rows = work[c].rows
    BY <1>2, <2>3 DEF WorkType, RowsOnly
  <2>6. w.id => w.rows <= 1
    BY <1>2, <2>5 DEF RowsRight, RowsOnly
  <2> QED
    BY <1>1, <1>3, <2>1, <2>2, <2>4, <2>5, <2>6, EndKeeps
<1> QED
  BY <1>4, <1>5

\* The attempt raises, with or without a row, or waits in vain.
LEMMA FailuresKeep ==
  ASSUME PoolInv, NEW c \in Callers, Pool!GiveUp(c), InRepository(c), leaked' = leaked,
         NEW effect \in {0, 1}, effect = 1 => caller[c].op = "create" /\ ~Pool!Taken(c),
         work' = [work EXCEPT ![c].rows = @ + effect, ![c].lost = @ + effect,
                              ![c].result = Pool!Raised(c)]
  PROVE  PoolInv'
<1>1. /\ work[c] \in WorkType /\ InOperation(caller[c], work[c])
      /\ RowsRight(caller[c], work[c])
  BY CallerTyped DEF Right
<1>2. PICK k : Ended(c, k) /\ Pool!Raised(c) = Told(k, "error")
  BY GivenUp
<1>3. PICK rows \in Nat, lost \in Nat :
        rows = work[c].rows + effect /\ lost = work[c].lost + effect
  BY <1>1 DEF WorkType
<1>4. PICK result \in {"none", "ok", "error"} : result = Told(k, "error")
  BY DEF Told
<1>5. PICK w : w = [work[c] EXCEPT !.rows = rows, !.lost = lost, !.result = result]
  OBVIOUS
<1>6. work' = [work EXCEPT ![c] = w]
  <2>1. Pool!Raised(c) = result
    BY <1>2, <1>4
  <2>2. w = [work[c] EXCEPT !.rows = @ + effect, !.lost = @ + effect, !.result = result]
    BY <1>3, <1>5
  <2>3. work'[c] = w /\ \A d \in Callers \ {c} : work'[d] = work[d]
    BY <2>1, <2>2 DEF PoolInv
  <2>4. work' = [d \in Callers |-> work'[d]]
    BY DEF PoolInv
  <2> QED
    BY <2>3, <2>4 DEF PoolInv
<1>7. RowsOnly(work[c], w) /\ w.rows = rows /\ w.lost = lost /\ w.result = result
  BY <1>1, <1>5 DEF WorkType, RowsOnly
<1>8. w.id => w.rows <= 1
  <2>1. work[c].id => work[c].rows <= 1
    BY <1>1 DEF RowsRight
  <2>2. effect = 1 => ~(work[c].id /\ work[c].rows > 0)
    BY DEF Pool!Taken
  <2>3. w.id = work[c].id /\ work[c].rows \in Nat
    BY <1>1, <1>7 DEF RowsOnly, WorkType
  <2> QED
    BY <1>3, <1>7, <2>1, <2>2, <2>3
<1>9. w.op = "create" /\ caller[c].op = "create" =>
        w.rows = IF w.result = "ok" THEN 1 + w.lost ELSE w.lost
  <2>1. w.result # "ok"
    BY <1>4, <1>7 DEF Told
  <2>2. w.op = "create" => work[c].rows = work[c].lost
    BY <1>1, <1>7 DEF RowsRight, RowsOnly, InRepository
  <2> QED
    BY <1>3, <1>7, <2>1, <2>2
<1>10. w.result = Told(k, "error") /\ "error" \in {"ok", "error"}
  BY <1>4, <1>7
<1> QED
  BY <1>2, <1>6, <1>7, <1>8, <1>9, <1>10, EndKeeps

LEMMA QuietFailuresKeep ==
  ASSUME PoolInv, NEW c \in Callers, Pool!GiveUp(c), InRepository(c), leaked' = leaked,
         work' = [work EXCEPT ![c].result = Pool!Raised(c)]
  PROVE  PoolInv'
<1>1. work[c] \in WorkType
  BY CallerTyped
<1>2. PICK result : result = Pool!Raised(c)
  OBVIOUS
<1>3. work[c].rows + 0 = work[c].rows /\ work[c].lost + 0 = work[c].lost
  BY <1>1 DEF WorkType
<1>4. [work[c] EXCEPT !.rows = work[c].rows, !.lost = work[c].lost, !.result = result]
        = [work[c] EXCEPT !.result = result]
  BY <1>1 DEF WorkType
<1>5. [work EXCEPT ![c].rows = @ + 0, ![c].lost = @ + 0, ![c].result = result]
        = [work EXCEPT ![c].result = result]
  <2>1. PICK f : f = [work EXCEPT ![c].rows = @ + 0, ![c].lost = @ + 0, ![c].result = result]
    OBVIOUS
  <2>2. PICK g : g = [work EXCEPT ![c].result = result]
    OBVIOUS
  <2>3. f[c] = g[c] /\ \A d \in Callers \ {c} : f[d] = g[d]
    BY <1>3, <1>4, <2>1, <2>2 DEF PoolInv
  <2>4. f = [d \in Callers |-> f[d]] /\ g = [d \in Callers |-> g[d]]
    BY <2>1, <2>2 DEF PoolInv
  <2> QED
    BY <2>1, <2>2, <2>3, <2>4
<1>6. PICK effect \in {0, 1} : effect = 0
  OBVIOUS
<1>7. work' = [work EXCEPT ![c].rows = @ + effect, ![c].lost = @ + effect,
                          ![c].result = Pool!Raised(c)]
  BY <1>2, <1>5, <1>6
<1>8. effect = 1 => caller[c].op = "create" /\ ~Pool!Taken(c)
  BY <1>6
<1> QED
  BY <1>7, <1>8, FailuresKeep

LEMMA AttemptsKeep ==
  ASSUME PoolInv, NEW c \in Callers,
         Pool!AttemptFails(c) \/ Pool!DuplicateKey(c) \/ Pool!WaitTimesOut(c)
  PROVE  PoolInv'
<1>1. InRepository(c) /\ Pool!GiveUp(c) /\ leaked' = leaked
  BY DEF Pool!AttemptFails, Pool!DuplicateKey, Pool!WaitTimesOut, Pool!Waiting, InRepository
<1>2. CASE Pool!AttemptFails(c)
  <2>1. PICK effect \in IF caller[c].op = "create" /\ ~Pool!Taken(c) THEN {0, 1} ELSE {0} :
          work' = [work EXCEPT ![c].rows = @ + effect, ![c].lost = @ + effect,
                               ![c].result = Pool!Raised(c)]
    BY <1>2 DEF Pool!AttemptFails
  <2>2. effect \in {0, 1} /\ (effect = 1 => caller[c].op = "create" /\ ~Pool!Taken(c))
    BY <2>1
  <2> QED
    BY <1>1, <2>1, <2>2, FailuresKeep
<1>3. CASE Pool!DuplicateKey(c) \/ Pool!WaitTimesOut(c)
  <2>1. work' = [work EXCEPT ![c].result = Pool!Raised(c)]
    BY <1>3 DEF Pool!DuplicateKey, Pool!WaitTimesOut
  <2> QED
    BY <1>1, <2>1, QuietFailuresKeep
<1> QED
  BY <1>2, <1>3

\* get_by_id() inside update() is tried again, or update() has failed.
LEMMA RereadFailsKeeps ==
  ASSUME PoolInv, NEW c \in Callers, Pool!RereadFails(c)
  PROVE  PoolInv'
<1>1. caller[c].pc = "read" /\ InRepository(c) /\ leaked' = leaked
  BY DEF Pool!RereadFails, InRepository
<1>2. CASE ~(caller[c].inner < MaxTries)
  <2>1. Pool!GiveUp(c) /\ work' = [work EXCEPT ![c].result = Pool!Raised(c)]
    BY <1>2 DEF Pool!RereadFails
  <2> QED
    BY <1>1, <2>1, QuietFailuresKeep
<1>3. CASE caller[c].inner < MaxTries
  <2>1. /\ caller[c] \in CallerType /\ work[c] \in WorkType /\ Right(caller[c], work[c])
        /\ free \in Nat /\ leaked \in Nat /\ work = [work EXCEPT ![c] = work[c]]
    BY CallerTyped
  <2>2. caller[c].held = (IF caller[c].mode = "none" THEN 0 ELSE 1) + 2
    BY <1>1, <2>1 DEF Right, HoldsRight
  <2>3. PICK h \in 0 .. 3 : h = caller[c].held - 1
    BY <2>2
  <2>4. PICK inner \in Nat : inner = caller[c].inner + 1
    BY <2>1 DEF CallerType
  <2>5. PICK k : k = [caller[c] EXCEPT !.pc = "reread", !.inner = inner, !.held = h]
    OBVIOUS
  <2>6. /\ caller' = [caller EXCEPT ![c] = k] /\ free' = free + 1
        /\ work' = [work EXCEPT ![c] = work[c]]
    BY <1>3, <2>1, <2>3, <2>4, <2>5 DEF Pool!RereadFails, Pool!Becomes
  <2>7. /\ k \in CallerType /\ k.pc = "reread" /\ k.op = caller[c].op
        /\ k.held = h /\ k.mode = caller[c].mode
    BY <2>1, <2>5 DEF CallerType
  <2>8. HoldsRight(k)
    BY <2>2, <2>3, <2>7 DEF HoldsRight
  <2>9. Right(k, work[c])
    BY <1>1, <2>1, <2>7, <2>8 DEF Right, InOperation, RowsRight, UnitRight
  <2>10. /\ free' \in Nat /\ leaked' \in Nat
         /\ free' + leaked' + k.held = free + leaked + caller[c].held
    BY <1>1, <2>1, <2>2, <2>3, <2>6, <2>7
  <2> QED
    BY <2>1, <2>6, <2>7, <2>9, <2>10, CallerSteps
<1> QED
  BY <1>2, <1>3

-----------------------------------------------------------------------------
(* Units of work                                                           *)

LEMMA BeginKeeps ==
  ASSUME PoolInv, NEW c \in Callers, Pool!Begin(c)
  PROVE  PoolInv'
<1>1. PICK k : k = [caller[c] EXCEPT !.pc = "open", !.mode = "transaction"]
  OBVIOUS
<1>2. /\ caller' = [caller EXCEPT ![c] = k] /\ UNCHANGED <<free, work, leaked>>
      /\ caller[c].pc = "begin"
  BY <1>1 DEF Pool!Begin, Pool!Becomes
<1>3. /\ caller[c] \in CallerType /\ work[c] \in WorkType /\ Right(caller[c], work[c])
      /\ free \in Nat /\ leaked \in Nat /\ work = [work EXCEPT ![c] = work[c]]
  BY CallerTyped
<1>4. /\ k \in CallerType /\ k.pc = "open" /\ k.op = caller[c].op
      /\ k.held = caller[c].held /\ k.mode = "transaction"
  BY <1>1, <1>3 DEF CallerType
<1>5. Right(k, work[c])
  BY <1>2, <1>3, <1>4 DEF Right, HoldsRight, InOperation, RowsRight, UnitRight
<1> QED
  BY <1>2, <1>3, <1>4, <1>5, CallerSteps

\* A unit that ends gives its connection back or has lost it.
LEMMA UnitEnds ==
  ASSUME PoolInv, NEW c \in Callers, caller[c].pc \in {"begin", "open"},
         caller' = [caller EXCEPT ![c] = Pool!Idle],
         \/ free' = free + 1 /\ leaked' = leaked
         \/ free' = free /\ leaked' = leaked + 1,
         NEW w \in WorkType, w.op = work[c].op, w.id = work[c].id, w.rows = work[c].rows,
         work' = [work EXCEPT ![c] = w],
         ~w.manual /\ ~w.doubt =>
           /\ w.result = "ok" => w.kept = w.written
           /\ w.result = "error" => w.kept = 0
  PROVE  PoolInv'
<1>1. /\ caller[c] \in CallerType /\ work[c] \in WorkType /\ Right(caller[c], work[c])
      /\ free \in Nat /\ leaked \in Nat
  BY CallerTyped
<1>2. /\ Pool!Idle \in CallerType /\ Pool!Idle.pc = "idle" /\ Pool!Idle.held = 0
      /\ Pool!Idle.mode = "none"
  BY DEF Pool!Idle, CallerType
<1>3. caller[c].held = 1
  BY <1>1 DEF Right, HoldsRight
<1>4. w.op = "unit"
  BY <1>1 DEF Right, HoldsRight, InOperation
<1>5. Right(Pool!Idle, w)
  BY <1>1, <1>2, <1>4 DEF Right, HoldsRight, InOperation, RowsRight, UnitRight
<1>6. /\ free' \in Nat /\ leaked' \in Nat
      /\ free' + leaked' + Pool!Idle.held = free + leaked + caller[c].held
  BY <1>1, <1>2, <1>3
<1> QED
  BY <1>2, <1>5, <1>6, CallerSteps

LEMMA EntryFailsKeeps ==
  ASSUME PoolInv, NEW c \in Callers, Pool!EntryFails(c)
  PROVE  PoolInv'
<1>1. work[c] \in WorkType /\ UnitRight(caller[c], work[c])
  BY CallerTyped DEF Right
<1>2. PICK w : w = [work[c] EXCEPT !.result = "error"]
  OBVIOUS
<1>3. /\ caller[c].pc = "begin" /\ caller' = [caller EXCEPT ![c] = Pool!Idle]
      /\ free' = free /\ leaked' = leaked + 1
      /\ work' = [work EXCEPT ![c] = w]
  BY <1>2 DEF Pool!EntryFails, Pool!Becomes
<1>4. /\ w \in WorkType /\ w.op = work[c].op /\ w.id = work[c].id /\ w.rows = work[c].rows
      /\ w.kept = work[c].kept /\ w.result = "error"
  BY <1>1, <1>2 DEF WorkType
<1>5. w.kept = 0
  BY <1>1, <1>3, <1>4 DEF UnitRight
<1> QED
  BY <1>3, <1>4, <1>5, UnitEnds

LEMMA UseRepositoryKeeps ==
  ASSUME PoolInv, NEW c \in Callers, NEW op \in {"create", "update"},
         Pool!UseRepository(c, op)
  PROVE  PoolInv'
<1>1. PICK k : k = [caller[c] EXCEPT !.pc = "acquire", !.op = op, !.attempt = 1, !.inner = 1]
  OBVIOUS
<1>2. PICK w : w = [work[c] EXCEPT !.used = TRUE]
  OBVIOUS
<1>3. /\ caller' = [caller EXCEPT ![c] = k] /\ work' = [work EXCEPT ![c] = w]
      /\ free' = free /\ leaked' = leaked /\ caller[c].pc = "open"
  BY <1>1, <1>2 DEF Pool!UseRepository, Pool!Becomes, Pool!InUnit, PoolInv
<1>4. /\ caller[c] \in CallerType /\ work[c] \in WorkType /\ Right(caller[c], work[c])
      /\ free \in Nat /\ leaked \in Nat
  BY CallerTyped
<1>5. /\ k \in CallerType /\ k.pc = "acquire" /\ k.op = op
      /\ k.held = caller[c].held /\ k.mode = caller[c].mode
  BY <1>1, <1>4 DEF CallerType
<1>6. w \in WorkType /\ \A field \in {"op", "rows", "lost", "id", "written", "pending", "kept",
                                      "manual", "doubt", "result"} : w[field] = work[c][field]
  BY <1>2, <1>4 DEF WorkType
<1>7. HoldsRight(k)
  BY <1>3, <1>4, <1>5 DEF Right, HoldsRight
<1>8. w.op = "unit" /\ work[c].op = "unit"
  BY <1>3, <1>4, <1>6 DEF Right, HoldsRight, InOperation
<1>9. InOperation(k, w)
  BY <1>3, <1>4, <1>5, <1>6, <1>7, <1>8 DEF Right, HoldsRight, InOperation
<1>10. RowsRight(k, w)
  BY <1>4, <1>6, <1>8 DEF Right, RowsRight
<1>11. UnitRight(k, w)
  BY <1>4, <1>5, <1>6, <1>8 DEF Right, UnitRight
<1>12. free' + leaked' + k.held = free + leaked + caller[c].held
  BY <1>3, <1>5
<1> QED
  BY <1>3, <1>4, <1>5, <1>6, <1>7, <1>9, <1>10, <1>11, <1>12, CallerSteps DEF Right

LEMMA WriteKeeps ==
  ASSUME PoolInv, NEW c \in Callers, Pool!Write(c)
  PROVE  PoolInv'
<1>1. /\ caller[c] \in CallerType /\ work[c] \in WorkType /\ Right(caller[c], work[c])
      /\ free \in Nat /\ leaked \in Nat /\ caller = [caller EXCEPT ![c] = caller[c]]
  BY CallerTyped
<1>2. caller[c].pc = "open" /\ UNCHANGED <<free, caller, leaked>>
  BY DEF Pool!Write, Pool!InUnit
<1>3. PICK written \in Nat, pending \in Nat, kept \in Nat :
        /\ written = work[c].written + 1
        /\ caller[c].mode = "transaction" => pending = work[c].pending + 1 /\ kept = work[c].kept
        /\ caller[c].mode # "transaction" => pending = work[c].pending /\ kept = work[c].kept + 1
  <2>1. /\ work[c].written \in Nat /\ work[c].pending \in Nat /\ work[c].kept \in Nat
        /\ work[c].written + 1 \in Nat /\ work[c].pending + 1 \in Nat /\ work[c].kept + 1 \in Nat
    BY <1>1 DEF WorkType
  <2>2. CASE caller[c].mode = "transaction"
    BY <2>1, <2>2, Zenon
  <2>3. CASE caller[c].mode # "transaction"
    BY <2>1, <2>3, Zenon
  <2> QED
    BY <2>2, <2>3
<1>4. PICK w : w = [work[c] EXCEPT !.written = written, !.pending = pending, !.kept = kept]
  OBVIOUS
<1>5. work' = [work EXCEPT ![c] = w]
  <2>1. CASE caller[c].mode = "transaction"
    <3>1. work' = [work EXCEPT ![c].written = @ + 1, ![c].pending = @ + 1]
      BY <2>1 DEF Pool!Write
    <3>2. w = [work[c] EXCEPT !.written = @ + 1, !.pending = @ + 1]
      BY <1>1, <1>3, <1>4, <2>1 DEF WorkType
    <3>3. work'[c] = w /\ \A d \in Callers \ {c} : work'[d] = work[d]
      BY <3>1, <3>2 DEF PoolInv
    <3>4. work' = [d \in Callers |-> work'[d]]
      BY <3>1 DEF PoolInv
    <3> QED
      BY <3>3, <3>4 DEF PoolInv
  <2>2. CASE caller[c].mode # "transaction"
    <3>1. work' = [work EXCEPT ![c].written = @ + 1, ![c].kept = @ + 1]
      BY <2>2 DEF Pool!Write
    <3>2. w = [work[c] EXCEPT !.written = @ + 1, !.kept = @ + 1]
      BY <1>1, <1>3, <1>4, <2>2 DEF WorkType
    <3>3. work'[c] = w /\ \A d \in Callers \ {c} : work'[d] = work[d]
      BY <3>1, <3>2 DEF PoolInv
    <3>4. work' = [d \in Callers |-> work'[d]]
      BY <3>1 DEF PoolInv
    <3> QED
      BY <3>3, <3>4 DEF PoolInv
  <2> QED
    BY <2>1, <2>2
<1>6. /\ w \in WorkType /\ w.written = written /\ w.pending = pending /\ w.kept = kept
      /\ \A field \in {"op", "rows", "lost", "id", "manual", "doubt", "result"} :
           w[field] = work[c][field]
  BY <1>1, <1>4 DEF WorkType
<1>7. HoldsRight(caller[c]) /\ InOperation(caller[c], w) /\ RowsRight(caller[c], w)
  BY <1>1, <1>6 DEF Right, InOperation, RowsRight
<1>8. w.op = "unit" /\ w.result = "none"
  BY <1>1, <1>2, <1>6 DEF Right, HoldsRight, InOperation
<1>9. UnitRight(caller[c], w)
  <2>1. caller[c].mode = "transaction" => w.kept = 0 /\ w.pending = w.written
    BY <1>1, <1>3, <1>6 DEF Right, UnitRight
  <2>2. caller[c].mode = "autocommit" => w.manual
    BY <1>1, <1>6 DEF Right, UnitRight
  <2> QED
    BY <1>2, <1>8, <2>1, <2>2 DEF UnitRight
<1>10. free' + leaked' + caller[c].held = free + leaked + caller[c].held
  BY <1>2
<1>11. caller' = [caller EXCEPT ![c] = caller[c]]
  BY <1>1, <1>2
<1> QED
  BY <1>1, <1>2, <1>5, <1>6, <1>7, <1>9, <1>10, <1>11, CallerSteps DEF Right

\* commit() and rollback() in the body: the unit is no longer in a transaction.
LEMMA CommitOrRollbackKeeps ==
  ASSUME PoolInv, NEW c \in Callers, Pool!CommitOrRollback(c)
  PROVE  PoolInv'
<1>1. /\ caller[c] \in CallerType /\ work[c] \in WorkType /\ Right(caller[c], work[c])
      /\ free \in Nat /\ leaked \in Nat
  BY CallerTyped
<1>2. PICK k : k = [caller[c] EXCEPT !.mode = "autocommit"]
  OBVIOUS
<1>3. /\ caller' = [caller EXCEPT ![c] = k] /\ free' = free /\ leaked' = leaked
      /\ caller[c].pc = "open" /\ caller[c].mode = "transaction"
  BY <1>2 DEF Pool!CommitOrRollback, Pool!Becomes, Pool!InUnit
<1>4. PICK more \in {0, work[c].pending} :
        work' = [work EXCEPT ![c].kept = @ + more, ![c].pending = 0, ![c].manual = TRUE]
  BY DEF Pool!CommitOrRollback
<1>5. PICK kept \in Nat : kept = work[c].kept + more
  BY <1>1 DEF WorkType
<1>6. PICK w : w = [work[c] EXCEPT !.kept = kept, !.pending = 0, !.manual = TRUE]
  OBVIOUS
<1>7. work' = [work EXCEPT ![c] = w]
  <2>1. w = [work[c] EXCEPT !.kept = @ + more, !.pending = 0, !.manual = TRUE]
    BY <1>5, <1>6
  <2>2. work'[c] = w /\ \A d \in Callers \ {c} : work'[d] = work[d]
    BY <1>4, <2>1 DEF PoolInv
  <2>3. work' = [d \in Callers |-> work'[d]]
    BY <1>4 DEF PoolInv
  <2> QED
    BY <2>2, <2>3 DEF PoolInv
<1>8. /\ k \in CallerType /\ k.pc = "open" /\ k.held = caller[c].held /\ k.op = caller[c].op
      /\ k.mode = "autocommit"
  BY <1>1, <1>2, <1>3 DEF CallerType
<1>9. /\ w \in WorkType /\ w.manual
      /\ \A field \in {"op", "rows", "lost", "id", "doubt", "result"} : w[field] = work[c][field]
  BY <1>1, <1>6 DEF WorkType
<1>10. HoldsRight(k)
  BY <1>1, <1>3, <1>8 DEF Right, HoldsRight
<1>11. InOperation(k, w)
  BY <1>1, <1>3, <1>8, <1>9 DEF Right, InOperation
<1>12. RowsRight(k, w)
  BY <1>1, <1>3, <1>8, <1>9 DEF Right, RowsRight
<1>13. UnitRight(k, w)
  BY <1>8, <1>9, <1>11 DEF UnitRight, InOperation
<1>14. free' + leaked' + k.held = free + leaked + caller[c].held
  BY <1>3, <1>8
<1> QED
  BY <1>1, <1>3, <1>7, <1>8, <1>9, <1>10, <1>11, <1>12, <1>13, <1>14, CallerSteps DEF Right

\* A step that says nothing of the doubt leaves it as it is; nor does a sum that is the same.
LEMMA DoubtStays ==
  ASSUME NEW w \in WorkType, NEW more, NEW result
  PROVE  /\ [w EXCEPT !.kept = @ + more, !.pending = 0, !.result = result]
              = [w EXCEPT !.kept = @ + more, !.pending = 0, !.doubt = w.doubt,
                          !.result = result]
         /\ [w EXCEPT !.pending = 0, !.result = result]
              = [w EXCEPT !.kept = w.kept, !.pending = 0, !.doubt = w.doubt,
                          !.result = result]
BY DEF WorkType

\* The three ways in which the body of a unit ends.
LEMMA UnitsEndKeeps ==
  ASSUME PoolInv, NEW c \in Callers,
         Pool!Leave(c) \/ Pool!CommitFails(c) \/ Pool!Abort(c)
  PROVE  PoolInv'
<1>1. work[c] \in WorkType /\ HoldsRight(caller[c]) /\ UnitRight(caller[c], work[c])
  BY CallerTyped DEF Right
<1>2. /\ caller[c].pc = "open" /\ caller' = [caller EXCEPT ![c] = Pool!Idle]
      /\ free' = free + 1 /\ leaked' = leaked
  BY DEF Pool!Leave, Pool!CommitFails, Pool!Abort, Pool!InUnit, Pool!Release, Pool!Becomes
<1>3. PICK more \in Nat, doubt \in BOOLEAN, result \in {"ok", "error"} :
        /\ work' = [work EXCEPT ![c].kept = @ + more, ![c].pending = 0, ![c].doubt = doubt,
                                ![c].result = result]
        /\ ~doubt => more = IF result = "ok" THEN work[c].pending ELSE 0
        /\ work[c].doubt => doubt
  <2>1. CASE Pool!Leave(c)
    <3>1. work' = [work EXCEPT ![c].kept = @ + work[c].pending, ![c].pending = 0,
                               ![c].result = "ok"]
      BY <2>1 DEF Pool!Leave
    <3>2. PICK doubt \in BOOLEAN : doubt = work[c].doubt
      BY <1>1 DEF WorkType
    <3>3. PICK more \in Nat : more = work[c].pending
      BY <1>1 DEF WorkType
    <3>4. work' = [work EXCEPT ![c].kept = @ + more, ![c].pending = 0, ![c].doubt = doubt,
                               ![c].result = "ok"]
      <4>1. PICK g : g = [work EXCEPT ![c].kept = @ + more, ![c].pending = 0,
                                      ![c].doubt = doubt, ![c].result = "ok"]
        OBVIOUS
      <4>2. work'[c] = g[c] /\ \A d \in Callers \ {c} : work'[d] = g[d]
        <5>1. \A d \in Callers \ {c} : work'[d] = g[d]
          BY <3>1, <4>1 DEF PoolInv
        <5>2. work'[c] = [work[c] EXCEPT !.kept = @ + more, !.pending = 0, !.result = "ok"]
          BY <3>1, <3>3 DEF PoolInv
        <5>3. g[c] = [work[c] EXCEPT !.kept = @ + more, !.pending = 0, !.doubt = doubt,
                                     !.result = "ok"]
          BY <4>1 DEF PoolInv
        <5>4. [work[c] EXCEPT !.kept = @ + more, !.pending = 0, !.result = "ok"]
                = [work[c] EXCEPT !.kept = @ + more, !.pending = 0, !.doubt = work[c].doubt,
                                  !.result = "ok"]
          BY <1>1, DoubtStays
        <5>5. work'[c] = g[c]
          BY <3>2, <5>2, <5>3, <5>4
        <5> QED
          BY <5>1, <5>5
      <4>3. work' = [d \in Callers |-> work'[d]] /\ g = [d \in Callers |-> g[d]]
        BY <3>1, <4>1 DEF PoolInv
      <4>4. work' = g
        BY <4>2, <4>3
      <4> QED
        BY <4>1, <4>4
    <3>5. ~doubt => more = work[c].pending
      BY <3>3
    <3> QED
      BY <3>2, <3>3, <3>4, <3>5
  <2>2. CASE Pool!CommitFails(c)
    <3>1. PICK more \in {0, work[c].pending} :
            work' = [work EXCEPT ![c].kept = @ + more, ![c].pending = 0, ![c].doubt = TRUE,
                                 ![c].result = "error"]
      BY <2>2 DEF Pool!CommitFails
    <3>2. more \in Nat
      BY <1>1, <3>1 DEF WorkType
    <3> QED
      BY <3>1, <3>2
  <2>3. CASE Pool!Abort(c)
    <3>1. work' = [work EXCEPT ![c].pending = 0, ![c].result = "error"]
      BY <2>3 DEF Pool!Abort
    <3>2. PICK doubt \in BOOLEAN : doubt = work[c].doubt
      BY <1>1 DEF WorkType
    <3>3. PICK more \in Nat : more = 0
      OBVIOUS
    <3>4. work[c].kept + more = work[c].kept
      BY <1>1, <3>3 DEF WorkType
    <3>5. work' = [work EXCEPT ![c].kept = @ + more, ![c].pending = 0, ![c].doubt = doubt,
                               ![c].result = "error"]
      <4>1. PICK g : g = [work EXCEPT ![c].kept = @ + more, ![c].pending = 0,
                                      ![c].doubt = doubt, ![c].result = "error"]
        OBVIOUS
      <4>2. work'[c] = g[c] /\ \A d \in Callers \ {c} : work'[d] = g[d]
        <5>1. \A d \in Callers \ {c} : work'[d] = g[d]
          BY <3>1, <4>1 DEF PoolInv
        <5>2. work'[c] = [work[c] EXCEPT !.pending = 0, !.result = "error"]
          BY <3>1 DEF PoolInv
        <5>3. g[c] = [work[c] EXCEPT !.kept = work[c].kept, !.pending = 0, !.doubt = doubt,
                                     !.result = "error"]
          BY <3>4, <4>1 DEF PoolInv
        <5> QED
          BY <1>1, <3>2, <5>1, <5>2, <5>3, DoubtStays
      <4>3. work' = [d \in Callers |-> work'[d]] /\ g = [d \in Callers |-> g[d]]
        BY <3>1, <4>1 DEF PoolInv
      <4>4. work' = g
        BY <4>2, <4>3
      <4> QED
        BY <4>1, <4>4
    <3> QED
      BY <3>2, <3>3, <3>5
  <2> QED
    BY <2>1, <2>2, <2>3
<1>4. PICK kept \in Nat : kept = work[c].kept + more
  BY <1>1 DEF WorkType
<1>5. PICK w : w = [work[c] EXCEPT !.kept = kept, !.pending = 0, !.doubt = doubt,
                                   !.result = result]
  OBVIOUS
<1>6. work' = [work EXCEPT ![c] = w]
  <2>1. w = [work[c] EXCEPT !.kept = @ + more, !.pending = 0, !.doubt = doubt,
                            !.result = result]
    BY <1>4, <1>5
  <2>2. work'[c] = w /\ \A d \in Callers \ {c} : work'[d] = work[d]
    BY <1>3, <2>1 DEF PoolInv
  <2>3. work' = [d \in Callers |-> work'[d]]
    BY <1>3 DEF PoolInv
  <2> QED
    BY <2>2, <2>3 DEF PoolInv
<1>7. /\ w \in WorkType /\ w.kept = kept /\ w.doubt = doubt /\ w.result = result
      /\ w.op = work[c].op /\ w.id = work[c].id /\ w.rows = work[c].rows
      /\ w.manual = work[c].manual /\ w.written = work[c].written
  BY <1>1, <1>5 DEF WorkType
<1>8. ASSUME ~w.manual, ~w.doubt
      PROVE  /\ w.result = "ok" => w.kept = w.written
             /\ w.result = "error" => w.kept = 0
  <2>1. caller[c].mode = "transaction"
    <3>1. caller[c].mode \in {"none", "transaction", "autocommit"}
      BY CallerTyped DEF CallerType
    <3> QED
      BY <1>1, <1>2, <1>7, <1>8, <3>1 DEF HoldsRight, UnitRight
  <2>2. work[c].kept = 0 /\ work[c].pending = work[c].written /\ work[c].written \in Nat
    BY <1>1, <2>1 DEF UnitRight, WorkType
  <2>3. more = IF result = "ok" THEN work[c].pending ELSE 0
    BY <1>3, <1>7, <1>8
  <2> QED
    BY <1>4, <1>7, <2>2, <2>3
<1> QED
  BY <1>2, <1>6, <1>7, <1>8, UnitEnds

LEMMA PoolStep == PoolInv /\ [Pool!Next]_(Pool!poolVars) => PoolInv'
<1> SUFFICES ASSUME PoolInv, [Pool!Next]_(Pool!poolVars) PROVE PoolInv'
  OBVIOUS
<1>1. CASE UNCHANGED Pool!poolVars
  <2>1. UNCHANGED <<free, caller, work, leaked>>
    BY <1>1 DEF Pool!poolVars
  <2> QED
    BY <2>1 DEF PoolInv, Pool!ConnectionsReturn, Pool!Holdings
<1>2. ASSUME NEW c \in Callers, NEW op \in {"get", "create", "update", "unit"},
             NEW id \in BOOLEAN, id => op = "create", Pool!Call(c, op, id)
      PROVE  PoolInv'
  BY <1>2, CallBegins
<1>3. ASSUME NEW c \in Callers, Pool!Advance(c)
      PROVE  PoolInv'
  <2>1. CASE Pool!Acquire(c) \/ Pool!Reread(c) \/ Pool!Enter(c)
    BY <2>1, BorrowKeeps
  <2>2. CASE Pool!GetReturns(c) \/ Pool!CreateReturns(c) \/ Pool!UpdateReturns(c)
    BY <2>2, ReturnsKeep
  <2>3. CASE Pool!Updated(c)
    BY <2>3, UpdatedKeeps
  <2>4. CASE Pool!DuplicateKey(c) \/ Pool!WaitTimesOut(c)
    BY <2>4, AttemptsKeep
  <2>5. CASE Pool!Begin(c)
    BY <2>5, BeginKeeps
  <2>6. CASE Pool!Leave(c) \/ Pool!Abort(c)
    BY <2>6, UnitsEndKeeps
  <2> QED
    BY <1>3, <2>1, <2>2, <2>3, <2>4, <2>5, <2>6 DEF Pool!Advance
<1>4. ASSUME NEW c \in Callers,
             \/ Pool!AttemptFails(c) \/ Pool!RereadFails(c) \/ Pool!EntryFails(c)
             \/ Pool!CommitFails(c) \/ Pool!Write(c) \/ Pool!CommitOrRollback(c)
      PROVE  PoolInv'
  BY <1>4, AttemptsKeep, RereadFailsKeeps, EntryFailsKeeps, UnitsEndKeeps, WriteKeeps,
     CommitOrRollbackKeeps
<1>5. ASSUME NEW c \in Callers, NEW op \in {"create", "update"}, Pool!UseRepository(c, op)
      PROVE  PoolInv'
  BY <1>5, UseRepositoryKeeps
<1> QED
  BY <1>1, <1>2, <1>3, <1>4, <1>5 DEF Pool!Next

\* The connections of the pool and the work of the calls stay what they should be, for any
\* number of callers and any size of the pool.
THEOREM PoolInvariance == Pool!Spec => []PoolInv
BY PoolInitially, PoolStep, PTL DEF Pool!Spec

\* Whatever raises, times out or is tried again, every connection is in the pool, held by a
\* call that runs, or lost by a unit whose __aenter__() failed.
THEOREM Connections == Pool!Spec => []ConnectionsReturn
<1>1. PoolInv => ConnectionsReturn
  BY DEF PoolInv, ConnectionsReturn
<1> QED
  BY <1>1, PoolInvariance, PTL

\* create() that returned has stored its entity, one with an id at most once; a unit that was
\* left to commit by itself and was not cut short keeps all of its writes or none.
THEOREM Writes == Pool!Spec => []WritesAsReported
<1>1. PoolInv => Pool!CreatedOnce
  <2> SUFFICES ASSUME PoolInv, NEW c \in Callers
               PROVE  /\ work[c].id => work[c].rows <= 1
                      /\ work[c].op = "create" /\ work[c].result = "ok"
                           => work[c].rows = 1 + work[c].lost
    BY DEF Pool!CreatedOnce
  <2> QED
    BY CallerTyped DEF Right, RowsRight
<1>2. PoolInv => Pool!UnitIsAtomic
  BY CallerTyped DEF Pool!UnitIsAtomic, Right, UnitRight
<1>3. PoolInv => WritesAsReported
  BY <1>1, <1>2 DEF WritesAsReported, Pool!WritesAsReported
<1> QED
  BY <1>3, PoolInvariance, PTL

=============================================================================
