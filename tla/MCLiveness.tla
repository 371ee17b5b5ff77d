----------------------------- MODULE MCLiveness -----------------------------
(* RedisTaskQueue as in MCRedisTaskQueue and, beside it, small instances of   *)
(* the components of Storage, whose calls have to end: each behaviour is one  *)
(* of the component named by part.                                            *)
EXTENDS MCRedisTaskQueue, Storage

VARIABLE part

migrationVars == <<guarded, transactional, holder, recorded, ran, runner, migrates, failures>>
lockVars == <<lease, ttl, client, made, lapsed, deaths>>
poolVars == <<free, caller, work, leaked, calls, faults>>

-----------------------------------------------------------------------------

\* The configuration of the migrations is fixed in the other parts.
MCInit ==
  /\ part \in {"tasks", "migrations", "lock", "repository"}
  /\ Init
  /\ Sql!Init /\ (part = "migrations" \/ (guarded /\ transactional))
  /\ Lock!Init /\ Pool!Init

\* The other components stand still.
Others ==
  /\ IF part = "tasks" THEN TRUE ELSE UNCHANGED vars
  /\ IF part = "migrations" THEN TRUE ELSE UNCHANGED migrationVars
  /\ IF part = "lock" THEN TRUE ELSE UNCHANGED lockVars
  /\ IF part = "repository" THEN TRUE ELSE UNCHANGED poolVars
  /\ UNCHANGED part

MCNext ==
  \/ part = "tasks" /\ Next /\ Others
  \/ part = "migrations" /\ Sql!Next /\ Others
  \/ part = "lock" /\ Lock!Next /\ Others
  \/ part = "repository" /\ Pool!Next /\ Others

allVars == <<part, vars, migrationVars, lockVars, poolVars>>

\* Workers poll where they are looked at; nothing else under fairness can happen in the
\* initial state of a component that stands still.
TasksFairness ==
  /\ \A t \in Tasks : WF_vars(EnqueuePublish(t)) /\ WF_vars(Elapse(t))
  /\ \A s \in Slots : WF_vars(Work(s))
  /\ \A p \in Procs : WF_vars(part = "tasks" /\ Batch(p))
  /\ \A id \in 1 .. MaxMessages : WF_vars(GrowStale(id))

MCSpec ==
  /\ MCInit /\ [][MCNext]_allVars
  /\ TasksFairness /\ Sql!Fairness /\ Lock!Fairness /\ Pool!Fairness
=============================================================================
