-------------------------- MODULE SagaCoordinator --------------------------
(***************************************************************************)
(* TransactionCoordinator.execute_with_compensation()                      *)
(* (plugins/transaction/coordinator.py): the operations of a saga run in   *)
(* order; when one fails, those completed before it are compensated in     *)
(* reverse order and the report says what became of each.                  *)
(*                                                                         *)
(* effects is what the operations have done to the systems they call.  An  *)
(* operation that returns has its effect; one that raises has none, unless *)
(* wait_for() cancelled it at its timeout, which may come after the effect.*)
(* A compensation that raises may have undone the effect or not.           *)
(***************************************************************************)
EXTENDS Naturals

CONSTANT Length  \* len(operations): they are executed in the order 1 .. Length

ASSUME LengthAssumption == Length \in Nat

Operations == 1 .. Length

VARIABLES
  continue_on_error,
  reversible,             \* the operations with a compensate
  timed,                  \* the operations with a timeout_seconds
  phase,                  \* "execute", "compensate", "done" or "cancelled"
  at,                     \* the operation being executed, or that failed
  completed, failed,
  compensation_stack,     \* a set: it is emptied from its last operation
  compensated, compensation_failures,
  effects

config == <<continue_on_error, reversible, timed>>
report == <<completed, failed, compensated, compensation_failures>>
vars == <<config, phase, at, report, compensation_stack, effects>>

Init ==
  /\ continue_on_error \in BOOLEAN
  /\ reversible \in SUBSET Operations
  /\ timed \in SUBSET Operations
  /\ phase = "execute" /\ at = 1
  /\ completed = {} /\ failed = {} /\ compensation_stack = {}
  /\ compensated = {} /\ compensation_failures = {}
  /\ effects = {}

-----------------------------------------------------------------------------

Executing == phase = "execute" /\ at \in Operations

OperationReturns ==
  /\ Executing
  /\ completed' = completed \cup {at}
  /\ effects' = effects \cup {at}
  /\ compensation_stack' = compensation_stack \cup ({at} \cap reversible)
  /\ at' = at + 1
  /\ UNCHANGED <<config, phase, failed, compensated, compensation_failures>>

OperationFails ==
  /\ Executing
  /\ failed' = failed \cup {at}
  /\ effects' \in {effects, effects \cup ({at} \cap timed)}
  /\ IF continue_on_error
     THEN at' = at + 1 /\ UNCHANGED phase
     ELSE phase' = "compensate" /\ UNCHANGED at
  /\ UNCHANGED <<config, completed, compensation_stack, compensated, compensation_failures>>

AllExecuted ==
  /\ phase = "execute" /\ at = Length + 1
  /\ phase' = "done"
  /\ UNCHANGED <<config, at, report, compensation_stack, effects>>

Last(stack) == CHOOSE op \in stack : \A other \in stack : other <= op

Compensating == phase = "compensate" /\ compensation_stack # {}

CompensationReturns ==
  /\ Compensating
  /\ LET op == Last(compensation_stack) IN
       /\ compensation_stack' = compensation_stack \ {op}
       /\ compensated' = compensated \cup {op}
       /\ effects' = effects \ {op}
  /\ UNCHANGED <<config, phase, at, completed, failed, compensation_failures>>

\* Mutant: the first compensation that fails ends the others.
CompensationFailsAll ==
  /\ Compensating
  /\ LET op == Last(compensation_stack) IN
       /\ compensation_stack' = {}
       /\ compensation_failures' = compensation_failures \cup {op}
       /\ effects' \in {effects, effects \ {op}}
  /\ UNCHANGED <<config, phase, at, completed, failed, compensated>>

CompensationFails ==
  /\ Compensating
  /\ LET op == Last(compensation_stack) IN
       /\ compensation_stack' = compensation_stack \ {op}
       /\ compensation_failures' = compensation_failures \cup {op}
       /\ effects' \in {effects, effects \ {op}}
  /\ UNCHANGED <<config, phase, at, completed, failed, compensated>>

AllCompensated ==
  /\ phase = "compensate" /\ compensation_stack = {}
  /\ phase' = "done"
  /\ UNCHANGED <<config, at, report, compensation_stack, effects>>

\* CancelledError is not an Exception: the saga ends where it is, the operation or the
\* compensation under way having taken effect or not, and there is no report.
Cancel ==
  /\ \/ Executing /\ effects' \in {effects, effects \cup {at}}
     \/ Compensating /\ effects' \in {effects, effects \ {Last(compensation_stack)}}
  /\ phase' = "cancelled"
  /\ UNCHANGED <<config, at, report, compensation_stack>>

Next ==
  \/ OperationReturns \/ OperationFails \/ AllExecuted
  \/ CompensationReturns \/ CompensationFails \/ AllCompensated
  \/ Cancel

Spec == Init /\ [][Next]_vars

-----------------------------------------------------------------------------

TypeOK ==
  /\ continue_on_error \in BOOLEAN
  /\ phase \in {"execute", "compensate", "done", "cancelled"}
  /\ at \in 1 .. Length + 1
  /\ reversible \subseteq Operations /\ timed \subseteq Operations
  /\ completed \subseteq Operations /\ failed \subseteq Operations
  /\ compensation_stack \subseteq Operations
  /\ compensated \subseteq Operations /\ compensation_failures \subseteq Operations
  /\ effects \subseteq Operations

\* An operation that timed out may have done its work, and nothing undoes it.
Doubtful == failed \cap timed

\* The report is true of the systems called: what it says is completed and not
\* compensated has taken effect, and nothing else has, but for operations that timed
\* out and compensations that failed.
ReportIsTrue ==
  phase # "cancelled" =>
    /\ completed \ (compensated \cup compensation_failures) \subseteq effects
    /\ effects \subseteq (completed \ compensated) \cup Doubtful

\* After a failure every effect that can be undone has been, unless its compensation
\* failed, which is reported, or it is that of the operation that timed out; and every
\* completed operation with a compensation had it called, whatever the others did.
AllOrNothing ==
  phase = "done" /\ failed # {} /\ ~continue_on_error =>
    /\ effects \cap reversible \subseteq compensation_failures \cup Doubtful
    /\ compensated \cup compensation_failures = completed \cap reversible

\* Compensations run in the reverse order of the operations: one begins only when those
\* of all later operations have ended.
ReverseOrder ==
  \A op \in compensated \cup compensation_failures, later \in completed \cap reversible :
    op < later => later \in compensated \cup compensation_failures

\* A saga is undone as far as its report says, later operations first.
CompensatesAsReported == ReportIsTrue /\ AllOrNothing /\ ReverseOrder
=============================================================================
