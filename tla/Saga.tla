---------------------------------- MODULE Saga ----------------------------------
(***************************************************************************)
(* application::SagaOrchestrator.  step() appends a step; run() executes the *)
(* actions in order and, when one throws a std::exception, the compensations *)
(* of the completed steps in reverse.  An action may throw something that is *)
(* not a std::exception; a compensation may throw anything.  The object can  *)
(* be run again, also with steps added in between.                           *)
(***************************************************************************)
EXTENDS Integers, Sequences, Functions

CONSTANT MaxSteps     \* bound on the number of steps

VARIABLES
    steps_,       \* per step, whether it has a compensation
    phase,        \* where run() is
    current,      \* index of the step in hand: s, or i of compensate()
    completed,    \* completed
    \* Kept to state properties.
    executed,     \* steps whose action returned, in order
    compensated   \* steps whose compensation was called, in order

saga_vars == <<steps_, phase, current, completed, executed, compensated>>

SagaInit ==
    /\ steps_ = <<>>
    /\ phase = "idle"
    /\ current = 0
    /\ completed = 0
    /\ executed = <<>>
    /\ compensated = <<>>

Outside == phase \in {"idle", "returned", "SagaError", "foreign"}

step(has_compensation) ==
    /\ Outside
    /\ Len(steps_) < MaxSteps
    /\ steps_' = Append(steps_, has_compensation)
    /\ phase' = "idle"
    /\ UNCHANGED <<current, completed, executed, compensated>>

RunBegin ==
    /\ Outside
    /\ phase' = "action"
    /\ current' = 1
    /\ completed' = 0
    /\ executed' = <<>>
    /\ compensated' = <<>>
    /\ UNCHANGED steps_

ActionReturns ==
    /\ phase = "action"
    /\ current <= Len(steps_)
    /\ current' = current + 1
    /\ completed' = completed + 1
    /\ executed' = Append(executed, current)
    /\ UNCHANGED <<steps_, phase, compensated>>

RunReturns ==
    /\ phase = "action"
    /\ current > Len(steps_)
    /\ phase' = "returned"
    /\ UNCHANGED <<steps_, current, completed, executed, compensated>>

\* The catch clause: compensate(completed) begins.
ActionThrows ==
    /\ phase = "action"
    /\ current <= Len(steps_)
    /\ phase' = "compensate"
    /\ current' = completed
    /\ UNCHANGED <<steps_, completed, executed, compensated>>

\* The exception is not a std::exception: no catch clause of run() matches.
ActionThrowsForeign ==
    /\ phase = "action"
    /\ current <= Len(steps_)
    /\ phase' = "foreign"
    /\ UNCHANGED <<steps_, current, completed, executed, compensated>>

\* compensation() is called; whether it returns or throws, the loop goes on.
Compensate ==
    /\ phase = "compensate"
    /\ current > 0
    /\ steps_[current]
    /\ compensated' = Append(compensated, current)
    /\ current' = current - 1
    /\ UNCHANGED <<steps_, phase, completed, executed>>

SkipStopping ==
    /\ phase = "compensate"
    /\ current > 0
    /\ ~steps_[current]
    /\ current' = 0
    /\ UNCHANGED <<steps_, phase, completed, executed, compensated>>

\* A step without compensation.
SkipStep ==
    /\ phase = "compensate"
    /\ current > 0
    /\ ~steps_[current]
    /\ current' = current - 1
    /\ UNCHANGED <<steps_, phase, completed, executed, compensated>>

ThrowSagaError ==
    /\ phase = "compensate"
    /\ current = 0
    /\ phase' = "SagaError"
    /\ UNCHANGED <<steps_, current, completed, executed, compensated>>

SagaNext ==
    \/ \E b \in BOOLEAN : step(b)
    \/ RunBegin
    \/ ActionReturns \/ ActionThrows \/ ActionThrowsForeign \/ RunReturns
    \/ Compensate \/ SkipStep \/ ThrowSagaError

SagaSpec == SagaInit /\ [][SagaNext]_saga_vars

-----------------------------------------------------------------------------
(* Properties *)

Compensable == {s \in Range(executed) : steps_[s]}

\* The executed steps are the first ones, in order.  A saga that ends in SagaError has
\* compensated exactly those that can be compensated, each once, in reverse, and not
\* the step that failed; while it compensates, it has left out none of those behind
\* the one it is at.  One that returned has compensated nothing.
CompensatedInReverse ==
    /\ phase # "idle" => \A i \in DOMAIN executed : executed[i] = i
    /\ phase = "SagaError" => Range(compensated) = Compensable
    /\ phase \in {"compensate", "SagaError"} =>
          /\ Range(compensated) \subseteq Compensable
          /\ \A i, j \in DOMAIN compensated : i < j => compensated[i] > compensated[j]
          /\ \A c \in Range(compensated), s \in Compensable : s > c => s \in Range(compensated)
    /\ phase = "returned" => compensated = <<>>

\* The comment on run(): "On exception: compensate completed steps in reverse, then
\* throw SagaError."  An exception of any type that leaves run() leaves no completed
\* step uncompensated.
CompensatedOnException == phase = "foreign" => Range(compensated) = Compensable
=============================================================================
