--------------------------- MODULE BulkheadedTimeout ---------------------------
(***************************************************************************)
(* with_timeout inside Bulkhead::call: the slot is held from acquire until  *)
(* with_timeout has left, by its result or by TimeoutError, and the guard   *)
(* has released it.  A call of the bulkhead is a caller of with_timeout.    *)
(***************************************************************************)
EXTENDS Bulkhead

CONSTANT Limit

VARIABLES caller, worker, waited, outcome

Timed == INSTANCE Timeout

timeout_vars == <<caller, worker, waited, outcome>>
guarded_vars == <<bulkhead_vars, timeout_vars>>

GuardedInit == BulkheadInit /\ Timed!Init

Enter(c) == Acquire(c) /\ Timed!Launch(c)

Refused(c) == /\ caller[c] = "out"
              /\ AcquireFull(c)
              /\ UNCHANGED timeout_vars

ExitLeakingOnTimeout(c) ==
    \/ Timed!ThrowTimeout(c) /\ UNCHANGED bulkhead_vars
    \/ Timed!GetResult(c) /\ Release(c)

\* with_timeout leaves and the guard's destructor runs as it does.
Exit(c) == (Timed!ThrowTimeout(c) \/ Timed!GetResult(c)) /\ Release(c)

Wait(c) == (Timed!WaitReady(c) \/ Timed!WaitTimesOut(c)) /\ UNCHANGED bulkhead_vars

FnEnds(c) == Timed!FnEnds(c) /\ UNCHANGED bulkhead_vars

GuardedTick == Timed!TickWaiting /\ UNCHANGED bulkhead_vars

GuardedNext == \/ \E c \in Callers : Enter(c) \/ Refused(c) \/ Wait(c) \/ FnEnds(c) \/ Exit(c)
               \/ GuardedTick

GuardedSpec == GuardedInit /\ [][GuardedNext]_guarded_vars

-----------------------------------------------------------------------------
(* Properties *)

Running == {c \in Callers : worker[c] = "running"}

\* bulkhead.hpp:12 "caps simultaneous executions of fn": no more than max_ fns
\* run at once, those whose caller has been given TimeoutError included.
ExecutionsBounded == Cardinality(Running) <= MaxConcurrent

\* As long as every fn ends, every caller that got a slot gets away and gives
\* the slot back.
SlotsComeBack == \A c \in Callers : (c \in inside) ~> (c \notin inside)
=============================================================================
