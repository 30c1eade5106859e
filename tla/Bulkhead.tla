------------------------------- MODULE Bulkhead -------------------------------
(***************************************************************************)
(* resilience::Bulkhead.  call() is acquire, fn, and release by the guard's *)
(* destructor whether fn returns or throws; acquire and release are one     *)
(* critical section of mu_ each.  Callers may be nested (bulkhead_test.cpp    *)
(* fills a bulkhead from within a call), so a call is a thread or a level   *)
(* of nesting.                                                              *)
(***************************************************************************)
EXTENDS Integers, FiniteSets

CONSTANTS Callers,         \* calls that may be in progress at the same time
          MaxConcurrent  \* max_

ASSUME BulkheadAssumption == /\ IsFiniteSet(Callers)
                             /\ MaxConcurrent \in Nat

VARIABLES active,  \* active_
          inside   \* calls between acquire and the guard's destructor

bulkhead_vars == <<active, inside>>

BulkheadTypeOK == /\ active \in 0..MaxConcurrent
                  /\ inside \in SUBSET Callers

BulkheadInit == active = 0 /\ inside = {}

HasRoom == active < MaxConcurrent

Acquire(c) ==
    /\ c \notin inside
    /\ HasRoom
    /\ active' = active + 1
    /\ inside' = inside \cup {c}

AcquireFullReleasing(c) ==
    /\ c \notin inside
    /\ ~HasRoom
    /\ active' = IF active > 0 THEN active - 1 ELSE active
    /\ UNCHANGED inside

\* BulkheadFullError is thrown before the guard exists: nothing is released.
AcquireFull(c) ==
    /\ c \notin inside
    /\ ~HasRoom
    /\ UNCHANGED bulkhead_vars

Release(c) ==
    /\ c \in inside
    /\ active' = IF active > 0 THEN active - 1 ELSE active
    /\ inside' = inside \ {c}

\* available()
Available == IF MaxConcurrent > active THEN MaxConcurrent - active ELSE 0

BulkheadNext == \E c \in Callers : Acquire(c) \/ AcquireFull(c) \/ Release(c)

BulkheadSpec == BulkheadInit /\ [][BulkheadNext]_bulkhead_vars

-----------------------------------------------------------------------------
(* Properties *)

\* active_ counts the calls in progress exactly: no path leaks a slot or frees
\* one twice, so the guard in release against going below zero never decides.
SlotsAccounted == active = Cardinality(inside)

\* At most max_ calls run at the same time, and available() is what is left.
ConcurrencyBounded == /\ Cardinality(inside) <= MaxConcurrent
                      /\ Available + Cardinality(inside) = MaxConcurrent
=============================================================================
