------------------------------ MODULE Concurrency ------------------------------
(***************************************************************************)
(* The parts whose difficulty is the interleaving of their own threads: the  *)
(* circuit breaker, with_timeout inside a bulkhead, hedge(), the outbox that *)
(* publishes to an event bus, and the config watcher.  They share no state:  *)
(* a behaviour is one of a single part, the subject, under the fairness of   *)
(* its threads; the others stay as they are.                                 *)
(***************************************************************************)
EXTENDS CircuitBreaker, BulkheadedTimeout, Hedge, OutboxToBus, ConfigWatcher

VARIABLE subject

all_vars == <<subject, breaker_vars, guarded_vars, hedge_vars, flow_vars, watcher_vars>>

ConcurrencyInit ==
    /\ subject \in {"breaker", "bulkhead", "hedge", "outbox", "watcher"}
    /\ BreakerInit
    /\ GuardedInit
    /\ HedgeInit
    /\ FlowInit
    /\ WatcherInit

\* A part takes a step exactly when it is the subject.
Moves ==
    /\ UNCHANGED subject
    /\ IF subject = "breaker" THEN BreakerNext ELSE UNCHANGED breaker_vars
    /\ IF subject = "bulkhead" THEN GuardedNext ELSE UNCHANGED guarded_vars
    /\ IF subject = "hedge" THEN HedgeNext ELSE UNCHANGED hedge_vars
    /\ IF subject = "outbox" THEN FlowNext ELSE UNCHANGED flow_vars
    /\ IF subject = "watcher" THEN WatcherNext ELSE UNCHANGED watcher_vars

\* What may stop for good: a watcher that was destroyed, a process that ended, and a
\* hedge() one of whose threads could not store its result.
Stopped ==
    /\ \/ subject = "watcher" /\ (owner = "gone" \/ crash # "no")
       \/ subject = "hedge" /\ ResultLost
    /\ UNCHANGED all_vars

ConcurrencyNext == Moves \/ Stopped

\* Every fn that the breaker admitted ends, callers keep calling and the clock runs.
BreakerFairness ==
    /\ \A c \in Calls : WF_breaker_vars(subject = "breaker" /\ (OnSuccess(c) \/ OnFailure(c)))
    /\ WF_breaker_vars(subject = "breaker" /\ \E c \in Calls : CheckState(c))
    /\ WF_breaker_vars(subject = "breaker" /\ BreakerTick)

\* Every fn inside the bulkhead ends, its caller is scheduled and the clock runs.
GuardedFairness ==
    /\ \A c \in Callers : /\ WF_guarded_vars(subject = "bulkhead" /\ (Wait(c) \/ Exit(c)))
                          /\ WF_guarded_vars(subject = "bulkhead" /\ FnEnds(c))
    /\ WF_guarded_vars(subject = "bulkhead" /\ GuardedTick)

\* Both threads of hedge() are scheduled, fn ends, the sleep ends and the caller wakes
\* up.
HedgeFairness ==
    /\ \A t \in Threads : WF_hedge_vars(subject = "hedge" /\ Run(t))
    /\ WF_hedge_vars(subject = "hedge" /\ (HedgeSleeps \/ HedgeWakes \/ Skip))
    /\ WF_hedge_vars(subject = "hedge" /\ CallerGets)

\* flush is called again and again and makes progress, and handlers end.
FlowFairness ==
    \A f \in Flushers : WF_flow_vars(subject = "outbox" /\ (Flush(f) \/ HandlerThrows(f)))

\* The watcher's two threads are scheduled, select() returns within 100 ms and
\* callbacks return.
WatcherFairness ==
    /\ WF_watcher_vars(subject = "watcher" /\ WatcherStep)
    /\ WF_watcher_vars(subject = "watcher" /\ StopStep)

ConcurrencyFairness ==
    BreakerFairness /\ GuardedFairness /\ HedgeFairness /\ FlowFairness /\ WatcherFairness

ConcurrencySpec == ConcurrencyInit /\ [][ConcurrencyNext]_all_vars /\ ConcurrencyFairness

-----------------------------------------------------------------------------
(* Properties *)

\* The caller of hedge() gets something, whichever calls fail and whether or not the
\* hedge is skipped, unless storing a result threw.
HedgedCallReturns == subject = "hedge" => CallerReturns
=============================================================================
