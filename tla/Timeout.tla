-------------------------------- MODULE Timeout --------------------------------
(***************************************************************************)
(* resilience::with_timeout.  The caller starts fn on a thread with         *)
(* std::async, waits for the result for at most `limit`, and leaves with    *)
(* the result or with TimeoutError.  The future of std::async waits for its *)
(* thread when it is destroyed, which is part of leaving in both cases.     *)
(***************************************************************************)
EXTENDS Integers

CONSTANTS Callers, Limit

VARIABLES
    caller,   \* "out", "waiting" in wait_for, "unwinding" after throw, "getting" in get
    worker,   \* "none", "running" fn, or "done"
    waited,   \* ticks the caller has spent in wait_for, at most Limit
    outcome   \* what the last with_timeout of the caller did

timeout_vars == <<caller, worker, waited, outcome>>

Init ==
    /\ caller = [c \in Callers |-> "out"]
    /\ worker = [c \in Callers |-> "none"]
    /\ waited = [c \in Callers |-> 0]
    /\ outcome = [c \in Callers |-> "none"]

\* std::async starts fn; wait_for begins.
Launch(c) ==
    /\ caller[c] = "out"
    /\ caller' = [caller EXCEPT ![c] = "waiting"]
    /\ worker' = [worker EXCEPT ![c] = "running"]
    /\ waited' = [waited EXCEPT ![c] = 0]
    /\ outcome' = [outcome EXCEPT ![c] = "none"]

\* fn returns or throws on its thread: the shared state is ready.
FnEnds(c) ==
    /\ worker[c] = "running"
    /\ worker' = [worker EXCEPT ![c] = "done"]
    /\ UNCHANGED <<caller, waited, outcome>>

\* wait_for returns ready.
WaitReady(c) ==
    /\ caller[c] = "waiting"
    /\ worker[c] = "done"
    /\ caller' = [caller EXCEPT ![c] = "getting"]
    /\ UNCHANGED <<worker, waited, outcome>>

LimitReached(c) == waited[c] = Limit

\* wait_for returns timeout and TimeoutError is thrown.
WaitTimesOut(c) ==
    /\ caller[c] = "waiting"
    /\ worker[c] = "running"
    /\ LimitReached(c)
    /\ caller' = [caller EXCEPT ![c] = "unwinding"]
    /\ UNCHANGED <<worker, waited, outcome>>

FutureReleasedDetached(c) == TRUE

\* The destructor of std::async's future returns once fn has ended.
FutureReleased(c) == worker[c] = "done"

Leave(c, o) ==
    /\ caller' = [caller EXCEPT ![c] = "out"]
    /\ outcome' = [outcome EXCEPT ![c] = o]
    /\ UNCHANGED <<worker, waited>>

\* The exception passes the destructor and reaches the caller.
ThrowTimeout(c) == caller[c] = "unwinding" /\ FutureReleased(c) /\ Leave(c, "TimeoutError")

\* get() returns or rethrows what fn produced, and the future is destroyed.
GetResult(c) == caller[c] = "getting" /\ FutureReleased(c) /\ Leave(c, "result")

TickWaiting ==
    /\ \E c \in Callers : caller[c] = "waiting" /\ waited[c] < Limit
    /\ waited' = [c \in Callers |->
                    IF caller[c] = "waiting" /\ waited[c] < Limit THEN waited[c] + 1 ELSE waited[c]]
    /\ UNCHANGED <<caller, worker, outcome>>

CallerStep(c) == WaitReady(c) \/ WaitTimesOut(c) \/ ThrowTimeout(c) \/ GetResult(c)

Next == \/ \E c \in Callers : Launch(c) \/ FnEnds(c) \/ CallerStep(c)
        \/ TickWaiting

\* The caller's thread runs and the clock goes on; fn may take for ever.
CallerFairness == /\ \A c \in Callers : WF_timeout_vars(CallerStep(c))
                  /\ WF_timeout_vars(TickWaiting)

FairSpec == Init /\ [][Next]_timeout_vars /\ CallerFairness

-----------------------------------------------------------------------------
(* Properties *)

\* timeout.hpp:12 says that fn runs "on a detached std::async thread" and that
\* with_timeout "throws TimeoutError if the result is not ready within the given
\* duration": once the limit has passed, the caller gets away.
TimesOutWhateverFnDoes ==
    \A c \in Callers : (caller[c] = "waiting" /\ waited[c] = Limit) ~> (caller[c] = "out")
=============================================================================
