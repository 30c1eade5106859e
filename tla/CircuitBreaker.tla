---------------------------- MODULE CircuitBreaker ----------------------------
(***************************************************************************)
(* resilience::CircuitBreaker.  call() runs check_state, then fn outside   *)
(* the lock, then on_success or on_failure; each of the three is one       *)
(* critical section of mu_ and is one action here.  Calls of different     *)
(* threads (or nested calls of one) interleave between those sections, so  *)
(* a call admitted while the circuit was Closed may end when it is Open,   *)
(* HalfOpen or Closed again.                                               *)
(***************************************************************************)
EXTENDS Integers

CONSTANTS Calls,             \* calls that may be in progress at the same time
          FailureThreshold,  \* cfg_.failure_threshold
          SuccessThreshold,  \* cfg_.success_threshold
          OpenDuration       \* cfg_.open_duration, in ticks of the clock

ASSUME ConfigAssumption ==
    /\ FailureThreshold \in Nat
    /\ SuccessThreshold \in Nat
    /\ OpenDuration \in Nat

VARIABLES
    state,          \* state_
    failure_count,  \* failure_count_
    success_count,  \* success_count_
    elapsed,        \* now() - opened_at_ while Open, saturated at OpenDuration
    running,        \* calls between check_state and on_success / on_failure
    \* What has been recorded, kept to state properties; the code reads neither.
    bad,            \* failures recorded since the last success, saturated
    good            \* successes recorded since the last failure and since the circuit
                    \* last turned HalfOpen, saturated

breaker_vars == <<state, failure_count, success_count, elapsed, running, bad, good>>

AtLeastOne(n) == IF n = 0 THEN 1 ELSE n

\* A counter compared with ">=" after "++" triggers at 1 when its threshold is 0.
FailureLimit == AtLeastOne(FailureThreshold)
SuccessLimit == AtLeastOne(SuccessThreshold)

Saturated(n, limit) == IF n < limit THEN n ELSE limit

BreakerTypeOK ==
    /\ state \in {"Closed", "Open", "HalfOpen"}
    /\ failure_count \in Nat
    /\ success_count \in Nat
    /\ elapsed \in 0..OpenDuration
    /\ running \in SUBSET Calls
    /\ bad \in 0..FailureLimit
    /\ good \in 0..SuccessLimit

BreakerInit ==
    /\ state = "Closed"
    /\ failure_count = 0
    /\ success_count = 0
    /\ elapsed = 0
    /\ running = {}
    /\ bad = 0
    /\ good = 0

-----------------------------------------------------------------------------
(* check_state *)

OpenWindowOver == elapsed >= OpenDuration

\* The circuit is Closed or HalfOpen: fn starts and nothing else changes.
CheckStatePass(c) ==
    /\ c \notin running
    /\ state # "Open"
    /\ running' = running \cup {c}
    /\ UNCHANGED <<state, failure_count, success_count, elapsed, bad, good>>

CheckStateProbeKeepingCount(c) ==
    /\ c \notin running
    /\ state = "Open"
    /\ OpenWindowOver
    /\ state' = "HalfOpen"
    /\ running' = running \cup {c}
    /\ good' = 0
    /\ UNCHANGED <<failure_count, success_count, elapsed, bad>>

\* The circuit has been open for open_duration: it turns HalfOpen and fn starts.
CheckStateProbe(c) ==
    /\ c \notin running
    /\ state = "Open"
    /\ OpenWindowOver
    /\ state' = "HalfOpen"
    /\ success_count' = 0
    /\ running' = running \cup {c}
    /\ good' = 0
    /\ UNCHANGED <<failure_count, elapsed, bad>>

CheckStateRejectRestarting(c) ==
    /\ c \notin running
    /\ state = "Open"
    /\ ~OpenWindowOver
    /\ elapsed' = 0
    /\ UNCHANGED <<state, failure_count, success_count, running, bad, good>>

\* CircuitOpenError: fn does not run and nothing is recorded.
CheckStateReject(c) ==
    /\ c \notin running
    /\ state = "Open"
    /\ ~OpenWindowOver
    /\ UNCHANGED breaker_vars

-----------------------------------------------------------------------------
(* on_success *)

Recorded(c, ok) ==
    /\ running' = running \ {c}
    /\ bad' = IF ok THEN 0 ELSE Saturated(bad + 1, FailureLimit)
    /\ good' = IF ok THEN Saturated(good + 1, SuccessLimit) ELSE 0

FailuresAfterSuccessKept(closes) == failure_count
\* failure_count_ after a success: kept while probes are still counted,
\* cleared when the circuit closes and in the Closed and Open states.
FailuresAfterSuccess(closes) ==
    IF state = "HalfOpen" /\ ~closes THEN failure_count ELSE 0

OnSuccessClosingOpen(c) ==
    LET probed == state # "Closed"
        closes == probed /\ success_count + 1 >= SuccessThreshold
    IN  /\ c \in running
        /\ success_count' = IF probed THEN success_count + 1 ELSE success_count
        /\ state' = IF closes THEN "Closed" ELSE state
        /\ failure_count' = FailuresAfterSuccess(closes)
        /\ Recorded(c, TRUE)
        /\ UNCHANGED elapsed

OnSuccess(c) ==
    LET probed == state = "HalfOpen"
        closes == probed /\ success_count + 1 >= SuccessThreshold
    IN  /\ c \in running
        /\ success_count' = IF probed THEN success_count + 1 ELSE success_count
        /\ state' = IF closes THEN "Closed" ELSE state
        /\ failure_count' = FailuresAfterSuccess(closes)
        /\ Recorded(c, TRUE)
        /\ UNCHANGED elapsed

-----------------------------------------------------------------------------
(* on_failure *)

Opens == state = "HalfOpen" \/ failure_count + 1 >= FailureThreshold

OnFailure(c) ==
    /\ c \in running
    /\ state' = IF Opens THEN "Open" ELSE state
    /\ elapsed' = IF Opens THEN 0 ELSE elapsed
    /\ failure_count' = IF Opens THEN 0 ELSE failure_count + 1
    /\ Recorded(c, FALSE)
    /\ UNCHANGED success_count

-----------------------------------------------------------------------------
\* steady_clock advances; only the age of an open circuit is ever read.
BreakerTick ==
    /\ state = "Open"
    /\ elapsed < OpenDuration
    /\ elapsed' = elapsed + 1
    /\ UNCHANGED <<state, failure_count, success_count, running, bad, good>>

CheckState(c) == CheckStatePass(c) \/ CheckStateProbe(c) \/ CheckStateReject(c)

BreakerNext == \/ \E c \in Calls : CheckState(c) \/ OnSuccess(c) \/ OnFailure(c)
               \/ BreakerTick

BreakerSpec == BreakerInit /\ [][BreakerNext]_breaker_vars

-----------------------------------------------------------------------------
(* Properties *)

\* Neither counter reaches its threshold between two critical sections
\* (on_success and on_failure act on the threshold in the same section), so
\* the uint32_t counters never wrap however many calls overlap.
CountersBelowThreshold ==
    /\ failure_count < FailureLimit
    /\ state = "HalfOpen" => success_count < SuccessLimit

\* While Closed, failure_count_ is the number of failures recorded in a row, and
\* while Open it never exceeds it: calls that end late, after the circuit opened,
\* half-opened or closed again, leave no failure behind that a later success did
\* not clear, and hide none.
FailuresAreConsecutive ==
    /\ state = "Closed" => failure_count = bad
    /\ state = "Open" => failure_count <= bad

\* After failure_threshold failures in a row, from whatever threads and however
\* interleaved, the circuit is not Closed (the concurrent test expects "circuit
\* must be open", circuit_breaker_test.cpp:80).
NotClosedAtThreshold == bad = FailureLimit => state # "Closed"

\* The circuit opens from Closed only when the last failure_threshold outcomes
\* recorded were failures, and an open window is restarted by late failures
\* only in the same case.
TripsOnlyAfterFailures ==
    [][(state = "Closed" /\ state' = "Open") \/ (state = "Open" /\ elapsed' < elapsed)
        => bad' = FailureLimit]_breaker_vars

\* The circuit closes only from HalfOpen, and only when the last success_threshold
\* outcomes recorded were successes, all recorded since it last turned HalfOpen.
ClosesOnlyAfterSuccesses ==
    [][state # "Closed" /\ state' = "Closed" =>
          state = "HalfOpen" /\ good' = SuccessLimit]_breaker_vars

\* No call starts before the open window is over, and the one that starts after
\* it turns the circuit HalfOpen.
NoCallInOpenWindow ==
    [][state = "Open" /\ ~(running' \subseteq running)
        => elapsed = OpenDuration /\ state' = "HalfOpen"]_breaker_vars

Protocol == INSTANCE BreakerProtocol

\* The counters, the clock and late calls implement the three-state protocol.
ImplementsProtocol == Protocol!Spec

\* An open circuit is probed again: late failures may restart the open window,
\* but no call starts meanwhile, so they run out.
OpenIsProbed == (state = "Open") ~> (state = "HalfOpen")
=============================================================================
