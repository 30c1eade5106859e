--------------------------- MODULE ResilientClient ---------------------------
(***************************************************************************)
(* with_retry around CircuitBreaker::call, the stacking of                  *)
(* full_stack_test.cpp: several clients retry through one breaker.          *)
(* CircuitOpenError is an exception like any other to with_retry: it costs  *)
(* an attempt; the breaker records nothing for it.                          *)
(***************************************************************************)
EXTENDS RetryPolicy

CONSTANTS FailureThreshold, SuccessThreshold, OpenDuration

ASSUME StackAssumption ==
    FailureThreshold \in Nat /\ SuccessThreshold \in Nat /\ OpenDuration \in Nat

VARIABLES state, failure_count, success_count, elapsed, running, bad, good

Breaker == INSTANCE CircuitBreaker WITH Calls <- Clients

breaker_vars == <<state, failure_count, success_count, elapsed, running, bad, good>>
all_vars == <<breaker_vars, retry_vars>>

StackInit == Breaker!BreakerInit /\ Init

BeginRetry(c) == Begin(c) /\ UNCHANGED breaker_vars

\* with_retry's own steps; the call to breaker.call() begins in LoopHead.
RetryStep(c) == /\ LoopHead(c) \/ Wake(c)
                /\ UNCHANGED breaker_vars

Admitted(c) == /\ at[c] = "calling"
               /\ Breaker!CheckStatePass(c) \/ Breaker!CheckStateProbe(c)
               /\ UNCHANGED retry_vars

\* CircuitOpenError reaches with_retry; retry_on<E> may or may not accept it.
Rejected(c) == /\ Breaker!CheckStateReject(c)
               /\ \E accepted \in BOOLEAN : FnThrows(c, accepted)

Succeeds(c) == Breaker!OnSuccess(c) /\ FnReturns(c)

Fails(c) == /\ Breaker!OnFailure(c)
            /\ \E accepted \in BOOLEAN : FnThrows(c, accepted)

\* One clock drives the open window, the deadlines and the sleeps.
Tick ==
    /\ elapsed' = IF state = "Open" /\ elapsed < OpenDuration THEN elapsed + 1 ELSE elapsed
    /\ left' = [c \in Clients |-> RunDown(left[c])]
    /\ sleeping' = [c \in Clients |-> RunDown(sleeping[c])]
    /\ <<elapsed, left, sleeping>>' # <<elapsed, left, sleeping>>
    /\ UNCHANGED <<state, failure_count, success_count, running, bad, good,
                   at, attempt, delay, jitter, result, failed>>

Step(c) == RetryStep(c) \/ Admitted(c) \/ Rejected(c) \/ Succeeds(c) \/ Fails(c)

StackNext == (\E c \in Clients : BeginRetry(c) \/ Step(c)) \/ Tick

\* A thread inside with_retry runs, fn ends, and the clock goes on; nobody has to
\* begin another with_retry.
StackFairness == /\ \A c \in Clients : WF_all_vars(Step(c))
                 /\ WF_all_vars(Tick)

StackSpec == StackInit /\ [][StackNext]_all_vars /\ StackFairness

-----------------------------------------------------------------------------
(* Properties *)

\* Clients that retry against an open circuit do not keep it open: however often
\* their attempts are turned away, and whatever attempts admitted earlier fail
\* meanwhile, the open window runs out.
OpenWindowRunsOut == (state = "Open") ~> (state = "Open" => Breaker!OpenWindowOver)
=============================================================================
