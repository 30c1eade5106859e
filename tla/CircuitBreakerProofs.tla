-------------------------- MODULE CircuitBreakerProofs --------------------------
(***************************************************************************)
(* Theorems about CircuitBreaker for any number of calls, any thresholds   *)
(* (zero included) and any open duration.                                  *)
(***************************************************************************)
EXTENDS CircuitBreaker, TLAPS

\* While HalfOpen, success_count_ is the number of successes recorded in a row since
\* the circuit turned HalfOpen: this ties it to the outcomes, as
\* FailuresAreConsecutive does for failures.
SuccessesAreConsecutive == state = "HalfOpen" => success_count = good

IInv == /\ BreakerTypeOK
        /\ CountersBelowThreshold
        /\ FailuresAreConsecutive
        /\ SuccessesAreConsecutive

\* The limits are positive and a threshold is met exactly at its limit.
LEMMA Limits ==
    /\ FailureLimit \in Nat /\ FailureLimit > 0
    /\ SuccessLimit \in Nat /\ SuccessLimit > 0
    /\ \A n \in Nat : n + 1 >= FailureThreshold <=> n + 1 >= FailureLimit
    /\ \A n \in Nat : n + 1 >= SuccessThreshold <=> n + 1 >= SuccessLimit
  BY ConfigAssumption DEF FailureLimit, SuccessLimit, AtLeastOne

\* The initial state of the breaker satisfies the inductive invariant.
LEMMA InitIInv == BreakerInit => IInv
  BY Limits, ConfigAssumption
  DEF BreakerInit, IInv, BreakerTypeOK, CountersBelowThreshold, FailuresAreConsecutive, SuccessesAreConsecutive

\* Every critical section and every tick preserves the inductive invariant.
LEMMA NextIInv == IInv /\ [BreakerNext]_breaker_vars => IInv'
  <1> USE DEF IInv, BreakerTypeOK, CountersBelowThreshold, FailuresAreConsecutive,
              SuccessesAreConsecutive
  <1> SUFFICES ASSUME IInv, [BreakerNext]_breaker_vars
               PROVE  IInv'
    OBVIOUS
  <1>1. ASSUME NEW c \in Calls, CheckStatePass(c)
        PROVE  IInv'
    BY <1>1 DEF CheckStatePass
  <1>2. ASSUME NEW c \in Calls, CheckStateProbe(c)
        PROVE  IInv'
    BY <1>2, Limits DEF CheckStateProbe
  <1>3. ASSUME NEW c \in Calls, CheckStateReject(c)
        PROVE  IInv'
    BY <1>3 DEF CheckStateReject, breaker_vars
  <1>4. ASSUME NEW c \in Calls, OnSuccess(c)
        PROVE  IInv'
    <2>1. CASE state = "HalfOpen"
      BY <1>4, <2>1, Limits DEF OnSuccess, FailuresAfterSuccess, Recorded, Saturated
    <2>2. CASE state # "HalfOpen"
      BY <1>4, <2>2, Limits DEF OnSuccess, FailuresAfterSuccess, Recorded, Saturated
    <2> QED BY <2>1, <2>2
  <1>5. ASSUME NEW c \in Calls, OnFailure(c)
        PROVE  IInv'
    <2>1. CASE Opens
      BY <1>5, <2>1, Limits, ConfigAssumption DEF OnFailure, Recorded, Saturated
    <2>2. CASE ~Opens
      BY <1>5, <2>2, Limits DEF OnFailure, Opens, Recorded, Saturated
    <2> QED BY <2>1, <2>2
  <1>6. CASE BreakerTick
    BY <1>6, ConfigAssumption DEF BreakerTick
  <1>7. CASE UNCHANGED breaker_vars
    BY <1>7 DEF breaker_vars
  <1> QED
    BY <1>1, <1>2, <1>3, <1>4, <1>5, <1>6, <1>7 DEF BreakerNext, CheckState

\* The inductive invariant holds in every reachable state.
THEOREM Invariance == BreakerSpec => []IInv
  BY InitIInv, NextIInv, PTL DEF BreakerSpec

\* Type correctness of the breaker's fields.
THEOREM TypeCorrect == BreakerSpec => []BreakerTypeOK
  <1>1. IInv => BreakerTypeOK
    BY DEF IInv
  <1> QED BY Invariance, <1>1, PTL

\* For every configuration the counters stay below their thresholds between
\* critical sections, so neither uint32_t counter can wrap.
THEOREM CountersBounded == BreakerSpec => []CountersBelowThreshold
  <1>1. IInv => CountersBelowThreshold
    BY DEF IInv
  <1> QED BY Invariance, <1>1, PTL

\* For every configuration failure_count_ counts only failures in a row,
\* however late the calls that recorded them ended.
THEOREM CountedFailuresAreConsecutive == BreakerSpec => []FailuresAreConsecutive
  <1>1. IInv => FailuresAreConsecutive
    BY DEF IInv
  <1> QED BY Invariance, <1>1, PTL

\* For every configuration failure_threshold failures in a row leave the
\* circuit open or half-open.
THEOREM OpensAtThreshold == BreakerSpec => []NotClosedAtThreshold
  <1>1. IInv => NotClosedAtThreshold
    BY Limits DEF IInv, BreakerTypeOK, CountersBelowThreshold, FailuresAreConsecutive, NotClosedAtThreshold
  <1> QED BY Invariance, <1>1, PTL

\* For every configuration a closed circuit opens, and an open window restarts,
\* only after failure_threshold failures in a row.
THEOREM TripsAfterFailures == BreakerSpec => TripsOnlyAfterFailures
  <1> DEFINE A == (state = "Closed" /\ state' = "Open") \/ (state = "Open" /\ elapsed' < elapsed)
                    => bad' = FailureLimit
  <1>1. IInv /\ [BreakerNext]_breaker_vars => [A]_breaker_vars
    <2> SUFFICES ASSUME IInv, BreakerNext
                 PROVE  A
      OBVIOUS
    <2> USE DEF IInv, BreakerTypeOK, FailuresAreConsecutive
    <2>1. ASSUME NEW c \in Calls, CheckState(c)
          PROVE  A
      BY <2>1 DEF CheckState, CheckStatePass, CheckStateProbe, CheckStateReject, breaker_vars
    <2>2. ASSUME NEW c \in Calls, OnSuccess(c)
          PROVE  A
      BY <2>2 DEF OnSuccess
    <2>3. ASSUME NEW c \in Calls, OnFailure(c)
          PROVE  A
      BY <2>3, Limits DEF OnFailure, Opens, Recorded, Saturated
    <2>4. CASE BreakerTick
      BY <2>4 DEF BreakerTick
    <2> QED BY <2>1, <2>2, <2>3, <2>4 DEF BreakerNext
  <1> QED BY <1>1, Invariance, PTL DEF BreakerSpec, TripsOnlyAfterFailures

\* For every configuration the circuit closes only from HalfOpen, after
\* success_threshold successes in a row since it turned HalfOpen.
THEOREM ClosesAfterSuccesses == BreakerSpec => ClosesOnlyAfterSuccesses
  <1> DEFINE A == state # "Closed" /\ state' = "Closed" =>
                     state = "HalfOpen" /\ good' = SuccessLimit
  <1>1. IInv /\ [BreakerNext]_breaker_vars => [A]_breaker_vars
    <2> SUFFICES ASSUME IInv, BreakerNext
                 PROVE  A
      OBVIOUS
    <2> USE DEF IInv, BreakerTypeOK, SuccessesAreConsecutive
    <2>1. ASSUME NEW c \in Calls, CheckState(c)
          PROVE  A
      BY <2>1 DEF CheckState, CheckStatePass, CheckStateProbe, CheckStateReject, breaker_vars
    <2>2. ASSUME NEW c \in Calls, OnSuccess(c)
          PROVE  A
      BY <2>2, Limits DEF OnSuccess, Recorded, Saturated
    <2>3. ASSUME NEW c \in Calls, OnFailure(c)
          PROVE  A
      BY <2>3 DEF OnFailure
    <2>4. CASE BreakerTick
      BY <2>4 DEF BreakerTick
    <2> QED BY <2>1, <2>2, <2>3, <2>4 DEF BreakerNext
  <1> QED BY <1>1, Invariance, PTL DEF BreakerSpec, ClosesOnlyAfterSuccesses

\* For every configuration no call starts inside an open window.
THEOREM OpenWindowRespected == BreakerSpec => NoCallInOpenWindow
  <1> DEFINE A == state = "Open" /\ ~(running' \subseteq running)
                    => elapsed = OpenDuration /\ state' = "HalfOpen"
  <1>1. IInv /\ [BreakerNext]_breaker_vars => [A]_breaker_vars
    <2> SUFFICES ASSUME IInv, BreakerNext
                 PROVE  A
      OBVIOUS
    <2> USE DEF IInv, BreakerTypeOK
    <2>1. ASSUME NEW c \in Calls, CheckState(c)
          PROVE  A
      BY <2>1, ConfigAssumption
      DEF CheckState, CheckStatePass, CheckStateProbe, CheckStateReject, OpenWindowOver, breaker_vars
    <2>2. ASSUME NEW c \in Calls, OnSuccess(c) \/ OnFailure(c)
          PROVE  A
      BY <2>2 DEF OnSuccess, OnFailure, Recorded
    <2>3. CASE BreakerTick
      BY <2>3 DEF BreakerTick
    <2> QED BY <2>1, <2>2, <2>3 DEF BreakerNext
  <1> QED BY <1>1, Invariance, PTL DEF BreakerSpec, NoCallInOpenWindow

\* Every step of the breaker is a step of the three-state protocol or leaves
\* the protocol's state alone: Open never turns Closed without probes.
THEOREM BreakerImplementsProtocol == BreakerSpec => ImplementsProtocol
  <1>1. BreakerInit => Protocol!Init
    BY DEF BreakerInit, Protocol!Init
  <1>2. IInv /\ [BreakerNext]_breaker_vars => [Protocol!Next]_Protocol!vars
    <2> SUFFICES ASSUME IInv, [BreakerNext]_breaker_vars
                 PROVE  Protocol!Next \/ UNCHANGED Protocol!vars
      OBVIOUS
    <2> USE DEF Protocol!vars
    <2>1. ASSUME NEW c \in Calls, CheckStatePass(c)
          PROVE  Protocol!Admit(c)
      BY <2>1 DEF CheckStatePass, Protocol!Admit
    <2>2. ASSUME NEW c \in Calls, CheckStateProbe(c)
          PROVE  Protocol!Probe(c)
      BY <2>2 DEF CheckStateProbe, Protocol!Probe
    <2>3. ASSUME NEW c \in Calls, CheckStateReject(c)
          PROVE  UNCHANGED Protocol!vars
      BY <2>3 DEF CheckStateReject, breaker_vars
    <2>4. ASSUME NEW c \in Calls, OnSuccess(c) \/ OnFailure(c)
          PROVE  Protocol!End(c)
      <3>1. /\ c \in running
            /\ running' = running \ {c}
            /\ state' = state \/ (state = "HalfOpen" /\ state' = "Closed") \/ state' = "Open"
        BY <2>4 DEF OnSuccess, OnFailure, Recorded
      <3>2. <<state, state'>> \in Protocol!EndMoves
        BY <3>1 DEF IInv, BreakerTypeOK, Protocol!EndMoves
      <3> QED BY <3>1, <3>2 DEF Protocol!End
    <2>5. CASE BreakerTick \/ UNCHANGED breaker_vars
      BY <2>5 DEF BreakerTick, breaker_vars
    <2> QED BY <2>1, <2>2, <2>3, <2>4, <2>5 DEF BreakerNext, CheckState, Protocol!Next
  <1> QED BY <1>1, <1>2, Invariance, PTL DEF BreakerSpec, ImplementsProtocol, Protocol!Spec
=============================================================================
