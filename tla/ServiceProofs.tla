----------------------------- MODULE ServiceProofs -----------------------------
(***************************************************************************)
(* What a service does around its work: it calls others through with_retry, *)
(* alone and around CircuitBreaker::call, for any number of clients and      *)
(* attempts, any delays, factor and deadlines, any thresholds and open       *)
(* duration; it starts on its settings, whatever the environment holds; and  *)
(* it answers through middleware in any order around any of its handlers.    *)
(***************************************************************************)
EXTENDS ResilientClient, Settings, Responses, TLAPS

-----------------------------------------------------------------------------
(* with_retry *)

\* Inside with_retry the failures are those of the attempts made so far, the loop
\* counter lagging by one while the thread sleeps, and nothing has been thrown yet.
Progress(c) ==
    /\ at[c] # "out" => result[c] = "none"
    /\ at[c] \in {"loop", "calling"} => failed[c] = attempt[c]
    /\ at[c] = "calling" => attempt[c] < MaxAttempts
    /\ at[c] = "sleeping" => failed[c] = attempt[c] + 1 /\ attempt[c] + 1 < MaxAttempts
    /\ at[c] = "sleeping" => sleeping[c] <= delay[c]
    /\ at[c] # "sleeping" => sleeping[c] = 0

RetryInv ==
    /\ TypeOK
    /\ \A c \in Clients : Progress(c)
    /\ ExhaustedMeansAllFailed

\* The delay grows within the cap.
LEMMA NextDelayInRange ==
    ASSUME NEW d \in Nat
    PROVE  NextDelay(d) \in 0..MaxDelay
  <1> DEFINE product == d * Multiplier[1]
  <1>1. Multiplier[1] \in Nat /\ Multiplier[2] \in Nat \ {0} /\ MaxDelay \in Nat
    BY Zenon, RetryAssumption
  <1>2. product \in Nat
    BY <1>1
  <1>3. ASSUME NEW p \in Nat, NEW q \in Nat \ {0}
        PROVE  p \div q \in Nat
    BY <1>3
  <1>4. product \div Multiplier[2] \in Nat
    BY Zenon, <1>1, <1>2, <1>3
  <1> QED BY <1>1, <1>4 DEF NextDelay

\* apply_jitter() never makes a delay longer.
LEMMA JitterInRange ==
    ASSUME NEW base \in Nat, NEW strategy \in JitterStrategy,
           NEW d \in ApplyJitter(base, strategy)
    PROVE  d \in 0..base
  BY DEF ApplyJitter, JitterStrategy

\* A begin, a turn of the loop, the end of fn, a wake-up and the clock each keep the
\* count of failures in step with the loop counter.
LEMMA NextRetryInv == RetryInv /\ [Next]_retry_vars => RetryInv'
  <1> SUFFICES ASSUME RetryInv, [Next]_retry_vars
               PROVE  RetryInv'
    BY Zenon
  <1> USE RetryAssumption DEF RetryInv
  <1>1. ASSUME NEW c \in Clients, Begin(c)
        PROVE  RetryInv'
    <2>1. TypeOK'
      BY <1>1 DEF TypeOK, Begin, Max, NoDeadline, Results
    <2>2. (\A d \in Clients : Progress(d))' /\ ExhaustedMeansAllFailed'
      BY <1>1 DEF TypeOK, Begin, Progress, ExhaustedMeansAllFailed
    <2> QED BY Zenon, <2>1, <2>2
  <1>2. ASSUME NEW c \in Clients, LoopHead(c)
        PROVE  RetryInv'
    <2>1. TypeOK'
      BY Zenon, <1>2 DEF TypeOK, LoopHead, Leave, Results
    <2>2. (\A d \in Clients : Progress(d))' /\ ExhaustedMeansAllFailed'
      BY <1>2 DEF TypeOK, LoopHead, Leave, HasAttemptLeft, IsExpired, Progress,
                  ExhaustedMeansAllFailed
    <2> QED BY <2>1, <2>2
  <1>3. ASSUME NEW c \in Clients, FnReturns(c)
        PROVE  RetryInv'
    BY Zenon, <1>3 DEF TypeOK, FnReturns, Leave, Results, Progress, ExhaustedMeansAllFailed
  <1>4. ASSUME NEW c \in Clients, NEW accepted \in BOOLEAN, FnThrows(c, accepted)
        PROVE  RetryInv'
    <2>1. failed[c] + 1 \in 1..MaxAttempts /\ failed'[c] = failed[c] + 1
          /\ failed' \in [Clients -> 0..MaxAttempts]
      BY <1>4 DEF TypeOK, FnThrows, Progress, Min
    <2>2. ASSUME NEW d \in ApplyJitter(delay[c], jitter[c])
          PROVE  d \in 0..Max(InitialDelay, MaxDelay) /\ d <= delay[c]
      BY <2>2, JitterInRange DEF TypeOK, Max
    <2>3. TypeOK'
      BY <1>4, <2>1, <2>2 DEF TypeOK, FnThrows, Leave, Results, Progress
    <2>4. ExhaustedMeansAllFailed'
      BY <1>4, <2>1 DEF TypeOK, FnThrows, Leave, MoreToCome, IsExpired, Progress, Min,
                        ExhaustedMeansAllFailed
    <2>5. Progress(c)'
      BY <1>4, <2>1, <2>2 DEF TypeOK, FnThrows, Leave, MoreToCome, Progress, Min
    <2>6. ASSUME NEW e \in Clients \ {c}
          PROVE  Progress(e)'
      BY <1>4, <2>6 DEF TypeOK, FnThrows, Leave, Progress
    <2> QED BY Zenon, <2>3, <2>4, <2>5, <2>6
  <1>5. ASSUME NEW c \in Clients, Wake(c)
        PROVE  RetryInv'
    <2>1. NextDelay(delay[c]) \in 0..Max(InitialDelay, MaxDelay)
      BY NextDelayInRange DEF TypeOK, Max
    <2>2. TypeOK'
      BY <1>5, <2>1 DEF TypeOK, Wake, Progress
    <2>3. (\A d \in Clients : Progress(d))' /\ ExhaustedMeansAllFailed'
      BY Zenon, <1>5 DEF TypeOK, Wake, Progress, ExhaustedMeansAllFailed
    <2> QED BY <2>2, <2>3
  <1>6. CASE RetryTick
    <2>1. TypeOK'
      BY <1>6 DEF TypeOK, RetryTick, RunDown, Max, NoDeadline
    <2>2. (\A d \in Clients : Progress(d))' /\ ExhaustedMeansAllFailed'
      BY <1>6 DEF TypeOK, RetryTick, RunDown, Progress, ExhaustedMeansAllFailed
    <2> QED BY Zenon, <2>1, <2>2
  <1>7. CASE UNCHANGED retry_vars
    BY Zenon, <1>7 DEF retry_vars, TypeOK, Progress, ExhaustedMeansAllFailed
  <1> QED
    BY Zenon, <1>1, <1>2, <1>3, <1>4, <1>5, <1>6, <1>7 DEF Next, FnEnds

\* The inductive invariant holds in every reachable state.
THEOREM RetryInvariance == Spec => []RetryInv
  <1>1. Init => RetryInv
    BY RetryAssumption DEF Init, RetryInv, TypeOK, Progress, ExhaustedMeansAllFailed, Max,
                           NoDeadline, JitterStrategy, Results
  <1> QED BY <1>1, NextRetryInv, PTL DEF Spec

\* For every configuration RetryExhausted is thrown after exactly max_attempts failures
\* and DeadlineExceeded after fewer, with the deadline expired.
THEOREM ExhaustedAlwaysMeansAllFailed == Spec => []ExhaustedMeansAllFailed
  <1>1. RetryInv => ExhaustedMeansAllFailed
    BY Zenon DEF RetryInv
  <1> QED BY RetryInvariance, <1>1, PTL

\* While the factor is an integer, the delay is the capped power of the closed form.
InStep(c) ==
    Multiplier[2] = 1 /\ Multiplier[1] > 0 /\ at[c] # "out" =>
        delay[c] = BackoffReference(Min(attempt[c], MaxAttempts - 1))

\* Capping before or after a whole factor comes to the same.
LEMMA CapOnce ==
    ASSUME NEW x \in Nat, NEW cap \in Nat, NEW m \in Nat, m > 0
    PROVE  Min(Min(x, cap) * m, cap) = Min(x * m, cap)
  <1>1. CASE x < cap
    BY Zenon, <1>1 DEF Min
  <1>2. CASE x >= cap
    <2>1. ASSUME NEW y \in Nat PROVE y * m >= y
      OBVIOUS
    <2>2. cap * m >= cap /\ x * m >= x /\ cap * m \in Nat /\ x * m \in Nat
      BY <2>1
    <2>3. Min(x, cap) = cap
      BY <1>2 DEF Min
    <2> QED BY <1>2, <2>2, <2>3 DEF Min
  <1> QED BY <1>1, <1>2

\* One backoff takes the closed form one power further.
LEMMA OnePowerFurther ==
    ASSUME Multiplier[2] = 1, Multiplier[1] > 0, NEW k \in Nat, k < MaxAttempts
    PROVE  NextDelay(BackoffReference(k)) = BackoffReference(k + 1)
  <1> DEFINE m == Multiplier[1]
  <1>1. m \in Nat /\ m > 0 /\ InitialDelay \in Nat /\ MaxDelay \in Nat /\ MaxAttempts \in Nat
    BY Zenon, RetryAssumption
  <1>2. \A d \in Nat : NextDelay(d) = Min(d * m, MaxDelay)
    <2>1. \A p \in Nat : p \div 1 = p
      OBVIOUS
    <2>2. \A d \in Nat : d * m \in Nat
      BY <1>1
    <2> QED BY Zenon, <2>1, <2>2 DEF NextDelay, Min
  <1>3. Power(1) = m /\ \A j \in 1..MaxAttempts : Power(j) \in Nat /\ Power(j + 1) = Power(j) * m
    BY Zenon, PowersAssumption
  <1> HIDE DEF m
  <1>4. CASE k = 0
    <2>1. BackoffReference(k) = InitialDelay /\ BackoffReference(k + 1) = Min(InitialDelay * m, MaxDelay)
      BY <1>3, <1>4 DEF BackoffReference
    <2> QED BY Zenon, <1>1, <1>2, <2>1
  <1>5. CASE k > 0
    <2> DEFINE x == InitialDelay * Power(k)
    <2>1. k \in 1..MaxAttempts
      BY <1>1, <1>5
    <2>2. Power(k) \in Nat /\ Power(k + 1) = Power(k) * m
      BY Zenon, <1>3, <2>1
    <2>3. x \in Nat
      BY <1>1, <2>2
    <2>4. InitialDelay * Power(k + 1) = x * m
      <3>1. ASSUME NEW i \in Nat, NEW j \in Nat, NEW l \in Nat PROVE i * (j * l) = (i * j) * l
        OBVIOUS
      <3> QED BY <1>1, <2>2, <3>1
    <2>5. BackoffReference(k) = Min(x, MaxDelay)
      BY <1>5 DEF BackoffReference
    <2>6. BackoffReference(k + 1) = Min(x * m, MaxDelay)
      <3>1. ~(k + 1 <= 0)
        BY <1>5
      <3> QED BY Zenon, <2>4, <3>1 DEF BackoffReference
    <2> HIDE DEF x
    <2>7. Min(x, MaxDelay) \in Nat
      BY Zenon, <1>1, <2>3 DEF Min
    <2>8. NextDelay(Min(x, MaxDelay)) = Min(Min(x, MaxDelay) * m, MaxDelay)
      BY Zenon, <1>2, <2>7
    <2> QED BY Zenon, <1>1, <2>3, <2>5, <2>6, <2>8, CapOnce
  <1> QED BY <1>4, <1>5

\* The delay stays in step with the loop counter, which runs ahead of it only once the
\* last attempt has failed.
LEMMA InStepNext ==
    RetryInv /\ (\A c \in Clients : InStep(c)) /\ [Next]_retry_vars => (\A c \in Clients : InStep(c))'
  <1> SUFFICES ASSUME RetryInv, \A d \in Clients : InStep(d), [Next]_retry_vars,
                      Multiplier[2] = 1, Multiplier[1] > 0, NEW c \in Clients, at'[c] # "out"
               PROVE  delay'[c] = BackoffReference(Min(attempt'[c], MaxAttempts - 1))
    BY Zenon DEF InStep
  <1>1. MaxAttempts \in Nat /\ attempt[c] \in 0..MaxAttempts
    BY Zenon, RetryAssumption DEF RetryInv, TypeOK
  <1>2. at[c] # "out" => delay[c] = BackoffReference(Min(attempt[c], MaxAttempts - 1))
    BY Zenon DEF InStep
  <1>3. CASE at[c] # "out" /\ attempt'[c] = attempt[c] /\ delay'[c] = delay[c]
    BY Zenon, <1>2, <1>3
  <1>4. CASE Begin(c)
    <2>1. attempt'[c] = 0 /\ delay'[c] = InitialDelay
      BY Zenon, <1>4 DEF Begin, RetryInv, TypeOK
    <2>2. Min(0, MaxAttempts - 1) <= 0
      BY <1>1 DEF Min
    <2> QED BY Zenon, <2>1, <2>2 DEF BackoffReference
  <1>5. ASSUME NEW accepted \in BOOLEAN, FnThrows(c, accepted)
        PROVE  delay'[c] = BackoffReference(Min(attempt'[c], MaxAttempts - 1))
    <2>1. at[c] = "calling" /\ attempt[c] < MaxAttempts /\ delay'[c] = delay[c]
      BY Zenon, <1>5 DEF FnThrows, RetryInv, Progress
    <2>2. \/ attempt'[c] = attempt[c]
          \/ ~MoreToCome(c) /\ attempt'[c] = attempt[c] + 1
      BY Zenon, <1>5 DEF FnThrows, RetryInv, TypeOK
    <2>3. Min(attempt'[c], MaxAttempts - 1) = Min(attempt[c], MaxAttempts - 1)
      BY <1>1, <2>1, <2>2 DEF Min, MoreToCome
    <2> QED BY Zenon, <1>2, <2>1, <2>3
  <1>6. CASE Wake(c)
    <2>1. /\ at[c] = "sleeping" /\ attempt[c] + 1 < MaxAttempts
          /\ delay'[c] = NextDelay(delay[c]) /\ attempt'[c] = attempt[c] + 1
      BY Zenon, <1>6 DEF Wake, RetryInv, TypeOK, Progress
    <2>2. /\ Min(attempt[c], MaxAttempts - 1) = attempt[c]
          /\ Min(attempt[c] + 1, MaxAttempts - 1) = attempt[c] + 1
          /\ attempt[c] \in Nat /\ attempt[c] < MaxAttempts
      BY <1>1, <2>1 DEF Min
    <2>3. delay[c] = BackoffReference(attempt[c])
      BY Zenon, <1>2, <2>1, <2>2
    <2> QED BY Zenon, <2>1, <2>2, <2>3, OnePowerFurther
  <1>7. CASE LoopHead(c) \/ FnReturns(c) \/ RetryTick \/ UNCHANGED retry_vars
    BY Zenon, <1>2, <1>7 DEF LoopHead, FnReturns, Leave, RetryTick, retry_vars, RetryInv, TypeOK
  <1>8. ASSUME NEW d \in Clients \ {c}, Begin(d) \/ LoopHead(d) \/ FnEnds(d) \/ Wake(d)
        PROVE  at'[c] = at[c] /\ attempt'[c] = attempt[c] /\ delay'[c] = delay[c]
    BY Zenon, <1>8 DEF Begin, LoopHead, FnEnds, FnReturns, FnThrows, Wake, Leave, RetryInv, TypeOK
  <1>9. ASSUME NEW d \in Clients, Begin(d) \/ LoopHead(d) \/ FnEnds(d) \/ Wake(d)
        PROVE  delay'[c] = BackoffReference(Min(attempt'[c], MaxAttempts - 1))
    <2>1. CASE d = c
      BY Zenon, <1>4, <1>5, <1>6, <1>7, <1>9, <2>1 DEF FnEnds
    <2>2. CASE d # c
      <3>1. at'[c] = at[c] /\ attempt'[c] = attempt[c] /\ delay'[c] = delay[c]
        BY Zenon, <1>8, <1>9, <2>2
      <3> QED BY Zenon, <1>3, <3>1
    <2> QED BY Zenon, <2>1, <2>2
  <1> QED
    BY Zenon, <1>7, <1>9 DEF Next

\* For every integer factor and every cap the delay with_retry keeps by multiplying and
\* capping is the capped power of the closed form, and no sleep is longer.
THEOREM BackoffAlwaysMatchesReference == Spec => []BackoffMatchesReference
  <1>1. Init => \A c \in Clients : InStep(c)
    BY Zenon DEF Init, InStep
  <1>2. RetryInv /\ (\A c \in Clients : InStep(c)) => BackoffMatchesReference
    <2> SUFFICES ASSUME RetryInv, \A c \in Clients : InStep(c), NEW c \in Clients
                 PROVE  sleeping[c] <= delay[c]
      BY Zenon DEF InStep, BackoffMatchesReference
    <2> QED BY RetryAssumption DEF RetryInv, TypeOK, Progress
  <1> QED BY <1>1, <1>2, RetryInvariance, InStepNext, PTL DEF Spec

\* fn is never called once max_attempts calls of it have thrown, and no sleep is begun
\* after the last one.
AttemptsBounded ==
    \A c \in Clients : /\ at[c] = "calling" => failed[c] < MaxAttempts
                       /\ at[c] = "sleeping" => failed[c] < MaxAttempts

\* For every configuration with_retry makes at most max_attempts calls and sleeps only
\* between two of them.
THEOREM AttemptsAlwaysBounded == Spec => []AttemptsBounded
  <1>1. RetryInv => AttemptsBounded
    BY Zenon, RetryAssumption DEF RetryInv, TypeOK, Progress, AttemptsBounded
  <1> QED BY RetryInvariance, <1>1, PTL

\* A sleep is never longer than the delay the loop keeps, and a thread that is not in
\* sleep_for has nothing left to sleep.
SleepsWithinDelay ==
    \A c \in Clients : /\ sleeping[c] <= delay[c]
                       /\ at[c] # "sleeping" => sleeping[c] = 0

\* For every configuration and jitter strategy with_retry sleeps at most the current
\* delay, and only inside sleep_for.
THEOREM SleepsAlwaysWithinDelay == Spec => []SleepsWithinDelay
  <1>1. ASSUME RetryInv, NEW c \in Clients
        PROVE  sleeping[c] <= delay[c] /\ (at[c] # "sleeping" => sleeping[c] = 0)
    <2>1. delay[c] \in 0..Max(InitialDelay, MaxDelay)
      BY Zenon, <1>1 DEF RetryInv, TypeOK
    <2>2. delay[c] >= 0 /\ Progress(c)
      BY <1>1, <2>1 DEF RetryInv
    <2> QED BY Zenon, <2>1, <2>2, RetryAssumption DEF Progress, Max
  <1>2. RetryInv => SleepsWithinDelay
    BY Zenon, <1>1 DEF SleepsWithinDelay
  <1> QED BY RetryInvariance, <1>2, PTL

-----------------------------------------------------------------------------
(* The stack *)

BreakerProofs == INSTANCE CircuitBreakerProofs WITH Calls <- Clients

\* To with_retry, breaker.call() is an fn that returns or throws: a step of the stack
\* is a step of with_retry or leaves it alone.
LEMMA StepOfRetry == TypeOK /\ [StackNext]_all_vars => [Next]_retry_vars
  <1> SUFFICES ASSUME TypeOK, [StackNext]_all_vars
               PROVE  [Next]_retry_vars
    BY Zenon
  <1>1. ASSUME NEW c \in Clients, BeginRetry(c) \/ RetryStep(c)
        PROVE  Next
    BY Zenon, <1>1 DEF BeginRetry, RetryStep, Next
  <1>2. ASSUME NEW c \in Clients, Admitted(c)
        PROVE  UNCHANGED retry_vars
    BY Zenon, <1>2 DEF Admitted
  <1>3. ASSUME NEW c \in Clients, Rejected(c) \/ Fails(c)
        PROVE  Next
    BY Zenon, <1>3 DEF Rejected, Fails, Next, FnEnds
  <1>4. ASSUME NEW c \in Clients, Succeeds(c)
        PROVE  Next
    BY Zenon, <1>4 DEF Succeeds, Next, FnEnds
  <1>5. CASE Tick
    <2>1. CASE \E c \in Clients : left[c] > 0 \/ sleeping[c] > 0
      BY Zenon, <1>5, <2>1 DEF Tick, Next, RetryTick
    <2>2. CASE \A c \in Clients : ~(left[c] > 0) /\ ~(sleeping[c] > 0)
      <3>1. left' = [c \in Clients |-> left[c]] /\ sleeping' = [c \in Clients |-> sleeping[c]]
        BY Zenon, <1>5, <2>2 DEF Tick, RunDown
      <3>2. left' = left /\ sleeping' = sleeping
        BY Zenon, <3>1 DEF TypeOK
      <3> QED BY Zenon, <1>5, <3>2 DEF Tick, retry_vars
    <2> QED BY Zenon, <2>1, <2>2
  <1>6. CASE UNCHANGED all_vars
    BY Zenon, <1>6 DEF all_vars
  <1> QED BY Zenon, <1>1, <1>2, <1>3, <1>4, <1>5, <1>6 DEF StackNext, Step

\* with_retry around a breaker behaves as with_retry around any fn: all its theorems
\* hold of the stack.
THEOREM StackImplementsRetry == StackSpec => Spec
  <1>1. StackInit => Init /\ RetryInv
    BY RetryAssumption DEF StackInit, Init, RetryInv, TypeOK, Progress,
                           ExhaustedMeansAllFailed, Max, NoDeadline, JitterStrategy, Results
  <1>2. RetryInv /\ [StackNext]_all_vars => [Next]_retry_vars /\ RetryInv'
    BY Zenon, StepOfRetry, NextRetryInv DEF RetryInv
  <1> QED BY <1>1, <1>2, PTL DEF StackSpec, Spec

\* In the stack too, RetryExhausted means max_attempts failures, those for which the
\* circuit was open included.
THEOREM StackExhaustedMeansAllFailed == StackSpec => []ExhaustedMeansAllFailed
  BY StackImplementsRetry, ExhaustedAlwaysMeansAllFailed, PTL

\* In the stack too, the delay between attempts is the capped power of the closed form.
THEOREM StackBackoffMatchesReference == StackSpec => []BackoffMatchesReference
  BY StackImplementsRetry, BackoffAlwaysMatchesReference, PTL

\* To the breaker, the attempts of with_retry are calls like any others: a step of the
\* stack is one of its critical sections, a tick, or leaves it alone.
LEMMA StepOfBreaker == [StackNext]_all_vars => [Breaker!BreakerNext]_(Breaker!breaker_vars)
  <1> SUFFICES ASSUME [StackNext]_all_vars
               PROVE  [Breaker!BreakerNext]_(Breaker!breaker_vars)
    BY Zenon
  <1>1. ASSUME NEW c \in Clients, BeginRetry(c) \/ RetryStep(c)
        PROVE  UNCHANGED Breaker!breaker_vars
    BY Zenon, <1>1 DEF BeginRetry, RetryStep, breaker_vars, Breaker!breaker_vars
  <1>2. ASSUME NEW c \in Clients, Admitted(c)
        PROVE  Breaker!BreakerNext
    BY Zenon, <1>2 DEF Admitted, Breaker!BreakerNext, Breaker!CheckState
  <1>3. ASSUME NEW c \in Clients, Rejected(c)
        PROVE  Breaker!BreakerNext
    BY Zenon, <1>3 DEF Rejected, Breaker!BreakerNext, Breaker!CheckState
  <1>4. ASSUME NEW c \in Clients, Succeeds(c) \/ Fails(c)
        PROVE  Breaker!BreakerNext
    BY Zenon, <1>4 DEF Succeeds, Fails, Breaker!BreakerNext
  <1>5. CASE Tick
    <2>1. CASE state = "Open" /\ elapsed < OpenDuration
      BY Zenon, <1>5, <2>1 DEF Tick, Breaker!BreakerNext, Breaker!BreakerTick
    <2>2. CASE ~(state = "Open" /\ elapsed < OpenDuration)
      BY Zenon, <1>5, <2>2 DEF Tick, Breaker!breaker_vars
    <2> QED BY Zenon, <2>1, <2>2
  <1>6. CASE UNCHANGED all_vars
    BY Zenon, <1>6 DEF all_vars, breaker_vars, Breaker!breaker_vars
  <1> QED BY Zenon, <1>1, <1>2, <1>3, <1>4, <1>5, <1>6 DEF StackNext, Step

\* The stack is a behaviour of the breaker its theorems are about.
LEMMA StackIsBreakerSpec == StackSpec => BreakerProofs!BreakerSpec
  <1>1. StackInit => BreakerProofs!BreakerInit
    BY Zenon DEF StackInit, Breaker!BreakerInit, BreakerProofs!BreakerInit
  <1>2. Breaker!BreakerNext => BreakerProofs!BreakerNext
    BY Zenon DEF Breaker!BreakerNext, Breaker!CheckState, Breaker!CheckStatePass, Breaker!CheckStateProbe,
           Breaker!CheckStateReject, Breaker!OpenWindowOver, Breaker!OnSuccess,
           Breaker!OnFailure, Breaker!BreakerTick, Breaker!Opens, Breaker!Recorded,
           Breaker!FailuresAfterSuccess, Breaker!FailureLimit, Breaker!SuccessLimit,
           Breaker!AtLeastOne, Breaker!Saturated, Breaker!breaker_vars,
           BreakerProofs!BreakerNext, BreakerProofs!CheckState, BreakerProofs!CheckStatePass,
           BreakerProofs!CheckStateProbe, BreakerProofs!CheckStateReject,
           BreakerProofs!OpenWindowOver, BreakerProofs!OnSuccess, BreakerProofs!OnFailure,
           BreakerProofs!BreakerTick, BreakerProofs!Opens, BreakerProofs!Recorded,
           BreakerProofs!FailuresAfterSuccess, BreakerProofs!FailureLimit,
           BreakerProofs!SuccessLimit, BreakerProofs!AtLeastOne, BreakerProofs!Saturated,
           BreakerProofs!breaker_vars
  <1>3. Breaker!breaker_vars = BreakerProofs!breaker_vars
    BY Zenon DEF Breaker!breaker_vars, BreakerProofs!breaker_vars
  <1>4. [StackNext]_all_vars => [BreakerProofs!BreakerNext]_(BreakerProofs!breaker_vars)
    BY Zenon, StepOfBreaker, <1>2, <1>3 DEF Breaker!breaker_vars, BreakerProofs!breaker_vars
  <1> QED BY <1>1, <1>4, PTL DEF StackSpec, BreakerProofs!BreakerSpec

\* Under retries too, neither counter of the breaker reaches its threshold between two
\* critical sections, failures are counted only in a row, the circuit trips and closes
\* only on them, and no attempt starts inside an open window.
THEOREM BreakerKeepsItsPromises ==
    StackSpec => /\ []BreakerProofs!CountersBelowThreshold
                 /\ []BreakerProofs!FailuresAreConsecutive
                 /\ BreakerProofs!TripsOnlyAfterFailures
                 /\ BreakerProofs!ClosesOnlyAfterSuccesses
                 /\ BreakerProofs!NoCallInOpenWindow
  BY StackIsBreakerSpec, StackAssumption, BreakerProofs!CountersBounded,
     BreakerProofs!CountedFailuresAreConsecutive, BreakerProofs!TripsAfterFailures,
     BreakerProofs!ClosesAfterSuccesses, BreakerProofs!OpenWindowRespected, PTL

-----------------------------------------------------------------------------
(* Settings *)

\* A sequence with one more at its end, element by element.
LEMMA AppendElements ==
    ASSUME NEW S, NEW s \in Seq(S), NEW e \in S
    PROVE  /\ Append(s, e) \in Seq(S) /\ Len(Append(s, e)) = Len(s) + 1
           /\ DOMAIN s = 1..Len(s) /\ DOMAIN Append(s, e) = 1..(Len(s) + 1)
           /\ \A i \in 1..Len(s) : Append(s, e)[i] = s[i]
           /\ Append(s, e)[Len(s) + 1] = e
           /\ Len(s) \in Nat
           /\ Range(Append(s, e)) = Range(s) \cup {e}
  <1>1. /\ Append(s, e) \in Seq(S) /\ Len(Append(s, e)) = Len(s) + 1
        /\ DOMAIN s = 1..Len(s) /\ DOMAIN Append(s, e) = 1..(Len(s) + 1)
        /\ \A i \in 1..Len(s) : Append(s, e)[i] = s[i]
        /\ Append(s, e)[Len(s) + 1] = e
        /\ Len(s) \in Nat
    OBVIOUS
  <1>2. \A x : x \in Range(Append(s, e)) <=> x \in Range(s) \cup {e}
    BY <1>1 DEF Range
  <1> QED BY Zenon, <1>1, <1>2

\* A text as far as its number goes
IsText(text) == text.numeric \in BOOLEAN /\ text.number \in Int

\* The program gave a default for a missing variable.
Entered(r) == r.how = "env_or" /\ Missing(env[r.name]) /\ r.value = DefaultVal

\* The k-th read has the value its text stands for, its default, or an error noted.
Sound(k) == \/ k \in Unread
            \/ Entered(reads[k])
            \/ StandsFor(reads[k].type, env[reads[k].name], reads[k].value)

\* The errors are those of the unread settings, in their order.
Places(place) ==
    /\ place \in [DOMAIN errors_ -> DOMAIN reads]
    /\ \A i, j \in DOMAIN errors_ : i < j => place[i] < place[j]
    /\ Range(place) = Unread
    /\ \A i \in DOMAIN errors_ : errors_[i] = reads[place[i]].name

\* Every read is sound, and what check() let start had no error.
SettingsInv ==
    /\ \A n \in Names : IsText(env[n])
    /\ errors_ \in Seq(Names)
    /\ reads \in Seq(Range(reads))
    /\ \A k \in DOMAIN reads : Sound(k)
    /\ \E place : Places(place)
    /\ startup = "passed" => errors_ = <<>>

\* WrappedLong() changes no number that a long long can hold.
LEMMA LongFits ==
    ASSUME NEW n \in -MaxLong - 1..MaxLong
    PROVE  WrappedLong(n) = n
  <1>1. MaxLong \in Nat
    BY Zenon, SettingsAssumption
  <1>2. \A a, b \in Nat : a < b => a % b = a
    OBVIOUS
  <1>3. n + MaxLong + 1 \in Nat /\ 2 * (MaxLong + 1) \in Nat /\ n + MaxLong + 1 < 2 * (MaxLong + 1)
    BY <1>1
  <1>4. (n + MaxLong + 1) % (2 * (MaxLong + 1)) = n + MaxLong + 1
    BY Zenon, <1>2, <1>3
  <1> QED BY <1>1, <1>4 DEF WrappedLong

\* What a conversion returns, and when it fails.
Converts(given, type, text) ==
    IF Wellformed(type, text)
    THEN \E v : given = Value(v) /\ StandsFor(type, text, v)
    ELSE given = ConfigError

\* What a function returns is a value or an error, not both.
LEMMA ValueOrError == \A v : Value(v) # ConfigError /\ Value(v)[1] = v
  BY Zenon DEF Value, ConfigError

\* stoi() reads the texts of an int, parse_duration() those of a duration, and both
\* return what the text stands for.
LEMMA Conversions ==
    ASSUME NEW text, IsText(text)
    PROVE  /\ Converts(stoi(text), "int", text)
           /\ Converts(parse_duration(text), "milliseconds", text)
  <1>0. MaxInt \in Nat /\ MaxLong \in Nat /\ text.number \in Int
    BY Zenon, SettingsAssumption DEF IsText
  <1>1. Converts(stoi(text), "int", text)
    BY Zenon, <1>0, ValueOrError
    DEF Converts, stoi, Leading, Wellformed, StandsFor
  <1>2. Converts(parse_duration(text), "milliseconds", text)
    <2>1. Wellformed("milliseconds", text)
              <=> ~(stoll(text) = ConfigError \/ text.rest \notin DOMAIN Milliseconds)
      BY Zenon, <1>0, ValueOrError DEF stoll, Leading, Wellformed
    <2>2. CASE ~Wellformed("milliseconds", text)
      BY Zenon, <2>1, <2>2 DEF Converts, parse_duration
    <2>3. CASE Wellformed("milliseconds", text)
      <3> DEFINE amount == text.number * Milliseconds[text.rest]
      <3>1. parse_duration(text) = Value(WrappedLong(amount))
        BY Zenon, <2>1, <2>3 DEF parse_duration
      <3>2. amount \in -MaxLong - 1..MaxLong => WrappedLong(amount) = amount
        BY Zenon, LongFits
      <3>3. StandsFor("milliseconds", text, WrappedLong(amount))
        BY Zenon, <2>3, <3>2 DEF StandsFor
      <3> QED BY Zenon, <2>3, <3>1, <3>3 DEF Converts
    <2> QED BY Zenon, <2>2, <2>3
  <1> QED BY Zenon, <1>1, <1>2

\* A number stands for the number its text begins with.
LEMMA NumberOfText ==
    ASSUME NEW text, NEW v
    PROVE  /\ StandsFor("int", text, v) => v = text.number /\ Wellformed("int", text)
           /\ Wellformed("uint16_t", text) /\ v = text.number => StandsFor("uint16_t", text, v)
           /\ Wellformed("count", text) /\ v = text.number => StandsFor("count", text, v)
  BY Zenon DEF StandsFor

\* What an int stands for, within the range of a uint16_t, is what the uint16_t does.
LEMMA ShortInt ==
    ASSUME NEW text, IsText(text), NEW v, StandsFor("int", text, v), v \in uint16_t
    PROVE  StandsFor("uint16_t", text, v)
  <1>1. v = text.number /\ Wellformed("int", text)
    BY Zenon, NumberOfText
  <1>2. text.numeric
    BY Zenon, <1>1 DEF Wellformed, IsText
  <1>3. Wellformed("uint16_t", text)
    BY Zenon, <1>1, <1>2 DEF Wellformed
  <1> QED BY Zenon, <1>1, <1>3, NumberOfText

\* A flag is off or stands for a text.
LEMMA Flag ==
    ASSUME NEW text, NEW v, v = TRUE => ~Missing(text)
    PROVE  StandsFor("bool", text, v)
  BY Zenon DEF StandsFor, Wellformed

\* Among() passes the values of its set on.
LEMMA AmongOrError ==
    ASSUME NEW given, NEW set, given = ConfigError \/ \E v : given = Value(v)
    PROVE  \/ Among(given, set) = ConfigError
           \/ \E v \in set : given = Value(v) /\ Among(given, set) = Value(v)
  BY Zenon, ValueOrError DEF Among

\* env_as() of any type returns what the text stands for, or an error.
LEMMA EnvAsStandsFor ==
    ASSUME NEW type \in {"string", "int", "uint16_t", "bool", "milliseconds"},
           NEW name \in Names, \A n \in Names : IsText(env[n])
    PROVE  \/ env_as(type, name) = ConfigError
           \/ \E v : env_as(type, name) = Value(v) /\ StandsFor(type, env[name], v)
  <1> DEFINE text == env[name]
  <1>0. IsText(text)
    BY Zenon
  <1> HIDE DEF text
  <1>1. CASE type = "string"
    <2>1. env_as(type, name) = IF Missing(text) THEN ConfigError ELSE Value(text)
      BY Zenon, <1>1 DEF env_as, require_env, text
    <2>2. ~Missing(text) => StandsFor("string", text, text)
      BY Zenon DEF StandsFor, Wellformed
    <2> QED BY Zenon, <1>1, <2>1, <2>2 DEF text
  <1>2. CASE type = "int"
    <2>1. env_as(type, name) = IF Missing(text) THEN ConfigError ELSE stoi(text)
      BY Zenon, <1>2 DEF env_as, env_as_int, text
    <2> QED BY Zenon, <1>0, <1>2, <2>1, Conversions DEF Converts, text
  <1>3. CASE type = "uint16_t"
    <2>1. env_as(type, name) = Among(env_as_int(name), uint16_t)
      BY Zenon, <1>3 DEF env_as, env_as_uint16_t
    <2>2. env_as_int(name) = ConfigError
          \/ \E v : env_as_int(name) = Value(v) /\ StandsFor("int", text, v)
      BY Zenon, <1>0, Conversions DEF env_as_int, Converts, text
    <2>3. \/ env_as(type, name) = ConfigError
          \/ \E v \in uint16_t : env_as_int(name) = Value(v) /\ env_as(type, name) = Value(v)
      <3>1. env_as_int(name) = ConfigError \/ \E v : env_as_int(name) = Value(v)
        BY Zenon, <2>2
      <3> QED BY <2>1, <3>1, AmongOrError
    <2>4. \A v, w : Value(v) = Value(w) => v = w
      BY Zenon DEF Value
    <2>5. \A v \in uint16_t : env_as_int(name) = Value(v) => StandsFor("uint16_t", text, v)
      BY Zenon, <1>0, <2>2, <2>4, ShortInt, ValueOrError
    <2> QED BY Zenon, <1>3, <2>3, <2>5 DEF text
  <1>4. CASE type = "bool"
    <2>1. env_as(type, name)
             = Value(text \in {Text(TRUE, 1, ""), Word("true"), Word("yes"), Word("on")})
      BY Zenon, <1>4 DEF env_as, env_as_bool, text
    <2>2. text \in {Text(TRUE, 1, ""), Word("true"), Word("yes"), Word("on")} => ~Missing(text)
      <3>1. /\ Text(TRUE, 1, "").numeric /\ ~NotSet.numeric /\ ~Empty.numeric
            /\ NotSet.rest = "unset" /\ Empty.rest = ""
            /\ \A s : Word(s).rest = s
        BY Zenon DEF Text, Word, NotSet, Empty
      <3> QED BY Zenon, <3>1 DEF Missing
    <2>3. StandsFor("bool", text, text \in {Text(TRUE, 1, ""), Word("true"), Word("yes"), Word("on")})
      BY Zenon, <2>2, Flag
    <2> QED BY Zenon, <1>4, <2>1, <2>3 DEF text
  <1>5. CASE type = "milliseconds"
    <2>1. env_as(type, name) = IF Missing(text) THEN ConfigError ELSE parse_duration(text)
      BY Zenon, <1>5 DEF env_as, env_as_milliseconds, text
    <2> QED BY Zenon, <1>0, <1>5, <2>1, Conversions DEF Converts, text
  <1> QED BY Zenon, <1>1, <1>2, <1>3, <1>4, <1>5

\* The validator notes an error for this read.
NotedRead(r) == r.how = "validator" /\ ~Wellformed(r.type, env[r.name])

\* One more read leaves what the earlier ones are.
LEMMA OneMoreRead ==
    ASSUME SettingsInv, NEW r, reads' = Append(reads, r), env' = env
    PROVE  /\ Len(reads) \in Nat /\ DOMAIN reads = 1..Len(reads)
           /\ reads' \in Seq(Range(reads'))
           /\ DOMAIN reads' = 1..(Len(reads) + 1) /\ reads'[Len(reads) + 1] = r
           /\ \A k \in DOMAIN reads : reads'[k] = reads[k]
           /\ NotedRead(r) => Unread' = Unread \cup {Len(reads) + 1}
           /\ ~NotedRead(r) => Unread' = Unread
           /\ \A k \in DOMAIN reads : Sound(k)'
  <1> DEFINE S == Range(reads) \cup {r}
             n == Len(reads)
  <1>1. reads \in Seq(S) /\ r \in S
    BY DEF SettingsInv
  <1>2. /\ n \in Nat /\ DOMAIN reads = 1..n
        /\ reads' \in Seq(S) /\ Range(reads') = S
        /\ DOMAIN reads' = 1..(n + 1) /\ reads'[n + 1] = r
        /\ \A k \in 1..n : reads'[k] = reads[k]
    BY <1>1, AppendElements
  <1> HIDE DEF S, n
  <1>3. \A k : k \in DOMAIN reads' <=> k \in DOMAIN reads \/ k = n + 1
    BY <1>2
  <1>4. n + 1 \notin DOMAIN reads
    BY <1>2
  <1>5. \A k : k \in Unread' <=> k \in Unread \/ (k = n + 1 /\ NotedRead(r))
    BY Zenon, <1>2, <1>3, <1>4 DEF Unread, NotedRead
  <1>6. /\ NotedRead(r) => Unread' = Unread \cup {n + 1}
        /\ ~NotedRead(r) => Unread' = Unread
    BY Zenon, <1>4, <1>5 DEF Unread
  <1>7. ASSUME NEW k \in DOMAIN reads
        PROVE  Sound(k)'
    <2>1. Sound(k) /\ reads'[k] = reads[k] /\ (k \in Unread => k \in Unread')
      BY Zenon, <1>2, <1>5, <1>7 DEF SettingsInv
    <2> QED BY Zenon, <2>1 DEF Sound, Entered
  <1> QED BY Zenon, <1>2, <1>6, <1>7 DEF n, S

\* A setting that is read as its text says is kept, and no error is noted.
LEMMA KeepSound ==
    ASSUME SettingsInv, NEW how, NEW type, NEW name, NEW v,
           Keep(how, type, name, v), UNCHANGED <<env, errors_, startup>>,
           how = "validator" => Wellformed(type, env[name]),
           \/ how = "env_or" /\ Missing(env[name]) /\ v = DefaultVal
           \/ StandsFor(type, env[name], v)
    PROVE  SettingsInv'
  <1> DEFINE r == [how |-> how, type |-> type, name |-> name, value |-> v]
  <1>1. /\ reads' = Append(reads, r) /\ ~NotedRead(r)
        /\ Entered(r) \/ StandsFor(r.type, env[r.name], r.value)
    BY Zenon DEF Keep, NotedRead, Entered
  <1> HIDE DEF r
  <1>2. /\ Len(reads) \in Nat /\ DOMAIN reads = 1..Len(reads)
        /\ reads' \in Seq(Range(reads'))
        /\ DOMAIN reads' = 1..(Len(reads) + 1) /\ reads'[Len(reads) + 1] = r
        /\ \A k \in DOMAIN reads : reads'[k] = reads[k]
        /\ Unread' = Unread
        /\ \A k \in DOMAIN reads : Sound(k)'
    BY Zenon, <1>1, OneMoreRead
  <1>3. \A k \in DOMAIN reads' : k \in DOMAIN reads \/ k = Len(reads) + 1
    BY <1>2
  <1>4. \A k : k = Len(reads) + 1 => Sound(k)'
    BY Zenon, <1>1, <1>2 DEF Sound, Entered
  <1>5. \A k \in DOMAIN reads' : Sound(k)'
    BY Zenon, <1>2, <1>3, <1>4
  <1>6. PICK place : Places(place)
    BY Zenon DEF SettingsInv
  <1>7. DOMAIN reads \subseteq DOMAIN reads'
    BY <1>2
  <1>8. place \in [DOMAIN errors_ -> DOMAIN reads'] /\ \A i \in DOMAIN errors_ : place[i] \in DOMAIN reads
    BY Zenon, <1>6, <1>7 DEF Places
  <1>9. Places(place)'
    BY Zenon, <1>2, <1>6, <1>8 DEF Places
  <1> QED BY Zenon, <1>2, <1>5, <1>9 DEF SettingsInv

\* An error is noted after those before it.
LEMMA KeepNoted ==
    ASSUME SettingsInv, NEW type, NEW name \in Names, NEW v,
           Keep("validator", type, name, v), errors_' = Append(errors_, name),
           UNCHANGED <<env, startup>>, startup = "reading", ~Wellformed(type, env[name])
    PROVE  SettingsInv'
  <1> DEFINE r == [how |-> "validator", type |-> type, name |-> name, value |-> v]
             n == Len(reads)
             m == Len(errors_)
  <1>1. reads' = Append(reads, r) /\ NotedRead(r) /\ r.name = name
    BY Zenon DEF Keep, NotedRead
  <1> HIDE DEF r
  <1>2. /\ n \in Nat /\ DOMAIN reads = 1..n
        /\ reads' \in Seq(Range(reads'))
        /\ DOMAIN reads' = 1..(n + 1) /\ reads'[n + 1] = r
        /\ \A k \in DOMAIN reads : reads'[k] = reads[k]
        /\ Unread' = Unread \cup {n + 1}
        /\ \A k \in DOMAIN reads : Sound(k)'
    BY Zenon, <1>1, OneMoreRead
  <1>3. \A k \in DOMAIN reads' : k \in DOMAIN reads \/ k = n + 1
    BY <1>2
  <1>4. \A k : k = n + 1 => Sound(k)'
    BY Zenon, <1>2 DEF Sound
  <1>5. \A k \in DOMAIN reads' : Sound(k)'
    BY Zenon, <1>2, <1>3, <1>4
  <1>6. PICK place : Places(place)
    BY Zenon DEF SettingsInv
  <1>7. /\ errors_ \in Seq(Names) /\ errors_' \in Seq(Names)
        /\ m \in Nat /\ DOMAIN errors_ = 1..m /\ DOMAIN errors_' = 1..(m + 1)
        /\ \A i \in 1..m : errors_'[i] = errors_[i]
        /\ errors_'[m + 1] = name
    BY AppendElements DEF SettingsInv
  <1> HIDE DEF n, m
  <1>8. PICK longer : longer = [i \in DOMAIN errors_' |-> IF i = m + 1 THEN n + 1 ELSE place[i]]
    BY Zenon
  <1>9. /\ \A i \in 1..m : longer[i] = place[i] /\ place[i] \in 1..n
        /\ longer[m + 1] = n + 1
    <2>1. /\ \A i \in 1..m : i \in 1..(m + 1) /\ i # m + 1
          /\ m + 1 \in 1..(m + 1)
      BY <1>7
    <2>2. \A i \in 1..(m + 1) : longer[i] = IF i = m + 1 THEN n + 1 ELSE place[i]
      BY Zenon, <1>7, <1>8
    <2>3. \A i \in 1..m : place[i] \in 1..n
      BY Zenon, <1>2, <1>6, <1>7 DEF Places
    <2> QED BY Zenon, <2>1, <2>2, <2>3
  <1>10. longer \in [DOMAIN errors_' -> DOMAIN reads'] /\ DOMAIN longer = 1..(m + 1)
    BY <1>8, <1>2, <1>6, <1>7 DEF Places
  <1>11. \A i, j \in DOMAIN errors_' : i < j => longer[i] < longer[j]
    <2>1. ASSUME NEW i \in 1..m + 1, NEW j \in 1..m + 1, i < j
          PROVE  longer[i] < longer[j]
      <3>1. i \in 1..m
        BY <1>7, <2>1
      <3>2. CASE j \in 1..m
        BY Zenon, <1>6, <1>7, <1>9, <2>1, <3>1, <3>2 DEF Places
      <3>3. CASE j = m + 1
        <4>1. place[i] \in 1..n /\ longer[i] = place[i] /\ longer[j] = n + 1
          BY Zenon, <1>9, <3>1, <3>3
        <4> QED BY <1>2, <4>1
      <3> QED BY <1>7, <3>2, <3>3
    <2> QED BY Zenon, <1>7, <2>1
  <1>12. Range(longer) = Unread'
    <2>1. Range(place) = {place[i] : i \in 1..m}
      BY Zenon, <1>6, <1>7 DEF Places, Range
    <2>2. Range(longer) = {longer[i] : i \in 1..m + 1}
      BY Zenon, <1>10 DEF Range
    <2>3. Range(longer) = Range(place) \cup {n + 1}
      BY <1>7, <1>9, <2>1, <2>2
    <2> QED BY Zenon, <1>2, <1>6, <2>3 DEF Places
  <1>13. ASSUME NEW i \in DOMAIN errors_'
         PROVE  errors_'[i] = reads'[longer[i]].name
    <2>1. CASE i \in 1..m
      <3>1. errors_[i] = reads[place[i]].name
        BY Zenon, <1>6, <1>7, <2>1 DEF Places
      <3> QED BY Zenon, <1>2, <1>7, <1>9, <2>1, <3>1
    <2>2. CASE i = m + 1
      BY Zenon, <1>1, <1>2, <1>7, <1>9, <2>2
    <2> QED BY <1>7, <2>1, <2>2
  <1>14. Places(longer)'
    BY Zenon, <1>10, <1>11, <1>12, <1>13 DEF Places
  <1> QED BY Zenon, <1>2, <1>5, <1>7, <1>14 DEF SettingsInv

\* No number begins a missing text.
LEMMA MissingUnreadable ==
    ASSUME NEW text, IsText(text), Missing(text)
    PROVE  /\ ~Wellformed("string", text) /\ ~Wellformed("int", text)
           /\ ~Wellformed("milliseconds", text)
  <1>1. ~text.numeric
    <2>1. NotSet.numeric = FALSE /\ Empty.numeric = FALSE
      BY Zenon DEF NotSet, Empty, Word, Text
    <2> QED BY Zenon, <2>1 DEF Missing
  <1> QED BY Zenon, <1>1 DEF Wellformed, IsText

\* The three conversions of the validator fail exactly on the texts that are not of
\* their type.
LEMMA ValidatorReads ==
    ASSUME NEW name \in Names, \A n \in Names : IsText(env[n])
    PROVE  /\ Converts(require_env(name), "string", env[name])
           /\ Converts(env_as_int(name), "int", env[name])
           /\ Converts(env_as_milliseconds(name), "milliseconds", env[name])
  <1>0. IsText(env[name])
    BY Zenon
  <1>1. ~Missing(env[name]) => StandsFor("string", env[name], env[name])
    BY Zenon DEF StandsFor, Wellformed
  <1>2. Wellformed("string", env[name]) <=> ~Missing(env[name])
    BY Zenon DEF Wellformed
  <1>3. Converts(require_env(name), "string", env[name])
    BY Zenon, <1>1, <1>2 DEF Converts, require_env
  <1>4. CASE Missing(env[name])
    BY Zenon, <1>0, <1>3, <1>4, MissingUnreadable
    DEF Converts, env_as_int, env_as_milliseconds
  <1>5. CASE ~Missing(env[name])
    BY Zenon, <1>0, <1>3, <1>5, Conversions DEF env_as_int, env_as_milliseconds
  <1> QED BY Zenon, <1>4, <1>5

\* A function that throws ends the startup, one that returns has read its setting.
LEMMA ObtainInv ==
    ASSUME SettingsInv, NEW how, how # "validator", NEW type, NEW name, NEW given,
           Obtain(how, type, name, given),
           \/ given = ConfigError
           \/ how = "env_or" /\ Missing(env[name]) /\ given = Value(DefaultVal)
           \/ \E v : given = Value(v) /\ StandsFor(type, env[name], v)
    PROVE  SettingsInv'
  <1>1. CASE given = ConfigError
    <2>1. UNCHANGED <<env, errors_, reads>> /\ startup' = "failed"
      BY Zenon, <1>1 DEF Obtain
    <2>2. startup' # "passed"
      BY Zenon, <2>1
    <2>3. Unread' = Unread
      BY Zenon, <2>1 DEF Unread
    <2>4. \A k \in DOMAIN reads' : Sound(k)'
      BY Zenon, <2>1, <2>3 DEF SettingsInv, Sound, Entered
    <2>5. \E place : Places(place)'
      BY Zenon, <2>1, <2>3 DEF SettingsInv, Places
    <2> QED BY Zenon, <2>1, <2>2, <2>4, <2>5 DEF SettingsInv
  <1>2. CASE given # ConfigError
    <2>1. /\ Keep(how, type, name, given[1]) /\ UNCHANGED <<env, errors_, startup>>
      BY Zenon, <1>2 DEF Obtain
    <2>2. \/ how = "env_or" /\ Missing(env[name]) /\ given[1] = DefaultVal
          \/ StandsFor(type, env[name], given[1])
      BY Zenon, <1>2, ValueOrError
    <2> QED BY Zenon, <2>1, <2>2, KeepSound
  <1> QED BY Zenon, <1>1, <1>2

\* The validator notes an error and hands out a default, or the setting.
LEMMA NoteInv ==
    ASSUME SettingsInv, NEW type, NEW name \in Names, NEW given, NEW otherwise,
           Note(type, name, given, otherwise), Converts(given, type, env[name])
    PROVE  SettingsInv'
  <1>1. CASE Wellformed(type, env[name])
    <2>1. given # ConfigError /\ StandsFor(type, env[name], given[1])
      BY Zenon, <1>1, ValueOrError DEF Converts
    <2>2. Keep("validator", type, name, given[1]) /\ UNCHANGED <<env, errors_, startup>>
      BY Zenon, <2>1 DEF Note
    <2> QED BY Zenon, <1>1, <2>1, <2>2, KeepSound
  <1>2. CASE ~Wellformed(type, env[name])
    <2>1. /\ Keep("validator", type, name, otherwise) /\ errors_' = Append(errors_, name)
          /\ UNCHANGED <<env, startup>> /\ startup = "reading"
      BY Zenon, <1>2 DEF Converts, Note, Reading
    <2> QED BY Zenon, <1>2, <2>1, KeepNoted
  <1> QED BY Zenon, <1>1, <1>2

\* Every step of a startup preserves the invariant.
LEMMA SettingsInvNext == SettingsInv /\ [SettingsNext]_settings_vars => SettingsInv'
  <1> SUFFICES ASSUME SettingsInv, [SettingsNext]_settings_vars
               PROVE  SettingsInv'
    BY Zenon
  <1>0. \A n \in Names : IsText(env[n])
    BY Zenon DEF SettingsInv
  <1>1. ASSUME NEW name \in Names, NEW type \in {"string", "int", "uint16_t", "bool", "milliseconds"},
               EnvAs(type, name)
        PROVE  SettingsInv'
    BY Zenon, <1>0, <1>1, EnvAsStandsFor, ObtainInv DEF EnvAs
  <1>2. ASSUME NEW name \in Names, NEW type \in {"int", "uint16_t"},
               Validated(type, name)
        PROVE  SettingsInv'
    <2> DEFINE given == require_validated(type, name, Positive)
    <2>1. \/ env_as(type, name) = ConfigError
          \/ \E v : env_as(type, name) = Value(v) /\ StandsFor(type, env[name], v)
      BY <1>0, EnvAsStandsFor
    <2>2. given = ConfigError \/ \E v : env_as(type, name) = Value(v) /\ given = Value(v)
      BY Zenon, <2>1, AmongOrError DEF require_validated
    <2>3. given = ConfigError \/ \E v : given = Value(v) /\ StandsFor(type, env[name], v)
      BY Zenon, <2>1, <2>2, ValueOrError
    <2> HIDE DEF given
    <2>4. Obtain("validated", type, name, given)
      BY Zenon, <1>2 DEF Validated, given
    <2> QED BY Zenon, <2>3, <2>4, ObtainInv
  <1>3. ASSUME NEW name \in Names, NEW type \in {"int", "uint16_t", "milliseconds"},
               EnvOr(type, name)
        PROVE  SettingsInv'
    <2> DEFINE given == env_or(type, name, DefaultVal)
    <2>1. \/ env_as(type, name) = ConfigError
          \/ \E v : env_as(type, name) = Value(v) /\ StandsFor(type, env[name], v)
      BY <1>0, EnvAsStandsFor
    <2>2. \/ given = ConfigError
          \/ Missing(env[name]) /\ given = Value(DefaultVal)
          \/ \E v : given = Value(v) /\ StandsFor(type, env[name], v)
      BY Zenon, <2>1 DEF env_or
    <2> HIDE DEF given
    <2>3. Obtain("env_or", type, name, given)
      BY Zenon, <1>3 DEF EnvOr, given
    <2> QED BY Zenon, <2>2, <2>3, ObtainInv
  <1>4. ASSUME NEW name \in Names, EnvDurationMs(name)
        PROVE  SettingsInv'
    <2> DEFINE given == env_duration_ms(name, DefaultVal)
    <2>1. IsText(env[name])
      BY Zenon, <1>0
    <2>2. \/ stoll(env[name]) = ConfigError
          \/ stoll(env[name]) = Value(env[name].number) /\ Wellformed("count", env[name])
      BY Zenon, <2>1 DEF stoll, Leading, Wellformed, IsText
    <2>3. \/ given = ConfigError
          \/ Missing(env[name]) /\ given = Value(DefaultVal)
          \/ \E v : given = Value(v) /\ StandsFor("count", env[name], v)
      BY Zenon, <2>2, NumberOfText DEF env_duration_ms
    <2> HIDE DEF given
    <2>4. Obtain("env_or", "count", name, given)
      BY Zenon, <1>4 DEF EnvDurationMs, given
    <2> QED BY Zenon, <2>3, <2>4, ObtainInv
  <1>5. ASSUME NEW name \in Names, require(name) \/ require_int(name) \/ require_duration(name)
        PROVE  SettingsInv'
    BY Zenon, <1>0, <1>5, ValidatorReads, NoteInv DEF require, require_int, require_duration
  <1>6. ASSUME UNCHANGED <<env, errors_, reads>>, startup' = "passed" => errors_ = <<>>
        PROVE  SettingsInv'
    <2>1. Unread' = Unread
      BY Zenon, <1>6 DEF Unread
    <2>2. \A k \in DOMAIN reads' : Sound(k)'
      BY Zenon, <1>6, <2>1 DEF SettingsInv, Sound, Entered
    <2>3. \E place : Places(place)'
      BY Zenon, <1>6, <2>1 DEF SettingsInv, Places
    <2> QED BY Zenon, <1>6, <2>2, <2>3 DEF SettingsInv
  <1>7. CASE check
    <2>1. startup' = "passed" => errors_ = <<>>
      BY Zenon, <1>7 DEF check
    <2> QED BY Zenon, <1>6, <1>7, <2>1 DEF check
  <1>8. CASE Started \/ UNCHANGED settings_vars
    BY Zenon, <1>6, <1>8 DEF Started, settings_vars, SettingsInv
  <1> QED BY Zenon, <1>1, <1>2, <1>3, <1>4, <1>5, <1>7, <1>8 DEF SettingsNext

\* For every width of the integers, all texts and any number of reads: a program that
\* check() lets start runs on what its variables say, and the validator's errors are
\* those of the settings it could not read, in their order.
THEOREM AlwaysStartedOnItsSettings == SettingsSpec => []StartedOnItsSettings
  <1>1. SettingsInit => SettingsInv
    <2> SUFFICES ASSUME SettingsInit
                 PROVE  SettingsInv
      BY Zenon
    <2>1. errors_ = <<>> /\ reads = <<>> /\ startup # "passed"
      BY Zenon DEF SettingsInit
    <2>2. IsText(NotSet) /\ IsText(Empty)
      BY DEF NotSet, Empty, Word, Text, IsText
    <2>3. \A n \in Names : IsText(env[n])
      BY Zenon, <2>2, SettingsAssumption DEF SettingsInit, IsText
    <2>4. /\ DOMAIN errors_ = {} /\ DOMAIN reads = {} /\ errors_ \in Seq(Names)
          /\ reads \in Seq(Range(reads))
      BY <2>1
    <2>5. Unread = {} /\ Range(<<>>) = {} /\ <<>> \in [{} -> {}]
      BY <2>4 DEF Unread, Range
    <2>6. Places(<<>>)
      BY Zenon, <2>4, <2>5 DEF Places
    <2> QED BY Zenon, <2>1, <2>3, <2>4, <2>6 DEF SettingsInv
  <1>2. SettingsInv => StartedOnItsSettings
    <2> SUFFICES ASSUME SettingsInv
                 PROVE  StartedOnItsSettings
      BY Zenon
    <2>1. PICK place : Places(place)
      BY Zenon DEF SettingsInv
    <2>2. ASSUME startup = "passed"
          PROVE  Unread = {}
      <3>1. DOMAIN errors_ = {}
        BY <2>2 DEF SettingsInv
      <3> QED BY Zenon, <2>1, <3>1 DEF Places, Range
    <2>3. ASSUME startup = "passed", NEW r \in Range(reads)
          PROVE  Entered(r) \/ StandsFor(r.type, env[r.name], r.value)
      <3>1. PICK k \in DOMAIN reads : r = reads[k]
        BY Zenon DEF Range
      <3> QED BY Zenon, <2>2, <2>3, <3>1 DEF SettingsInv, Sound
    <2> QED BY Zenon, <2>1, <2>3 DEF StartedOnItsSettings, Places, Entered
  <1> QED BY <1>1, <1>2, SettingsInvNext, PTL DEF SettingsSpec

-----------------------------------------------------------------------------
(* Responses *)

\* An answer's fields
IsAnswer(a) == a = [status |-> a.status, type |-> a.type, encoding |-> a.encoding,
                    length |-> a.length, text |-> a.text, zipped |-> a.zipped]

\* The middleware that waits for the answer, when w of them do, and the one that
\* does not or not any more
Waits(r, w, m) == \E i \in DOMAIN r.stack : i <= w /\ r.stack[i] = m
Passed(r, w, m) == \E i \in DOMAIN r.stack : i > w /\ r.stack[i] = m

\* The type in the hands of the negotiating middleware that has called next(req)
TypeChosen(r, w, type) ==
    /\ type # None => type \in Range(Supported) /\ Acceptable(r.accept, type)
    /\ Waits(r, w, "negotiation") => type # None

\* On its way down a request has met no handler, and one line was logged for it
\* if it has come past the logging middleware.
GoingDown(r, w, type, log, run) ==
    /\ ~run
    /\ TypeChosen(r, w, type)
    /\ log = IF Waits(r, w, "logging") THEN <<0>> ELSE <<>>

Coded(r, w, a) ==
    \/ a.encoding = "identity" /\ a.zipped = 0
    \/ a.encoding = "gzip" /\ a.zipped = 1 /\ a.length = 1 /\ ~Waits(r, w, "compression")

ErrorKept(r, run, a) == r.handler \in Errors /\ run /\ a.status # 0 => a.text.status = a.status

Labelled(r, w, run, a) ==
    r.handler \in {"ok", "created"} /\ run /\ a.status # 0 =>
        \/ a.type = None /\ ~Passed(r, w, "negotiation")
        \/ a.type \in Range(Supported) /\ Acceptable(r.accept, a.type)

HandlerCalled(r, w, type, run, a) ==
    /\ run => ("negotiation" \in Range(r.stack) => type # None)
    /\ ~run => /\ Passed(r, w, "negotiation")
               /\ NothingMatches(r.accept)
               /\ a.status # 0 => a.status = 406

Ready(r, run, rep, a) ==
    r.handler = "ready" /\ run /\ a.status # 0 =>
        (a.status = 200 <=> Range(rep.checks) \subseteq {"up"})

Logged(r, w, log, a) ==
    /\ Waits(r, w, "logging") => log = <<0>>
    /\ ~Waits(r, w, "logging") => (Len(log) = 2 => log[2] = a.status \/ a.status = 0)

ComingBack(r, w, type, log, run, rep, a) ==
    /\ TypeChosen(r, w, type)
    /\ IsAnswer(a)
    /\ Coded(r, w, a)
    /\ ErrorKept(r, run, a)
    /\ Labelled(r, w, run, a)
    /\ HandlerCalled(r, w, type, run, a)
    /\ Ready(r, run, rep, a)
    /\ Logged(r, w, log, a)

ResponsesInv ==
    \/ stage = "idle" /\ waiting = 0 /\ content_type = None /\ lines = <<>> /\ ~ran
    \/ /\ stage \in {"down", "back"}
       /\ request \in Requests
       /\ waiting \in 0..Len(request.stack)
       /\ stage = "down" => GoingDown(request, waiting, content_type, lines, ran)
       /\ stage = "back" => ComingBack(request, waiting, content_type, lines, ran, report, answer)

\* negotiate_content_type() returns a supported type that no type of a higher q could
\* replace, or nothing when nothing matches.
LEMMA NegotiatesAcceptable ==
    ASSUME NEW accept \in Accepts, NEW type \in negotiate_content_type(accept)
    PROVE  /\ type = None => NothingMatches(accept)
           /\ type # None => type \in Range(Supported) /\ Acceptable(accept, type)
<1>1. CASE accept = <<>> /\ Supported = <<>>
  <2>1. type = None
    BY Zenon, <1>1 DEF negotiate_content_type
  <2> QED BY <1>1, <2>1 DEF NothingMatches
<1>2. CASE accept # <<>> /\ Matching(accept) = {}
  <2>1. type = None
    BY Zenon, <1>2 DEF negotiate_content_type
  <2>2. \A i \in DOMAIN accept, t \in Range(Supported) : ~Matches(accept[i].range, t)
    BY Zenon, <1>2 DEF Matching, Range
  <2> QED BY Zenon, <1>2, <2>1, <2>2 DEF NothingMatches
<1>3. CASE accept = <<>> /\ Supported # <<>>
  <2>1. type = Supported[1]
    BY Zenon, <1>3 DEF negotiate_content_type
  <2>2. 1 \in DOMAIN Supported
    BY <1>3, ResponsesAssumption
  <2>3. type \in Range(Supported) /\ type # None
    BY Zenon, <2>1, <2>2, ResponsesAssumption DEF Range, None
  <2> QED BY Zenon, <1>3, <2>1, <2>3 DEF Acceptable
<1>4. CASE accept # <<>> /\ Matching(accept) # {}
  <2>1. PICK k \in DOMAIN Supported : /\ type = Supported[k]
                                      /\ \E i \in FirstByQ(accept) : FirstMatch(accept[i].range, k)
    BY Zenon, <1>4 DEF negotiate_content_type
  <2>2. PICK i \in FirstByQ(accept) : FirstMatch(accept[i].range, k)
    BY Zenon, <2>1
  <2>3. type \in Range(Supported) /\ type # None
    BY Zenon, <2>1, ResponsesAssumption DEF Range, None
  <2>4. i \in DOMAIN accept /\ Matches(accept[i].range, type)
    BY Zenon, <2>1, <2>2 DEF FirstByQ, Matching, FirstMatch
  <2>5. ASSUME NEW j \in DOMAIN accept, accept[j].q > accept[i].q, NEW n \in DOMAIN Supported,
               Matches(accept[j].range, Supported[n])
        PROVE  FALSE
    <3>1. accept[j].q <= accept[i].q
      BY Zenon, <2>2, <2>5 DEF FirstByQ, Matching
    <3>2. accept[j].q \in Int /\ accept[i].q \in Int
      BY Zenon, <2>4, ResponsesAssumption
    <3> QED BY <2>5, <3>1, <3>2
  <2> QED BY Zenon, <2>3, <2>4, <2>5 DEF Acceptable
<1> QED BY Zenon, <1>1, <1>2, <1>3, <1>4

\* A request's stack holds each middleware once at most, and no other.
LEMMA StackOnce ==
    ASSUME NEW r \in Requests
    PROVE  /\ r.accept \in Accepts
           /\ r.stack \in Seq({"negotiation", "compression", "logging"})
           /\ \A i, j \in DOMAIN r.stack : r.stack[i] = r.stack[j] => i = j
<1>1. r.stack \in Stacks /\ r.accept \in Accepts
  BY Zenon DEF Requests
<1> QED BY Zenon, <1>1, ResponsesAssumption

\* The middleware that answers stops waiting, and the others that wait go on.
LEMMA OneLess ==
    ASSUME NEW r \in Requests, NEW w \in 1..Len(r.stack)
    PROVE  /\ w \in DOMAIN r.stack
           /\ w - 1 \in 0..Len(r.stack)
           /\ Waits(r, w, r.stack[w])
           /\ ~Waits(r, w - 1, r.stack[w])
           /\ Passed(r, w - 1, r.stack[w])
           /\ \A m : Waits(r, w - 1, m) => Waits(r, w, m)
           /\ \A m : Passed(r, w, m) => Passed(r, w - 1, m)
           /\ \A m : m # r.stack[w] /\ Passed(r, w - 1, m) => Passed(r, w, m)
<1>1. DOMAIN r.stack = 1..Len(r.stack) /\ Len(r.stack) \in Nat
  BY StackOnce
<1>2. w \in DOMAIN r.stack /\ w \in Int /\ w - 1 \in 0..Len(r.stack)
  BY <1>1
<1>3. Waits(r, w, r.stack[w]) /\ Passed(r, w - 1, r.stack[w])
  BY <1>2 DEF Waits, Passed
<1>4. \A i \in DOMAIN r.stack : i \in Int
  BY <1>1
<1>5. ~Waits(r, w - 1, r.stack[w])
  BY <1>2, <1>4, StackOnce DEF Waits
<1>6. ASSUME NEW m PROVE /\ Waits(r, w - 1, m) => Waits(r, w, m)
                         /\ Passed(r, w, m) => Passed(r, w - 1, m)
                         /\ m # r.stack[w] /\ Passed(r, w - 1, m) => Passed(r, w, m)
  <2>1. \A i \in DOMAIN r.stack : (i <= w - 1 => i <= w) /\ (i > w => i > w - 1) /\ (i > w - 1 /\ i # w => i > w)
    BY <1>2, <1>4
  <2> QED BY Zenon, <2>1 DEF Waits, Passed
<1> QED BY Zenon, <1>2, <1>3, <1>5, <1>6

\* The middleware that the request reaches is the next one to wait.
LEMMA OneMore ==
    ASSUME NEW r \in Requests, NEW w \in 0..Len(r.stack), w < Len(r.stack)
    PROVE  /\ w + 1 \in 0..Len(r.stack)
           /\ ~Waits(r, w, r.stack[w + 1])
           /\ Waits(r, w + 1, r.stack[w + 1])
           /\ Passed(r, w, r.stack[w + 1])
           /\ \A m : m # r.stack[w + 1] => (Waits(r, w + 1, m) <=> Waits(r, w, m))
<1>1. DOMAIN r.stack = 1..Len(r.stack) /\ Len(r.stack) \in Nat
  BY StackOnce
<1>2. w + 1 \in 1..Len(r.stack) /\ w + 1 \in 0..Len(r.stack) /\ w = (w + 1) - 1
  BY <1>1
<1>3. /\ Waits(r, w + 1, r.stack[w + 1])
      /\ ~Waits(r, w, r.stack[w + 1])
      /\ Passed(r, w, r.stack[w + 1])
      /\ \A m : Waits(r, w, m) => Waits(r, w + 1, m)
  BY <1>2, OneLess
<1>4. ASSUME NEW m, m # r.stack[w + 1], Waits(r, w + 1, m)
      PROVE  Waits(r, w, m)
  <2>1. PICK i \in DOMAIN r.stack : i <= w + 1 /\ r.stack[i] = m
    BY Zenon, <1>4 DEF Waits
  <2>2. i # w + 1
    BY Zenon, <1>4, <2>1
  <2>3. i <= w
    BY <1>1, <2>1, <2>2
  <2> QED BY Zenon, <2>1, <2>3 DEF Waits
<1> QED BY Zenon, <1>2, <1>3, <1>4

\* Nothing is acceptable where nothing matches.
LEMMA AcceptableMatches ==
    ASSUME NEW accept, NEW type \in Range(Supported), Acceptable(accept, type)
    PROVE  ~NothingMatches(accept)
<1>1. Supported # <<>>
  <2>1. PICK k \in DOMAIN Supported : TRUE
    BY Zenon DEF Range
  <2> QED BY <2>1
<1> QED BY Zenon, <1>1 DEF Acceptable, NothingMatches

\* The fields of a response as it is made
LEMMA ResponseFields ==
    ASSUME NEW status, NEW type, NEW text, NEW a, a = Response(status, type, text)
    PROVE  /\ IsAnswer(a) /\ a.status = status /\ a.type = type /\ a.text = text
           /\ a.encoding = "identity" /\ a.zipped = 0
<1>1. a = [status |-> status, type |-> type, encoding |-> "identity", length |-> -1,
           text |-> text, zipped |-> 0]
  BY Zenon DEF Response
<1> QED BY <1>1 DEF IsAnswer

\* The fields of an answer that the negotiated type is given to
LEMMA TypedFields ==
    ASSUME NEW a, IsAnswer(a), NEW n, n = Typed(a)
    PROVE  /\ IsAnswer(n) /\ n.status = a.status /\ n.encoding = a.encoding
           /\ n.zipped = a.zipped /\ n.length = a.length /\ n.text = a.text
           /\ n.type = (IF a.status # 0 /\ a.type = None THEN content_type ELSE a.type)
<1>1. CASE a.status # 0 /\ a.type = None
  <2>1. n = [a EXCEPT !.type = content_type]
    BY Zenon, <1>1 DEF Typed
  <2>2. n = [status |-> a.status, type |-> content_type, encoding |-> a.encoding,
             length |-> a.length, text |-> a.text, zipped |-> a.zipped]
    BY Zenon, <2>1 DEF IsAnswer
  <2> QED BY <1>1, <2>2 DEF IsAnswer
<1>2. CASE ~(a.status # 0 /\ a.type = None)
  <2>1. n = a
    BY Zenon, <1>2 DEF Typed
  <2> QED BY Zenon, <1>2, <2>1
<1> QED BY Zenon, <1>1, <1>2

\* The fields of what compression_middleware() answers
LEMMA CompressedFields ==
    ASSUME NEW a, IsAnswer(a), NEW n, n = Compressed(a)
    PROVE  /\ IsAnswer(n)
           /\ \/ n = a
              \/ n.status = 0 /\ n.encoding = "identity" /\ n.zipped = 0
              \/ /\ n.status = a.status /\ n.type = a.type /\ n.text = a.text
                 /\ n.encoding = "gzip" /\ n.zipped = a.zipped + 1 /\ n.length = a.zipped + 1
<1>1. CASE a.status = 0 \/ request.gzip = "unwanted" \/ a.text = NoBody
  BY Zenon, <1>1 DEF Compressed
<1>2. CASE ~(a.status = 0 \/ request.gzip = "unwanted" \/ a.text = NoBody) /\ request.gzip = "fails"
  <2>1. n = Response(0, None, NoBody)
    BY Zenon, <1>2 DEF Compressed, NoAnswer
  <2> QED BY <2>1, ResponseFields
<1>3. CASE ~(a.status = 0 \/ request.gzip = "unwanted" \/ a.text = NoBody) /\ request.gzip # "fails"
  <2>1. n = [a EXCEPT !.zipped = @ + 1, !.encoding = "gzip", !.length = a.zipped + 1]
    BY Zenon, <1>3 DEF Compressed
  <2>2. n = [status |-> a.status, type |-> a.type, encoding |-> "gzip", length |-> a.zipped + 1,
             text |-> a.text, zipped |-> a.zipped + 1]
    BY Zenon, <2>1 DEF IsAnswer
  <2> QED BY <2>2 DEF IsAnswer
<1> QED BY Zenon, <1>1, <1>2, <1>3

\* An answer that passes a middleware and keeps its status, text and handler keeps what
\* holds of them; the others wait as before.
LEMMA PassesOn ==
    ASSUME NEW r \in Requests, NEW w \in 1..Len(r.stack), NEW type, NEW log, NEW run, NEW rep,
           NEW a, ComingBack(r, w, type, log, run, rep, a),
           NEW n, IsAnswer(n), n.status = 0 \/ (n.status = a.status /\ n.text = a.text)
    PROVE  /\ TypeChosen(r, w - 1, type)
           /\ ErrorKept(r, run, n) /\ HandlerCalled(r, w - 1, type, run, n) /\ Ready(r, run, rep, n)
           /\ r.stack[w] # "logging" => Logged(r, w - 1, log, n)
<1>1. /\ \A m : Waits(r, w - 1, m) => Waits(r, w, m)
      /\ \A m : Passed(r, w, m) => Passed(r, w - 1, m)
  BY Zenon, OneLess
<1>2. TypeChosen(r, w - 1, type)
  BY Zenon, <1>1 DEF ComingBack, TypeChosen
<1>3. ErrorKept(r, run, n)
  BY Zenon DEF ComingBack, ErrorKept
<1>4. HandlerCalled(r, w - 1, type, run, n)
  BY Zenon, <1>1 DEF ComingBack, HandlerCalled
<1>5. Ready(r, run, rep, n)
  BY Zenon DEF ComingBack, Ready
<1>6. ASSUME r.stack[w] # "logging" PROVE Logged(r, w - 1, log, n)
  <2>1. ~Waits(r, w - 1, "logging") => ~Waits(r, w, "logging")
    <3>1. r \in Requests /\ w - 1 \in 0..Len(r.stack) /\ w - 1 < Len(r.stack) /\ (w - 1) + 1 = w
      BY OneLess, StackOnce
    <3> QED BY <1>6, <3>1, OneMore
  <2> QED BY Zenon, <1>1, <2>1 DEF ComingBack, Logged
<1> QED BY Zenon, <1>2, <1>3, <1>4, <1>5, <1>6

\* What the handlers answer is labelled before any middleware has seen it; the ready
\* handler's status is 200 exactly when every check is up.
LEMMA HandledBack ==
    ASSUME NEW r \in Requests, NEW type, NEW log, NEW rep, NEW a, a = Handled(r.handler, rep),
           GoingDown(r, Len(r.stack), type, log, FALSE),
           r.handler = "ready" => \E f \in [checks_ -> Statuses] : rep = run_all(f)
    PROVE  ComingBack(r, Len(r.stack), type, log, TRUE, rep, a)
<1> DEFINE w == Len(r.stack)
<1>1. r.handler \in Handlers
  BY Zenon DEF Requests
<1>2. ~Passed(r, w, "negotiation") /\ ("negotiation" \in Range(r.stack) => Waits(r, w, "negotiation"))
  <2>1. DOMAIN r.stack = 1..w /\ w \in Nat
    BY StackOnce
  <2>2. \A i \in DOMAIN r.stack : ~(i > w) /\ i <= w
    BY <2>1
  <2> QED BY Zenon, <2>2 DEF Passed, Waits, Range
<1> HIDE DEF w
<1>3. TypeChosen(r, w, type) /\ HandlerCalled(r, w, type, TRUE, a)
  BY Zenon, <1>2 DEF GoingDown, TypeChosen, HandlerCalled, w
<1>4. Logged(r, w, log, a)
  <2>1. ~Waits(r, w, "logging") => log = <<>>
    BY Zenon DEF GoingDown, w
  <2>2. log = <<>> => Len(log) # 2
    OBVIOUS
  <2> QED BY Zenon, <2>1, <2>2 DEF GoingDown, Logged, w
<1>5. ASSUME NEW status, NEW t, NEW text, a = Response(status, t, text)
      PROVE  /\ IsAnswer(a) /\ a.status = status /\ a.type = t /\ a.text = text
             /\ Coded(r, w, a)
  <2>1. /\ IsAnswer(a) /\ a.status = status /\ a.type = t /\ a.text = text
        /\ a.encoding = "identity" /\ a.zipped = 0
    BY <1>5, ResponseFields
  <2> QED BY Zenon, <2>1 DEF Coded
<1>6. CASE r.handler \in {"ok", "created", "no_content"}
  <2>1. PICK status, text : a = Response(status, None, text)
    BY <1>6 DEF Handled
  <2>2. r.handler \notin Errors /\ r.handler # "ready"
    BY Zenon, <1>6 DEF Errors, DomainErrors, ApplicationErrors, InfrastructureErrors
  <2> QED BY Zenon, <1>2, <1>3, <1>4, <1>5, <2>1, <2>2 DEF ComingBack, ErrorKept, Labelled, Ready, w
<1>7. CASE r.handler = "live"
  <2>1. a = Response(200, Json, SomeBody)
    BY Zenon, <1>7 DEF Handled
  <2>2. r.handler \notin Errors /\ r.handler \notin {"ok", "created"} /\ r.handler # "ready"
    BY Zenon, <1>7 DEF Errors, DomainErrors, ApplicationErrors, InfrastructureErrors
  <2>3. IsAnswer(a) /\ Coded(r, w, a)
    BY <1>5, <2>1
  <2> QED BY Zenon, <1>3, <1>4, <2>2, <2>3 DEF ComingBack, ErrorKept, Labelled, Ready, w
<1>8. CASE r.handler = "ready"
  <2>1. r.handler \notin Errors /\ r.handler \notin {"ok", "created"}
    BY Zenon, <1>8 DEF Errors, DomainErrors, ApplicationErrors, InfrastructureErrors
  <2> DEFINE S == Range(rep.checks)
  <2>2. a = IF "throws" \in S THEN NoAnswer ELSE Response(ReadyStatus(rep.overall), Json, SomeBody)
    BY Zenon, <1>8 DEF Handled
  <2>3. rep.overall = Worst(S) /\ S \subseteq Statuses
    <3>1. PICK f \in [checks_ -> Statuses] : rep = run_all(f)
      BY Zenon, <1>8
    <3>2. rep = [overall |-> Worst(Range(f)), checks |-> f]
      BY Zenon, <3>1 DEF run_all
    <3>3. rep.checks = f /\ rep.overall = Worst(Range(f))
      BY Zenon, <3>2
    <3>4. Range(f) \subseteq Statuses
      BY Zenon DEF Range
    <3> QED BY Zenon, <3>3, <3>4
  <2> HIDE DEF S
  <2>4. CASE "throws" \in S
    <3>1. a = Response(0, None, NoBody)
      BY Zenon, <2>2, <2>4 DEF NoAnswer
    <3>2. IsAnswer(a) /\ a.status = 0 /\ Coded(r, w, a)
      BY Zenon, <1>5, <3>1
    <3> QED BY Zenon, <1>3, <1>4, <2>1, <3>2 DEF ComingBack, ErrorKept, Labelled, Ready, w
  <2>5. CASE "throws" \notin S
    <3>1. a = Response(ReadyStatus(rep.overall), Json, SomeBody)
      BY Zenon, <2>2, <2>5
    <3>2. Worst(S) = "up" <=> S \subseteq {"up"}
      BY Zenon, <2>3, <2>5 DEF Worst, Statuses
    <3>3. ReadyStatus(rep.overall) = 200 <=> S \subseteq {"up"}
      BY <2>3, <3>2 DEF ReadyStatus
    <3>4. IsAnswer(a) /\ a.status = ReadyStatus(rep.overall) /\ Coded(r, w, a)
      BY Zenon, <1>5, <3>1
    <3>5. Ready(r, TRUE, rep, a)
      BY Zenon, <3>3, <3>4 DEF Ready, S
    <3> QED BY Zenon, <1>3, <1>4, <2>1, <3>4, <3>5 DEF ComingBack, ErrorKept, Labelled, w
  <2> QED BY Zenon, <2>4, <2>5
<1>9. CASE r.handler \in Errors
  <2>1. a = from_problem(ProblemOf(r.handler))
    BY <1>9 DEF Handled, Errors, DomainErrors, ApplicationErrors, InfrastructureErrors
  <2>2. r.handler \notin {"ok", "created", "ready"}
    BY Zenon, <1>9 DEF Errors, DomainErrors, ApplicationErrors, InfrastructureErrors
  <2>3. PICK p : a = Response(p.status, Problems, p)
    BY Zenon, <2>1 DEF from_problem
  <2> QED BY Zenon, <1>3, <1>4, <1>5, <2>2, <2>3 DEF ComingBack, ErrorKept, Labelled, Ready, w
<1> QED BY Zenon, <1>1, <1>6, <1>7, <1>8, <1>9 DEF Handlers

\* A request that goes down the chain keeps the invariant at every middleware, and
\* one that is refused comes back with 406.
LEMMA DownInv ==
    ASSUME ResponsesInv, Negotiate \/ Compress \/ LogRequest
    PROVE  ResponsesInv'
<1>1. /\ stage = "down" /\ waiting < Len(request.stack) /\ request' = request /\ ran' = ran
      /\ request \in Requests /\ waiting \in 0..Len(request.stack)
      /\ GoingDown(request, waiting, content_type, lines, ran)
  BY Zenon DEF ResponsesInv, Negotiate, Compress, LogRequest, Reaches
<1> DEFINE m == request.stack[waiting + 1]
<1>2. /\ waiting + 1 \in 0..Len(request.stack)
      /\ ~Waits(request, waiting, m) /\ Waits(request, waiting + 1, m) /\ Passed(request, waiting, m)
      /\ \A k : k # m => (Waits(request, waiting + 1, k) <=> Waits(request, waiting, k))
  BY Zenon, <1>1, OneMore
<1> HIDE DEF m
<1>3. CASE Compress
  <2>1. /\ m = "compression" /\ waiting' = waiting + 1
        /\ UNCHANGED <<stage, content_type, lines>>
    BY Zenon, <1>3 DEF Compress, Reaches, m
  <2>2. GoingDown(request, waiting + 1, content_type, lines, ran)
    BY Zenon, <1>1, <1>2, <2>1 DEF GoingDown, TypeChosen
  <2> QED BY Zenon, <1>1, <1>2, <2>1, <2>2 DEF ResponsesInv
<1>4. CASE LogRequest
  <2>1. /\ m = "logging" /\ waiting' = waiting + 1 /\ lines' = Append(lines, 0)
        /\ UNCHANGED <<stage, content_type>>
    BY Zenon, <1>4 DEF LogRequest, Reaches, m
  <2>2. lines = <<>>
    BY Zenon, <1>1, <1>2, <2>1 DEF GoingDown
  <2>3. lines' = <<0>>
    BY <2>1, <2>2
  <2>4. GoingDown(request, waiting + 1, content_type, lines', ran)
    BY Zenon, <1>1, <1>2, <2>1, <2>3 DEF GoingDown, TypeChosen
  <2> QED BY Zenon, <1>1, <1>2, <2>1, <2>4 DEF ResponsesInv
<1>5. CASE Negotiate
  <2>1. /\ m = "negotiation" /\ content_type' \in negotiate_content_type(request.accept)
        /\ UNCHANGED <<lines, report>>
    BY Zenon, <1>5 DEF Negotiate, Reaches, m
  <2>2. /\ content_type' = None => NothingMatches(request.accept)
        /\ content_type' # None =>
              content_type' \in Range(Supported) /\ Acceptable(request.accept, content_type')
    BY Zenon, <1>1, <2>1, StackOnce, NegotiatesAcceptable
  <2>3. CASE content_type' # None
    <3>1. waiting' = waiting + 1 /\ stage' = stage
      BY Zenon, <1>5, <2>3 DEF Negotiate
    <3>2. GoingDown(request, waiting + 1, content_type', lines, ran)
      BY Zenon, <1>1, <1>2, <2>1, <2>2, <2>3 DEF GoingDown, TypeChosen
    <3> QED BY Zenon, <1>1, <1>2, <2>1, <3>1, <3>2 DEF ResponsesInv
  <2>4. CASE content_type' = None
    <3>1. /\ answer' = Response(406, <<"text", "plain">>, SomeBody)
          /\ stage' = "back" /\ waiting' = waiting
      BY Zenon, <1>5, <2>4 DEF Negotiate
    <3>2. IsAnswer(answer') /\ answer'.status = 406 /\ Coded(request, waiting, answer')
      <4>1. /\ IsAnswer(answer') /\ answer'.status = 406
            /\ answer'.encoding = "identity" /\ answer'.zipped = 0
        BY <3>1, ResponseFields
      <4> QED BY Zenon, <4>1 DEF Coded
    <3>3. TypeChosen(request, waiting, content_type')
      BY Zenon, <1>2, <2>1, <2>4 DEF TypeChosen
    <3>4. Logged(request, waiting, lines, answer')
      <4>1. lines = <<>> => Len(lines) # 2
        OBVIOUS
      <4> QED BY Zenon, <1>1, <4>1 DEF GoingDown, Logged
    <3>5. ~ran
      BY Zenon, <1>1 DEF GoingDown
    <3>6. ComingBack(request, waiting, content_type', lines, ran, report, answer')
      BY Zenon, <1>2, <2>1, <2>2, <2>4, <3>2, <3>3, <3>4, <3>5
      DEF ComingBack, ErrorKept, Labelled, HandlerCalled, Ready
    <3> QED BY <1>1, <2>1, <3>1, <3>6 DEF ResponsesInv
  <2> QED BY Zenon, <2>3, <2>4
<1> QED BY Zenon, <1>3, <1>4, <1>5

\* An answer that comes back keeps the invariant at every middleware: the first to
\* compress it, the first to log it and the one that may give it a type.
LEMMA BackInv ==
    ASSUME ResponsesInv, NextReturns
    PROVE  ResponsesInv'
<1> DEFINE m == request.stack[waiting]
<1>1. /\ stage = "back" /\ waiting > 0 /\ waiting' = waiting - 1
      /\ UNCHANGED <<request, stage, content_type, report, ran>>
      /\ answer' = CASE m = "negotiation" -> Typed(answer)
                     [] m = "compression" -> Compressed(answer)
                     [] m = "logging"     -> answer
      /\ lines' = IF m = "logging" THEN LogStatus(answer) ELSE lines
  BY Zenon DEF NextReturns
<1>2. /\ request \in Requests /\ waiting \in 0..Len(request.stack)
      /\ ComingBack(request, waiting, content_type, lines, ran, report, answer)
  BY Zenon, <1>1 DEF ResponsesInv
<1>3. waiting \in 1..Len(request.stack)
  BY <1>1, <1>2
<1>4. m \in {"negotiation", "compression", "logging"}
  BY <1>2, <1>3, StackOnce
<1> DEFINE w == waiting
<1>5. /\ w - 1 \in 0..Len(request.stack)
      /\ Waits(request, w, m) /\ ~Waits(request, w - 1, m) /\ Passed(request, w - 1, m)
      /\ \A k : Waits(request, w - 1, k) => Waits(request, w, k)
      /\ \A k : k # m /\ Passed(request, w - 1, k) => Passed(request, w, k)
  BY Zenon, <1>2, <1>3, OneLess
<1>6. IsAnswer(answer)
  BY Zenon, <1>2 DEF ComingBack
<1> HIDE DEF m
<1>7. SUFFICES ComingBack(request, w - 1, content_type, lines', ran, report, answer')
  BY Zenon, <1>1, <1>2, <1>5, <1>7 DEF ResponsesInv
<1>8. CASE m = "negotiation"
  <2>1. answer' = Typed(answer) /\ lines' = lines
    BY Zenon, <1>1, <1>8
  <2>2. /\ IsAnswer(answer') /\ answer'.status = answer.status /\ answer'.encoding = answer.encoding
        /\ answer'.zipped = answer.zipped /\ answer'.length = answer.length
        /\ answer'.text = answer.text
        /\ answer'.type = (IF answer.status # 0 /\ answer.type = None THEN content_type ELSE answer.type)
    BY Zenon, <1>6, <2>1, TypedFields
  <2>3. Coded(request, w - 1, answer')
    BY Zenon, <1>2, <1>5, <2>2 DEF ComingBack, Coded
  <2>4. Labelled(request, w - 1, ran, answer')
    <3>1. content_type \in Range(Supported) /\ Acceptable(request.accept, content_type)
      BY Zenon, <1>2, <1>5, <1>8 DEF ComingBack, TypeChosen
    <3> QED BY Zenon, <1>2, <2>2, <3>1 DEF ComingBack, Labelled
  <2>5. /\ TypeChosen(request, w - 1, content_type)
        /\ ErrorKept(request, ran, answer')
        /\ HandlerCalled(request, w - 1, content_type, ran, answer')
        /\ Ready(request, ran, report, answer')
        /\ Logged(request, w - 1, lines, answer')
    BY <1>2, <1>3, <1>8, <2>2, PassesOn DEF m
  <2> QED BY Zenon, <2>1, <2>2, <2>3, <2>4, <2>5 DEF ComingBack
<1>9. CASE m = "compression"
  <2>1. answer' = Compressed(answer) /\ lines' = lines
    BY Zenon, <1>1, <1>9
  <2>2. answer.encoding = "identity" /\ answer.zipped = 0
    BY Zenon, <1>2, <1>5, <1>9 DEF ComingBack, Coded
  <2>3. /\ IsAnswer(answer')
        /\ \/ answer' = answer
           \/ answer'.status = 0 /\ answer'.encoding = "identity" /\ answer'.zipped = 0
           \/ /\ answer'.status = answer.status /\ answer'.type = answer.type
              /\ answer'.text = answer.text /\ answer'.encoding = "gzip"
              /\ answer'.zipped = answer.zipped + 1 /\ answer'.length = answer.zipped + 1
    BY Zenon, <1>6, <2>1, CompressedFields
  <2>4. answer.zipped + 1 = 1
    BY <2>2
  <2>5. Coded(request, w - 1, answer')
    BY <1>5, <1>9, <2>2, <2>3, <2>4 DEF Coded
  <2>6. /\ TypeChosen(request, w - 1, content_type)
        /\ ErrorKept(request, ran, answer')
        /\ HandlerCalled(request, w - 1, content_type, ran, answer')
        /\ Ready(request, ran, report, answer')
        /\ Logged(request, w - 1, lines, answer')
    <3>1. \/ answer'.status = 0
          \/ answer'.status = answer.status /\ answer'.text = answer.text
      BY Zenon, <2>3
    <3> QED BY <1>2, <1>3, <1>9, <2>3, <3>1, PassesOn DEF m
  <2>7. Labelled(request, w - 1, ran, answer')
    <3>1. Passed(request, w - 1, "negotiation") => Passed(request, w, "negotiation")
      BY Zenon, <1>5, <1>9
    <3> QED BY Zenon, <1>2, <2>3, <3>1 DEF ComingBack, Labelled
  <2> QED BY Zenon, <2>1, <2>3, <2>5, <2>6, <2>7 DEF ComingBack
<1>10. CASE m = "logging"
  <2>1. answer' = answer /\ lines' = LogStatus(answer)
    BY Zenon, <1>1, <1>10
  <2>2. lines = <<0>>
    BY Zenon, <1>2, <1>5, <1>10 DEF ComingBack, Logged
  <2>3. Logged(request, w - 1, lines', answer')
    <3>1. CASE answer.status = 0
      BY Zenon, <1>5, <1>10, <2>1, <3>1 DEF Logged
    <3>2. CASE answer.status # 0
      <4>1. lines' = Append(<<0>>, answer.status)
        BY Zenon, <2>1, <2>2, <3>2 DEF LogStatus
      <4>2. lines'[2] = answer.status
        BY <4>1
      <4> QED BY Zenon, <1>5, <1>10, <2>1, <4>2 DEF Logged
    <3> QED BY Zenon, <3>1, <3>2
  <2>4. /\ TypeChosen(request, w - 1, content_type)
        /\ ErrorKept(request, ran, answer)
        /\ HandlerCalled(request, w - 1, content_type, ran, answer)
        /\ Ready(request, ran, report, answer)
    BY Zenon, <1>2, <1>3, <1>6, PassesOn
  <2>5. Coded(request, w - 1, answer)
    BY Zenon, <1>2, <1>5 DEF ComingBack, Coded
  <2>6. Labelled(request, w - 1, ran, answer)
    <3>1. Passed(request, w - 1, "negotiation") => Passed(request, w, "negotiation")
      BY Zenon, <1>5, <1>10
    <3> QED BY Zenon, <1>2, <3>1 DEF ComingBack, Labelled
  <2> QED BY Zenon, <1>6, <2>1, <2>3, <2>4, <2>5, <2>6 DEF ComingBack
<1> QED BY Zenon, <1>4, <1>8, <1>9, <1>10

\* Every step of a service keeps the invariant.
LEMMA ResponsesInvNext == ResponsesInv /\ [ResponsesNext]_response_vars => ResponsesInv'
<1> SUFFICES ASSUME ResponsesInv, [ResponsesNext]_response_vars PROVE ResponsesInv'
  BY Zenon
<1>1. ASSUME NEW name \in Checks, RegisterCheck(name) PROVE ResponsesInv'
  BY Zenon, <1>1 DEF ResponsesInv, RegisterCheck
<1>2. ASSUME NEW req \in Requests, Serve(req) PROVE ResponsesInv'
  <2>1. /\ request' = req /\ stage' = "down" /\ stage = "idle"
        /\ UNCHANGED <<waiting, content_type, lines, ran>>
    BY Zenon, <1>2 DEF Serve
  <2>2. waiting = 0 /\ content_type = None /\ lines = <<>> /\ ~ran
    BY Zenon, <2>1 DEF ResponsesInv
  <2>3. DOMAIN req.stack = 1..Len(req.stack) /\ Len(req.stack) \in Nat
    BY StackOnce
  <2>4. 0 \in 0..Len(req.stack) /\ \A i \in DOMAIN req.stack : ~(i <= 0)
    BY <2>3
  <2>5. GoingDown(req, 0, content_type, lines, ran)
    BY Zenon, <2>2, <2>4 DEF GoingDown, TypeChosen, Waits
  <2> QED BY <2>1, <2>2, <2>4, <2>5 DEF ResponsesInv
<1>3. CASE RunHandler
  <2>1. /\ stage = "down" /\ waiting = Len(request.stack) /\ ran' = TRUE /\ stage' = "back"
        /\ answer' = Handled(request.handler, report')
        /\ UNCHANGED <<request, waiting, content_type, lines>>
    BY Zenon, <1>3 DEF RunHandler
  <2>2. request.handler = "ready" => \E f \in [checks_ -> Statuses] : report' = run_all(f)
    BY Zenon, <1>3 DEF RunHandler
  <2>3. /\ request \in Requests /\ waiting \in 0..Len(request.stack)
        /\ GoingDown(request, waiting, content_type, lines, ran)
    BY Zenon, <2>1 DEF ResponsesInv
  <2>4. GoingDown(request, Len(request.stack), content_type, lines, FALSE)
    BY Zenon, <2>1, <2>3 DEF GoingDown
  <2>5. ComingBack(request, Len(request.stack), content_type, lines, TRUE, report', answer')
    BY Zenon, <2>1, <2>2, <2>3, <2>4, HandledBack
  <2>6. ComingBack(request, waiting, content_type, lines, TRUE, report', answer')
    BY Zenon, <2>1, <2>5
  <2>7. (stage = "down")' = FALSE
    BY Zenon, <2>1
  <2> QED BY Zenon, <2>1, <2>3, <2>6, <2>7 DEF ResponsesInv
<1>4. CASE Done \/ UNCHANGED response_vars
  BY Zenon, <1>4 DEF ResponsesInv, Done, response_vars
<1> QED BY Zenon, <1>1, <1>2, <1>3, <1>4, DownInv, BackInv DEF ResponsesNext

\* Whatever wraps a handler, and in whatever order, the answer that leaves the chain
\* says of its body what the body is: the coding and the length compression_middleware()
\* gave it, a type that negotiate_content_type() may choose, the status of the error
\* or of the health; and the handler runs unless nothing it may answer is acceptable.
THEOREM AlwaysAnswersLabelled == ResponsesSpec => []AnswersLabelled
<1>1. ResponsesInit => ResponsesInv
  BY Zenon DEF ResponsesInit, ResponsesInv
<1>2. ResponsesInv => AnswersLabelled
  <2> SUFFICES ASSUME ResponsesInv, Served PROVE AnswersLabelled
    BY Zenon DEF AnswersLabelled
  <2>1. /\ request \in Requests
        /\ ComingBack(request, 0, content_type, lines, ran, report, answer)
    BY Zenon DEF ResponsesInv, Served
  <2>2. /\ \A m : Passed(request, 0, m) <=> m \in Range(request.stack)
        /\ \A m : ~Waits(request, 0, m)
    <3>1. \A i \in DOMAIN request.stack : i > 0 /\ ~(i <= 0)
      BY <2>1, StackOnce
    <3> QED BY Zenon, <3>1 DEF Passed, Waits, Range
  <2>3. /\ answer.encoding = "gzip" <=> answer.zipped = 1
        /\ answer.encoding = "gzip" => answer.length = answer.zipped
    BY <2>1 DEF ComingBack, Coded
  <2>4. request.handler \in Errors /\ ran /\ answer.status # 0 => answer.text.status = answer.status
    BY Zenon, <2>1 DEF ComingBack, ErrorKept
  <2>5. "negotiation" \in Range(request.stack) /\ ran /\ request.handler \in {"ok", "created"}
            /\ answer.status # 0 =>
            answer.type \in Range(Supported) /\ Acceptable(request.accept, answer.type)
    BY Zenon, <2>1, <2>2 DEF ComingBack, Labelled
  <2>6. content_type # None => ~NothingMatches(request.accept)
    BY Zenon, <2>1, AcceptableMatches DEF ComingBack, TypeChosen
  <2>7. /\ ran <=> ~("negotiation" \in Range(request.stack) /\ NothingMatches(request.accept))
        /\ ~ran /\ answer.status # 0 => answer.status = 406
    BY Zenon, <2>1, <2>2, <2>6 DEF ComingBack, HandlerCalled
  <2>8. request.handler = "ready" /\ ran /\ answer.status # 0 =>
            (answer.status = 200 <=> Range(report.checks) \subseteq {"up"})
    BY Zenon, <2>1 DEF ComingBack, Ready
  <2>9. Len(lines) = 2 => lines[2] = answer.status \/ ~(answer.status # 0)
    BY Zenon, <2>1, <2>2 DEF ComingBack, Logged
  <2> QED BY Zenon, <2>3, <2>4, <2>5, <2>7, <2>8, <2>9 DEF AnswersLabelled
<1> QED BY <1>1, <1>2, ResponsesInvNext, PTL DEF ResponsesSpec
=============================================================================
