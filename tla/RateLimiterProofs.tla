--------------------------- MODULE RateLimiterProofs ---------------------------
(***************************************************************************)
(* The token bucket never grants more than its budget, for every capacity,   *)
(* rate, set of costs and length of run.                                     *)
(***************************************************************************)
EXTENDS RateLimiter, TLAPS

IInv == TypeOK /\ BudgetCoversBucket

\* std::min leaves a count within the bound as it is.
LEMMA AtMostWithin ==
    ASSUME NEW bound \in Nat, NEW n \in 0..bound, NEW extra, extra = 0
    PROVE  AtMost(bound, n + extra) = n
BY DEF AtMost

\* A bucket that gains no more than the budget does stays within it.
LEMMA SlackGrows ==
    ASSUME NEW spent \in Nat, NEW before \in Nat, NEW after \in Nat,
           NEW bound \in Nat, NEW earned \in Nat, NEW gain \in Nat,
           spent + before <= bound + earned, after <= before + gain
    PROVE  spent + after <= bound + (earned + gain)
OBVIOUS

\* What refill() leaves is a token count the bucket can hold.
LEMMA RefilledInRange ==
    ASSUME TypeOK
    PROVE  /\ (clock - last_refill_) * RefillRate \in Nat
           /\ (clock - since) * RefillRate \in Nat
           /\ Refilled \in 0..MaxTokens
<1>1. /\ clock - last_refill_ \in Nat
      /\ clock - since \in Nat
      /\ tokens_ \in 0..MaxTokens
  BY DEF TypeOK
<1>2. /\ (clock - last_refill_) * RefillRate \in Nat
      /\ (clock - since) * RefillRate \in Nat
  BY <1>1, LimiterAssumption
<1>. QED  BY <1>1, <1>2, LimiterAssumption DEF Refilled, AtMost

\* The budget bound is what every mix of try_acquire(), available_tokens(), reset()
\* and the clock preserves.
LEMMA NextIInv == IInv /\ [Next]_vars => IInv'
<1>. SUFFICES ASSUME IInv, [Next]_vars PROVE IInv'
  OBVIOUS
<1>r. /\ (clock - last_refill_) * RefillRate \in Nat
      /\ (clock - since) * RefillRate \in Nat
      /\ Refilled \in 0..MaxTokens
  BY RefilledInRange DEF IInv
<1>t. /\ MaxTokens \in Nat /\ RefillRate \in Nat
      /\ tokens_ \in 0..MaxTokens /\ clock \in Nat
      /\ last_refill_ \in 0..clock /\ since \in 0..clock /\ granted \in Nat
      /\ granted + Refilled <= MaxTokens + (clock - since) * RefillRate
  BY LimiterAssumption DEF IInv, TypeOK, BudgetCoversBucket
<1>z. ASSUME last_refill_' = clock, clock' = clock, tokens_' \in 0..MaxTokens
      PROVE  Refilled' = tokens_'
  <2>1. (clock' - last_refill_') * RefillRate = 0
    BY <1>z, <1>t
  <2>2. Refilled' = AtMost(MaxTokens, tokens_' + (clock' - last_refill_') * RefillRate)
    BY DEF Refilled
  <2>. QED  BY <1>z, <1>t, <2>1, <2>2, AtMostWithin
<1>1. CASE \E cost \in Costs : TryAcquireTrue(cost)
  <2>. PICK cost \in Costs : TryAcquireTrue(cost)
    BY <1>1
  <2>c. cost \in Nat
    BY LimiterAssumption
  <2>1. TypeOK'
    BY <1>r, <1>t, <2>c DEF TypeOK, TryAcquireTrue
  <2>2. Refilled' = Refilled - cost
    BY <1>z, <1>r, <1>t, <2>c DEF TryAcquireTrue
  <2>3. BudgetCoversBucket'
    BY <1>r, <1>t, <2>2, <2>c DEF BudgetCoversBucket, TryAcquireTrue
  <2>. QED  BY <2>1, <2>3 DEF IInv
<1>2. CASE (\E cost \in Costs : TryAcquireFalse(cost)) \/ available_tokens
  <2>0. tokens_' = Refilled /\ last_refill_' = clock /\ UNCHANGED <<clock, since, granted>>
    BY <1>2 DEF TryAcquireFalse, available_tokens
  <2>1. TypeOK'
    BY <1>r, <1>t, <2>0 DEF TypeOK
  <2>2. Refilled' = Refilled
    BY <1>z, <1>r, <2>0
  <2>3. BudgetCoversBucket'
    BY <1>t, <2>0, <2>2 DEF BudgetCoversBucket
  <2>. QED  BY <2>1, <2>3 DEF IInv
<1>3. CASE reset
  <2>1. TypeOK'
    BY <1>3, <1>t DEF TypeOK, reset
  <2>2. Refilled' = MaxTokens
    BY <1>3, <1>z, <1>t DEF reset
  <2>3. (clock' - since') * RefillRate = 0
    BY <1>3, <1>t DEF reset
  <2>4. BudgetCoversBucket'
    BY <1>3, <1>t, <2>2, <2>3 DEF BudgetCoversBucket, reset
  <2>. QED  BY <2>1, <2>4 DEF IInv
<1>4. CASE Tick
  <2>1. TypeOK'
    BY <1>4, <1>t DEF TypeOK, Tick
  <2>2. /\ (clock' - since') * RefillRate = (clock - since) * RefillRate + RefillRate
        /\ (clock' - last_refill_') * RefillRate
              = (clock - last_refill_) * RefillRate + RefillRate
    BY <1>4, <1>t DEF Tick
  <2>3. Refilled' <= Refilled + RefillRate
    BY <1>4, <1>r, <1>t, <2>2 DEF Refilled, AtMost, Tick
  <2>4. Refilled' \in Nat
    BY <2>1, <1>4, <1>r, <1>t, <2>2 DEF Refilled, AtMost, Tick
  <2>. DEFINE earned == (clock - since) * RefillRate
  <2>5. /\ earned \in Nat
        /\ granted + Refilled <= MaxTokens + earned
        /\ granted' = granted
        /\ granted \in Nat /\ Refilled \in Nat
    BY <1>4, <1>r, <1>t DEF Tick
  <2>6. BudgetCoversBucket' <=> granted' + Refilled' <= MaxTokens + (earned + RefillRate)
    BY <2>2 DEF BudgetCoversBucket
  <2>. HIDE DEF earned
  <2>7. granted + Refilled' <= MaxTokens + (earned + RefillRate)
    BY Zenon, <2>3, <2>4, <2>5, LimiterAssumption, SlackGrows
  <2>8. BudgetCoversBucket'
    BY <2>5, <2>6, <2>7
  <2>. QED  BY <2>1, <2>8 DEF IInv
<1>5. CASE Observe
  <2>1. TypeOK'
    BY <1>5, <1>t DEF TypeOK, Observe
  <2>2. Refilled' = Refilled
    BY <1>5 DEF Refilled, AtMost, Observe
  <2>3. (clock' - since') * RefillRate = 0
    BY <1>5, <1>t DEF Observe
  <2>4. BudgetCoversBucket'
    BY <1>5, <1>r, <1>t, <2>2, <2>3 DEF BudgetCoversBucket, Observe
  <2>. QED  BY <2>1, <2>4 DEF IInv
<1>6. CASE UNCHANGED vars
  BY <1>6 DEF IInv, TypeOK, BudgetCoversBucket, Refilled, AtMost, vars
<1>. QED  BY <1>1, <1>2, <1>3, <1>4, <1>5, <1>6 DEF Next

\* In every behaviour of the limiter the bucket stays in range and, with what was
\* granted since any moment, within the budget.
THEOREM Invariance == Spec => []IInv
<1>1. Init => IInv
  <2>. SUFFICES ASSUME Init PROVE IInv
    OBVIOUS
  <2>1. TypeOK
    BY LimiterAssumption DEF Init, TypeOK
  <2>2. (clock - since) * RefillRate = 0
    BY LimiterAssumption DEF Init
  <2>3. Refilled \in 0..MaxTokens
    BY <2>1, RefilledInRange
  <2>. QED  BY <2>1, <2>2, <2>3, LimiterAssumption DEF IInv, BudgetCoversBucket, Init
<1>. QED  BY <1>1, NextIInv, PTL DEF Spec

\* try_acquire() never lets through more than a full bucket plus what the elapsed
\* time refills, over any stretch of time without a reset().
THEOREM GrantsBounded == Spec => []GrantedWithinBudget
<1>1. IInv => GrantedWithinBudget
  <2>. SUFFICES ASSUME IInv PROVE GrantedWithinBudget
    OBVIOUS
  <2>1. Refilled \in 0..MaxTokens /\ (clock - since) * RefillRate \in Nat
    BY RefilledInRange DEF IInv
  <2>. QED  BY <2>1, LimiterAssumption
            DEF IInv, TypeOK, BudgetCoversBucket, GrantedWithinBudget
<1>. QED  BY <1>1, Invariance, PTL
=============================================================================
