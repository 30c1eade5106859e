------------------------------ MODULE RateLimiter ------------------------------
(***************************************************************************)
(* resilience::RateLimiter, a token bucket.  Every operation holds the mutex *)
(* from beginning to end, so each is one action; callers and the clock       *)
(* interleave between them.  Tokens are counted in integer units, and the    *)
(* rate is a number of units per tick.                                       *)
(***************************************************************************)
EXTENDS Integers

CONSTANTS MaxTokens,    \* max_tokens_
          RefillRate,   \* refill_rate_
          Costs,        \* costs callers ask for
          MaxTime       \* bound on the clock

ASSUME LimiterAssumption ==
    /\ MaxTokens \in Nat /\ RefillRate \in Nat /\ MaxTime \in Nat
    /\ Costs \subseteq Nat

VARIABLES
    tokens_,        \* tokens_
    last_refill_,   \* last_refill_
    clock,          \* steady_clock
    \* Kept to state properties: a window that begins at any moment.
    since,          \* when it began
    granted         \* cost of the calls allowed in it

vars == <<tokens_, last_refill_, clock, since, granted>>

Init ==
    /\ tokens_ = MaxTokens
    /\ last_refill_ = 0
    /\ clock = 0
    /\ since = 0
    /\ granted = 0

AtMost(bound, n) == IF n < bound THEN n ELSE bound

\* tokens_ after refill()
Refilled == AtMost(MaxTokens, tokens_ + (clock - last_refill_) * RefillRate)

TryAcquireTrueKeepingTime(cost) ==
    /\ Refilled >= cost
    /\ tokens_' = Refilled - cost
    /\ granted' = granted + cost
    /\ UNCHANGED <<last_refill_, clock, since>>

TryAcquireTrue(cost) ==
    /\ Refilled >= cost
    /\ tokens_' = Refilled - cost
    /\ last_refill_' = clock
    /\ granted' = granted + cost
    /\ UNCHANGED <<clock, since>>

TryAcquireFalse(cost) ==
    /\ Refilled < cost
    /\ tokens_' = Refilled
    /\ last_refill_' = clock
    /\ UNCHANGED <<clock, since, granted>>

available_tokens ==
    /\ tokens_' = Refilled
    /\ last_refill_' = clock
    /\ UNCHANGED <<clock, since, granted>>

\* reset() fills the bucket: a window is measured from the last reset on.
reset ==
    /\ tokens_' = MaxTokens
    /\ last_refill_' = clock
    /\ since' = clock
    /\ granted' = 0
    /\ UNCHANGED clock

Tick ==
    /\ clock < MaxTime
    /\ clock' = clock + 1
    /\ UNCHANGED <<tokens_, last_refill_, since, granted>>

\* An observer starts to count.
Observe ==
    /\ since' = clock
    /\ granted' = 0
    /\ UNCHANGED <<tokens_, last_refill_, clock>>

Next == \/ \E cost \in Costs : TryAcquireTrue(cost) \/ TryAcquireFalse(cost)
        \/ available_tokens
        \/ reset
        \/ Tick
        \/ Observe

Spec == Init /\ [][Next]_vars

-----------------------------------------------------------------------------
(* Properties *)

\* The bucket holds between 0 and max_tokens, and was refilled in the past.
TypeOK ==
    /\ tokens_ \in 0..MaxTokens
    /\ clock \in Nat
    /\ last_refill_ \in 0..clock
    /\ since \in 0..clock
    /\ granted \in Nat

\* In any stretch of time without a reset(), wherever it begins, the calls allowed
\* cost at most a full bucket and what the elapsed time refills, whatever the mix
\* of refused calls and of calls to available_tokens() in between.
GrantedWithinBudget == granted <= MaxTokens + (clock - since) * RefillRate

\* The strengthening that makes the budget inductive: what a refill would leave in
\* the bucket now, added to what was granted, is within the budget too.
BudgetCoversBucket == granted + Refilled <= MaxTokens + (clock - since) * RefillRate
=============================================================================
