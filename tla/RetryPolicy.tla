----------------------------- MODULE RetryPolicy -----------------------------
(***************************************************************************)
(* resilience::with_retry.  Each client runs one with_retry at a time, over *)
(* an fn that returns, throws something should_retry accepts, or throws     *)
(* something it refuses, after any delay.  Clocks are kept as what remains  *)
(* of them: left is what the deadline has left, sleeping what sleep_for has *)
(* left; Tick runs both down together.                                      *)
(***************************************************************************)
EXTENDS Integers

CONSTANTS Clients,
          MaxAttempts,    \* cfg.max_attempts
          InitialDelay,   \* cfg.initial_delay, in ticks
          Multiplier,     \* cfg.backoff_multiplier, as <<numerator, denominator>>
          MaxDelay,       \* cfg.max_delay, in ticks
          Deadlines       \* ticks a caller may give its cfg.deadline

ASSUME RetryAssumption ==
    /\ MaxAttempts \in Nat /\ InitialDelay \in Nat /\ MaxDelay \in Nat
    /\ Multiplier \in Nat \X (Nat \ {0})
    /\ Deadlines \subseteq Nat

\* A power of an integer factor, and the law of powers
Power(k) == Multiplier[1] ^ k

ASSUME PowersAssumption ==
    Multiplier[1] > 0 =>
        /\ Power(1) = Multiplier[1]
        /\ \A k \in 1..MaxAttempts : Power(k) \in Nat /\ Power(k + 1) = Power(k) * Multiplier[1]

VARIABLES
    at,        \* where each client is in with_retry
    attempt,   \* the loop counter
    delay,     \* the delay of the next backoff
    jitter,    \* cfg.jitter
    left,      \* ticks before cfg.deadline expires, or NoDeadline
    sleeping,  \* ticks of sleep_for that remain
    result,    \* how the last with_retry ended
    \* Kept to state properties.
    failed     \* attempts of this with_retry that threw, counted to one above the limit

retry_vars == <<at, attempt, delay, jitter, left, sleeping, result, failed>>

NoDeadline == -1
JitterStrategy == {"None", "Full", "Equal"}
Results == {"none", "returned", "RetryExhausted", "DeadlineExceeded", "rethrown"}

Min(a, b) == IF a < b THEN a ELSE b
Max(a, b) == IF a > b THEN a ELSE b

TypeOK ==
    /\ at \in [Clients -> {"out", "loop", "calling", "sleeping"}]
    /\ attempt \in [Clients -> 0..MaxAttempts]
    /\ delay \in [Clients -> 0..Max(InitialDelay, MaxDelay)]
    /\ jitter \in [Clients -> JitterStrategy]
    /\ left \in [Clients -> Nat \cup {NoDeadline}]
    /\ sleeping \in [Clients -> 0..Max(InitialDelay, MaxDelay)]
    /\ result \in [Clients -> Results]
    /\ failed \in [Clients -> 0..MaxAttempts]

Init ==
    /\ at = [c \in Clients |-> "out"]
    /\ attempt = [c \in Clients |-> 0]
    /\ delay = [c \in Clients |-> InitialDelay]
    /\ jitter = [c \in Clients |-> "None"]
    /\ left = [c \in Clients |-> NoDeadline]
    /\ sleeping = [c \in Clients |-> 0]
    /\ result = [c \in Clients |-> "none"]
    /\ failed = [c \in Clients |-> 0]

-----------------------------------------------------------------------------
(* Deadline::is_expired, detail::apply_jitter and the growth of the delay *)

IsExpired(c) == left[c] = 0

\* The durations apply_jitter may return for a base delay.
ApplyJitter(base, strategy) ==
    CASE strategy = "None"  -> {base}
      [] strategy = "Full"  -> 0..base
      [] strategy = "Equal" -> {base \div 2 + r : r \in 0..(base \div 2)}

NextDelayUncapped(d) == (d * Multiplier[1]) \div Multiplier[2]

\* The product is truncated to whole milliseconds, then capped.
NextDelay(d) ==
    LET next == (d * Multiplier[1]) \div Multiplier[2]
    IN  IF next < MaxDelay THEN next ELSE MaxDelay

-----------------------------------------------------------------------------
(* with_retry *)

Begin(c) ==
    /\ at[c] = "out"
    /\ \E j \in JitterStrategy, d \in Deadlines \cup {NoDeadline} :
          /\ jitter' = [jitter EXCEPT ![c] = j]
          /\ left' = [left EXCEPT ![c] = d]
    /\ at' = [at EXCEPT ![c] = "loop"]
    /\ attempt' = [attempt EXCEPT ![c] = 0]
    /\ delay' = [delay EXCEPT ![c] = InitialDelay]
    /\ result' = [result EXCEPT ![c] = "none"]
    /\ failed' = [failed EXCEPT ![c] = 0]
    /\ UNCHANGED sleeping

Leave(c, r) ==
    /\ at' = [at EXCEPT ![c] = "out"]
    /\ result' = [result EXCEPT ![c] = r]

HasAttemptLeftOneMore(c) == attempt[c] <= MaxAttempts
HasAttemptLeft(c) == attempt[c] < MaxAttempts

\* The head of the loop: no attempt left, deadline expired, or fn is called.
LoopHead(c) ==
    /\ at[c] = "loop"
    /\ \/ /\ ~HasAttemptLeft(c)
          /\ Leave(c, "RetryExhausted")
       \/ /\ HasAttemptLeft(c)
          /\ IsExpired(c)
          /\ Leave(c, "DeadlineExceeded")
       \/ /\ HasAttemptLeft(c)
          /\ ~IsExpired(c)
          /\ at' = [at EXCEPT ![c] = "calling"]
          /\ UNCHANGED result
    /\ UNCHANGED <<attempt, delay, jitter, left, sleeping, failed>>

FnReturns(c) ==
    /\ at[c] = "calling"
    /\ Leave(c, "returned")
    /\ UNCHANGED <<attempt, delay, jitter, left, sleeping, failed>>

MoreToCome(c) == attempt[c] + 1 < MaxAttempts

\* fn throws; accepted tells whether should_retry is unset or returns true.
FnThrows(c, accepted) ==
    /\ at[c] = "calling"
    /\ failed' = [failed EXCEPT ![c] = Min(@ + 1, MaxAttempts + 1)]
    /\ \/ /\ ~accepted
          /\ Leave(c, "rethrown")
          /\ UNCHANGED <<attempt, sleeping>>
       \/ /\ accepted
          /\ MoreToCome(c)
          /\ IsExpired(c)
          /\ Leave(c, "DeadlineExceeded")
          /\ UNCHANGED <<attempt, sleeping>>
       \/ /\ accepted
          /\ MoreToCome(c)
          /\ ~IsExpired(c)
          /\ \E d \in ApplyJitter(delay[c], jitter[c]) :
                sleeping' = [sleeping EXCEPT ![c] = d]
          /\ at' = [at EXCEPT ![c] = "sleeping"]
          /\ UNCHANGED <<attempt, result>>
       \/ /\ accepted
          /\ ~MoreToCome(c)
          /\ at' = [at EXCEPT ![c] = "loop"]
          /\ attempt' = [attempt EXCEPT ![c] = @ + 1]
          /\ UNCHANGED <<sleeping, result>>
    /\ UNCHANGED <<delay, jitter, left>>

WakeForgettingAttempt(c) ==
    /\ at[c] = "sleeping"
    /\ sleeping[c] = 0
    /\ delay' = [delay EXCEPT ![c] = NextDelay(@)]
    /\ at' = [at EXCEPT ![c] = "loop"]
    /\ UNCHANGED <<attempt, jitter, left, sleeping, result, failed>>

\* sleep_for is over: the delay grows and the loop goes round.
Wake(c) ==
    /\ at[c] = "sleeping"
    /\ sleeping[c] = 0
    /\ delay' = [delay EXCEPT ![c] = NextDelay(@)]
    /\ attempt' = [attempt EXCEPT ![c] = @ + 1]
    /\ at' = [at EXCEPT ![c] = "loop"]
    /\ UNCHANGED <<jitter, left, sleeping, result, failed>>

RunDown(n) == IF n > 0 THEN n - 1 ELSE n

\* Time passes; a client may be woken later than it asked for.
RetryTick ==
    /\ \E c \in Clients : left[c] > 0 \/ sleeping[c] > 0
    /\ left' = [c \in Clients |-> RunDown(left[c])]
    /\ sleeping' = [c \in Clients |-> RunDown(sleeping[c])]
    /\ UNCHANGED <<at, attempt, delay, jitter, result, failed>>

FnEnds(c) == FnReturns(c) \/ \E accepted \in BOOLEAN : FnThrows(c, accepted)

Next == \/ \E c \in Clients : Begin(c) \/ LoopHead(c) \/ FnEnds(c) \/ Wake(c)
        \/ RetryTick

\* A thread inside with_retry runs, its fn ends, and the clock goes on.
Fairness == /\ \A c \in Clients : WF_retry_vars(LoopHead(c) \/ FnEnds(c) \/ Wake(c))
            /\ WF_retry_vars(RetryTick)

Spec == Init /\ [][Next]_retry_vars
FairSpec == Spec /\ Fairness

-----------------------------------------------------------------------------
(* Properties *)

\* RetryExhausted means that fn was called max_attempts times and threw each
\* time; nothing else is thrown after as many failures, except the last error
\* itself when should_retry refuses it.
ExhaustedMeansAllFailed ==
    \A c \in Clients :
        /\ result[c] = "RetryExhausted" => failed[c] = MaxAttempts
        /\ result[c] = "DeadlineExceeded" => failed[c] < MaxAttempts /\ left[c] = 0

\* Exponential backoff in closed form for an integer factor: the initial delay
\* for the first backoff, then the initial delay times a power of the factor,
\* capped.
BackoffReference(k) ==
    IF k <= 0 THEN InitialDelay ELSE Min(InitialDelay * Power(k), MaxDelay)

\* With an integer factor the delay kept by the loop is the capped power of the
\* closed form, and with any jitter a sleep is at most that long.
BackoffMatchesReference ==
    Multiplier[2] = 1 /\ Multiplier[1] > 0 =>
        \A c \in Clients : at[c] # "out" =>
            /\ delay[c] = BackoffReference(Min(attempt[c], MaxAttempts - 1))
            /\ sleeping[c] <= delay[c]

\* with_retry comes back: it neither loops nor sleeps for ever.
EveryRetryReturns == \A c \in Clients : (at[c] # "out") ~> (at[c] = "out")
=============================================================================
