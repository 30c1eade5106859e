--------------------------------- MODULE Hedge ---------------------------------
(***************************************************************************)
(* resilience::hedge: one caller waits on a promise that a primary and a    *)
(* hedge thread race to fulfil.  Every access to the two atomics, to        *)
(* first_ex and to the promise is a step of its own; first_ex is not        *)
(* synchronized, and the other thread may find it null after it was set.    *)
(***************************************************************************)
EXTENDS Naturals, Sequences, Functions

CONSTANT HedgeDelay   \* hedge_delay, in ticks

ASSUME HedgeAssumption == HedgeDelay \in Nat

Threads == {"primary", "hedge"}

VARIABLES
    at,         \* where each thread is
    delay,      \* ticks of the hedge's sleep_for that remain
    cancelled,  \* Shared::cancelled
    failures,   \* Shared::failures
    first_ex,   \* Shared::first_ex: the thread whose exception it holds, or "null"
    promise,    \* Shared::promise: what kind of result it holds, and whose
    returned,   \* the caller is back from fut.get()
    \* Kept to state properties.
    ended       \* what became of each fn, in the order the atomics show it

hedge_vars == <<at, delay, cancelled, failures, first_ex, promise, returned, ended>>

Unset == <<"none", "unset">>

HedgeInit ==
    /\ at = [t \in Threads |-> IF t = "primary" THEN "fn" ELSE "delayed"]
    /\ delay = HedgeDelay
    /\ cancelled = FALSE
    /\ failures = 0
    /\ first_ex = "null"
    /\ promise = Unset
    /\ returned = FALSE
    /\ ended = <<>>

Goto(t, label) == at' = [at EXCEPT ![t] = label]

-----------------------------------------------------------------------------
(* run: the try block *)

ExchangeLoadOnly == UNCHANGED cancelled
Exchange == cancelled' = TRUE

\* fn returns; cancelled.exchange(true) tells whether it is the first to.
FnReturns(t) ==
    /\ at[t] = "fn"
    /\ Exchange
    /\ Goto(t, IF cancelled THEN "done" ELSE "won")
    /\ ended' = Append(ended, <<t, "value">>)
    /\ UNCHANGED <<delay, failures, first_ex, promise, returned>>

SetValue(t) ==
    /\ at[t] = "won"
    /\ promise = Unset
    /\ promise' = <<t, "value">>
    /\ Goto(t, "done")
    /\ UNCHANGED <<delay, cancelled, failures, first_ex, returned, ended>>

-----------------------------------------------------------------------------
(* run: the catch block *)

\* fn throws, or moving its Result into the promise does; failures.fetch_add tells who is first.
Throws(t) ==
    /\ at[t] \in {"fn", "won"}
    /\ failures' = failures + 1
    /\ Goto(t, IF failures = 0 THEN "failed_first" ELSE "failed")
    /\ ended' = Append(ended, <<t, "exception">>)
    /\ UNCHANGED <<delay, cancelled, first_ex, promise, returned>>

KeepException(t) ==
    /\ at[t] = "failed_first"
    /\ first_ex' = t
    /\ Goto(t, "failed")
    /\ UNCHANGED <<delay, cancelled, failures, promise, returned, ended>>

EnoughFailuresAtOne == failures >= 1
EnoughFailuresAtThree == failures > 2
EnoughFailures == failures >= 2

LoadFailures(t) ==
    /\ at[t] = "failed"
    /\ Goto(t, IF EnoughFailures THEN "publish" ELSE "done")
    /\ UNCHANGED <<delay, cancelled, failures, first_ex, promise, returned, ended>>

\* What a thread may find in first_ex: its own write, or, nothing ordering its
\* read after the other thread's write, that write or the initial null.
SeenException(t) == IF first_ex = t THEN {t} ELSE {first_ex, "null"}

\* set_exception(first_ex); a promise that is already satisfied throws
\* future_error, which is ignored.
SetException(t) ==
    /\ at[t] = "publish"
    /\ promise' \in IF promise = Unset THEN SeenException(t) \X {"exception"} ELSE {promise}
    /\ Goto(t, "done")
    /\ UNCHANGED <<delay, cancelled, failures, first_ex, returned, ended>>

-----------------------------------------------------------------------------
(* The hedge thread before run, and the caller *)

HedgeSleeps ==
    /\ delay > 0
    /\ delay' = delay - 1
    /\ UNCHANGED <<at, cancelled, failures, first_ex, promise, returned, ended>>

HedgeWakes ==
    /\ at["hedge"] = "delayed"
    /\ delay = 0
    /\ Goto("hedge", IF cancelled THEN "skipped" ELSE "fn")
    /\ UNCHANGED <<delay, cancelled, failures, first_ex, promise, returned, ended>>

\* The hedge was not needed; if the primary failed meanwhile its exception is due.
Skip ==
    /\ at["hedge"] = "skipped"
    /\ Goto("hedge", IF failures = 1 THEN "publish" ELSE "done")
    /\ UNCHANGED <<delay, cancelled, failures, first_ex, promise, returned, ended>>

\* fut.get() returns or rethrows.
CallerGets ==
    /\ ~returned
    /\ promise # Unset
    /\ returned' = TRUE
    /\ UNCHANGED <<at, delay, cancelled, failures, first_ex, promise, ended>>

-----------------------------------------------------------------------------
Run(t) == \/ FnReturns(t) \/ SetValue(t) \/ Throws(t)
          \/ KeepException(t) \/ LoadFailures(t) \/ SetException(t)

\* Both threads have ended and the caller is back: hedge() is over.
Over == returned /\ (\A t \in Threads : at[t] = "done") /\ UNCHANGED hedge_vars

HedgeNext == \/ \E t \in Threads : Run(t)
             \/ HedgeSleeps \/ HedgeWakes \/ Skip \/ CallerGets \/ Over

HedgeSpec == HedgeInit /\ [][HedgeNext]_hedge_vars

-----------------------------------------------------------------------------
(* Properties *)

\* No thread's fn ended in the same way as e before e was recorded.
IsFirstOfItsKind(e) ==
    \E i \in DOMAIN ended : ended[i] = e /\ \A j \in 1..(i - 1) : ended[j][2] # e[2]

\* hedge.hpp:12 "Returns the result of whichever call completes first": a value
\* that reaches the caller is that of the first fn to return one.
FirstValueReturned == promise[2] = "value" => IsFirstOfItsKind(promise)

\* The caller is given an exception only when no value can come any more: every
\* fn that was started threw, or its value could not be stored.
ExceptionOnlyWithoutValue ==
    promise[2] = "exception" => \A t \in Threads : at[t] # "won" /\ at[t] # "fn"

\* Storing a result threw: the caller then depends on the other thread.
ResultLost == \E t \in Threads : {<<t, "value">>, <<t, "exception">>} \subseteq Range(ended)

\* Whichever calls fail, in whatever order, and whether or not the hedge is
\* skipped, the caller gets something, unless storing a result threw.
CallerReturns == <>(returned \/ ResultLost)

\* hedge.hpp:14 "If both calls throw, the first exception is rethrown": when no fn
\* returned, the exception the caller gets is the one of the first fn to throw.
FirstExceptionRethrown ==
    promise[2] = "exception" /\ (\A e \in Range(ended) : e[2] # "value") =>
        IsFirstOfItsKind(promise)
=============================================================================
