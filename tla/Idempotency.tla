------------------------------ MODULE Idempotency ------------------------------
(***************************************************************************)
(* web::idempotency_middleware.  A request with a key reads the clock, looks *)
(* its key up in one critical section, runs the rest of the chain outside    *)
(* it, and stores the response in a second one with an expiry computed from  *)
(* the clock it read at the start.  Requests of several server threads       *)
(* interleave between those steps.                                           *)
(***************************************************************************)
EXTENDS Integers, FiniteSets

CONSTANTS Requests,   \* requests that may be in progress at the same time
          Keys,       \* values of the Idempotency-Key header
          NoKey,      \* the header is missing or empty
          Ttl,        \* ttl, in ticks
          MaxTime,    \* bound on the clock
          MaxRuns     \* bound on the number of handler runs

ASSUME IdempotencyAssumption == Ttl \in Nat /\ MaxTime \in Nat /\ MaxRuns \in Nat

VARIABLES
    clock,      \* steady_clock
    entries,    \* cache->entries: at most one [key, response, expires_at] per key
    at,         \* where each request is
    key,        \* its key
    now,        \* the clock it read
    response,   \* the handler run whose response it holds, 0 for none
    \* Kept to state properties.
    runs,       \* handler runs so far: [key, started (clock read), id]
    overlapped  \* keys two requests were in the middleware with at the same time

idempotency_vars == <<clock, entries, at, key, now, response, runs, overlapped>>

Times == 0..MaxTime
Runs == [key : Keys \cup {NoKey}, started : Times, id : 1..MaxRuns]

TypeOK ==
    /\ clock \in Times
    /\ entries \subseteq [key : Keys, response : 1..MaxRuns, expires_at : Ttl..(MaxTime + Ttl)]
    /\ \A d, e \in entries : d.key = e.key => d = e
    /\ at \in [Requests -> {"out", "lookup", "handler", "insert", "pass"}]
    /\ key \in [Requests -> Keys \cup {NoKey}]
    /\ now \in [Requests -> Times]
    /\ response \in [Requests -> 0..MaxRuns]
    /\ runs \subseteq Runs
    /\ overlapped \subseteq Keys

Init ==
    /\ clock = 0
    /\ entries = {}
    /\ at = [r \in Requests |-> "out"]
    /\ key = [r \in Requests |-> NoKey]
    /\ now = [r \in Requests |-> 0]
    /\ response = [r \in Requests |-> 0]
    /\ runs = {}
    /\ overlapped = {}

Goto(r, label) == at' = [at EXCEPT ![r] = label]
history == <<runs, overlapped>>

-----------------------------------------------------------------------------
(* A request without a key passes through unchanged. *)

ArriveWithoutKey(r) ==
    /\ at[r] = "out"
    /\ Goto(r, "pass")
    /\ key' = [key EXCEPT ![r] = NoKey]
    /\ response' = [response EXCEPT ![r] = 0]
    /\ UNCHANGED <<clock, entries, now, history>>

PassThrough(r) ==
    /\ at[r] = "pass"
    /\ Goto(r, "out")
    /\ UNCHANGED <<clock, entries, key, now, response, history>>

-----------------------------------------------------------------------------
(* A request with a key *)

InMiddleware(k) == {r \in Requests : at[r] \notin {"out", "pass"} /\ key[r] = k}

\* The clock is read before the lock is taken.
Arrive(r, k) ==
    /\ at[r] = "out"
    /\ Goto(r, "lookup")
    /\ key' = [key EXCEPT ![r] = k]
    /\ now' = [now EXCEPT ![r] = clock]
    /\ response' = [response EXCEPT ![r] = 0]
    /\ overlapped' = overlapped \cup {j \in {k} : InMiddleware(k) # {}}
    /\ UNCHANGED <<clock, entries, runs>>

IsFreshWithMargin(e, t) == e.expires_at > t + 1
IsFresh(e, t) == e.expires_at > t

Cached(k) == {e \in entries : e.key = k}

LookupHit(r) ==
    /\ at[r] = "lookup"
    /\ \E e \in Cached(key[r]) :
          /\ IsFresh(e, now[r])
          /\ response' = [response EXCEPT ![r] = e.response]
    /\ Goto(r, "out")
    /\ UNCHANGED <<clock, entries, key, now, history>>

\* What is left when the entry of k is erased or replaced.
Others(k) == entries \ Cached(k)

LookupMiss(r) ==
    /\ at[r] = "lookup"
    /\ \A e \in Cached(key[r]) : ~IsFresh(e, now[r])
    /\ entries' = Others(key[r])
    /\ Goto(r, "handler")
    /\ UNCHANGED <<clock, key, now, response, history>>

\* next(req) returns.
HandlerReturns(r) ==
    LET id == Cardinality(runs) + 1
    IN  /\ at[r] = "handler"
        /\ id <= MaxRuns
        /\ runs' = runs \cup {[key |-> key[r], started |-> now[r], id |-> id]}
        /\ response' = [response EXCEPT ![r] = id]
        /\ Goto(r, "insert")
        /\ UNCHANGED <<clock, entries, key, now, overlapped>>

\* next(req) throws: nothing is cached.
HandlerThrows(r) ==
    /\ at[r] = "handler"
    /\ Goto(r, "out")
    /\ UNCHANGED <<clock, entries, key, now, response, history>>

ExpiryFromCurrentClock(r) == clock + Ttl
Expiry(r) == now[r] + Ttl

\* insert_or_assign, and the response is returned.
Insert(r) ==
    LET e == [key |-> key[r], response |-> response[r], expires_at |-> Expiry(r)]
    IN  /\ at[r] = "insert"
        /\ entries' = Others(key[r]) \cup {e}
        /\ Goto(r, "out")
        /\ UNCHANGED <<clock, key, now, response, runs, overlapped>>

Tick ==
    /\ clock < MaxTime
    /\ clock' = clock + 1
    /\ UNCHANGED <<entries, at, key, now, response, history>>

Next == \/ \E r \in Requests :
              \/ ArriveWithoutKey(r) \/ PassThrough(r)
              \/ \E k \in Keys : Arrive(r, k)
              \/ LookupHit(r) \/ LookupMiss(r)
              \/ HandlerReturns(r) \/ HandlerThrows(r) \/ Insert(r)
        \/ Tick

Spec == Init /\ [][Next]_idempotency_vars

-----------------------------------------------------------------------------
(* Properties *)

\* A response a request comes back with was produced for its key, by a request
\* that began less than ttl before it read the clock (or by itself).
ServedIsFresh ==
    \A r \in Requests :
        response[r] # 0 =>
            \E run \in runs : /\ run.id = response[r]
                              /\ run.key = key[r]
                              /\ run.started = now[r] \/ now[r] < run.started + Ttl

\* For a key whose requests never overlap, handler runs that return begin at
\* least ttl apart, however long each of them takes.
SequentialRequestsRunOnce ==
    \A a, b \in runs : a # b /\ a.key = b.key /\ a.key \notin overlapped =>
        a.started + Ttl <= b.started \/ b.started + Ttl <= a.started
=============================================================================
