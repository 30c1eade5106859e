--------------------------- MODULE WebPipelineProofs ---------------------------
(***************************************************************************)
(* The idempotency middleware, alone and in the chain, with any number of    *)
(* server threads, keys, runs and kinds of request, any ttl, any limits and  *)
(* any clock.                                                                *)
(***************************************************************************)
EXTENDS WebPipeline, TLAPS

Inside(r) == at[r] \in {"lookup", "handler", "insert"}

\* A cached entry, and a response about to be cached, is that of a run.
EntriesAreRuns ==
    /\ \A e \in entries : \E run \in runs :
          /\ run.id = e.response
          /\ run.key = e.key
          /\ e.expires_at = run.started + Ttl
    /\ \A r \in Requests : at[r] = "insert" => \E run \in runs :
          /\ run.id = response[r]
          /\ run.key = key[r]
          /\ run.started = now[r]

FreshInv ==
    /\ TypeOK
    /\ IsFiniteSet(runs)
    /\ \A r \in Requests : now[r] <= clock /\ (Inside(r) => key[r] \in Keys)
    /\ EntriesAreRuns
    /\ ServedIsFresh

Inserting(k) == \E r \in Requests : at[r] = "insert" /\ key[r] = k

\* A run is remembered for its ttl: by the cache, or by nobody because the ttl is over
\* for every request that could still run.
Remembered(run) ==
    \/ \E e \in Cached(run.key) : e.expires_at >= run.started + Ttl
    \/ /\ clock >= run.started + Ttl
       /\ \A r \in Requests : at[r] \in {"lookup", "handler"} /\ key[r] = run.key =>
             now[r] >= run.started + Ttl

\* What holds of the keys whose requests have not overlapped
Sequential ==
    /\ \A r, s \in Requests : r # s /\ Inside(r) /\ Inside(s) /\ key[r] = key[s] =>
          key[r] \in overlapped
    /\ \A run \in runs : run.key \notin overlapped /\ ~Inserting(run.key) => Remembered(run)
    /\ \A r \in Requests : at[r] = "handler" /\ key[r] \notin overlapped => Cached(key[r]) = {}
    /\ \A r \in Requests : at[r] = "insert" /\ key[r] \notin overlapped =>
          \A run \in runs : run.key = key[r] => run.started <= now[r]

IdempotencyInv == FreshInv /\ Sequential /\ SequentialRequestsRunOnce

-----------------------------------------------------------------------------
-----------------------------------------------------------------------------
(* What is served *)

\* The handler of request r has returned: there is one run more, with the key and the
\* clock of the request.
RunAdded(r) ==
    \E run \in Runs : /\ run.key = key[r] /\ run.started = now[r]
                      /\ run.id \in 1..MaxRuns
                      /\ runs' = runs \cup {run} /\ IsFiniteSet(runs')
                      /\ response' = [response EXCEPT ![r] = run.id]
                      /\ at' = [at EXCEPT ![r] = "insert"]
                      /\ UNCHANGED <<clock, entries, key, now, overlapped>>

ReturnsAddRuns == \A r \in Requests : HandlerReturns(r) => RunAdded(r)

\* Every action preserves the freshness of what is cached and served.
LEMMA NextFreshInv ==
    ASSUME FreshInv, [Next]_idempotency_vars, ReturnsAddRuns
    PROVE  FreshInv'
  <1> USE IdempotencyAssumption
  <1>1. ASSUME NEW r \in Requests, ArriveWithoutKey(r)
        PROVE  FreshInv'
    BY <1>1 DEF FreshInv, TypeOK, ArriveWithoutKey, Goto, history, Inside, EntriesAreRuns,
                ServedIsFresh
  <1>2. ASSUME NEW r \in Requests, PassThrough(r)
        PROVE  FreshInv'
    BY Zenon, <1>2 DEF FreshInv, TypeOK, PassThrough, Goto, history, Inside, EntriesAreRuns,
                ServedIsFresh
  <1>3. ASSUME NEW r \in Requests, NEW k \in Keys, Arrive(r, k)
        PROVE  FreshInv'
    <2>1. TypeOK'
      BY <1>3 DEF FreshInv, TypeOK, Arrive, Goto
    <2>2. \A s \in Requests : now'[s] <= clock' /\ (Inside(s)' => key'[s] \in Keys)
      BY <1>3 DEF FreshInv, TypeOK, Arrive, Goto, Inside, Times
    <2>3. EntriesAreRuns' /\ ServedIsFresh' /\ IsFiniteSet(runs)'
      BY <1>3 DEF FreshInv, TypeOK, Arrive, Goto, EntriesAreRuns, ServedIsFresh
    <2> QED BY Zenon, <2>1, <2>2, <2>3 DEF FreshInv
  <1>4. ASSUME NEW r \in Requests, LookupHit(r)
        PROVE  FreshInv'
    <2>1. PICK e \in entries : /\ e.key = key[r] /\ e.expires_at > now[r]
                               /\ response' = [response EXCEPT ![r] = e.response]
      BY Zenon, <1>4 DEF LookupHit, Cached, IsFresh
    <2>2. PICK run \in runs : /\ run.id = e.response /\ run.key = e.key
                              /\ e.expires_at = run.started + Ttl
      BY Zenon DEF FreshInv, EntriesAreRuns
    <2>3. TypeOK'
      BY <1>4, <2>1 DEF FreshInv, TypeOK, LookupHit, Goto, history
    <2>4. ServedIsFresh'
      BY <1>4, <2>1, <2>2 DEF FreshInv, TypeOK, LookupHit, history, ServedIsFresh
    <2> QED
      BY <1>4, <2>3, <2>4 DEF FreshInv, TypeOK, LookupHit, Goto, history, Inside, EntriesAreRuns
  <1>5. ASSUME NEW r \in Requests, LookupMiss(r)
        PROVE  FreshInv'
    BY <1>5 DEF FreshInv, TypeOK, LookupMiss, Others, Goto, history, Inside, EntriesAreRuns,
                ServedIsFresh
  <1>6. ASSUME NEW r \in Requests, HandlerReturns(r)
        PROVE  FreshInv'
    <2>1. PICK run \in Runs : /\ run.key = key[r] /\ run.started = now[r]
                              /\ run.id \in 1..MaxRuns
                              /\ runs' = runs \cup {run} /\ IsFiniteSet(runs')
                              /\ response' = [response EXCEPT ![r] = run.id]
                              /\ at' = [at EXCEPT ![r] = "insert"]
                              /\ UNCHANGED <<clock, entries, key, now, overlapped>>
      BY Zenon, <1>6 DEF ReturnsAddRuns, RunAdded
    <2>2. TypeOK' /\ IsFiniteSet(runs)'
      BY <2>1 DEF FreshInv, TypeOK
    <2>3. \A s \in Requests : now'[s] <= clock' /\ (Inside(s)' => key'[s] \in Keys)
      BY Zenon, <1>6, <2>1 DEF FreshInv, TypeOK, HandlerReturns, Inside
    <2>4. EntriesAreRuns'
      BY <2>1 DEF FreshInv, TypeOK, EntriesAreRuns
    <2>5. ServedIsFresh'
      BY Zenon, <2>1 DEF FreshInv, TypeOK, ServedIsFresh
    <2> QED BY Zenon, <2>2, <2>3, <2>4, <2>5 DEF FreshInv
  <1>7. ASSUME NEW r \in Requests, HandlerThrows(r)
        PROVE  FreshInv'
    BY <1>7 DEF FreshInv, TypeOK, HandlerThrows, Goto, history, Inside, EntriesAreRuns,
                ServedIsFresh
  <1>8. ASSUME NEW r \in Requests, Insert(r)
        PROVE  FreshInv'
    <2> DEFINE e == [key |-> key[r], response |-> response[r], expires_at |-> now[r] + Ttl]
    <2>1. PICK run \in runs : /\ run.id = response[r] /\ run.key = key[r]
                              /\ run.started = now[r]
      BY Zenon, <1>8 DEF FreshInv, EntriesAreRuns, Insert
    <2>2. /\ entries' = Others(key[r]) \cup {e} /\ at' = [at EXCEPT ![r] = "out"]
          /\ UNCHANGED <<clock, key, now, response, runs, overlapped>>
      BY Zenon, <1>8 DEF Insert, Expiry, Goto
    <2>3. e \in [key : Keys, response : 1..MaxRuns, expires_at : Ttl..(MaxTime + Ttl)]
      BY <1>8, <2>1 DEF FreshInv, TypeOK, Runs, Times, Insert, Inside
    <2>4. TypeOK'
      BY <2>2, <2>3 DEF FreshInv, TypeOK, Others, Cached
    <2>5. EntriesAreRuns'
      BY <2>1, <2>2 DEF FreshInv, TypeOK, EntriesAreRuns, Others
    <2> QED
      BY Zenon, <2>2, <2>4, <2>5 DEF FreshInv, TypeOK, Inside, ServedIsFresh
  <1>9. CASE Tick
    BY <1>9 DEF FreshInv, TypeOK, Times, Tick, history, Inside, EntriesAreRuns, ServedIsFresh
  <1>10. CASE UNCHANGED idempotency_vars
    BY Zenon, <1>10 DEF idempotency_vars, FreshInv, TypeOK, Inside, EntriesAreRuns, ServedIsFresh
  <1> QED
    BY Zenon, <1>1, <1>2, <1>3, <1>4, <1>5, <1>6, <1>7, <1>8, <1>9, <1>10 DEF Next

-----------------------------------------------------------------------------
(* Keys whose requests do not overlap *)

\* A request that leaves the middleware before its handler has returned, and one that
\* is only passing through, forget no run.
LEMMA LeaveSequential ==
    ASSUME IdempotencyInv, NEW r \in Requests, at[r] # "insert",
           at' = [at EXCEPT ![r] = "out"] \/ at' = [at EXCEPT ![r] = "pass"],
           at[r] = "out" \/ key' = key,
           \A s \in Requests : s # r => key'[s] = key[s],
           UNCHANGED <<clock, entries, now, runs, overlapped>>
    PROVE  Sequential' /\ SequentialRequestsRunOnce'
  <1>1. \A s \in Requests : /\ Inside(s)' => s # r /\ Inside(s)
                            /\ s # r => at'[s] = at[s] /\ key'[s] = key[s]
                            /\ at'[r] \in {"out", "pass"}
    BY Zenon DEF IdempotencyInv, FreshInv, TypeOK, Inside
  <1>2. \A k : Inserting(k)' <=> Inserting(k)
    BY Zenon, <1>1 DEF Inserting, Inside
  <1>3. \A k : Cached(k)' = Cached(k)
    BY Zenon DEF Cached
  <1>4. \A run \in runs : Remembered(run) => Remembered(run)'
    BY Zenon, <1>1, <1>3 DEF Remembered
  <1>5. Sequential'
    BY Zenon, <1>1, <1>2, <1>3, <1>4 DEF IdempotencyInv, Sequential
  <1> QED BY Zenon, <1>5 DEF IdempotencyInv, SequentialRequestsRunOnce

\* A request that arrives reads a clock that is past the ttl of every forgotten run.
LEMMA ArriveSequential ==
    ASSUME IdempotencyInv, NEW r \in Requests, NEW k \in Keys, Arrive(r, k)
    PROVE  Sequential' /\ SequentialRequestsRunOnce'
  <1>1. /\ at[r] = "out" /\ at'[r] = "lookup" /\ key'[r] = k /\ now'[r] = clock
        /\ \A s \in Requests : s # r => at'[s] = at[s] /\ key'[s] = key[s] /\ now'[s] = now[s]
        /\ overlapped' = overlapped \cup {j \in {k} : InMiddleware(k) # {}}
        /\ UNCHANGED <<clock, entries, runs>>
    BY Zenon DEF Arrive, Goto, IdempotencyInv, FreshInv, TypeOK
  <1>2. \A s \in Requests : Inside(s) /\ key[s] = k => k \in overlapped'
    BY Zenon, <1>1 DEF InMiddleware, Inside
  <1>3. \A j : Inserting(j)' <=> Inserting(j)
    BY Zenon, <1>1 DEF Inserting
  <1>4. \A j : Cached(j)' = Cached(j)
    BY Zenon, <1>1 DEF Cached
  <1>5. \A run \in runs : Remembered(run) => Remembered(run)'
    BY Zenon, <1>1, <1>4 DEF Remembered
  <1>6. \A s, t \in Requests : s # t /\ Inside(s)' /\ Inside(t)' /\ key'[s] = key'[t] =>
            key'[s] \in overlapped'
    BY <1>1, <1>2 DEF IdempotencyInv, Sequential, Inside
  <1>7. overlapped \subseteq overlapped'
    BY Zenon, <1>1
  <1>8. Sequential'
    BY Zenon, <1>1, <1>3, <1>4, <1>5, <1>6, <1>7 DEF IdempotencyInv, Sequential
  <1> QED BY Zenon, <1>1, <1>7, <1>8 DEF IdempotencyInv, SequentialRequestsRunOnce

\* The entry a miss erases is one whose ttl is over for the request that missed, which
\* is the only one of its key.
LEMMA MissSequential ==
    ASSUME IdempotencyInv, NEW r \in Requests, LookupMiss(r)
    PROVE  Sequential' /\ SequentialRequestsRunOnce'
  <1>1. /\ at[r] = "lookup" /\ at'[r] = "handler"
        /\ \A s \in Requests : s # r => at'[s] = at[s]
        /\ \A e \in Cached(key[r]) : ~(e.expires_at > now[r])
        /\ entries' = entries \ Cached(key[r])
        /\ UNCHANGED <<clock, key, now, runs, overlapped>>
    BY Zenon DEF LookupMiss, Goto, Others, IsFresh, history, IdempotencyInv, FreshInv, TypeOK
  <1>2. \A j : Inserting(j)' <=> Inserting(j)
    BY Zenon, <1>1 DEF Inserting
  <1>3. /\ Cached(key[r])' = {}
        /\ \A j : j # key[r] => Cached(j)' = Cached(j)
    BY Zenon, <1>1 DEF Cached
  <1>4. ASSUME NEW run \in runs, run.key \notin overlapped, ~Inserting(run.key)
        PROVE  Remembered(run)'
    <2>0. Remembered(run) /\ run.started \in Nat
      BY <1>4, IdempotencyAssumption DEF IdempotencyInv, Sequential, FreshInv, TypeOK, Runs, Times
    <2>1. CASE run.key # key[r]
      BY Zenon, <1>1, <1>3, <2>0, <2>1 DEF Remembered
    <2>2. CASE run.key = key[r]
      <3>1. \A s \in Requests : s # r /\ Inside(s) => key[s] # key[r]
        BY Zenon, <1>1, <1>4, <2>2 DEF IdempotencyInv, Sequential, Inside
      <3>2. \A s \in Requests : at'[s] \in {"lookup", "handler"} /\ key[s] = key[r] => s = r
        BY Zenon, <1>1, <3>1 DEF Inside
      <3>3. clock >= run.started + Ttl /\ now[r] >= run.started + Ttl
        <4>1. CASE \E e \in Cached(run.key) : e.expires_at >= run.started + Ttl
          <5>1. PICK e \in Cached(key[r]) : e.expires_at >= run.started + Ttl
            BY Zenon, <2>2, <4>1
          <5>2. e.expires_at <= now[r] /\ now[r] <= clock /\ now[r] \in Nat /\ clock \in Nat
                /\ e.expires_at \in Nat
            BY <1>1, <5>1, IdempotencyAssumption
            DEF IdempotencyInv, FreshInv, TypeOK, Times, Cached
          <5> QED BY <2>0, <5>1, <5>2, IdempotencyAssumption
        <4>2. CASE ~\E e \in Cached(run.key) : e.expires_at >= run.started + Ttl
          BY Zenon, <1>1, <2>0, <2>2, <4>2 DEF Remembered
        <4> QED BY Zenon, <4>1, <4>2
      <3> QED BY Zenon, <1>1, <2>2, <3>2, <3>3 DEF Remembered
    <2> QED BY Zenon, <2>1, <2>2
  <1>5. \A s \in Requests : Inside(s)' => Inside(s)
    BY Zenon, <1>1 DEF Inside
  <1>6. \A s \in Requests : at'[s] = "handler" /\ key[s] \notin overlapped => Cached(key[s])' = {}
    BY Zenon, <1>1, <1>3 DEF IdempotencyInv, Sequential
  <1>7. Sequential'
    BY Zenon, <1>1, <1>2, <1>4, <1>5, <1>6 DEF IdempotencyInv, Sequential
  <1> QED BY Zenon, <1>1, <1>7 DEF IdempotencyInv, SequentialRequestsRunOnce

\* A handler that returns was called when no run of its key was remembered, so its run
\* begins at least ttl after each of them.
LEMMA ReturnSequential ==
    ASSUME IdempotencyInv, NEW r \in Requests, HandlerReturns(r), RunAdded(r)
    PROVE  Sequential' /\ SequentialRequestsRunOnce'
  <1>1. PICK run \in Runs : /\ run.key = key[r] /\ run.started = now[r]
                            /\ runs' = runs \cup {run}
                            /\ at' = [at EXCEPT ![r] = "insert"]
                            /\ UNCHANGED <<clock, entries, key, now, overlapped>>
    BY Zenon DEF RunAdded
  <1>2. /\ at[r] = "handler" /\ at'[r] = "insert"
        /\ \A s \in Requests : s # r => at'[s] = at[s]
    BY Zenon, <1>1 DEF HandlerReturns, IdempotencyInv, FreshInv, TypeOK
  <1>3. \A s \in Requests : Inside(s)' <=> Inside(s)
    BY Zenon, <1>2 DEF Inside
  <1>4. Inserting(key[r])' /\ \A k : k # key[r] => (Inserting(k)' <=> Inserting(k))
    BY Zenon, <1>1, <1>2 DEF Inserting
  <1>5. \A k : Cached(k)' = Cached(k)
    BY Zenon, <1>1 DEF Cached
  <1>6. \A a \in runs : Remembered(a) => Remembered(a)'
    BY Zenon, <1>1, <1>2, <1>5 DEF Remembered
  <1>7. ASSUME key[r] \notin overlapped, NEW a \in runs, a.key = key[r]
        PROVE  a.started + Ttl <= now[r] /\ a.started <= now[r]
    <2>1. \A s \in Requests : s # r /\ Inside(s) => key[s] # key[r]
      BY Zenon, <1>2, <1>7 DEF IdempotencyInv, Sequential, Inside
    <2>2. ~Inserting(key[r])
      BY Zenon, <1>2, <2>1 DEF Inserting, Inside
    <2>3. Remembered(a) /\ Cached(key[r]) = {}
      BY Zenon, <1>2, <1>7, <2>2 DEF IdempotencyInv, Sequential
    <2>4. now[r] >= a.started + Ttl
      BY Zenon, <1>2, <1>7, <2>3 DEF Remembered
    <2>5. a.started \in Nat /\ now[r] \in Nat
      BY IdempotencyAssumption DEF IdempotencyInv, FreshInv, TypeOK, Runs, Times
    <2> QED BY <2>4, <2>5, IdempotencyAssumption
  <1>8. now[r] <= now[r]
    BY IdempotencyAssumption DEF IdempotencyInv, FreshInv, TypeOK, Times
  <1>9. \A a \in runs' : a.key \notin overlapped' /\ ~Inserting(a.key)' => Remembered(a)'
    BY Zenon, <1>1, <1>4, <1>6 DEF IdempotencyInv, Sequential
  <1>10. \A s \in Requests : at'[s] = "insert" /\ key'[s] \notin overlapped' =>
             \A a \in runs' : a.key = key'[s] => a.started <= now'[s]
    <2> SUFFICES ASSUME NEW s \in Requests, at'[s] = "insert", key[s] \notin overlapped,
                        NEW a \in runs', a.key = key[s]
                 PROVE  a.started <= now[s]
      BY Zenon, <1>1
    <2>1. CASE s = r
      BY Zenon, <1>1, <1>7, <1>8, <2>1
    <2>2. CASE s # r
      <3>1. key[s] # key[r]
        BY Zenon, <1>2, <2>2 DEF IdempotencyInv, Sequential, Inside
      <3> QED BY Zenon, <1>1, <1>2, <2>2, <3>1 DEF IdempotencyInv, Sequential
    <2> QED BY Zenon, <2>1, <2>2
  <1>11. Sequential'
    BY Zenon, <1>1, <1>2, <1>3, <1>5, <1>9, <1>10 DEF IdempotencyInv, Sequential
  <1>12. SequentialRequestsRunOnce'
    BY <1>1, <1>7 DEF IdempotencyInv, SequentialRequestsRunOnce
  <1> QED BY Zenon, <1>11, <1>12

\* The entry a request inserts is the youngest of its key, and lives as long as any run
\* of the key must be remembered.
LEMMA InsertSequential ==
    ASSUME IdempotencyInv, NEW r \in Requests, Insert(r)
    PROVE  Sequential' /\ SequentialRequestsRunOnce'
  <1> DEFINE e == [key |-> key[r], response |-> response[r], expires_at |-> now[r] + Ttl]
  <1>1. /\ at[r] = "insert" /\ at'[r] = "out"
        /\ \A s \in Requests : s # r => at'[s] = at[s]
        /\ entries' = (entries \ Cached(key[r])) \cup {e}
        /\ UNCHANGED <<clock, key, now, runs, overlapped>>
    BY Zenon DEF Insert, Expiry, Others, Goto, IdempotencyInv, FreshInv, TypeOK
  <1>2. e.key = key[r] /\ e.expires_at = now[r] + Ttl
    BY Zenon
  <1> HIDE DEF e
  <1>3. /\ Cached(key[r])' = {e}
        /\ \A k : k # key[r] => Cached(k)' = Cached(k)
    BY Zenon, <1>1, <1>2 DEF Cached
  <1>4. \A s \in Requests : Inside(s)' => Inside(s) /\ s # r
    BY Zenon, <1>1 DEF Inside
  <1>5. \A k : k # key[r] => (Inserting(k)' <=> Inserting(k))
    BY Zenon, <1>1 DEF Inserting
  <1>6. \A s \in Requests : s # r /\ Inside(s) /\ key[s] = key[r] => key[r] \in overlapped
    BY Zenon, <1>1 DEF IdempotencyInv, Sequential, Inside
  <1>7. ASSUME NEW run \in runs, run.key \notin overlapped, ~Inserting(run.key)'
        PROVE  Remembered(run)'
    <2>1. CASE run.key # key[r]
      <3>1. Remembered(run)
        BY Zenon, <1>5, <1>7, <2>1 DEF IdempotencyInv, Sequential
      <3> QED BY Zenon, <1>1, <1>3, <2>1, <3>1 DEF Remembered
    <2>2. CASE run.key = key[r]
      <3>1. run.started <= now[r]
        BY Zenon, <1>1, <1>7, <2>2 DEF IdempotencyInv, Sequential
      <3>2. run.started \in Nat /\ now[r] \in Nat
        BY IdempotencyAssumption DEF IdempotencyInv, FreshInv, TypeOK, Runs, Times
      <3>3. e.expires_at >= run.started + Ttl
        BY <1>2, <3>1, <3>2, IdempotencyAssumption
      <3> QED BY Zenon, <1>1, <1>3, <2>2, <3>3 DEF Remembered
    <2> QED BY <2>1, <2>2
  <1>8. \A s \in Requests : at'[s] = "handler" /\ key[s] \notin overlapped => Cached(key[s])' = {}
    BY Zenon, <1>1, <1>3, <1>6 DEF IdempotencyInv, Sequential, Inside
  <1>9. Sequential'
    BY Zenon, <1>1, <1>4, <1>7, <1>8 DEF IdempotencyInv, Sequential
  <1> QED BY Zenon, <1>1, <1>9 DEF IdempotencyInv, SequentialRequestsRunOnce

\* Every action preserves the inductive invariant.
LEMMA NextIdempotencyInv ==
    ASSUME IdempotencyInv, [Next]_idempotency_vars, ReturnsAddRuns
    PROVE  IdempotencyInv'
  <1> SUFFICES Sequential' /\ SequentialRequestsRunOnce'
    BY Zenon, NextFreshInv DEF IdempotencyInv
  <1>1. ASSUME NEW r \in Requests,
               ArriveWithoutKey(r) \/ PassThrough(r) \/ LookupHit(r) \/ HandlerThrows(r)
        PROVE  Sequential' /\ SequentialRequestsRunOnce'
    <2>1. /\ at[r] # "insert"
          /\ at' = [at EXCEPT ![r] = "out"] \/ at' = [at EXCEPT ![r] = "pass"]
          /\ at[r] = "out" \/ key' = key
          /\ \A s \in Requests : s # r => key'[s] = key[s]
          /\ UNCHANGED <<clock, entries, now, runs, overlapped>>
      BY Zenon, <1>1 DEF ArriveWithoutKey, PassThrough, LookupHit, HandlerThrows, Goto, history,
                  IdempotencyInv, FreshInv, TypeOK
    <2> QED BY Zenon, <2>1, LeaveSequential
  <1>2. CASE Tick
    <2>1. /\ clock' > clock /\ clock \in Nat /\ clock' \in Nat
          /\ UNCHANGED <<entries, at, key, now, runs, overlapped>>
      BY <1>2, IdempotencyAssumption DEF Tick, history, IdempotencyInv, FreshInv, TypeOK, Times
    <2>2. \A run \in runs : Remembered(run) => Remembered(run)'
      <3>1. \A run \in runs : run.started \in Nat
        BY IdempotencyAssumption DEF IdempotencyInv, FreshInv, TypeOK, Runs, Times
      <3> QED BY <2>1, <3>1, IdempotencyAssumption DEF Remembered, Cached
    <2>3. \A k : (Inserting(k)' <=> Inserting(k)) /\ Cached(k)' = Cached(k)
      BY Zenon, <2>1 DEF Inserting, Cached
    <2>4. Sequential'
      BY Zenon, <2>1, <2>2, <2>3 DEF IdempotencyInv, Sequential, Inside
    <2> QED BY Zenon, <2>1, <2>4 DEF IdempotencyInv, SequentialRequestsRunOnce
  <1>3. CASE UNCHANGED idempotency_vars
    BY Zenon, <1>3
    DEF idempotency_vars, IdempotencyInv, Sequential, Inside, Inserting, Remembered, Cached,
                SequentialRequestsRunOnce
  <1>4. ASSUME NEW r \in Requests, HandlerReturns(r)
        PROVE  Sequential' /\ SequentialRequestsRunOnce'
    <2>1. RunAdded(r)
      BY Zenon, <1>4 DEF ReturnsAddRuns
    <2> QED BY Zenon, <1>4, <2>1, ReturnSequential
  <1>5. ASSUME NEW r \in Requests,
               LookupMiss(r) \/ Insert(r) \/ \E k \in Keys : Arrive(r, k)
        PROVE  Sequential' /\ SequentialRequestsRunOnce'
    BY Zenon, <1>5, ArriveSequential, MissSequential, InsertSequential
  <1> QED BY Zenon, <1>1, <1>2, <1>3, <1>4, <1>5 DEF Next
-----------------------------------------------------------------------------
(* The chain *)

IsPerThread(f) == f = [r \in Requests |-> f[r]]

PipelineTypes ==
    /\ going \in [Requests -> {"idle", "down", "back", "unwinding"}]
    /\ level \in [Requests -> 0..7]
    /\ IsPerThread(request) /\ IsPerThread(status) /\ IsPerThread(allow_origin)
    /\ IsPerThread(tl_current) /\ IsPerThread(previous_)
    /\ handled \in Nat

\* Where a thread may be in the chain, and in idempotency_middleware at each place.
Placed(r) ==
    /\ going[r] = "idle" => level[r] = 0
    /\ going[r] # "idle" => request[r] \in Kinds
    /\ going[r] = "down" => level[r] # 0
    /\ going[r] \in {"back", "unwinding"} => level[r] # 7
    /\ at[r] = "lookup" => going[r] = "down" /\ level[r] = 6
    /\ at[r] \in {"handler", "pass"} => going[r] = "down" /\ level[r] = 7
    /\ at[r] = "insert" => going[r] = "back" /\ level[r] = 6

InScope(r) == \/ going[r] = "down" /\ level[r] > 1
              \/ going[r] \in {"back", "unwinding"} /\ level[r] > 0

\* The scope a thread has open is that of its request, and restores the server's context.
Scoped(r) ==
    IF InScope(r) THEN tl_current[r] = ContextOf(request[r]) /\ previous_[r] = ServerContext
                  ELSE tl_current[r] = ServerContext

\* Only what leaves cors_middleware carries a header, and what leaves it carries the
\* right one.
Labelled(r) ==
    /\ going[r] = "back" /\ level[r] = 1 => allow_origin[r] = AllowOrigin(request[r])
    /\ going[r] = "back" /\ level[r] = 0 /\ request[r].routed =>
          allow_origin[r] = AllowOrigin(request[r])
    /\ going[r] \in {"idle", "down"} \/ (going[r] = "back" /\ level[r] > 1) =>
          allow_origin[r] = NoHeader

ThreadInv(r) == Placed(r) /\ Scoped(r) /\ Labelled(r)

\* Threads the limiter has let through whose handler has yet to run
Through == {r \in Requests : going[r] = "down" /\ level[r] > 3}

\* Every token pays for one thread on its way to the handler or for one run of it.
Paid == granted \in Nat /\ handled + Cardinality(Through) <= granted

PipelineInv ==
    /\ PipelineTypes
    /\ \A r \in Requests : ThreadInv(r)

\* The middlewares by their place in the chain.
LEMMA Places ==
    ASSUME NEW r \in Requests
    PROVE  /\ At(r, "correlation") <=> level[r] = 1
           /\ At(r, "cors") <=> level[r] = 2
           /\ At(r, "rate_limit") <=> level[r] = 3
           /\ At(r, "body_limit") <=> level[r] = 4
           /\ At(r, "auth") <=> level[r] = 5
           /\ At(r, "idempotency") <=> level[r] = 6
           /\ HandlerLevel = 7
  <1>1. /\ DOMAIN Chain = 1..6 /\ Len(Chain) = 6
        /\ Chain[1] = "correlation" /\ Chain[2] = "cors" /\ Chain[3] = "rate_limit"
        /\ Chain[4] = "body_limit" /\ Chain[5] = "auth" /\ Chain[6] = "idempotency"
    BY DEF Chain
  <1>2. level[r] \in DOMAIN Chain =>
            \/ level[r] = 1 \/ level[r] = 2 \/ level[r] = 3
            \/ level[r] = 4 \/ level[r] = 5 \/ level[r] = 6
    BY <1>1
  <1>3. 1 \in 1..6 /\ 2 \in 1..6 /\ 3 \in 1..6 /\ 4 \in 1..6 /\ 5 \in 1..6 /\ 6 \in 1..6
    OBVIOUS
  <1> QED BY <1>1, <1>2, <1>3 DEF At, HandlerLevel

\* The checks by their places.
LEMMA PlacesOfChecks ==
    ASSUME NEW r \in Requests
    PROVE  /\ (\E check \in Checks : At(r, check)) <=> level[r] \in {2, 4, 5}
           /\ (\E m \in Checks \cup {"rate_limit"} : At(r, m)) <=> level[r] \in {2, 3, 4, 5}
  BY Zenon, Places DEF Checks

\* A step of thread r changes nothing that concerns another thread.
OnlyThread(r) ==
    \A s \in Requests : s # r =>
        /\ going'[s] = going[s] /\ level'[s] = level[s] /\ request'[s] = request[s]
        /\ allow_origin'[s] = allow_origin[s] /\ at'[s] = at[s]
        /\ tl_current'[s] = tl_current[s] /\ previous_'[s] = previous_[s]

\* The other threads keep their invariant.
LEMMA OtherThreads ==
    ASSUME NEW r \in Requests, NEW s \in Requests, s # r, OnlyThread(r), ThreadInv(s)
    PROVE  ThreadInv(s)'
  BY Zenon DEF OnlyThread, ThreadInv, Placed, Scoped, InScope, Labelled

\* dispatch() begins and ends in the server's context and without a header.
LEMMA ServerStep ==
    ASSUME PipelineInv, TypeOK, NEW r \in Requests,
           (\E q \in Kinds : Dispatch(r, q)) \/ Return(r)
    PROVE  PipelineTypes' /\ OnlyThread(r) /\ ThreadInv(r)'
  <1> USE DEF PipelineInv, PipelineTypes, IsPerThread, Move, scope_vars, answer_vars,
              idempotency_vars
  <1>1. ASSUME NEW q \in Kinds, Dispatch(r, q)
        PROVE  PipelineTypes' /\ OnlyThread(r) /\ ThreadInv(r)'
    <2>1. /\ going' \in [Requests -> {"idle", "down", "back", "unwinding"}]
          /\ level' \in [Requests -> 0..7]
          /\ UNCHANGED <<at, tl_current, previous_, allow_origin, handled>>
      BY <1>1 DEF Dispatch
    <2>2. IsPerThread(request)' /\ IsPerThread(status)'
      BY <1>1 DEF Dispatch
    <2>3. PipelineTypes'
      BY Zenon, <2>1, <2>2
    <2>4. OnlyThread(r)
      <3>1. \A s \in Requests : s # r =>
                going'[s] = going[s] /\ level'[s] = level[s] /\ request'[s] = request[s]
        BY <1>1 DEF Dispatch
      <3> QED BY Zenon, <2>1, <3>1 DEF OnlyThread
    <2>5. ThreadInv(r)'
      BY <1>1 DEF Dispatch, TypeOK, ThreadInv, Placed, Scoped, InScope, Labelled
    <2> QED BY Zenon, <2>3, <2>4, <2>5
  <1>2. ASSUME Return(r)
        PROVE  PipelineTypes' /\ OnlyThread(r) /\ ThreadInv(r)'
    <2>1. PipelineTypes' /\ OnlyThread(r)
      BY Zenon, <1>2 DEF Return, OnlyThread
    <2>2. ThreadInv(r)'
      BY <1>2 DEF Return, TypeOK, ThreadInv, Placed, Scoped, InScope, Labelled
    <2> QED BY Zenon, <2>1, <2>2
  <1> QED BY Zenon, <1>1, <1>2

\* correlation_middleware opens and closes the scope of its request.
LEMMA ScopeStep ==
    ASSUME PipelineInv, TypeOK, NEW r \in Requests, OpenScope(r) \/ CloseScope(r)
    PROVE  PipelineTypes' /\ OnlyThread(r) /\ ThreadInv(r)'
  <1> USE DEF PipelineInv, PipelineTypes, IsPerThread, Move, CallNext, answer_vars,
              idempotency_vars
  <1>1. level[r] = 1
    BY Zenon, Places DEF OpenScope, CloseScope
  <1>2. PipelineTypes' /\ OnlyThread(r)
    BY <1>1 DEF OpenScope, CloseScope, OnlyThread
  <1>3. ASSUME OpenScope(r) PROVE ThreadInv(r)'
    BY <1>1, <1>3 DEF OpenScope, TypeOK, ThreadInv, Placed, Scoped, InScope, Labelled, ContextOf
  <1>4. ASSUME CloseScope(r) PROVE ThreadInv(r)'
    BY <1>1, <1>4 DEF CloseScope, TypeOK, ThreadInv, Placed, Scoped, InScope, Labelled,
                      AllowOrigin
  <1> QED BY Zenon, <1>2, <1>3, <1>4

\* The checks, on the way down.
LEMMA CheckStep ==
    ASSUME PipelineInv, TypeOK, NEW r \in Requests, Pass(r) \/ Refuse(r)
    PROVE  PipelineTypes' /\ OnlyThread(r) /\ ThreadInv(r)'
  <1> USE DEF PipelineInv, PipelineTypes, IsPerThread, Move, CallNext, Answer, answer_vars,
              scope_vars, idempotency_vars
  <1>1. level[r] \in {2, 4, 5} /\ going[r] = "down"
    BY Zenon, PlacesOfChecks DEF Pass, Refuse
  <1>2. PipelineTypes' /\ OnlyThread(r)
    BY <1>1 DEF Pass, Refuse, OnlyThread
  <1>3. ASSUME Pass(r) PROVE ThreadInv(r)'
    BY <1>1, <1>3 DEF Pass, TypeOK, ThreadInv, Placed, Scoped, InScope, Labelled, ContextOf
  <1>4. ASSUME Refuse(r) PROVE ThreadInv(r)'
    <2>1. At(r, "cors") <=> level[r] = 2
      BY Zenon, Places
    <2> QED
      BY SMTT(20), <1>1, <1>4, <2>1
      DEF Refuse, TypeOK, ThreadInv, Placed, Scoped, InScope, Labelled,
                              ContextOf, AllowOrigin
  <1> QED BY <1>2, <1>3, <1>4

\* A response or an exception passes the checks and the limiter on its way back.
LEMMA BackStep ==
    ASSUME PipelineInv, TypeOK, NEW r \in Requests, Back(r)
    PROVE  PipelineTypes' /\ OnlyThread(r) /\ ThreadInv(r)'
  <1> USE DEF PipelineInv, PipelineTypes, IsPerThread, Move, scope_vars, idempotency_vars
  <1>1. level[r] \in {2, 3, 4, 5} /\ going[r] \in {"back", "unwinding"}
        /\ (At(r, "cors") <=> level[r] = 2)
    BY Zenon, Places, PlacesOfChecks DEF Back
  <1>2. PipelineTypes' /\ OnlyThread(r)
    BY <1>1 DEF Back, OnlyThread, Decorated
  <1>3. allow_origin'[r] = IF going[r] = "back" /\ level[r] = 2 THEN AllowOrigin(request[r])
                                                               ELSE allow_origin[r]
    BY <1>1 DEF Back, Decorated, ThreadInv, Labelled
  <1>4. ThreadInv(r)'
    BY <1>1, <1>3 DEF Back, TypeOK, ThreadInv, Placed, Scoped, InScope, Labelled, ContextOf,
                      AllowOrigin
  <1> QED BY Zenon, <1>2, <1>4

\* The limiter lets a request through or answers it.
LEMMA LimiterStep ==
    ASSUME PipelineInv, TypeOK, NEW r \in Requests, Admit(r) \/ TooManyRequests(r)
    PROVE  PipelineTypes' /\ OnlyThread(r) /\ ThreadInv(r)'
  <1> USE DEF PipelineInv, PipelineTypes, IsPerThread, Move, CallNext, Answer, answer_vars,
              scope_vars, idempotency_vars
  <1>1. level[r] = 3 /\ going[r] = "down"
    BY Zenon, Places DEF Admit, TooManyRequests
  <1>2. PipelineTypes' /\ OnlyThread(r)
    BY <1>1 DEF Admit, TooManyRequests, OnlyThread
  <1>3. ThreadInv(r)'
    BY <1>1 DEF Admit, TooManyRequests, TypeOK, ThreadInv, Placed, Scoped, InScope, Labelled,
                ContextOf
  <1> QED BY Zenon, <1>2, <1>3

\* idempotency_middleware calls next(req), answers from its cache, or caches.
LEMMA IdempotencyStep ==
    ASSUME PipelineInv, TypeOK, NEW r \in Requests,
           EnterIdempotency(r) \/ Lookup(r) \/ LeaveIdempotency(r)
    PROVE  PipelineTypes' /\ OnlyThread(r) /\ ThreadInv(r)'
  <1> USE DEF PipelineInv, PipelineTypes, IsPerThread, Move, CallNext, Answer, answer_vars,
              scope_vars, idempotency_vars, Goto
  <1>1. ASSUME EnterIdempotency(r)
        PROVE  PipelineTypes' /\ OnlyThread(r) /\ ThreadInv(r)'
    <2>1. level[r] = 6 /\ going[r] = "down" /\ at[r] = "out"
      BY Zenon, <1>1, Places DEF EnterIdempotency, ArriveWithoutKey, Arrive
    <2>2. PipelineTypes' /\ OnlyThread(r)
      BY <1>1, <2>1 DEF EnterIdempotency, ArriveWithoutKey, Arrive, OnlyThread, TypeOK
    <2>3. ThreadInv(r)'
      BY <1>1, <2>1 DEF EnterIdempotency, ArriveWithoutKey, Arrive, TypeOK, ThreadInv, Placed,
                        Scoped, InScope, Labelled, ContextOf
    <2> QED BY Zenon, <2>2, <2>3
  <1>2. ASSUME Lookup(r)
        PROVE  PipelineTypes' /\ OnlyThread(r) /\ ThreadInv(r)'
    <2>1. level[r] = 6 /\ going[r] = "down" /\ at[r] = "lookup"
      BY Zenon, <1>2 DEF Lookup, LookupHit, LookupMiss, ThreadInv, Placed
    <2>2. PipelineTypes' /\ OnlyThread(r)
      BY <1>2, <2>1 DEF Lookup, LookupHit, LookupMiss, OnlyThread, TypeOK
    <2>3. ThreadInv(r)'
      BY <1>2, <2>1 DEF Lookup, LookupHit, LookupMiss, TypeOK, ThreadInv, Placed, Scoped,
                        InScope, Labelled, ContextOf
    <2> QED BY <2>2, <2>3
  <1>3. ASSUME LeaveIdempotency(r)
        PROVE  PipelineTypes' /\ OnlyThread(r) /\ ThreadInv(r)'
    <2>1. level[r] = 6 /\ going[r] \in {"back", "unwinding"}
      BY Zenon, <1>3, Places DEF LeaveIdempotency
    <2>2. PipelineTypes' /\ OnlyThread(r)
      BY <1>3, <2>1 DEF LeaveIdempotency, Insert, OnlyThread, TypeOK
    <2>3. ThreadInv(r)'
      BY <1>3, <2>1 DEF LeaveIdempotency, Insert, TypeOK, ThreadInv, Placed, Scoped, InScope,
                        Labelled, ContextOf
    <2> QED BY <2>2, <2>3
  <1> QED BY Zenon, <1>1, <1>2, <1>3

\* The handler answers or throws.
LEMMA HandlerStep ==
    ASSUME PipelineInv, TypeOK, NEW r \in Requests, Handle(r)
    PROVE  PipelineTypes' /\ OnlyThread(r) /\ ThreadInv(r)'
  <1> USE DEF PipelineInv, PipelineTypes, IsPerThread, Move, Answer, answer_vars, scope_vars,
              idempotency_vars, Goto
  <1>1. level[r] = 7 /\ going[r] = "down"
    BY Zenon, Places DEF Handle
  <1>2. PipelineTypes' /\ OnlyThread(r)
    BY <1>1 DEF Handle, HandlerReturns, HandlerThrows, PassThrough, OnlyThread, TypeOK
  <1>3. ThreadInv(r)'
    BY <1>1 DEF Handle, HandlerReturns, HandlerThrows, PassThrough, TypeOK, ThreadInv, Placed,
                Scoped, InScope, Labelled, ContextOf
  <1> QED BY <1>2, <1>3

\* Every step of the pipeline preserves the invariant of its threads.
LEMMA NextPipelineInv == PipelineInv /\ TypeOK /\ [PipelineNext]_all_vars => PipelineInv'
  <1> SUFFICES ASSUME PipelineInv, TypeOK, [PipelineNext]_all_vars
               PROVE  PipelineInv'
    BY Zenon
  <1>1. ASSUME NEW r \in Requests, PipelineTypes' /\ OnlyThread(r) /\ ThreadInv(r)'
        PROVE  PipelineInv'
    BY Zenon, <1>1, OtherThreads DEF PipelineInv
  <1>2. CASE PipelineTick \/ UNCHANGED all_vars
    <2>1. UNCHANGED <<going, level, request, status, allow_origin, tl_current, previous_,
                      handled, at>>
      BY Zenon, <1>2 DEF PipelineTick, Tick, all_vars, idempotency_vars, scope_vars, answer_vars
    <2> QED
      BY <2>1 DEF PipelineInv, PipelineTypes, IsPerThread, ThreadInv, Placed, Scoped, InScope,
                  Labelled
  <1> QED
    BY Zenon, <1>1, <1>2, ServerStep, ScopeStep, CheckStep, BackStep, LimiterStep, IdempotencyStep,
       HandlerStep DEF PipelineNext

\* To idempotency_middleware the rest of the chain is the caller and the handler: a
\* step of the pipeline is one of its own or leaves it alone.
LEMMA StepOfIdempotency == PipelineInv /\ [PipelineNext]_all_vars => [Next]_idempotency_vars
  <1> SUFFICES ASSUME PipelineInv, [PipelineNext]_all_vars
               PROVE  Next \/ UNCHANGED idempotency_vars
    BY Zenon
  <1>1. ASSUME NEW r \in Requests,
               \/ \E q \in Kinds : Dispatch(r, q)
               \/ Return(r) \/ OpenScope(r) \/ CloseScope(r)
               \/ Pass(r) \/ Refuse(r) \/ Back(r) \/ Admit(r) \/ TooManyRequests(r)
        PROVE  UNCHANGED idempotency_vars
    BY Zenon, <1>1 DEF Dispatch, Return, OpenScope, CloseScope, Pass, Refuse, Back, Admit,
                TooManyRequests
  <1>2. ASSUME NEW r \in Requests, EnterIdempotency(r)
        PROVE  Next
    <2>1. request[r] \in Kinds
      BY Zenon, <1>2 DEF EnterIdempotency, PipelineInv, ThreadInv, Placed
    <2>2. request[r].key \in Keys \cup {NoKey}
      BY Zenon, <2>1, PipelineAssumption
    <2> QED BY Zenon, <1>2, <2>2 DEF EnterIdempotency, Next
  <1>3. ASSUME NEW r \in Requests, Lookup(r)
        PROVE  Next
    BY Zenon, <1>3 DEF Lookup, Next
  <1>4. ASSUME NEW r \in Requests, Handle(r)
        PROVE  Next
    BY Zenon, <1>4 DEF Handle, Next
  <1>5. ASSUME NEW r \in Requests, LeaveIdempotency(r)
        PROVE  Next \/ UNCHANGED idempotency_vars
    BY Zenon, <1>5 DEF LeaveIdempotency, Next
  <1>6. CASE PipelineTick
    BY Zenon, <1>6 DEF PipelineTick, Next
  <1>7. CASE UNCHANGED all_vars
    BY Zenon, <1>7 DEF all_vars
  <1> QED BY Zenon, <1>1, <1>2, <1>3, <1>4, <1>5, <1>6, <1>7 DEF PipelineNext

\* A step that lets nobody through and runs no handler.
NobodyThrough == Through' \subseteq Through /\ UNCHANGED <<granted, handled>>

\* The limiter lets at most one thread through, against a token.
OneThrough == \E r \in Requests : /\ Through' \subseteq Through \cup {r}
                                  /\ granted' = granted + 1 /\ handled' = handled

\* One of the threads let through runs the handler.
OneHandled == \E r \in Through : /\ Through' = Through \ {r}
                                 /\ granted' = granted /\ handled' = handled + 1

\* Only the limiter lets a thread through, against a token, and only a thread that was
\* let through runs the handler.
LEMMA StepOfThrough ==
    ASSUME PipelineInv, TypeOK, [PipelineNext]_all_vars
    PROVE  NobodyThrough \/ OneThrough \/ OneHandled
  <1>1. ASSUME NEW r \in Requests, OnlyThread(r), r \in Through' => r \in Through,
               UNCHANGED <<granted, handled>>
        PROVE  NobodyThrough
    BY Zenon, <1>1 DEF OnlyThread, Through, NobodyThrough
  <1>2. ASSUME NEW r \in Requests,
               (\E q \in Kinds : Dispatch(r, q)) \/ Return(r)
        PROVE  NobodyThrough
    <2>1. r \notin Through' /\ UNCHANGED <<granted, handled>>
      BY <1>2 DEF Dispatch, Return, Move, Through, PipelineInv, PipelineTypes, limiter_vars
    <2> QED BY Zenon, <1>1, <1>2, <2>1, ServerStep
  <1>3. ASSUME NEW r \in Requests, OpenScope(r) \/ CloseScope(r)
        PROVE  NobodyThrough
    <2>1. r \notin Through' /\ UNCHANGED <<granted, handled>>
      BY <1>3, Places DEF OpenScope, CloseScope, CallNext, Move, Through, PipelineInv,
                          PipelineTypes, limiter_vars
    <2> QED BY Zenon, <1>1, <1>3, <2>1, ScopeStep
  <1>4. ASSUME NEW r \in Requests, Pass(r) \/ Refuse(r)
        PROVE  NobodyThrough
    <2>1. level[r] \in {2, 4, 5} /\ going[r] = "down"
      BY Zenon, <1>4, PlacesOfChecks DEF Pass, Refuse
    <2>2. (r \in Through' => r \in Through) /\ UNCHANGED <<granted, handled>>
      BY <1>4, <2>1 DEF Pass, Refuse, CallNext, Answer, Move, Through, PipelineInv,
                        PipelineTypes, limiter_vars
    <2> QED BY Zenon, <1>1, <1>4, <2>2, CheckStep
  <1>5. ASSUME NEW r \in Requests, Back(r)
        PROVE  NobodyThrough
    <2>1. r \notin Through' /\ UNCHANGED <<granted, handled>>
      BY Zenon, <1>5 DEF Back, Move, Through, PipelineInv, PipelineTypes, limiter_vars
    <2> QED BY Zenon, <1>1, <1>5, <2>1, BackStep
  <1>6. ASSUME NEW r \in Requests, TooManyRequests(r)
        PROVE  NobodyThrough
    <2>1. r \notin Through' /\ UNCHANGED <<granted, handled>>
      BY Zenon, <1>6
      DEF TooManyRequests, Limiter!TryAcquireFalse, Answer, Move, Through, PipelineInv,
                  PipelineTypes
    <2> QED BY Zenon, <1>1, <1>6, <2>1, LimiterStep
  <1>7. ASSUME NEW r \in Requests,
               EnterIdempotency(r) \/ Lookup(r) \/ LeaveIdempotency(r)
        PROVE  NobodyThrough
    <2>1. /\ EnterIdempotency(r) \/ Lookup(r) => going[r] = "down" /\ level[r] = 6
          /\ UNCHANGED <<granted, handled>>
      BY Zenon, <1>7, Places DEF EnterIdempotency, Lookup, LookupHit, LookupMiss, LeaveIdempotency,
                          PipelineInv, ThreadInv, Placed, limiter_vars
    <2>2. EnterIdempotency(r) \/ Lookup(r) => r \in Through
      BY <2>1 DEF Through
    <2>3. LeaveIdempotency(r) => r \notin Through'
      BY Zenon DEF LeaveIdempotency, Move, Through, PipelineInv, PipelineTypes
    <2> QED BY Zenon, <1>1, <1>7, <2>1, <2>2, <2>3, IdempotencyStep
  <1>8. ASSUME NEW r \in Requests, Admit(r)
        PROVE  OneThrough
    <2>1. granted' = granted + 1 /\ handled' = handled
      BY Zenon, <1>8 DEF Admit, Limiter!TryAcquireTrue
    <2>2. OnlyThread(r)
      BY Zenon, <1>8, LimiterStep
    <2>3. Through' \subseteq Through \cup {r}
      BY Zenon, <2>2 DEF OnlyThread, Through
    <2> QED BY Zenon, <2>1, <2>3 DEF OneThrough
  <1>9. ASSUME NEW r \in Requests, Handle(r)
         PROVE  OneHandled
    <2>1. granted' = granted /\ handled' = handled + 1
      BY Zenon, <1>9 DEF Handle, limiter_vars
    <2>2. r \in Through /\ r \notin Through'
      BY <1>9, Places DEF Handle, Answer, Move, Through, PipelineInv, PipelineTypes
    <2>3. OnlyThread(r)
      BY Zenon, <1>9, HandlerStep
    <2>4. Through' = Through \ {r}
      BY Zenon, <2>2, <2>3 DEF OnlyThread, Through
    <2> QED BY Zenon, <2>1, <2>2, <2>4 DEF OneHandled
  <1>10. CASE PipelineTick \/ UNCHANGED all_vars
    <2>1. UNCHANGED <<granted, handled, going, level>>
      BY Zenon, <1>10 DEF PipelineTick, Limiter!Tick, all_vars, limiter_vars
    <2> QED BY Zenon, <2>1 DEF Through, NobodyThrough
  <1> QED
    BY Zenon, <1>2, <1>3, <1>4, <1>5, <1>6, <1>7, <1>8, <1>9, <1>10 DEF PipelineNext

-----------------------------------------------------------------------------
(* The handler and the limiter *)

LimiterProofs == INSTANCE RateLimiterProofs WITH Costs <- {1}, since <- 0

\* A step of the pipeline is a call of the limiter, a tick, or leaves it alone.
LEMMA StepOfLimiter ==
    [PipelineNext]_all_vars => [LimiterProofs!Next]_(LimiterProofs!vars)
  <1> SUFFICES ASSUME [PipelineNext]_all_vars
               PROVE  LimiterProofs!Next \/ UNCHANGED LimiterProofs!vars
    BY Zenon
  <1> USE DEF LimiterProofs!vars, limiter_vars
  <1>1. ASSUME NEW r \in Requests,
               \/ \E q \in Kinds : Dispatch(r, q)
               \/ Return(r) \/ OpenScope(r) \/ CloseScope(r)
               \/ Pass(r) \/ Refuse(r) \/ Back(r)
        PROVE  UNCHANGED LimiterProofs!vars
    BY Zenon, <1>1 DEF Dispatch, Return, OpenScope, CloseScope, Pass, Refuse, Back, idempotency_vars
  <1>2. ASSUME NEW r \in Requests, Admit(r)
        PROVE  LimiterProofs!TryAcquireTrue(1)
    BY Zenon, <1>2 DEF Admit, Limiter!TryAcquireTrue, Limiter!Refilled, Limiter!AtMost,
                LimiterProofs!TryAcquireTrue, LimiterProofs!Refilled, LimiterProofs!AtMost
  <1>3. ASSUME NEW r \in Requests, TooManyRequests(r)
        PROVE  LimiterProofs!TryAcquireFalse(1)
    BY Zenon, <1>3 DEF TooManyRequests, Limiter!TryAcquireFalse, Limiter!Refilled, Limiter!AtMost,
                LimiterProofs!TryAcquireFalse, LimiterProofs!Refilled, LimiterProofs!AtMost
  <1>4. ASSUME NEW r \in Requests,
               EnterIdempotency(r) \/ Lookup(r) \/ Handle(r) \/ LeaveIdempotency(r)
        PROVE  UNCHANGED LimiterProofs!vars
    BY Zenon, <1>4 DEF EnterIdempotency, ArriveWithoutKey, Arrive, Lookup, LookupHit, LookupMiss,
                Handle, HandlerReturns, HandlerThrows, PassThrough, LeaveIdempotency, Insert,
                idempotency_vars
  <1>5. CASE PipelineTick
    BY Zenon, <1>5 DEF PipelineTick, Limiter!Tick, LimiterProofs!Next, LimiterProofs!Tick
  <1>6. CASE UNCHANGED all_vars
    BY Zenon, <1>6 DEF all_vars, idempotency_vars
  <1> QED BY Zenon, <1>1, <1>2, <1>3, <1>4, <1>5, <1>6 DEF PipelineNext, LimiterProofs!Next

\* The limiter of the pipeline is a rate limiter whose callers ask for one token each.
THEOREM PipelineImplementsLimiter == PipelineSpec => LimiterProofs!Spec
  <1>1. PipelineInit => LimiterProofs!Init
    BY Zenon DEF PipelineInit, Init, Limiter!Init, LimiterProofs!Init
  <1> QED BY <1>1, StepOfLimiter, PTL DEF PipelineSpec, LimiterProofs!Spec

-----------------------------------------------------------------------------
(* Runs and threads are counted: from here on with the facts about finite sets *)

INSTANCE FiniteSetTheorems

\* A handler that returns adds one run, with the key and the clock of its request.
LEMMA HandlerAddsRun == FreshInv => ReturnsAddRuns
  <1> SUFFICES ASSUME FreshInv, NEW r \in Requests, HandlerReturns(r)
               PROVE  RunAdded(r)
    BY Zenon DEF ReturnsAddRuns
  <1> DEFINE id == Cardinality(runs) + 1
             run == [key |-> key[r], started |-> now[r], id |-> id]
  <1>1. Cardinality(runs) \in Nat
    BY Zenon, FS_CardinalityType DEF FreshInv
  <1>2. id \in 1..MaxRuns
    BY <1>1, IdempotencyAssumption DEF HandlerReturns
  <1>3. run \in Runs
    BY Zenon, <1>2 DEF Runs, FreshInv, TypeOK
  <1>4. runs' = runs \cup {run} /\ IsFiniteSet(runs')
    BY Zenon, FS_AddElement DEF HandlerReturns, FreshInv
  <1> QED
    BY Zenon, <1>2, <1>3, <1>4 DEF HandlerReturns, Goto, RunAdded

\* A token is granted for every thread let through and for every run of the handler.
LEMMA NextPaid == PipelineInv /\ TypeOK /\ Paid /\ [PipelineNext]_all_vars => Paid'
  <1> SUFFICES ASSUME PipelineInv, TypeOK, Paid, [PipelineNext]_all_vars
               PROVE  Paid'
    BY Zenon
  <1>1. IsFiniteSet(Through) /\ Cardinality(Through) \in Nat /\ handled \in Nat
    BY PipelineAssumption, FS_Subset, FS_CardinalityType
    DEF Through, PipelineInv, PipelineTypes
  <1>2. CASE NobodyThrough
    <2>1. Cardinality(Through') \in Nat /\ Cardinality(Through') <= Cardinality(Through)
      BY <1>1, <1>2, FS_Subset, FS_CardinalityType DEF NobodyThrough
    <2> QED BY <1>1, <1>2, <2>1 DEF Paid, NobodyThrough
  <1>3. CASE OneThrough
    <2>1. PICK r \in Requests : /\ Through' \subseteq Through \cup {r}
                               /\ granted' = granted + 1 /\ handled' = handled
      BY Zenon, <1>3 DEF OneThrough
    <2>2. /\ IsFiniteSet(Through \cup {r})
          /\ Cardinality(Through \cup {r}) =
                IF r \in Through THEN Cardinality(Through) ELSE Cardinality(Through) + 1
      BY Zenon, <1>1, FS_AddElement
    <2>3. /\ Cardinality(Through \cup {r}) \in Nat
          /\ Cardinality(Through \cup {r}) <= Cardinality(Through) + 1
      BY <1>1, <2>2
    <2>4. Cardinality(Through') \in Nat /\ Cardinality(Through') <= Cardinality(Through \cup {r})
      BY <2>1, <2>2, FS_Subset, FS_CardinalityType
    <2> QED BY <1>1, <2>1, <2>3, <2>4 DEF Paid
  <1>4. CASE OneHandled
    <2>1. PICK r \in Through : /\ Through' = Through \ {r}
                              /\ granted' = granted /\ handled' = handled + 1
      BY Zenon, <1>4 DEF OneHandled
    <2>2. Cardinality(Through') = Cardinality(Through) - 1
      BY <1>1, <2>1, FS_RemoveElement
    <2> QED BY <1>1, <2>1, <2>2 DEF Paid
  <1> QED BY <1>2, <1>3, <1>4, StepOfThrough

-----------------------------------------------------------------------------
(* What holds of every execution *)

\* The middleware starts with an empty store and nothing run.
LEMMA InitIdempotencyInv == Init => IdempotencyInv
  <1> SUFFICES ASSUME Init
               PROVE  IdempotencyInv
    BY Zenon
  <1>1. TypeOK
    BY IdempotencyAssumption DEF Init, TypeOK, Times
  <1>2. FreshInv
    BY <1>1, FS_EmptySet, IdempotencyAssumption
    DEF Init, FreshInv, Times, EntriesAreRuns, ServedIsFresh, Inside
  <1>3. Sequential /\ SequentialRequestsRunOnce
    BY Zenon DEF Init, Sequential, Inside, SequentialRequestsRunOnce
  <1> QED BY Zenon, <1>2, <1>3 DEF IdempotencyInv

\* The inductive invariant holds in every reachable state.
THEOREM IdempotencyInvariance == Spec => []IdempotencyInv
  <1>1. Init => IdempotencyInv
    BY Zenon, InitIdempotencyInv
  <1>2. IdempotencyInv /\ [Next]_idempotency_vars => IdempotencyInv'
    BY Zenon, HandlerAddsRun, NextIdempotencyInv DEF IdempotencyInv
  <1> QED BY <1>1, <1>2, PTL DEF Spec

\* For every ttl and any interleaving, what a request is served was made for its key by
\* itself or by a request that began less than ttl earlier.
THEOREM ServedAlwaysFresh == Spec => []ServedIsFresh
  <1>1. IdempotencyInv => ServedIsFresh
    BY Zenon DEF IdempotencyInv, FreshInv
  <1> QED BY IdempotencyInvariance, <1>1, PTL

\* For every ttl, a key whose requests do not overlap has its handler run at most once
\* in any ttl, whatever the requests of other keys do.
THEOREM SequentialAlwaysRunOnce == Spec => []SequentialRequestsRunOnce
  <1>1. IdempotencyInv => SequentialRequestsRunOnce
    BY Zenon DEF IdempotencyInv
  <1> QED BY IdempotencyInvariance, <1>1, PTL

\* The invariants of the middleware and of the threads hold together.
THEOREM PipelineInvariance == PipelineSpec => [](IdempotencyInv /\ PipelineInv)
  <1>1. PipelineInit => IdempotencyInv
    BY Zenon, InitIdempotencyInv DEF PipelineInit
  <1>2. PipelineInit => PipelineInv
    BY DEF PipelineInit, Init, PipelineInv, PipelineTypes, IsPerThread, ThreadInv, Placed,
           Scoped, InScope, Labelled
  <1>3. IdempotencyInv /\ PipelineInv /\ [PipelineNext]_all_vars
            => IdempotencyInv' /\ PipelineInv'
    BY Zenon, StepOfIdempotency, HandlerAddsRun, NextIdempotencyInv, NextPipelineInv
    DEF IdempotencyInv, FreshInv
  <1> QED BY <1>1, <1>2, <1>3, PTL DEF PipelineSpec

\* In the chain idempotency_middleware behaves as it does alone, so what is proved of
\* it alone holds behind the limiter and the checks.
THEOREM PipelineImplementsIdempotency == PipelineSpec => Spec
  <1>1. PipelineInit => Init
    BY Zenon DEF PipelineInit
  <1> QED BY <1>1, PipelineInvariance, StepOfIdempotency, PTL DEF PipelineSpec, Spec

\* With any number of server threads, what a request is served behind the whole chain
\* is fresh and was made for its key, and a key whose requests do not overlap has its
\* handler run at most once in any ttl.
THEOREM PipelineServesFresh == PipelineSpec => []ServedIsFresh /\ []SequentialRequestsRunOnce
  BY PipelineImplementsIdempotency, ServedAlwaysFresh, SequentialAlwaysRunOnce, PTL

\* With any number of threads and kinds of request, a thread inside correlation_middleware
\* is in the context of its own request and in no request's context otherwise, whichever
\* middleware answers and whatever throws.
THEOREM ContextAlwaysOfOwnRequest == PipelineSpec => []ContextOfOwnRequest
  <1>1. PipelineInv => ContextOfOwnRequest
    BY Zenon DEF PipelineInv, ThreadInv, Scoped, InScope, ContextOfOwnRequest
  <1> QED BY <1>1, PipelineInvariance, PTL

\* For any set of allowed origins every answer to a routed request that leaves dispatch()
\* names the origin of that request if it is allowed, and none otherwise.
THEOREM CorsAlwaysOnEveryAnswer == PipelineSpec => []CorsOnEveryAnswer
  <1>1. PipelineInv => CorsOnEveryAnswer
    BY Zenon DEF PipelineInv, ThreadInv, Labelled, CorsOnEveryAnswer
  <1> QED BY <1>1, PipelineInvariance, PTL
\* With any number of threads, requests and keys, and for every limiter, the handler runs
\* no more often than a full bucket and the elapsed time allow.
THEOREM HandlersAlwaysWithinBudget == PipelineSpec => []HandlersWithinBudget
  <1>1. PipelineInit => Paid
    <2> SUFFICES ASSUME PipelineInit PROVE Paid
      OBVIOUS
    <2>1. Through = {} /\ handled = 0 /\ granted = 0
      BY Zenon DEF PipelineInit, Limiter!Init, Through
    <2> QED BY <2>1, FS_EmptySet DEF Paid
  <1>2. IdempotencyInv => TypeOK
    BY Zenon DEF IdempotencyInv, FreshInv
  <1>3. PipelineSpec => []Paid
    BY <1>1, <1>2, NextPaid, PipelineInvariance, PTL DEF PipelineSpec
  <1>4. PipelineSpec => []LimiterProofs!GrantedWithinBudget
    <2>1. MaxTokens \in Nat /\ RefillRate \in Nat /\ MaxTime \in Nat /\ {1} \subseteq Nat
      BY PipelineAssumption, IdempotencyAssumption
    <2> QED BY <2>1, PipelineImplementsLimiter, LimiterProofs!GrantsBounded, PTL
  <1>5. Paid /\ LimiterProofs!GrantedWithinBudget /\ PipelineInv /\ IdempotencyInv
            => HandlersWithinBudget
    <2> SUFFICES ASSUME Paid, LimiterProofs!GrantedWithinBudget, PipelineInv, IdempotencyInv
                 PROVE  HandlersWithinBudget
      BY Zenon
    <2>1. Cardinality(Through) \in Nat /\ handled \in Nat /\ clock \in Nat
      BY PipelineAssumption, IdempotencyAssumption, FS_Subset, FS_CardinalityType
      DEF Through, PipelineInv, PipelineTypes, IdempotencyInv, FreshInv, TypeOK, Times
    <2>2. handled <= granted
      BY <2>1 DEF Paid
    <2>3. granted <= MaxTokens + (clock - 0) * RefillRate /\ clock - 0 = clock
      BY <2>1 DEF LimiterProofs!GrantedWithinBudget
    <2>4. clock * RefillRate \in Nat
      BY <2>1, PipelineAssumption
    <2>5. granted <= MaxTokens + clock * RefillRate
      BY Zenon, <2>3
    <2>6. granted \in Nat /\ MaxTokens \in Nat
      BY Zenon, PipelineAssumption DEF Paid
    <2> QED BY <2>1, <2>2, <2>4, <2>5, <2>6 DEF HandlersWithinBudget
  <1> QED BY <1>3, <1>4, <1>5, PipelineInvariance, PTL
=============================================================================
