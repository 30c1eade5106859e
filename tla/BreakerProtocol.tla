---------------------------- MODULE BreakerProtocol ----------------------------
(***************************************************************************)
(* What a circuit breaker promises its callers, without counters or clock. *)
(* circuit_breaker.hpp:20 describes it as "Closed -> Open -> Half-Open ->  *)
(* Closed": a call starts unless the circuit is open, a call may turn an   *)
(* open circuit half-open, and only the end of a call opens or closes it.  *)
(* CircuitBreaker implements this specification.                           *)
(***************************************************************************)
CONSTANT Calls      \* the calls that may be in progress at the same time

VARIABLES state,    \* "Closed", "Open" or "HalfOpen"
          running   \* the calls whose fn was admitted and has not ended

vars == <<state, running>>

Init == state = "Closed" /\ running = {}

\* A call is admitted by a circuit that is not open.
Admit(c) == /\ c \notin running
            /\ state # "Open"
            /\ running' = running \cup {c}
            /\ UNCHANGED state

\* A call finds the circuit open for long enough and becomes a probe.
Probe(c) == /\ c \notin running
            /\ state = "Open"
            /\ state' = "HalfOpen"
            /\ running' = running \cup {c}

\* The changes of state that the end of a call may cause: the circuit never
\* goes from Open to Closed, nor to HalfOpen, because a call ended.
EndMoves == {<<"Closed", "Closed">>, <<"Closed", "Open">>, <<"Open", "Open">>,
             <<"HalfOpen", "HalfOpen">>, <<"HalfOpen", "Closed">>, <<"HalfOpen", "Open">>}

End(c) == /\ c \in running
          /\ running' = running \ {c}
          /\ \E m \in EndMoves : state = m[1] /\ state' = m[2]

Next == \E c \in Calls : Admit(c) \/ Probe(c) \/ End(c)

Spec == Init /\ [][Next]_vars
=============================================================================
