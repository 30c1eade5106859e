------------------------------ MODULE WebPipeline ------------------------------
(***************************************************************************)
(* web::MiddlewareChain around a routed handler, served by several threads.  *)
(* A request goes down the chain until a middleware answers it or the        *)
(* handler runs; the response, or an exception, comes back through every     *)
(* middleware it passed.  idempotency_middleware is the module this one      *)
(* extends; rate_limit_middleware holds the RateLimiter below.               *)
(***************************************************************************)
EXTENDS Idempotency, Sequences

CONSTANTS Kinds,            \* requests clients send
          NoRequest,        \* what an idle thread serves
          AllowedOrigins,   \* CorsOptions::allowed_origins
          MaxBytes,         \* of body_limit_middleware
          MaxTokens, RefillRate   \* of rate_limit_middleware

ASSUME PipelineAssumption ==
    /\ IsFiniteSet(Requests)
    /\ \A q \in Kinds : q.key \in Keys \cup {NoKey}
    /\ MaxTokens \in Nat /\ RefillRate \in Nat

VARIABLES
    going,          \* per thread: "idle", "down", "back" or "unwinding"
    level,          \* the middleware it is at; beyond the last one, the handler
    request,        \* the request it serves
    status,         \* status of the response, 0 for none
    allow_origin,   \* its Access-Control-Allow-Origin, NoHeader for none
    tl_current,     \* the thread's current correlation context
    previous_,      \* what its CorrelationScope will restore
    tokens_, last_refill_,  \* the limiter
    \* Kept to state properties.
    granted,        \* tokens the limiter has granted
    handled         \* times the handler has run

Limiter == INSTANCE RateLimiter WITH Costs <- {1}, since <- 0

limiter_vars == <<tokens_, last_refill_, granted>>
scope_vars == <<tl_current, previous_>>
answer_vars == <<status, allow_origin>>
all_vars == <<idempotency_vars, limiter_vars, scope_vars, answer_vars,
              going, level, request, handled>>

NoHeader == ""
ServerContext == "server"   \* the context a server thread is in between requests

\* The order of the use() calls.
Chain == <<"correlation", "cors", "rate_limit", "body_limit", "auth", "idempotency">>

HandlerLevel == Len(Chain) + 1

At(r, middleware) == level[r] \in DOMAIN Chain /\ Chain[level[r]] = middleware

PipelineInit ==
    /\ Init
    /\ Limiter!Init
    /\ going = [r \in Requests |-> "idle"]
    /\ level = [r \in Requests |-> 0]
    /\ request = [r \in Requests |-> NoRequest]
    /\ status = [r \in Requests |-> 0]
    /\ allow_origin = [r \in Requests |-> NoHeader]
    /\ tl_current = [r \in Requests |-> ServerContext]
    /\ previous_ = [r \in Requests |-> ServerContext]
    /\ handled = 0

Move(r, direction, to) ==
    /\ going' = [going EXCEPT ![r] = direction]
    /\ level' = [level EXCEPT ![r] = to]

\* next(req)
CallNext(r) == Move(r, "down", level[r] + 1) /\ UNCHANGED answer_vars

\* Return a response to the middleware outside.
Answer(r, code, origin) ==
    /\ Move(r, "back", level[r] - 1)
    /\ status' = [status EXCEPT ![r] = code]
    /\ allow_origin' = [allow_origin EXCEPT ![r] = origin]

-----------------------------------------------------------------------------
(* The server *)

\* dispatch(): a request no route matches is answered without the chain.
Dispatch(r, q) ==
    /\ going[r] = "idle"
    /\ request' = [request EXCEPT ![r] = q]
    /\ \/ q.routed /\ Move(r, "down", 1) /\ UNCHANGED answer_vars
       \/ /\ ~q.routed
          /\ Move(r, "back", 0)
          /\ status' = [status EXCEPT ![r] = 404]
          /\ UNCHANGED allow_origin
    /\ UNCHANGED <<idempotency_vars, limiter_vars, scope_vars, handled>>

\* dispatch() returns or throws.
Return(r) ==
    /\ going[r] \in {"back", "unwinding"} /\ level[r] = 0
    /\ Move(r, "idle", 0)
    /\ request' = [request EXCEPT ![r] = NoRequest]
    /\ status' = [status EXCEPT ![r] = 0]
    /\ allow_origin' = [allow_origin EXCEPT ![r] = NoHeader]
    /\ UNCHANGED <<idempotency_vars, limiter_vars, scope_vars, handled>>

-----------------------------------------------------------------------------
(* correlation_middleware *)

ContextOf(q) == IF q.correlation_id = NoHeader THEN "generated" ELSE q.correlation_id

\* CorrelationScope's constructor
OpenScope(r) ==
    /\ going[r] = "down" /\ At(r, "correlation")
    /\ previous_' = [previous_ EXCEPT ![r] = tl_current[r]]
    /\ tl_current' = [tl_current EXCEPT ![r] = ContextOf(request[r])]
    /\ CallNext(r)
    /\ UNCHANGED <<idempotency_vars, limiter_vars, request, handled>>

CloseScopeUnlessThrown(r) ==
    /\ going[r] \in {"back", "unwinding"} /\ At(r, "correlation")
    /\ tl_current' = IF going[r] = "back" THEN [tl_current EXCEPT ![r] = previous_[r]]
                                          ELSE tl_current
    /\ Move(r, going[r], level[r] - 1)
    /\ UNCHANGED <<idempotency_vars, limiter_vars, answer_vars, previous_, request, handled>>

\* Its destructor, on a return and on an exception
CloseScope(r) ==
    /\ going[r] \in {"back", "unwinding"} /\ At(r, "correlation")
    /\ tl_current' = [tl_current EXCEPT ![r] = previous_[r]]
    /\ Move(r, going[r], level[r] - 1)
    /\ UNCHANGED <<idempotency_vars, limiter_vars, answer_vars, previous_, request, handled>>

-----------------------------------------------------------------------------
(* cors_middleware, body_limit_middleware, auth_middleware *)

Checks == {"cors", "body_limit", "auth"}

AllowOrigin(q) == IF AllowedOrigins = {"*"} THEN "*"
                  ELSE IF q.origin \in AllowedOrigins THEN q.origin
                  ELSE NoHeader

\* The statuses the check answers q with itself; empty when it calls next(req).
Refusal(check, q) ==
    CASE check = "cors"       -> {s \in {204} : q.method = "Options"}
      [] check = "body_limit" -> {s \in {413} : q.declared > MaxBytes \/ q.size > MaxBytes}
      [] check = "auth"       -> {s \in {401} : q.token # "valid"}

Pass(r) ==
    /\ going[r] = "down" /\ \E check \in Checks : At(r, check)
    /\ Refusal(Chain[level[r]], request[r]) = {}
    /\ CallNext(r)
    /\ UNCHANGED <<idempotency_vars, limiter_vars, scope_vars, request, handled>>

\* A preflight carries the allowed origin, the other refusals only a status.
Refuse(r) ==
    /\ going[r] = "down" /\ \E check \in Checks : At(r, check)
    /\ \E code \in Refusal(Chain[level[r]], request[r]) :
          Answer(r, code, IF At(r, "cors") THEN AllowOrigin(request[r]) ELSE NoHeader)
    /\ UNCHANGED <<idempotency_vars, limiter_vars, scope_vars, request, handled>>

DecoratedIfHandled(r) ==
    IF At(r, "cors") /\ AllowOrigin(request[r]) # NoHeader /\ status[r] = 200
    THEN [allow_origin EXCEPT ![r] = AllowOrigin(request[r])]
    ELSE allow_origin

Decorated(r) ==
    IF At(r, "cors") /\ AllowOrigin(request[r]) # NoHeader
    THEN [allow_origin EXCEPT ![r] = AllowOrigin(request[r])]
    ELSE allow_origin

\* next(req) has returned: cors adds its header, the others hand the response on.
\* An exception passes them all.
Back(r) ==
    /\ going[r] \in {"back", "unwinding"}
    /\ \E middleware \in Checks \cup {"rate_limit"} : At(r, middleware)
    /\ allow_origin' = IF going[r] = "back" THEN Decorated(r) ELSE allow_origin
    /\ Move(r, going[r], level[r] - 1)
    /\ UNCHANGED <<idempotency_vars, limiter_vars, scope_vars, status, request, handled>>

-----------------------------------------------------------------------------
(* rate_limit_middleware *)

Admit(r) ==
    /\ going[r] = "down" /\ At(r, "rate_limit")
    /\ Limiter!TryAcquireTrue(1)
    /\ CallNext(r)
    /\ UNCHANGED <<idempotency_vars, scope_vars, request, handled>>

TooManyRequests(r) ==
    /\ going[r] = "down" /\ At(r, "rate_limit")
    /\ Limiter!TryAcquireFalse(1)
    /\ Answer(r, 429, NoHeader)
    /\ UNCHANGED <<idempotency_vars, scope_vars, request, handled>>

-----------------------------------------------------------------------------
(* idempotency_middleware and the handler *)

EnterIdempotency(r) ==
    /\ going[r] = "down" /\ At(r, "idempotency")
    /\ \/ request[r].key = NoKey /\ ArriveWithoutKey(r) /\ CallNext(r)
       \/ /\ request[r].key # NoKey
          /\ Arrive(r, request[r].key)
          /\ UNCHANGED <<going, level, answer_vars>>
    /\ UNCHANGED <<limiter_vars, scope_vars, request, handled>>

Lookup(r) ==
    /\ \/ LookupHit(r) /\ Answer(r, 200, NoHeader)
       \/ LookupMiss(r) /\ CallNext(r)
    /\ UNCHANGED <<limiter_vars, scope_vars, request, handled>>

Handle(r) ==
    /\ going[r] = "down" /\ level[r] = HandlerLevel
    /\ handled' = handled + 1
    /\ \/ (HandlerReturns(r) \/ PassThrough(r)) /\ Answer(r, 200, NoHeader)
       \/ /\ HandlerThrows(r) \/ PassThrough(r)
          /\ Move(r, "unwinding", level[r] - 1)
          /\ UNCHANGED answer_vars
    /\ UNCHANGED <<limiter_vars, scope_vars, request>>

LeaveIdempotency(r) ==
    /\ going[r] \in {"back", "unwinding"} /\ At(r, "idempotency")
    /\ Insert(r) \/ (at[r] = "out" /\ UNCHANGED idempotency_vars)
    /\ Move(r, going[r], level[r] - 1)
    /\ UNCHANGED <<limiter_vars, scope_vars, answer_vars, request, handled>>

-----------------------------------------------------------------------------

PipelineTick ==
    /\ Tick
    /\ Limiter!Tick
    /\ UNCHANGED <<scope_vars, answer_vars, going, level, request, handled>>

PipelineNext ==
    \/ \E r \in Requests :
          \/ \E q \in Kinds : Dispatch(r, q)
          \/ Return(r)
          \/ OpenScope(r) \/ CloseScope(r)
          \/ Pass(r) \/ Refuse(r) \/ Back(r)
          \/ Admit(r) \/ TooManyRequests(r)
          \/ EnterIdempotency(r) \/ Lookup(r) \/ Handle(r) \/ LeaveIdempotency(r)
    \/ PipelineTick

PipelineSpec == PipelineInit /\ [][PipelineNext]_all_vars

-----------------------------------------------------------------------------
(* Properties *)

\* A thread inside correlation_middleware is in the context of the request it
\* serves, and in no request's context otherwise: a request answered early, or one
\* whose handler threw, leaves nothing behind for the next request of the thread.
ContextOfOwnRequest ==
    \A r \in Requests :
        LET inside == \/ going[r] = "down" /\ level[r] > 1
                      \/ going[r] \in {"back", "unwinding"} /\ level[r] > 0
        IN  tl_current[r] = IF inside THEN ContextOf(request[r]) ELSE ServerContext

\* Whatever answers a routed request (the handler, the cache filled by a request of
\* another origin, a check, the limiter), the response that leaves dispatch()
\* names the origin of this request if it is allowed, and none otherwise.
CorsOnEveryAnswer ==
    \A r \in Requests :
        going[r] = "back" /\ level[r] = 0 /\ request[r].routed =>
            allow_origin[r] = AllowOrigin(request[r])

\* Over all threads, the handler runs no more often than the bucket and the elapsed
\* time allow.
HandlersWithinBudget == handled <= MaxTokens + clock * RefillRate
=============================================================================
