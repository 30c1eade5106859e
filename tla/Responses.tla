------------------------------- MODULE Responses -------------------------------
(***************************************************************************)
(* What a service answers: HttpResponse and the mapping of errors to it, the *)
(* health handlers over a HealthRegistry, and the middleware that negotiates *)
(* the content type, compresses the body and logs, in any order around the   *)
(* handler.  A request goes down the chain, each middleware doing what it    *)
(* does before it calls next(req), and the answer comes back through those   *)
(* that wait for it.  A body is what it says and how often it was compressed.*)
(***************************************************************************)
EXTENDS Integers, Sequences, Functions

CONSTANTS Checks,        \* names of health checks
          Accepts,       \* Accept headers: sequences of a media range and its q, in tenths
          Supported,     \* media types the service offers, in order
          Stacks         \* orders in which the middleware may wrap the handler, outermost first

\* A supported type has a name, and a service uses each middleware once at most.
ASSUME ResponsesAssumption ==
    /\ Supported \in Seq(Range(Supported))
    /\ \A k \in DOMAIN Supported : Supported[k] # <<>>
    /\ \A accept \in Accepts : \A i \in DOMAIN accept : accept[i].q \in Int
    /\ \A stack \in Stacks :
          /\ stack \in Seq({"negotiation", "compression", "logging"})
          /\ \A i, j \in DOMAIN stack : stack[i] = stack[j] => i = j

VARIABLES checks_,       \* checks_ of the HealthRegistry: names of the registered checks
          request,       \* the request served
          stage,         \* "idle", on its way "down" the chain, or on its way "back"
          waiting,       \* how many middleware wait for what next(req) returns
          content_type,  \* content_type of the negotiating middleware
          answer,        \* what next(req) returns to the innermost that waits
          lines,         \* the status in each line logged, 0 in that of the request
          \* Kept to state properties.
          report,        \* what run_all() has reported to the ready handler
          ran            \* whether the handler was called

response_vars == <<checks_, request, stage, waiting, content_type, answer, lines, report, ran>>

None == <<>>
Problems == <<"application", "problem+json">>
Json == <<"application", "json">>

-----------------------------------------------------------------------------
(* Errors and responses *)

DomainErrors == {"NotFoundError", "ConflictError", "InvariantViolationError"}
ApplicationErrors == {"ValidationError", "UnauthorizedError", "ForbiddenError",
                      "RateLimitError", "TimeoutError"}
InfrastructureErrors == {"ExternalServiceError"}
Errors == DomainErrors \cup ApplicationErrors \cup InfrastructureErrors \cup {"std::exception"}

\* ProblemDetails: the document carries its status too.
Problem(type, status) == [type |-> type, status |-> status]

\* Its factories
not_found == Problem("not-found", 404)
conflict == Problem("conflict", 409)
validation_error == Problem("validation", 422)
unauthorized == Problem("unauthorized", 401)
internal_error == Problem("internal", 500)

Response(status, type, text) ==
    [status |-> status, type |-> type, encoding |-> "identity", length |-> -1,
     text |-> text, zipped |-> 0]

from_problem(problem) == Response(problem.status, Problems, problem)

\* from_error(): the first class the exception is an instance of
ProblemOf(e) ==
    CASE e = "NotFoundError"     -> not_found
      [] e = "ValidationError"   -> validation_error
      [] e = "UnauthorizedError" -> unauthorized
      [] e = "ForbiddenError"    -> Problem("forbidden", 403)
      [] e = "ConflictError"     -> conflict
      [] e = "RateLimitError"    -> Problem("rate-limited", 429)
      [] e = "TimeoutError"      -> Problem("timeout", 504)
      [] OTHER                   -> internal_error

NoBody == Problem("", 0)
SomeBody == Problem("value", 0)

\* An exception comes back instead of an answer.
NoAnswer == Response(0, None, NoBody)

-----------------------------------------------------------------------------
(* HealthRegistry, health_live_handler, health_ready_handler *)

Statuses == {"up", "degraded", "down", "throws"}    \* what a check's fn may do

\* register_check(): emplace() keeps a check of that name.
RegisterCheck(name) ==
    /\ stage = "idle"
    /\ checks_' = checks_ \cup {name}
    /\ UNCHANGED <<request, stage, waiting, content_type, answer, lines, report, ran>>

Worst(statuses) == IF "down" \in statuses THEN "down"
                   ELSE IF "degraded" \in statuses THEN "degraded" ELSE "up"

\* run_all(): what it reports when the checks do so
run_all(reported) == [overall |-> Worst(Range(reported)), checks |-> reported]

ReadyStatus(overall) == IF overall = "up" THEN 200 ELSE 503

-----------------------------------------------------------------------------
(* Handlers *)

Handlers == {"ok", "created", "no_content", "live", "ready"} \cup Errors

Handled(handler, rep) ==
    CASE handler = "ok"         -> Response(200, None, SomeBody)
      [] handler = "created"    -> Response(201, None, SomeBody)
      [] handler = "no_content" -> Response(204, None, NoBody)
      [] handler = "live"       -> Response(200, Json, SomeBody)
      [] handler = "ready"      -> IF "throws" \in Range(rep.checks) THEN NoAnswer
                                   ELSE Response(ReadyStatus(rep.overall), Json, SomeBody)
      [] OTHER                  -> from_problem(ProblemOf(handler))

-----------------------------------------------------------------------------
(* content_negotiation.hpp *)

Matches(range, type) == \/ range = <<"*", "*">> \/ range = type
                        \/ range[2] = "*" /\ range[1] = type[1]

\* The first supported type that matches
FirstMatch(range, k) ==
    /\ Matches(range, Supported[k])
    /\ \A j \in DOMAIN Supported : Matches(range, Supported[j]) => k <= j

Matching(accept) == {i \in DOMAIN accept :
                        \E k \in DOMAIN Supported : Matches(accept[i].range, Supported[k])}

\* std::sort() by q leaves entries of equal q in any order: the first entry that
\* matches is one of those with the highest q.
FirstByQ(accept) == {i \in Matching(accept) : \A j \in Matching(accept) : accept[j].q <= accept[i].q}

\* No header, or "*/*" and nothing else, takes the first supported type.
negotiate_content_type(accept) ==
    IF (accept = <<>> /\ Supported = <<>>) \/ (accept # <<>> /\ Matching(accept) = {}) THEN {None}
    ELSE IF accept = <<>> THEN {Supported[1]}
    ELSE {Supported[k] : k \in {k \in DOMAIN Supported :
                                    \E i \in FirstByQ(accept) : FirstMatch(accept[i].range, k)}}

-----------------------------------------------------------------------------
(* A request goes down the chain *)

Requests == [accept : Accepts, gzip : {"unwanted", "works", "fails"},
             stack : Stacks, handler : Handlers]

ResponsesInit ==
    /\ checks_ = {}
    /\ request = None
    /\ stage = "idle"
    /\ waiting = 0
    /\ content_type = None
    /\ answer = NoAnswer
    /\ lines = <<>>
    /\ report = None
    /\ ran = FALSE

\* dispatch()
Serve(req) ==
    /\ stage = "idle"
    /\ request' = req
    /\ stage' = "down"
    /\ UNCHANGED <<checks_, waiting, content_type, answer, lines, report, ran>>

\* The request reaches a middleware.
Reaches(middleware) ==
    /\ stage = "down"
    /\ waiting < Len(request.stack)
    /\ request.stack[waiting + 1] = middleware

\* content_negotiation_middleware() calls next(req) with a type in hand, or answers
\* 406 itself.
Negotiate ==
    /\ Reaches("negotiation")
    /\ content_type' \in negotiate_content_type(request.accept)
    /\ \/ /\ content_type' # None
          /\ waiting' = waiting + 1
          /\ UNCHANGED <<stage, answer>>
       \/ /\ content_type' = None
          /\ answer' = Response(406, <<"text", "plain">>, SomeBody)
          /\ stage' = "back"
          /\ UNCHANGED waiting
    /\ UNCHANGED <<checks_, request, lines, report, ran>>

\* compression_middleware() calls next(req) first.
Compress ==
    /\ Reaches("compression")
    /\ waiting' = waiting + 1
    /\ UNCHANGED <<checks_, request, stage, content_type, answer, lines, report, ran>>

\* request_logging_middleware() logs the request.
LogRequest ==
    /\ Reaches("logging")
    /\ lines' = Append(lines, 0)
    /\ waiting' = waiting + 1
    /\ UNCHANGED <<checks_, request, stage, content_type, answer, report, ran>>

\* The innermost next(req); the ready handler runs the checks.
RunHandler ==
    /\ stage = "down"
    /\ waiting = Len(request.stack)
    /\ ran' = TRUE
    /\ report' \in IF request.handler = "ready"
                   THEN {run_all(reported) : reported \in [checks_ -> Statuses]} ELSE {report}
    /\ answer' = Handled(request.handler, report')
    /\ stage' = "back"
    /\ UNCHANGED <<checks_, request, waiting, content_type, lines>>

-----------------------------------------------------------------------------
(* next(req) returns, or throws, to a middleware *)

\* An answer that has no type is given the negotiated one.
Typed(next) ==
    IF next.status # 0 /\ next.type = None THEN [next EXCEPT !.type = content_type] ELSE next

CompressedKeepingLength(next) ==
    IF next.status = 0 \/ request.gzip = "unwanted" \/ next.text = NoBody THEN next
    ELSE IF request.gzip = "fails" THEN NoAnswer
    ELSE [next EXCEPT !.zipped = @ + 1, !.encoding = "gzip", !.length = next.zipped]

\* gzip_compress() may throw.
Compressed(next) ==
    IF next.status = 0 \/ request.gzip = "unwanted" \/ next.text = NoBody THEN next
    ELSE IF request.gzip = "fails" THEN NoAnswer
    ELSE [next EXCEPT !.zipped = @ + 1, !.encoding = "gzip", !.length = next.zipped + 1]

\* The status is logged, but no exception is.
LogStatus(next) == IF next.status = 0 THEN lines ELSE Append(lines, next.status)

NextReturns ==
    /\ stage = "back"
    /\ waiting > 0
    /\ LET middleware == request.stack[waiting]
       IN  /\ answer' = CASE middleware = "negotiation" -> Typed(answer)
                          [] middleware = "compression" -> Compressed(answer)
                          [] middleware = "logging"     -> answer
           /\ lines' = IF middleware = "logging" THEN LogStatus(answer) ELSE lines
    /\ waiting' = waiting - 1
    /\ UNCHANGED <<checks_, request, stage, content_type, report, ran>>

Served == stage = "back" /\ waiting = 0

Done == Served /\ UNCHANGED response_vars

ResponsesNext ==
    \/ \E name \in Checks : RegisterCheck(name)
    \/ \E req \in Requests : Serve(req)
    \/ Negotiate \/ Compress \/ LogRequest \/ RunHandler
    \/ NextReturns
    \/ Done

ResponsesSpec == ResponsesInit /\ [][ResponsesNext]_response_vars

-----------------------------------------------------------------------------
(* Properties *)

Acceptable(accept, type) ==
    \/ accept = <<>> /\ type = Supported[1]
    \/ \E i \in DOMAIN accept :
          /\ Matches(accept[i].range, type)
          /\ \A j \in DOMAIN accept : accept[j].q > accept[i].q =>
                \A k \in DOMAIN Supported : ~Matches(accept[j].range, Supported[k])

NothingMatches(accept) ==
    /\ accept # <<>> \/ Supported = <<>>
    /\ \A i \in DOMAIN accept, type \in Range(Supported) : ~Matches(accept[i].range, type)

\* Whatever the order of the middleware: an answer says it is gzip exactly when its
\* body is, and its length is that of the body it has; the status of an error is the
\* one its problem document states; a value is labelled with a supported type that
\* no type of a higher q could replace; where no supported type matches the handler
\* does not run, otherwise it does, and an answer without it is 406; the service is
\* ready exactly when every check is up; and a logged status is the one answered,
\* unless compressing fails later.
AnswersLabelled ==
    Served =>
        LET negotiated == "negotiation" \in Range(request.stack)
            answered == answer.status # 0
        IN  /\ answer.encoding = "gzip" <=> answer.zipped = 1
            /\ answer.encoding = "gzip" => answer.length = answer.zipped
            /\ request.handler \in Errors /\ ran /\ answered => answer.text.status = answer.status
            /\ negotiated /\ ran /\ request.handler \in {"ok", "created"} /\ answered =>
                  answer.type \in Range(Supported) /\ Acceptable(request.accept, answer.type)
            /\ ran <=> ~(negotiated /\ NothingMatches(request.accept))
            /\ ~ran /\ answered => answer.status = 406
            /\ request.handler = "ready" /\ ran /\ answered =>
                  (answer.status = 200 <=> Range(report.checks) \subseteq {"up"})
            /\ Len(lines) = 2 => lines[2] = answer.status \/ ~answered

\* The comment on content_negotiation_middleware(): "Sets response Content-Type to the
\* negotiated type."
LabelledAsNegotiated ==
    Served /\ content_type # None /\ answer.status # 0 => answer.type = content_type
=============================================================================
