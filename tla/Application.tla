------------------------------ MODULE Application ------------------------------
(***************************************************************************)
(* Messages sent through application::Mediator by the tasks of a pool of     *)
(* threads.  A task is posted through a ContextAwareExecutor and runs inside *)
(* a CorrelationScope; it sends a command or a query; the handler registered *)
(* for it is wrapped by logging, tracing and validation in some order and    *)
(* calls an InstrumentedUseCase, which may dispatch another such task on the *)
(* same thread.  The wrapped calls of a thread are a stack of frames; a      *)
(* return passes them one by one, and so does an exception.  The tracer and  *)
(* the metrics are shared by all threads.                                    *)
(***************************************************************************)
EXTENDS PrometheusMetrics, Sequences

CONSTANTS Commands, Queries,   \* message types
          Chains,              \* orders in which a handler may be wrapped
          Types,               \* types a query handler may return
          Tasks,               \* what is posted: a message and a correlation context
          NoContext, IdSpace,
          Durations,           \* of a use case
          Monitor,             \* the thread that sets a gauge and renders the page
          MaxTasks,            \* bound on the tasks posted and dispatched
          MaxObservations      \* bound on the monitor's calls

Messages == Commands \cup Queries
Workers == Threads \ {Monitor}

\* What a thread that is not about to send a message may be doing.
Places == {"idle", "down", "back", "unwinding", "failed", "counting"}

\* The handler proper is innermost; tasks send messages.
ASSUME ApplicationAssumption ==
    /\ Monitor \in Threads
    /\ Messages \cap Places = {}
    /\ \A task \in Tasks : task.message \in Messages
    /\ \A c \in Chains :
          /\ c \in Seq({"logging", "tracing", "validation", "use_case"})
          /\ c # <<>>
          /\ \A i \in 1..Len(c) : c[i] = "use_case" <=> i = Len(c)

\* There is a validating wrapper for commands only, and only queries return a value.
ChainsOf(m) == {c \in Chains : m \in Queries => \A i \in DOMAIN c : c[i] # "validation"}
TypesOf(m) == IF m \in Queries THEN Types ELSE {"void"}

VARIABLES
    handlers_,    \* of both buses: message type -> wrappers and result type
    queue,        \* tasks posted to the pool
    going,        \* per thread: what it is doing
    frames,       \* its calls in progress, innermost last
    todo,         \* wrappers of the handler still to be entered
    tl_current,   \* its correlation context
    stack_, counter, started, exported, refused,   \* the tracer
    \* Kept to state properties.
    posted,       \* number of tasks posted
    skipped,      \* tracing wrappers that an exception has passed
    crossed,      \* whether a span was started while another thread was inside a wrapper
    ended,        \* executions of the use case, by how they ended
    lines,        \* log lines written
    observations  \* number of the monitor's calls

Tracer == INSTANCE OtelTracer

tracer_vars == <<stack_, counter, started, exported, refused>>
call_vars == <<going, frames, todo>>
all_vars == <<metrics_vars, tracer_vars, call_vars, handlers_, queue, tl_current,
              posted, skipped, crossed, ended, lines, observations>>

Outcomes == {"ok", "err", "thrown"}

StackInit ==
    /\ MetricsInit
    /\ Tracer!TracerInit
    /\ handlers_ = <<>>
    /\ queue = <<>>
    /\ going = [t \in Workers |-> "idle"]
    /\ frames = [t \in Workers |-> <<>>]
    /\ todo = [t \in Workers |-> <<>>]
    /\ tl_current = [t \in Workers |-> NoContext]
    /\ posted = 0
    /\ skipped = 0
    /\ crossed = FALSE
    /\ ended = [o \in Outcomes |-> 0]
    /\ lines = {}
    /\ observations = 0

Top(t) == frames[t][Len(frames[t])]
Below(t) == SubSeq(frames[t], 1, Len(frames[t]) - 1)

Go(t, where, stack, wrappers) ==
    /\ going' = [going EXCEPT ![t] = where]
    /\ frames' = [frames EXCEPT ![t] = stack]
    /\ todo' = [todo EXCEPT ![t] = wrappers]

Push(t, frame, where) == Go(t, where, Append(frames[t], frame), Tail(todo[t]))
Pop(t, where) == Go(t, where, Below(t), <<>>)

IsScope(frame) == frame.kind = "scope"

\* The call of that kind the thread is in, the innermost of several.
Innermost(t, kind) ==
    CHOOSE i \in DOMAIN frames[t] :
        /\ frames[t][i].kind = kind
        /\ \A j \in DOMAIN frames[t] : j > i => frames[t][j].kind # kind

\* The context of the innermost task the thread is running.
ContextOfTask(t) ==
    IF \E i \in DOMAIN frames[t] : IsScope(frames[t][i])
    THEN frames[t][Innermost(t, "scope")].ctx
    ELSE NoContext

-----------------------------------------------------------------------------
(* Registration and tasks *)

\* register_command() and register_query(): the last registration of a type wins.
\* Handlers are registered before the first task is posted.
Register(m, chain, type) ==
    /\ posted = 0
    /\ handlers_' = Assign(handlers_, m, [chain |-> chain, type |-> type])
    /\ UNCHANGED <<metrics_vars, tracer_vars, call_vars, queue, tl_current,
                   posted, skipped, crossed, ended, lines, observations>>

\* ContextAwareExecutor::post() by a thread outside the pool, in the task's context.
Post(task) ==
    /\ posted < MaxTasks
    /\ posted' = posted + 1
    /\ queue' = Append(queue, task)
    /\ UNCHANGED <<metrics_vars, tracer_vars, call_vars, handlers_, tl_current,
                   skipped, crossed, ended, lines, observations>>

\* The function wrap() returns begins: CorrelationScope scope{snap}, then fn.
OpenScope(t, task) ==
    /\ tl_current' = [tl_current EXCEPT ![t] = task.ctx]
    /\ Go(t, task.message, Append(frames[t], [kind |-> "scope", ctx |-> task.ctx,
                                              previous_ |-> tl_current[t]]), <<>>)

Take(t) ==
    /\ going[t] = "idle"
    /\ queue # <<>>
    /\ queue' = Tail(queue)
    /\ OpenScope(t, Head(queue))
    /\ UNCHANGED <<metrics_vars, tracer_vars, handlers_,
                   posted, skipped, crossed, ended, lines, observations>>

CloseScopeUnlessThrown(t) ==
    /\ going[t] \in {"back", "unwinding"}
    /\ IsScope(Top(t))
    /\ tl_current' = IF going[t] = "back" THEN [tl_current EXCEPT ![t] = Top(t).previous_]
                                          ELSE tl_current
    /\ Pop(t, IF Len(frames[t]) = 1 THEN "idle" ELSE IF going[t] = "back" THEN "down" ELSE going[t])
    /\ UNCHANGED <<metrics_vars, tracer_vars, handlers_, queue,
                   posted, skipped, crossed, ended, lines, observations>>

\* fn has returned or thrown, and ~CorrelationScope runs.  A dispatched task ends
\* inside the use case that dispatched it; an exception goes on through it.
CloseScope(t) ==
    /\ going[t] \in {"back", "unwinding"}
    /\ IsScope(Top(t))
    /\ tl_current' = [tl_current EXCEPT ![t] = Top(t).previous_]
    /\ Pop(t, IF Len(frames[t]) = 1 THEN "idle" ELSE IF going[t] = "back" THEN "down" ELSE going[t])
    /\ UNCHANGED <<metrics_vars, tracer_vars, handlers_, queue,
                   posted, skipped, crossed, ended, lines, observations>>

-----------------------------------------------------------------------------
(* Mediator, CommandBus, QueryBus *)

\* send() or query(): find the handler, or throw.
Send(t, type) ==
    /\ going[t] \in Messages
    /\ \/ /\ going[t] \in DOMAIN handlers_
          /\ Go(t, "down", Append(frames[t], [kind |-> "send", message |-> going[t], type |-> type]),
                handlers_[going[t]].chain)
       \/ /\ going[t] \notin DOMAIN handlers_
          /\ Go(t, "unwinding", frames[t], <<>>)
    /\ UNCHANGED <<metrics_vars, tracer_vars, handlers_, queue, tl_current,
                   posted, skipped, crossed, ended, lines, observations>>

\* query() casts what the handler returned to the type asked for; the cast throws
\* when it is another one.
Sent(t) ==
    /\ going[t] \in {"back", "unwinding"}
    /\ Top(t).kind = "send"
    /\ Pop(t, IF Top(t).message \in Queries /\ Top(t).type # handlers_[Top(t).message].type
              THEN "unwinding"
              ELSE going[t])
    /\ UNCHANGED <<metrics_vars, tracer_vars, handlers_, queue, tl_current,
                   posted, skipped, crossed, ended, lines, observations>>

Message(t) == frames[t][Innermost(t, "send")].message

-----------------------------------------------------------------------------
(* The wrappers *)

\* JsonLogger::log() writes the current context's ids, if there is one.
Log(t) == lines' = lines \cup {[cid |-> tl_current[t], task |-> ContextOfTask(t)]}

Entering(t, wrapper) == going[t] = "down" /\ todo[t] # <<>> /\ Head(todo[t]) = wrapper

Leaving(t, wrapper) == going[t] \in {"back", "unwinding"} /\ Top(t).kind = wrapper

\* logging_command_handler, logging_query_handler
EnterLogging(t) ==
    /\ Entering(t, "logging")
    /\ Log(t)
    /\ Push(t, [kind |-> "logging"], "down")
    /\ UNCHANGED <<metrics_vars, tracer_vars, handlers_, queue, tl_current,
                   posted, skipped, crossed, ended, observations>>

LeaveLogging(t) ==
    /\ Leaving(t, "logging")
    /\ IF going[t] = "back" THEN Log(t) ELSE UNCHANGED lines
    /\ Pop(t, going[t])
    /\ UNCHANGED <<metrics_vars, tracer_vars, handlers_, queue, tl_current,
                   posted, skipped, crossed, ended, observations>>

\* The tracing wrappers the thread is inside
Tracing(t) == {i \in DOMAIN frames[t] : frames[t][i].kind = "tracing"}

\* tracing_command_handler, tracing_query_handler
EnterTracing(t) ==
    /\ Entering(t, "tracing")
    /\ Tracer!StartSpan(Message(t), tl_current[t])
    /\ Push(t, [kind |-> "tracing", serial |-> started'], "down")
    /\ crossed' = (crossed \/ \E u \in Workers : u # t /\ Tracing(u) # {})
    /\ UNCHANGED <<metrics_vars, handlers_, queue, tl_current,
                   posted, skipped, ended, lines, observations>>

\* end_span() after the handler has returned; an exception skips it.
LeaveTracing(t) ==
    /\ Leaving(t, "tracing")
    /\ \/ going[t] = "back" /\ Tracer!EndSpan /\ Pop(t, "back") /\ UNCHANGED skipped
       \/ going[t] = "back" /\ Tracer!EndSpanThrows /\ Pop(t, "unwinding") /\ UNCHANGED skipped
       \/ /\ going[t] = "unwinding" /\ Pop(t, "unwinding")
          /\ skipped' = skipped + 1
          /\ UNCHANGED tracer_vars
    /\ UNCHANGED <<metrics_vars, handlers_, queue, tl_current,
                   posted, crossed, ended, lines, observations>>

\* validating_command_handler: the validator accepts the message, or it throws.
Validate(t) ==
    /\ Entering(t, "validation")
    /\ \/ Go(t, "down", frames[t], Tail(todo[t]))
       \/ Go(t, "unwinding", frames[t], <<>>)
    /\ UNCHANGED <<metrics_vars, tracer_vars, handlers_, queue, tl_current,
                   posted, skipped, crossed, ended, lines, observations>>

-----------------------------------------------------------------------------
(* InstrumentedUseCase *)

OthersUnchanged ==
    UNCHANGED <<tracer_vars, handlers_, queue, tl_current,
                posted, skipped, crossed, lines, observations>>

Ended(outcome) == ended' = [ended EXCEPT ![outcome] = @ + 1]

\* execute() begins: increment(calls_).
Execute(t) ==
    /\ Entering(t, "use_case")
    /\ Find(t, "counter", "calls", 0)
    /\ Push(t, [kind |-> "use_case"], "down")
    /\ OthersUnchanged /\ UNCHANGED ended

\* The rest of increment()
Count(t) ==
    /\ Insert(t) \/ Write(t)
    /\ OthersUnchanged /\ UNCHANGED <<call_vars, ended>>

\* calls_ is counted; inner_.execute() runs.
InUseCase(t) == going[t] = "down" /\ todo[t] = <<>> /\ op[t] = NoOp

\* It dispatches a task to its own pool, in a context some executor has captured:
\* the task runs at once.
Dispatch(t, task) ==
    /\ InUseCase(t)
    /\ posted < MaxTasks
    /\ posted' = posted + 1
    /\ OpenScope(t, task)
    /\ UNCHANGED <<metrics_vars, tracer_vars, handlers_, queue, skipped, crossed, ended, lines,
                   observations>>

\* It throws, or a task it dispatched has: nothing more is recorded.
ExecuteThrows(t) ==
    /\ InUseCase(t) \/ Leaving(t, "use_case")
    /\ Ended("thrown")
    /\ Pop(t, "unwinding")
    /\ OthersUnchanged /\ UNCHANGED metrics_vars

\* It returns a value: the duration is recorded.
ExecuteReturns(t, duration) ==
    /\ InUseCase(t)
    /\ Histogram("duration_ms", duration)
    /\ Ended("ok")
    /\ Pop(t, "back")
    /\ OthersUnchanged

ExecuteFailsUntimed(t, duration) ==
    /\ InUseCase(t)
    /\ Ended("err")
    /\ Go(t, "failed", frames[t], <<>>)
    /\ OthersUnchanged /\ UNCHANGED metrics_vars

\* It returns an error: the duration is recorded,
ExecuteFails(t, duration) ==
    /\ InUseCase(t)
    /\ Histogram("duration_ms", duration)
    /\ Ended("err")
    /\ Go(t, "failed", frames[t], <<>>)
    /\ OthersUnchanged

\* and then the error counted: find, insert if missing, add.
CountError(t) ==
    /\ going[t] = "failed"
    /\ Find(t, "counter", "errors", 0)
    /\ Go(t, "counting", frames[t], <<>>)
    /\ OthersUnchanged /\ UNCHANGED ended

ErrorCounted(t) ==
    /\ going[t] = "counting" /\ op[t] = NoOp
    /\ Pop(t, "back")
    /\ OthersUnchanged /\ UNCHANGED <<metrics_vars, ended>>

-----------------------------------------------------------------------------

\* gauge(), render() and reset() by the monitor
Observe ==
    /\ \/ /\ observations < MaxObservations
          /\ observations' = observations + 1
          /\ op[Monitor] = NoOp /\ walk = NoWalk
          /\ \/ \E v \in Durations : Find(Monitor, "gauge", "load", v)
             \/ \E fn \in {"render", "reset"} : BeginWalk(fn)
       \/ /\ \/ Insert(Monitor) \/ Write(Monitor)
             \/ \E c \in DOMAIN cells : Visit(c)
             \/ EndWalk
          /\ UNCHANGED observations
    /\ UNCHANGED <<tracer_vars, call_vars, handlers_, queue, tl_current,
                   posted, skipped, crossed, ended, lines>>

\* The pool waits for work.
Waiting ==
    /\ queue = <<>> /\ walk = NoWalk
    /\ \A t \in Workers : going[t] = "idle"
    /\ UNCHANGED all_vars

StackNext ==
    \/ \E m \in Messages : \E chain \in ChainsOf(m), type \in TypesOf(m) : Register(m, chain, type)
    \/ \E task \in Tasks : Post(task)
    \/ \E t \in Workers :
          \/ Take(t) \/ CloseScope(t)
          \/ going[t] \in Messages /\ \E type \in TypesOf(going[t]) : Send(t, type)
          \/ Sent(t)
          \/ EnterLogging(t) \/ LeaveLogging(t)
          \/ EnterTracing(t) \/ LeaveTracing(t)
          \/ Validate(t)
          \/ Execute(t) \/ Count(t)
          \/ \E task \in Tasks : Dispatch(t, task)
          \/ ExecuteThrows(t)
          \/ \E d \in Durations : ExecuteReturns(t, d) \/ ExecuteFails(t, d)
          \/ CountError(t) \/ ErrorCounted(t)
    \/ Observe
    \/ Waiting

StackSpec == StackInit /\ [][StackNext]_all_vars

-----------------------------------------------------------------------------
(* Properties *)

\* The calls of a kind in progress, as thread and depth.
Frames(kind) == {f \in UNION {{t} \X DOMAIN frames[t] : t \in Workers} :
                    frames[f[1]][f[2]].kind = kind}

\* The open spans are those of the wrappers that the thread is inside, in their order,
\* each a child of the one around it.
OwnSpans(t) ==
    /\ \E place \in [Tracing(t) -> DOMAIN stack_] :
          /\ \A i, j \in Tracing(t) : i < j => place[i] < place[j]
          /\ \A n \in DOMAIN stack_ : \E i \in Tracing(t) : place[i] = n
          /\ \A i \in Tracing(t) : stack_[place[i]].serial = frames[t][i].serial
    /\ \A n \in DOMAIN stack_ :
          stack_[n].parent_span_id = IF n = 1 THEN Tracer!NoSpan ELSE stack_[n - 1].span_id

\* Every span started is open or exported, not both.  While a tracing wrapper is to
\* call end_span() there is a span for it to take, and only exceptions (of the handler,
\* of validation, of another handler it called, of the exporter) leave spans open that
\* no wrapper will close.  As long as there was none, and no span was started while
\* another thread was inside a wrapper, every wrapper will export the span it started,
\* as a child of that of the wrapper around it.
SpansAccounted ==
    /\ Tracer!OpenOrExported
    /\ Cardinality(Frames("tracing")) <= Len(stack_)
    /\ Len(stack_) <= Cardinality(Frames("tracing")) + skipped + Len(refused)
    /\ ~crossed /\ skipped = 0 /\ refused = <<>> =>
          \A t \in Workers : Tracing(t) # {} => OwnSpans(t)

\* OtelTracer's comment that the exporter is called once per completed span.
ExportedOnce == Tracer!ExportedOnce

CounterValue(name) == IF <<"counter", name>> \in DOMAIN cells THEN cells[<<"counter", name>>] ELSE 0

Recorded == IF "duration_ms" \in DOMAIN histograms_ THEN histograms_["duration_ms"].count ELSE 0

\* Threads whose use case returned an error that execute() is still dealing with;
\* whose call, or whose error, is yet to be added to its counter.
Erring == {t \in Workers : going[t] \in {"failed", "counting"}}
Uncalled == {t \in Workers : going[t] = "down" /\ op[t] # NoOp}
Uncounted == {t \in Workers : going[t] = "failed" \/ (going[t] = "counting" /\ op[t] # NoOp)}

\* No increment is lost or counted twice, also when two threads enter a counter at
\* the same time: calls counts the executions begun, errors those that returned an
\* error, and duration_ms those that returned; one that threw is in calls only.
MetricsAccounted ==
    ~was_reset =>
        /\ CounterValue("calls") + Cardinality(Uncalled) + Cardinality(Erring)
              = ended["ok"] + ended["err"] + ended["thrown"] + Cardinality(Frames("use_case"))
        /\ Recorded = ended["ok"] + ended["err"]
        /\ CounterValue("errors") + Cardinality(Uncounted) = ended["err"]

\* On a page that render() writes while executions go on, errors never exceed the
\* executions whose duration is on the same page: an execution records its duration
\* before its error, and render() reads the counters before the histograms.
PageIsConsistent ==
    walk.fn = "render" /\ ~was_reset /\ <<"counter", "errors">> \in DOMAIN walk.values =>
        /\ "duration_ms" \in DOMAIN histograms_
        /\ walk.values[<<"counter", "errors">>] <= histograms_["duration_ms"].count

\* Every log line carries the context of the task on whose behalf it is written,
\* also after a nested task of another context has returned or thrown, and a pool
\* thread between two tasks is in no context.
LinesOfOwnTask ==
    /\ \A line \in lines : line.cid = line.task
    /\ \A t \in Workers : going[t] = "idle" => tl_current[t] = NoContext
=============================================================================
