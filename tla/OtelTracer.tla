------------------------------- MODULE OtelTracer -------------------------------
(***************************************************************************)
(* observability::OtelTracer.  One stack of open spans, shared by every      *)
(* thread that uses the tracer; start_span() and end_span() hold the mutex   *)
(* from beginning to end.  A span is its name, the trace it belongs to, its  *)
(* id and its parent's; times are left out.  Spans are numbered, as ids may   *)
(* repeat.                                                                   *)
(***************************************************************************)
EXTENDS Integers, Sequences

CONSTANTS IdSpace,      \* values of the byte an id is made from: 256
          NoContext     \* the empty correlation id

VARIABLES
    stack_,     \* stack_
    counter,    \* generate_id's counter, as far as its bytes show it
    \* Kept to state properties.
    started,    \* number of spans started
    exported,   \* the spans that the exporter was given and returned from
    refused     \* those that it threw for, in order

tracer_vars == <<stack_, counter, started, exported, refused>>

NoSpan == -1    \* the empty parent_span_id

TracerInit ==
    /\ stack_ = <<>>
    /\ counter = 0
    /\ started = 0
    /\ exported = {}
    /\ refused = <<>>

\* generate_id(bytes) puts together consecutive values of a counter, cut to a byte:
\* ids of one length are equal when their first bytes are.
generate_id(from) == from % IdSpace

GeneratedTrace == "generated"

\* The parent is the innermost open span, whoever started it.
Parent == IF stack_ = <<>> THEN NoSpan ELSE stack_[Len(stack_)].span_id

\* A trace id is generated, 16 bytes, only outside every correlation context.
StartSpan(name, correlation_id) ==
    LET traced == correlation_id # NoContext
        from == IF traced THEN counter ELSE counter + 16
    IN  /\ stack_' = Append(stack_, [name |-> name,
                                     trace_id |-> IF traced THEN correlation_id ELSE GeneratedTrace,
                                     span_id |-> generate_id(from),
                                     parent_span_id |-> Parent,
                                     serial |-> started + 1])
        /\ counter' = (from + 8) % IdSpace
        /\ started' = started + 1
        /\ UNCHANGED <<exported, refused>>

Innermost == stack_[Len(stack_)].serial
Outer == SubSeq(stack_, 1, Len(stack_) - 1)

EndSpanAfterPop ==
    /\ stack_' = IF stack_ = <<>> THEN <<>> ELSE Outer
    /\ exported' = IF Outer = <<>> THEN exported ELSE exported \cup {Outer[Len(Outer)].serial}
    /\ UNCHANGED <<counter, started, refused>>

\* The exporter is given the innermost span, which is then closed.
EndSpan ==
    /\ stack_' = IF stack_ = <<>> THEN <<>> ELSE Outer
    /\ exported' = IF stack_ = <<>> THEN exported ELSE exported \cup {Innermost}
    /\ UNCHANGED <<counter, started, refused>>

\* The exporter throws: the span stays open.
EndSpanThrows ==
    /\ stack_ # <<>>
    /\ refused' = Append(refused, Innermost)
    /\ UNCHANGED <<stack_, counter, started, exported>>

-----------------------------------------------------------------------------
(* Properties *)

OpenSpans == {stack_[i].serial : i \in DOMAIN stack_}

\* Every span that was started is open or was taken by the exporter, and none is both.
OpenOrExported ==
    /\ 1..started = OpenSpans \cup exported
    /\ OpenSpans \cap exported = {}

\* The comment on the constructor of OtelTracer: "Exporter is called once per completed
\* span, from end_span()."
ExportedOnce ==
    /\ \A i \in DOMAIN refused : refused[i] \notin exported
    /\ \A i, j \in DOMAIN refused : refused[i] = refused[j] => i = j
=============================================================================
