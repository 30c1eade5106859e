------------------------------ MODULE OutboxToBus ------------------------------
(***************************************************************************)
(* An OutboxPublisher whose publisher functions call publish on one         *)
(* InMemoryEventBus, as outbox_publisher_test.cpp sets it up.  A publisher   *)
(* function is the whole of publish: the event is stored in the bus, its    *)
(* handlers run, and a handler that throws ends both publish and flush.     *)
(* Types has one member, the event type whose handlers EventBus models.     *)
(***************************************************************************)
EXTENDS Outbox

CONSTANT MaxHandlers

VARIABLES published, handlers, event, local, last_id, last_handler, due, ran, misread,
          source   \* source[b]: the outbox event that bus event b was made from

Bus == INSTANCE EventBus WITH Threads <- Flushers, MaxEvents <- MaxStores

bus_vars == <<published, handlers, event, local, last_id, last_handler, due, ran, misread>>
flow_vars == <<outbox_vars, bus_vars, source>>

FlowInit == OutboxInit /\ Bus!Init /\ source = <<>>

OutboxOnly(f) == /\ FlushBegin(f) \/ SkipUnregistered(f) \/ FlushEnd(f)
                 /\ UNCHANGED <<bus_vars, source>>

Setup == \/ /\ \E ty \in Types : RegisterPublisher(ty) \/ Store(ty)
            /\ UNCHANGED <<bus_vars, source>>
         \/ /\ Bus!Subscribe \/ Bus!Clear
            /\ UNCHANGED <<outbox_vars, source>>

\* flush finds the publisher of its entry and the publisher calls publish.
CallPublisher(f) ==
    /\ AtEntry(f)
    /\ TypeOf(Current(f)) \in publishers
    /\ Bus!PublishStore(f)
    /\ source' = Append(source, Current(f))
    /\ UNCHANGED outbox_vars

Handle(f) == Bus!RunHandler(f) /\ UNCHANGED <<outbox_vars, source>>

HandledAndReturned(f) == Bus!PublishReturns(f) /\ PublisherReturns(f) /\ UNCHANGED source

HandlerThrows(f) == Bus!HandlerThrows(f) /\ PublisherThrows(f) /\ UNCHANGED source

Flush(f) == OutboxOnly(f) \/ CallPublisher(f) \/ Handle(f) \/ HandledAndReturned(f)

FlowNext == \/ Setup
            \/ \E f \in Flushers : Flush(f) \/ HandlerThrows(f)

FlowSpec == FlowInit /\ [][FlowNext]_flow_vars

-----------------------------------------------------------------------------
(* Properties *)

\* A delivered event was given, once each, to exactly the handlers subscribed when
\* it reached the bus, whatever was subscribed, cleared or published meanwhile; an
\* event that reached the bus and was lost is one whose handler threw; and no handler
\* finds anything but the event it is called with as long as the bus stores it.
DeliveredMeansHandled ==
    \A i \in DOMAIN source :
        /\ source[i] \in Delivered =>
              /\ {ran[k][1] : k \in Bus!RunsOf(i)} = due[i]
              /\ \A j, k \in Bus!RunsOf(i) : j # k => ran[j][1] # ran[k][1]
        /\ source[i] \in lost => Bus!RunsOf(i) # {}
        /\ i \in Range(published) => i \notin misread
=============================================================================
