-------------------------------- MODULE EventBus --------------------------------
(***************************************************************************)
(* testing::InMemoryEventBus for one event type (types do not interact).    *)
(* publish stores the event and copies the handler list in one critical     *)
(* section of mutex_, then runs the copied handlers outside it, each with a  *)
(* reference to the stored event.  A handler may call the bus again.  clear  *)
(* may destroy the event meanwhile: the reference then dangles, and what a   *)
(* handler reads through it may be the event or anything else.               *)
(***************************************************************************)
EXTENDS Integers, Sequences, Functions, FiniteSets

CONSTANTS Threads,      \* publish calls that may be in progress together
          MaxHandlers,  \* bound on the number of handlers ever subscribed
          MaxEvents     \* bound on the number of events published

VARIABLES
    published,     \* published_[key], as event numbers
    handlers,      \* handlers_[key]
    event,         \* event each publish refers to, 0 outside publish
    local,         \* local_handlers each publish has still to run
    \* Kept to state properties.
    last_id,       \* number of the last event created
    last_handler,  \* number of the last handler subscribed
    due,           \* due[e]: handlers subscribed when event e was stored
    ran,           \* <<handler, event>> in the order the handlers were entered
    misread        \* events of which some handler read something else

bus_vars == <<published, handlers, event, local, last_id, last_handler, due, ran, misread>>

Init ==
    /\ published = <<>>
    /\ handlers = <<>>
    /\ event = [t \in Threads |-> 0]
    /\ local = [t \in Threads |-> <<>>]
    /\ last_id = 0
    /\ last_handler = 0
    /\ due = [e \in 1..MaxEvents |-> {}]
    /\ ran = <<>>
    /\ misread = {}

\* Where ran tells of a handler that event e was given to.
RunsOf(e) == {k \in DOMAIN ran : ran[k][2] = e}

-----------------------------------------------------------------------------
\* Every call adds a function object of its own.
Subscribe ==
    /\ last_handler < MaxHandlers
    /\ last_handler' = last_handler + 1
    /\ handlers' = Append(handlers, last_handler + 1)
    /\ UNCHANGED <<published, event, local, last_id, due, ran, misread>>

\* The critical section of publish.
PublishStore(t) ==
    /\ event[t] = 0
    /\ last_id < MaxEvents
    /\ last_id' = last_id + 1
    /\ event' = [event EXCEPT ![t] = last_id + 1]
    /\ published' = Append(published, last_id + 1)
    /\ local' = [local EXCEPT ![t] = handlers]
    /\ due' = [due EXCEPT ![last_id + 1] = Range(handlers)]
    /\ UNCHANGED <<handlers, last_handler, ran, misread>>

\* The handler reads the event.
Read(t) == \/ UNCHANGED misread
           \/ event[t] \notin Range(published) /\ misread' = misread \cup {event[t]}

RunHandlerFromLiveList(t) ==
    LET i == Cardinality(RunsOf(event[t])) + 1
    IN  /\ event[t] # 0
        /\ local[t] # <<>>
        /\ \/ /\ i <= Len(handlers)
              /\ ran' = Append(ran, <<handlers[i], event[t]>>)
              /\ local' = [local EXCEPT ![t] = Tail(@)]
           \/ /\ i > Len(handlers)
              /\ local' = [local EXCEPT ![t] = <<>>]
              /\ UNCHANGED ran
        /\ Read(t)
        /\ UNCHANGED <<published, handlers, event, last_id, last_handler, due>>

\* A handler runs to its end with a reference to the event.
RunHandler(t) ==
    /\ event[t] # 0
    /\ local[t] # <<>>
    /\ ran' = Append(ran, <<Head(local[t]), event[t]>>)
    /\ local' = [local EXCEPT ![t] = Tail(@)]
    /\ Read(t)
    /\ UNCHANGED <<published, handlers, event, last_id, last_handler, due>>

\* A handler throws: publish ends, the handlers after it do not run and the
\* event stays stored.
HandlerThrows(t) ==
    /\ event[t] # 0
    /\ local[t] # <<>>
    /\ ran' = Append(ran, <<Head(local[t]), event[t]>>)
    /\ due' = [due EXCEPT ![event[t]] = @ \ Range(Tail(local[t]))]
    /\ local' = [local EXCEPT ![t] = <<>>]
    /\ event' = [event EXCEPT ![t] = 0]
    /\ Read(t)
    /\ UNCHANGED <<published, handlers, last_id, last_handler>>

PublishReturns(t) ==
    /\ event[t] # 0
    /\ local[t] = <<>>
    /\ event' = [event EXCEPT ![t] = 0]
    /\ UNCHANGED <<published, handlers, local, last_id, last_handler, due, ran, misread>>

\* clear forgets the handlers and destroys the events, also one that a publish in
\* progress refers to; the handlers that publish has copied still run.
Clear ==
    /\ published' = <<>>
    /\ handlers' = <<>>
    /\ UNCHANGED <<event, local, last_id, last_handler, due, ran, misread>>

Publish(t) == RunHandler(t) \/ PublishReturns(t)

Next == \/ Subscribe
        \/ \E t \in Threads : PublishStore(t) \/ Publish(t) \/ HandlerThrows(t)
        \/ Clear

Spec == Init /\ [][Next]_bus_vars
=============================================================================
