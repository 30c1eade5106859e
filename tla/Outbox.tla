--------------------------------- MODULE Outbox ---------------------------------
(***************************************************************************)
(* application::OutboxPublisher.  store and the swap at the start of flush  *)
(* are critical sections of mutex_; the publisher functions run outside it, *)
(* one entry after the other, so flushes of several threads and stores      *)
(* interleave.  A publisher function that throws leaves flush at once.      *)
(***************************************************************************)
EXTENDS Integers, Sequences, Functions

CONSTANTS Flushers,   \* threads that call flush
          Types,      \* event types
          MaxStores   \* bound on the number of events stored

ASSUME StoresAssumption == MaxStores \in Nat

VARIABLES
    outbox,      \* outbox_, oldest entry first
    publishers,  \* types in publishers_
    flushing,    \* threads inside flush
    pending,     \* each flush's local vector: the entries it has not handled yet
    \* Kept to state properties.
    stored,      \* every event ever stored, in order
    delivered,   \* <<thread, event>> for each publisher function that returned, in order
    skipped,     \* events taken out of the outbox when their type had no publisher
    lost         \* events in the hands of a flush that a publisher function ended

outbox_vars == <<outbox, publishers, flushing, pending, stored, delivered, skipped, lost>>

Events == (1..MaxStores) \X Types
TypeOf(e) == e[2]

OutboxTypeOK ==
    /\ outbox \in Seq(Events)
    /\ publishers \in SUBSET Types
    /\ flushing \in SUBSET Flushers
    /\ pending \in [Flushers -> Seq(Events)]
    /\ \A f \in Flushers \ flushing : pending[f] = <<>>
    /\ stored \in Seq(Events) /\ Len(stored) <= MaxStores
    /\ delivered \in Seq(Flushers \X Events)
    /\ skipped \in SUBSET Events /\ lost \in SUBSET Events

OutboxInit ==
    /\ outbox = <<>>
    /\ publishers = {}
    /\ flushing = {}
    /\ pending = [f \in Flushers |-> <<>>]
    /\ stored = <<>>
    /\ delivered = <<>>
    /\ skipped = {}
    /\ lost = {}

-----------------------------------------------------------------------------
\* publishers_ is not protected by mutex_: types are registered while no flush
\* is looking them up.
RegisterPublisher(ty) ==
    /\ flushing = {}
    /\ publishers' = publishers \cup {ty}
    /\ UNCHANGED <<outbox, flushing, pending, stored, delivered, skipped, lost>>

StoreInFront(ty) ==
    LET e == <<Len(stored) + 1, ty>>
    IN  /\ Len(stored) < MaxStores
        /\ outbox' = <<e>> \o outbox
        /\ stored' = Append(stored, e)
        /\ UNCHANGED <<publishers, flushing, pending, delivered, skipped, lost>>

Store(ty) ==
    LET e == <<Len(stored) + 1, ty>>
    IN  /\ Len(stored) < MaxStores
        /\ outbox' = Append(outbox, e)
        /\ stored' = Append(stored, e)
        /\ UNCHANGED <<publishers, flushing, pending, delivered, skipped, lost>>

FlushBeginCopying(f) ==
    /\ f \notin flushing
    /\ flushing' = flushing \cup {f}
    /\ pending' = [pending EXCEPT ![f] = outbox]
    /\ UNCHANGED <<outbox, publishers, stored, delivered, skipped, lost>>

\* The swap: the whole outbox moves into the flush's local vector.
FlushBegin(f) ==
    /\ f \notin flushing
    /\ flushing' = flushing \cup {f}
    /\ pending' = [pending EXCEPT ![f] = outbox]
    /\ outbox' = <<>>
    /\ UNCHANGED <<publishers, stored, delivered, skipped, lost>>

\* The entry the loop is at.
Current(f) == Head(pending[f])
AtEntry(f) == f \in flushing /\ pending[f] # <<>>

Advance(f) == pending' = [pending EXCEPT ![f] = Tail(@)]

SkipUnregistered(f) ==
    /\ AtEntry(f)
    /\ TypeOf(Current(f)) \notin publishers
    /\ Advance(f)
    /\ skipped' = skipped \cup {Current(f)}
    /\ UNCHANGED <<outbox, publishers, flushing, stored, delivered, lost>>

PublisherReturns(f) ==
    /\ AtEntry(f)
    /\ TypeOf(Current(f)) \in publishers
    /\ Advance(f)
    /\ delivered' = Append(delivered, <<f, Current(f)>>)
    /\ UNCHANGED <<outbox, publishers, flushing, stored, skipped, lost>>

\* The exception destroys the local vector with every entry from this one on.
PublisherThrows(f) ==
    /\ AtEntry(f)
    /\ TypeOf(Current(f)) \in publishers
    /\ flushing' = flushing \ {f}
    /\ pending' = [pending EXCEPT ![f] = <<>>]
    /\ lost' = lost \cup Range(pending[f])
    /\ UNCHANGED <<outbox, publishers, stored, delivered, skipped>>

FlushEndClearing(f) ==
    /\ f \in flushing
    /\ pending[f] = <<>>
    /\ flushing' = flushing \ {f}
    /\ outbox' = <<>>
    /\ UNCHANGED <<publishers, pending, stored, delivered, skipped, lost>>

FlushEnd(f) ==
    /\ f \in flushing
    /\ pending[f] = <<>>
    /\ flushing' = flushing \ {f}
    /\ UNCHANGED <<outbox, publishers, pending, stored, delivered, skipped, lost>>

FlushStep(f) == SkipUnregistered(f) \/ PublisherReturns(f) \/ FlushEnd(f)

OutboxNext == \/ \E ty \in Types : RegisterPublisher(ty) \/ Store(ty)
              \/ \E f \in Flushers : FlushBegin(f) \/ FlushStep(f) \/ PublisherThrows(f)

OutboxSpec == OutboxInit /\ [][OutboxNext]_outbox_vars

-----------------------------------------------------------------------------
(* Properties *)

Delivered == {delivered[i][2] : i \in DOMAIN delivered}
Held == UNION {Range(pending[f]) : f \in Flushers}

\* Each stored event is in exactly one place: the outbox, the hands of one
\* flush, delivered, skipped or lost.  Two overlapping flushes never share an
\* event and no store is swallowed by a swap.
EachEventInOnePlace ==
    /\ Range(stored) = Range(outbox) \cup Held \cup Delivered \cup skipped \cup lost
    /\ Range(outbox) \cap (Held \cup Delivered \cup skipped \cup lost) = {}
    /\ Held \cap (Delivered \cup skipped \cup lost) = {}
    /\ Delivered \cap (skipped \cup lost) = {}
    /\ skipped \cap lost = {}
    /\ \A f, g \in Flushers : f # g => Range(pending[f]) \cap Range(pending[g]) = {}

\* A thread delivers events in the order they were stored, over all its flushes.
InOrderPerFlusher ==
    \A i, j \in DOMAIN delivered :
        i < j /\ delivered[i][1] = delivered[j][1] => delivered[i][2][1] < delivered[j][2][1]

\* An event stored with a publisher registered leaves the outbox and is handled,
\* whatever other flushes and stores do, as long as flush is called.
EveryEventHandled ==
    \A n \in 1..MaxStores :
        (Len(stored) >= n) ~> (\E e \in Delivered \cup skipped \cup lost : e[1] = n)

\* outbox_publisher.hpp:45 "Events are removed only after the publisher fn returns
\* (at-least-once)": between flushes, an event whose publisher was called is
\* delivered or still in the outbox.
AtLeastOnce ==
    flushing = {} => Range(stored) = Range(outbox) \cup Delivered \cup skipped
=============================================================================
