------------------------------ MODULE OutboxProofs ------------------------------
(***************************************************************************)
(* The outbox with any number of flushing threads, stores and event types,  *)
(* alone and with an event bus of any number of handlers behind it.         *)
(***************************************************************************)
EXTENDS OutboxToBus, TLAPS

Ascending(s) == \A i, j \in DOMAIN s : i < j => s[i][1] < s[j][1]

Taken == Held \cup Delivered \cup skipped \cup lost

\* Events are numbered as they are stored; those in the outbox are younger than those
\* taken out of it, and those in a thread's hands than those it has delivered.
Ordered ==
    /\ \A e \in Range(stored) : e[1] <= Len(stored)
    /\ Ascending(outbox)
    /\ \A f \in Flushers : Ascending(pending[f])
    /\ \A e \in Taken, o \in Range(outbox) : e[1] < o[1]
    /\ \A i \in DOMAIN delivered : \A e \in Range(pending[delivered[i][1]]) :
          delivered[i][2][1] < e[1]

OutboxInv == OutboxTypeOK /\ EachEventInOnePlace /\ Ordered /\ InOrderPerFlusher

-----------------------------------------------------------------------------
(* Sequences of events *)

\* The events of a sequence with one more at its end.
LEMMA RangeAppend ==
    ASSUME NEW S, NEW s \in Seq(S), NEW e \in S
    PROVE  /\ Append(s, e) \in Seq(S)
           /\ Range(Append(s, e)) = Range(s) \cup {e}
  <1>1. /\ Append(s, e) \in Seq(S)
        /\ DOMAIN Append(s, e) = 1..(Len(s) + 1)
        /\ DOMAIN s = 1..Len(s) /\ Len(s) \in Nat
        /\ \A i \in 1..Len(s) : Append(s, e)[i] = s[i]
        /\ Append(s, e)[Len(s) + 1] = e
    OBVIOUS
  <1>2. \A x : x \in Range(Append(s, e)) <=> x \in Range(s) \cup {e}
    BY <1>1 DEF Range
  <1> QED BY Zenon, <1>1, <1>2

\* The events of a sequence are its first one and those behind it.
LEMMA RangeHeadTail ==
    ASSUME NEW S, NEW s \in Seq(S), s # <<>>
    PROVE  /\ Head(s) \in S /\ Tail(s) \in Seq(S)
           /\ Range(s) = {Head(s)} \cup Range(Tail(s))
  <1>1. /\ Head(s) \in S /\ Tail(s) \in Seq(S)
        /\ Len(s) \in Nat /\ Len(s) > 0 /\ Head(s) = s[1]
        /\ DOMAIN s = 1..Len(s)
        /\ DOMAIN Tail(s) = 1..(Len(s) - 1)
        /\ \A i \in 1..(Len(s) - 1) : Tail(s)[i] = s[i + 1]
    OBVIOUS
  <1>2. ASSUME NEW x \in Range(s)
        PROVE  x \in {Head(s)} \cup Range(Tail(s))
    <2>1. PICK i \in 1..Len(s) : x = s[i]
      BY Zenon, <1>1 DEF Range
    <2>2. CASE i = 1
      BY Zenon, <1>1, <2>1, <2>2
    <2>3. CASE i > 1
      <3>1. i - 1 \in 1..(Len(s) - 1) /\ Tail(s)[i - 1] = s[i]
        BY <1>1, <2>3
      <3> QED BY Zenon, <1>1, <2>1, <3>1 DEF Range
    <2> QED BY <2>2, <2>3
  <1>3. ASSUME NEW x \in Range(Tail(s))
        PROVE  x \in Range(s)
    <2>1. PICK i \in 1..(Len(s) - 1) : x = Tail(s)[i]
      BY Zenon, <1>1 DEF Range
    <2>2. i + 1 \in DOMAIN s /\ x = s[i + 1]
      BY <1>1, <2>1
    <2> QED BY Zenon, <2>2 DEF Range
  <1>4. Head(s) \in Range(s)
    BY <1>1 DEF Range
  <1> QED BY Zenon, <1>1, <1>2, <1>3, <1>4

\* An ascending sequence stays one when a younger event is appended.
LEMMA AscendingAppend ==
    ASSUME NEW s \in Seq(Events), Ascending(s), NEW e \in Events,
           \A d \in Range(s) : d[1] < e[1]
    PROVE  Ascending(Append(s, e))
  <1>1. /\ DOMAIN Append(s, e) = 1..(Len(s) + 1)
        /\ DOMAIN s = 1..Len(s) /\ Len(s) \in Nat
        /\ \A i \in 1..Len(s) : Append(s, e)[i] = s[i]
        /\ Append(s, e)[Len(s) + 1] = e
    OBVIOUS
  <1>2. ASSUME NEW i \in 1..(Len(s) + 1), NEW j \in 1..(Len(s) + 1), i < j
        PROVE  Append(s, e)[i][1] < Append(s, e)[j][1]
    <2>1. i \in 1..Len(s) /\ s[i] \in Range(s)
      BY <1>1, <1>2 DEF Range
    <2>2. CASE j = Len(s) + 1
      BY Zenon, <1>1, <2>1, <2>2
    <2>3. CASE j \in 1..Len(s)
      BY Zenon, <1>1, <1>2, <2>1, <2>3 DEF Ascending
    <2> QED BY <1>1, <2>2, <2>3
  <1> QED BY Zenon, <1>1, <1>2 DEF Ascending

\* The rest of an ascending sequence is one, and younger than its first event.
LEMMA AscendingTail ==
    ASSUME NEW s \in Seq(Events), Ascending(s), s # <<>>
    PROVE  /\ Ascending(Tail(s))
           /\ \A e \in Range(Tail(s)) : Head(s)[1] < e[1]
  <1>1. /\ Len(s) \in Nat /\ Len(s) > 0 /\ Head(s) = s[1]
        /\ DOMAIN s = 1..Len(s)
        /\ DOMAIN Tail(s) = 1..(Len(s) - 1)
        /\ \A i \in 1..(Len(s) - 1) : Tail(s)[i] = s[i + 1] /\ i + 1 \in 1..Len(s) /\ 1 < i + 1
    OBVIOUS
  <1>2. ASSUME NEW i \in 1..(Len(s) - 1), NEW j \in 1..(Len(s) - 1), i < j
        PROVE  Tail(s)[i][1] < Tail(s)[j][1]
    <2>1. i + 1 < j + 1
      BY <1>1, <1>2
    <2> QED BY Zenon, <1>1, <2>1 DEF Ascending
  <1>3. ASSUME NEW i \in 1..(Len(s) - 1)
        PROVE  Head(s)[1] < Tail(s)[i][1]
    BY <1>1, <1>3 DEF Ascending
  <1> QED BY Zenon, <1>1, <1>2, <1>3 DEF Ascending, Range

-----------------------------------------------------------------------------
(* Steps *)

\* The loop of flush takes one entry out of its thread's hands and nobody else's.
LEMMA AdvanceTakesOne ==
    ASSUME OutboxInv, NEW f \in Flushers, AtEntry(f), Advance(f)
    PROVE  /\ Current(f) \in Events
           /\ pending' \in [Flushers -> Seq(Events)]
           /\ \A g \in Flushers : g # f => pending'[g] = pending[g]
           /\ \A g \in Flushers : Ascending(pending'[g])
           /\ \A g \in Flushers : Range(pending'[g]) \subseteq Range(pending[g])
           /\ \A e \in Range(pending'[f]) : Current(f)[1] < e[1]
           /\ Current(f) \in Range(pending[f])
           /\ Held' = Held \ {Current(f)} /\ Current(f) \in Held
  <1>1. pending[f] \in Seq(Events) /\ pending[f] # <<>> /\ Ascending(pending[f])
    BY Zenon DEF OutboxInv, OutboxTypeOK, AtEntry, Ordered
  <1>2. /\ Current(f) \in Events /\ Tail(pending[f]) \in Seq(Events)
        /\ Range(pending[f]) = {Current(f)} \cup Range(Tail(pending[f]))
    BY Zenon, <1>1, RangeHeadTail DEF Current
  <1>3. /\ Ascending(Tail(pending[f]))
        /\ \A e \in Range(Tail(pending[f])) : Current(f)[1] < e[1]
    BY Zenon, <1>1, AscendingTail DEF Current
  <1>4. /\ pending' \in [Flushers -> Seq(Events)]
        /\ pending'[f] = Tail(pending[f])
        /\ \A g \in Flushers : g # f => pending'[g] = pending[g]
    BY Zenon, <1>2 DEF Advance, OutboxInv, OutboxTypeOK
  <1>5. \A g \in Flushers : Ascending(pending'[g])
    BY Zenon, <1>3, <1>4 DEF OutboxInv, Ordered
  <1>6. Current(f)[1] \in Nat
    BY <1>2, StoresAssumption DEF Events
  <1>7. Current(f) \notin Range(pending'[f])
    BY <1>3, <1>4, <1>6
  <1>8. \A g \in Flushers : g # f => Current(f) \notin Range(pending'[g])
    BY Zenon, <1>2, <1>4 DEF OutboxInv, EachEventInOnePlace
  <1>9. Held' = UNION {Range(pending'[g]) : g \in Flushers}
    BY Zenon DEF Held, Range
  <1>10. ASSUME NEW e PROVE e \in Held' <=> e \in Held /\ e # Current(f)
    BY Zenon, <1>2, <1>4, <1>7, <1>8, <1>9 DEF Held
  <1>11. Held' = Held \ {Current(f)}
    BY Zenon, <1>10
  <1> QED
    BY Zenon, <1>2, <1>3, <1>4, <1>5, <1>11 DEF Held

\* A publisher function that returns adds its entry to the delivered ones.
LEMMA DeliveredAppend ==
    ASSUME OutboxTypeOK, NEW f \in Flushers, NEW e \in Events,
           delivered' = Append(delivered, <<f, e>>)
    PROVE  /\ delivered' \in Seq(Flushers \X Events)
           /\ Delivered' = Delivered \cup {e}
           /\ DOMAIN delivered' = 1..(Len(delivered) + 1)
           /\ DOMAIN delivered = 1..Len(delivered) /\ Len(delivered) \in Nat
           /\ \A i \in 1..Len(delivered) : delivered'[i] = delivered[i]
           /\ delivered'[Len(delivered) + 1] = <<f, e>>
  <1>1. delivered \in Seq(Flushers \X Events) /\ <<f, e>> \in Flushers \X Events
    BY Zenon DEF OutboxTypeOK
  <1>2. /\ delivered' \in Seq(Flushers \X Events)
        /\ DOMAIN delivered' = 1..(Len(delivered) + 1)
        /\ DOMAIN delivered = 1..Len(delivered) /\ Len(delivered) \in Nat
        /\ \A i \in 1..Len(delivered) : delivered'[i] = delivered[i]
        /\ delivered'[Len(delivered) + 1] = <<f, e>>
    BY <1>1
  <1>3. \A x : x \in Delivered' <=> x \in Delivered \cup {e}
    BY <1>2 DEF Delivered
  <1> QED BY Zenon, <1>2, <1>3

\* store() puts a younger event behind all others.
LEMMA StoreOutboxInv ==
    ASSUME OutboxInv, NEW ty \in Types, Store(ty)
    PROVE  OutboxInv'
  <1> DEFINE e == <<Len(stored) + 1, ty>>
  <1> USE StoresAssumption
  <1>1. /\ outbox' = Append(outbox, e) /\ stored' = Append(stored, e)
        /\ UNCHANGED <<publishers, flushing, pending, delivered, skipped, lost>>
        /\ Len(stored) < MaxStores /\ Len(stored) \in Nat
        /\ stored \in Seq(Events) /\ outbox \in Seq(Events)
        /\ e \in Events /\ e[1] = Len(stored) + 1
    BY DEF Store, OutboxInv, OutboxTypeOK, Events
  <1> HIDE DEF e
  <1>2. /\ outbox' \in Seq(Events) /\ Range(outbox') = Range(outbox) \cup {e}
        /\ stored' \in Seq(Events) /\ Range(stored') = Range(stored) \cup {e}
        /\ Len(stored') = Len(stored) + 1
    BY <1>1, RangeAppend
  <1>3. Held' = Held /\ Delivered' = Delivered /\ Taken' = Taken
    BY Zenon, <1>1 DEF Held, Delivered, Taken
  <1>4. Taken \subseteq Range(stored) /\ Range(outbox) \subseteq Range(stored)
    BY Zenon DEF OutboxInv, EachEventInOnePlace, Taken
  <1>5. Range(stored) \subseteq Events
    BY <1>1 DEF Range
  <1>6. \A d \in Range(stored) : d[1] \in Nat /\ d[1] <= Len(stored) /\ d[1] < e[1]
    BY <1>1, <1>5 DEF OutboxInv, Ordered, Events
  <1>7. e \notin Range(stored)
    BY <1>1, <1>6
  <1>8. OutboxTypeOK'
    BY <1>1, <1>2 DEF OutboxInv, OutboxTypeOK
  <1>9. EachEventInOnePlace'
    <2>1. e \notin Taken
      BY Zenon, <1>4, <1>7
    <2>2. /\ Range(stored') = Range(outbox') \cup Taken
          /\ Range(outbox') \cap Taken = {}
      BY <1>2, <2>1 DEF OutboxInv, EachEventInOnePlace, Taken
    <2> QED
      BY Zenon, <1>1, <1>3, <2>2 DEF OutboxInv, EachEventInOnePlace, Taken
  <1>10. Ascending(outbox')
    BY Zenon, <1>1, <1>4, <1>6, AscendingAppend DEF OutboxInv, Ordered
  <1>11. Ordered'
    BY <1>1, <1>2, <1>3, <1>4, <1>6, <1>10 DEF OutboxInv, Ordered
  <1>12. InOrderPerFlusher'
    BY Zenon, <1>1 DEF OutboxInv, InOrderPerFlusher
  <1> QED BY Zenon, <1>8, <1>9, <1>11, <1>12 DEF OutboxInv

\* The swap hands every waiting event to one flush.
LEMMA FlushBeginOutboxInv ==
    ASSUME OutboxInv, NEW f \in Flushers, FlushBegin(f)
    PROVE  OutboxInv'
  <1>1. /\ pending[f] = <<>> /\ pending \in [Flushers -> Seq(Events)]
        /\ outbox \in Seq(Events)
        /\ pending' = [pending EXCEPT ![f] = outbox] /\ outbox' = <<>>
        /\ flushing' = flushing \cup {f}
        /\ UNCHANGED <<publishers, stored, delivered, skipped, lost>>
    BY Zenon DEF FlushBegin, OutboxInv, OutboxTypeOK
  <1>2. /\ pending' \in [Flushers -> Seq(Events)] /\ pending'[f] = outbox
        /\ \A g \in Flushers : g # f => pending'[g] = pending[g]
        /\ Range(pending[f]) = {} /\ Range(outbox') = {}
    BY <1>1 DEF Range
  <1>3. Held' = Held \cup Range(outbox) /\ Delivered' = Delivered
    <2>1. Held' = UNION {Range(pending'[g]) : g \in Flushers}
      BY Zenon DEF Held, Range
    <2>2. ASSUME NEW e PROVE e \in Held' <=> e \in Held \cup Range(outbox)
      BY Zenon, <1>2, <2>1 DEF Held
    <2> QED BY Zenon, <1>1, <2>2 DEF Delivered
  <1>4. OutboxTypeOK'
    BY <1>1, <1>2 DEF OutboxInv, OutboxTypeOK
  <1>5. EachEventInOnePlace'
    <2>1. \A g \in Flushers : Range(pending[g]) \subseteq Held
      BY Zenon DEF Held
    <2>2. ASSUME NEW g \in Flushers, NEW h \in Flushers, g # h
          PROVE  Range(pending'[g]) \cap Range(pending'[h]) = {}
      BY Zenon, <1>2, <2>1, <2>2 DEF OutboxInv, EachEventInOnePlace
    <2>3. (\A g, h \in Flushers : g # h => Range(pending[g]) \cap Range(pending[h]) = {})'
      BY Zenon, <2>2
    <2> QED
      BY Zenon, <1>1, <1>2, <1>3, <2>3 DEF OutboxInv, EachEventInOnePlace
  <1>6. Ordered'
    <2>1. Ascending(outbox') /\ \A g \in Flushers : Ascending(pending'[g])
      BY Zenon, <1>1, <1>2 DEF OutboxInv, Ordered, Ascending
    <2>2. ASSUME NEW i \in DOMAIN delivered, NEW e \in Range(pending'[delivered[i][1]])
          PROVE  delivered[i][2][1] < e[1]
      <3>1. delivered[i][1] \in Flushers /\ delivered[i][2] \in Taken
        BY DEF OutboxInv, OutboxTypeOK, Taken, Delivered
      <3>2. CASE delivered[i][1] = f
        BY Zenon, <1>2, <2>2, <3>1, <3>2 DEF OutboxInv, Ordered
      <3>3. CASE delivered[i][1] # f
        BY Zenon, <1>2, <2>2, <3>1, <3>3 DEF OutboxInv, Ordered
      <3> QED BY Zenon, <3>2, <3>3
    <2> QED
      BY Zenon, <1>1, <1>2, <2>1, <2>2 DEF OutboxInv, Ordered
  <1>7. InOrderPerFlusher'
    BY Zenon, <1>1 DEF OutboxInv, InOrderPerFlusher
  <1> QED BY Zenon, <1>4, <1>5, <1>6, <1>7 DEF OutboxInv

\* An entry without a publisher moves from a thread's hands to the skipped ones.
LEMMA SkipOutboxInv ==
    ASSUME OutboxInv, NEW f \in Flushers, SkipUnregistered(f)
    PROVE  OutboxInv'
  <1>1. /\ AtEntry(f) /\ Advance(f) /\ skipped' = skipped \cup {Current(f)}
        /\ UNCHANGED <<outbox, publishers, flushing, stored, delivered, lost>>
    BY Zenon DEF SkipUnregistered
  <1>2. /\ Current(f) \in Events /\ pending' \in [Flushers -> Seq(Events)]
        /\ \A g \in Flushers : Ascending(pending'[g])
        /\ \A g \in Flushers : Range(pending'[g]) \subseteq Range(pending[g])
        /\ \A g \in Flushers : g # f => pending'[g] = pending[g]
        /\ Held' = Held \ {Current(f)} /\ Current(f) \in Held
    BY Zenon, <1>1, AdvanceTakesOne
  <1>3. Delivered' = Delivered
    BY Zenon, <1>1 DEF Delivered
  <1>4. Taken' = Taken
    BY Zenon, <1>1, <1>2, <1>3 DEF Taken
  <1>5. OutboxTypeOK'
    BY Zenon, <1>1, <1>2 DEF OutboxInv, OutboxTypeOK, AtEntry
  <1>6. EachEventInOnePlace'
    <2>1. (\A g, h \in Flushers : g # h => Range(pending[g]) \cap Range(pending[h]) = {})'
      BY Zenon, <1>2 DEF OutboxInv, EachEventInOnePlace
    <2> QED
      BY <1>1, <1>2, <1>3, <2>1 DEF OutboxInv, EachEventInOnePlace
  <1>7. Ordered'
    <2>1. ASSUME NEW i \in DOMAIN delivered, NEW e \in Range(pending'[delivered[i][1]])
          PROVE  delivered[i][2][1] < e[1]
      <3>1. delivered[i][1] \in Flushers
        BY DEF OutboxInv, OutboxTypeOK
      <3> QED BY Zenon, <1>2, <2>1, <3>1 DEF OutboxInv, Ordered
    <2> QED BY Zenon, <1>1, <1>2, <1>4, <2>1 DEF OutboxInv, Ordered
  <1>8. InOrderPerFlusher'
    BY Zenon, <1>1 DEF OutboxInv, InOrderPerFlusher
  <1> QED BY <1>5, <1>6, <1>7, <1>8 DEF OutboxInv

\* A publisher function that returns moves its entry to the delivered ones.
LEMMA ReturnsOutboxInv ==
    ASSUME OutboxInv, NEW f \in Flushers, PublisherReturns(f)
    PROVE  OutboxInv'
  <1>1. /\ AtEntry(f) /\ Advance(f) /\ delivered' = Append(delivered, <<f, Current(f)>>)
        /\ UNCHANGED <<outbox, publishers, flushing, stored, skipped, lost>>
    BY Zenon DEF PublisherReturns
  <1>2. /\ Current(f) \in Events /\ pending' \in [Flushers -> Seq(Events)]
        /\ \A g \in Flushers : Ascending(pending'[g])
        /\ \A g \in Flushers : Range(pending'[g]) \subseteq Range(pending[g])
        /\ \A g \in Flushers : g # f => pending'[g] = pending[g]
        /\ \A e \in Range(pending'[f]) : Current(f)[1] < e[1]
        /\ Current(f) \in Range(pending[f])
        /\ Held' = Held \ {Current(f)} /\ Current(f) \in Held
    BY Zenon, <1>1, AdvanceTakesOne
  <1>3. /\ delivered' \in Seq(Flushers \X Events)
        /\ Delivered' = Delivered \cup {Current(f)}
        /\ DOMAIN delivered' = 1..(Len(delivered) + 1)
        /\ DOMAIN delivered = 1..Len(delivered) /\ Len(delivered) \in Nat
        /\ \A i \in 1..Len(delivered) : delivered'[i] = delivered[i]
        /\ delivered'[Len(delivered) + 1] = <<f, Current(f)>>
    BY Zenon, <1>1, <1>2, DeliveredAppend DEF OutboxInv
  <1>4. Taken' = Taken
    BY Zenon, <1>1, <1>2, <1>3 DEF Taken
  <1>5. OutboxTypeOK'
    BY Zenon, <1>1, <1>2, <1>3 DEF OutboxInv, OutboxTypeOK, AtEntry
  <1>6. EachEventInOnePlace'
    <2>1. (\A g, h \in Flushers : g # h => Range(pending[g]) \cap Range(pending[h]) = {})'
      BY Zenon, <1>2 DEF OutboxInv, EachEventInOnePlace
    <2> QED
      BY <1>1, <1>2, <1>3, <2>1 DEF OutboxInv, EachEventInOnePlace
  <1>7. \A i \in 1..Len(delivered) :
            /\ delivered[i][1] \in Flushers
            /\ \A e \in Range(pending[delivered[i][1]]) : delivered[i][2][1] < e[1]
    <2>1. \A i \in 1..Len(delivered) : delivered[i] \in Flushers \X Events
      BY <1>3 DEF OutboxInv, OutboxTypeOK
    <2>2. \A i \in 1..Len(delivered) :
              \A e \in Range(pending[delivered[i][1]]) : delivered[i][2][1] < e[1]
      BY Zenon, <1>3 DEF OutboxInv, Ordered
    <2> QED BY Zenon, <2>1, <2>2
  <1>8. Ordered'
    <2>1. ASSUME NEW i \in DOMAIN delivered', NEW e \in Range(pending'[delivered'[i][1]])
          PROVE  delivered'[i][2][1] < e[1]
      <3>1. CASE i = Len(delivered) + 1
        BY <1>2, <1>3, <2>1, <3>1
      <3>2. CASE i \in 1..Len(delivered)
        BY Zenon, <1>2, <1>3, <1>7, <2>1, <3>2
      <3> QED BY <1>3, <3>1, <3>2
    <2> QED BY Zenon, <1>1, <1>2, <1>4, <2>1 DEF OutboxInv, Ordered
  <1>9. InOrderPerFlusher'
    <2>1. ASSUME NEW i \in DOMAIN delivered', NEW j \in DOMAIN delivered', i < j,
                 delivered'[i][1] = delivered'[j][1]
          PROVE  delivered'[i][2][1] < delivered'[j][2][1]
      <3>1. i \in 1..Len(delivered)
        BY <1>3, <2>1
      <3>2. CASE j = Len(delivered) + 1
        <4>1. delivered'[j] = <<f, Current(f)>> /\ delivered'[i] = delivered[i]
          BY Zenon, <1>3, <3>1, <3>2
        <4>2. delivered[i][1] = f
          BY <2>1, <4>1
        <4>3. delivered[i][2][1] < Current(f)[1]
          BY Zenon, <1>2, <1>7, <3>1, <4>2
        <4> QED BY <4>1, <4>3
      <3>3. CASE j \in 1..Len(delivered)
        BY Zenon, <1>3, <2>1, <3>1, <3>3 DEF OutboxInv, InOrderPerFlusher
      <3> QED BY <1>3, <3>2, <3>3
    <2> QED BY Zenon, <2>1 DEF InOrderPerFlusher
  <1> QED BY <1>5, <1>6, <1>8, <1>9 DEF OutboxInv

\* An exception loses exactly what the thread had in its hands.
LEMMA ThrowsOutboxInv ==
    ASSUME OutboxInv, NEW f \in Flushers, PublisherThrows(f)
    PROVE  OutboxInv'
  <1>1. /\ pending' = [pending EXCEPT ![f] = <<>>] /\ flushing' = flushing \ {f}
        /\ lost' = lost \cup Range(pending[f])
        /\ UNCHANGED <<outbox, publishers, stored, delivered, skipped>>
        /\ pending \in [Flushers -> Seq(Events)]
    BY Zenon DEF PublisherThrows, OutboxInv, OutboxTypeOK
  <1>2. /\ pending' \in [Flushers -> Seq(Events)] /\ pending'[f] = <<>>
        /\ \A g \in Flushers : g # f => pending'[g] = pending[g]
        /\ Range(pending'[f]) = {} /\ Range(pending[f]) \subseteq Events
    BY <1>1 DEF Range
  <1>3. Held' = Held \ Range(pending[f]) /\ Delivered' = Delivered
        /\ Range(pending[f]) \subseteq Held
    <2>1. Held' = UNION {Range(pending'[g]) : g \in Flushers}
      BY DEF Held, Range
    <2>2. \A g \in Flushers : g # f => Range(pending[f]) \cap Range(pending[g]) = {}
      BY Zenon DEF OutboxInv, EachEventInOnePlace
    <2>3. ASSUME NEW e PROVE e \in Held' <=> e \in Held \ Range(pending[f])
      BY Zenon, <1>2, <2>1, <2>2 DEF Held
    <2> QED BY Zenon, <1>1, <2>3 DEF Delivered, Held
  <1>4. Taken' = Taken
    BY Zenon, <1>1, <1>3 DEF Taken
  <1>5. OutboxTypeOK'
    BY Zenon, <1>1, <1>2 DEF OutboxInv, OutboxTypeOK
  <1>6. EachEventInOnePlace'
    <2>1. (\A g, h \in Flushers : g # h => Range(pending[g]) \cap Range(pending[h]) = {})'
      BY Zenon, <1>2 DEF OutboxInv, EachEventInOnePlace
    <2> QED
      BY Zenon, <1>1, <1>2, <1>3, <2>1 DEF OutboxInv, EachEventInOnePlace
  <1>7. Ordered'
    <2>1. \A g \in Flushers : Ascending(pending'[g])
      BY <1>2 DEF OutboxInv, Ordered, Ascending
    <2>2. ASSUME NEW i \in DOMAIN delivered, NEW e \in Range(pending'[delivered[i][1]])
          PROVE  delivered[i][2][1] < e[1]
      <3>1. delivered[i][1] \in Flushers
        BY DEF OutboxInv, OutboxTypeOK
      <3> QED BY Zenon, <1>2, <2>2, <3>1 DEF OutboxInv, Ordered
    <2> QED BY Zenon, <1>1, <1>4, <2>1, <2>2 DEF OutboxInv, Ordered
  <1>8. InOrderPerFlusher'
    BY Zenon, <1>1 DEF OutboxInv, InOrderPerFlusher
  <1> QED BY <1>5, <1>6, <1>7, <1>8 DEF OutboxInv

\* Every action preserves the inductive invariant.
LEMMA NextOutboxInv == OutboxInv /\ [OutboxNext]_outbox_vars => OutboxInv'
  <1> SUFFICES ASSUME OutboxInv, [OutboxNext]_outbox_vars
               PROVE  OutboxInv'
    BY Zenon
  <1>1. ASSUME NEW ty \in Types, RegisterPublisher(ty)
        PROVE  OutboxInv'
    <2>1. publishers' \in SUBSET Types
          /\ UNCHANGED <<outbox, flushing, pending, stored, delivered, skipped, lost>>
      BY Zenon, <1>1 DEF RegisterPublisher, OutboxInv, OutboxTypeOK
    <2>2. Held' = Held /\ Delivered' = Delivered /\ Taken' = Taken
      BY Zenon, <2>1 DEF Held, Delivered, Taken
    <2> QED
      BY Zenon, <2>1, <2>2 DEF OutboxInv, OutboxTypeOK, EachEventInOnePlace, Ordered, InOrderPerFlusher
  <1>2. ASSUME NEW f \in Flushers, FlushEnd(f)
        PROVE  OutboxInv'
    <2>1. flushing' = flushing \ {f} /\ pending[f] = <<>>
          /\ UNCHANGED <<outbox, publishers, pending, stored, delivered, skipped, lost>>
      BY Zenon, <1>2 DEF FlushEnd
    <2>2. Held' = Held /\ Delivered' = Delivered /\ Taken' = Taken
      BY <2>1 DEF Held, Delivered, Taken
    <2> QED
      BY Zenon, <2>1, <2>2 DEF OutboxInv, OutboxTypeOK, EachEventInOnePlace, Ordered, InOrderPerFlusher
  <1>3. CASE UNCHANGED outbox_vars
    <2>1. UNCHANGED <<outbox, publishers, flushing, pending, stored, delivered, skipped, lost>>
      BY Zenon, <1>3 DEF outbox_vars
    <2>2. Held' = Held /\ Delivered' = Delivered /\ Taken' = Taken
      BY Zenon, <2>1 DEF Held, Delivered, Taken
    <2> QED
      BY Zenon, <2>1, <2>2 DEF OutboxInv, OutboxTypeOK, EachEventInOnePlace, Ordered, InOrderPerFlusher
  <1> QED
    BY Zenon, <1>1, <1>2, <1>3, StoreOutboxInv, FlushBeginOutboxInv, SkipOutboxInv, ReturnsOutboxInv,
       ThrowsOutboxInv DEF OutboxNext, FlushStep

-----------------------------------------------------------------------------
(* Theorems *)

\* The inductive invariant holds in every reachable state.
THEOREM OutboxInvariance == OutboxSpec => []OutboxInv
  <1>1. OutboxInit => OutboxInv
    <2> SUFFICES ASSUME OutboxInit PROVE OutboxInv
      BY Zenon
    <2>1. /\ Range(outbox) = {} /\ Range(stored) = {} /\ Len(stored) = 0
          /\ Delivered = {} /\ skipped = {} /\ lost = {}
          /\ \A f \in Flushers : Range(pending[f]) = {} /\ pending[f] = <<>>
      BY DEF OutboxInit, Range, Delivered
    <2>2. Held = {}
      BY Zenon, <2>1 DEF Held
    <2>3. OutboxTypeOK
      BY <2>1, StoresAssumption DEF OutboxInit, OutboxTypeOK
    <2>4. EachEventInOnePlace
      BY Zenon, <2>1, <2>2 DEF EachEventInOnePlace
    <2>5. Ordered
      BY <2>1, <2>2 DEF OutboxInit, Ordered, Ascending, Taken
    <2>6. InOrderPerFlusher
      BY DEF OutboxInit, InOrderPerFlusher
    <2> QED BY Zenon, <2>3, <2>4, <2>5, <2>6 DEF OutboxInv
  <1> QED BY <1>1, NextOutboxInv, PTL DEF OutboxSpec

\* With any number of flushing threads no event is duplicated by overlapping flushes,
\* swallowed by a swap, or gone without being delivered, skipped or lost to a throw.
THEOREM EachEventAlwaysInOnePlace == OutboxSpec => []EachEventInOnePlace
  <1>1. OutboxInv => EachEventInOnePlace
    BY Zenon DEF OutboxInv
  <1> QED BY OutboxInvariance, <1>1, PTL

\* With any number of flushing threads each delivers in the order of the stores.
THEOREM AlwaysInOrderPerFlusher == OutboxSpec => []InOrderPerFlusher
  <1>1. OutboxInv => InOrderPerFlusher
    BY Zenon DEF OutboxInv
  <1> QED BY OutboxInvariance, <1>1, PTL

-----------------------------------------------------------------------------
(* The bus behind the outbox *)

\* To the outbox, publish is a publisher function like any other.
THEOREM StackImplementsOutbox == FlowSpec => OutboxSpec
  <1>1. FlowInit => OutboxInit
    BY Zenon DEF FlowInit
  <1>2. [FlowNext]_flow_vars => [OutboxNext]_outbox_vars
    <2> SUFFICES ASSUME [FlowNext]_flow_vars
                 PROVE  OutboxNext \/ UNCHANGED outbox_vars
      BY Zenon
    <2>1. CASE Setup
      BY Zenon, <2>1 DEF Setup, OutboxNext
    <2>2. ASSUME NEW f \in Flushers, Flush(f)
          PROVE  OutboxNext \/ UNCHANGED outbox_vars
      BY Zenon, <2>2
      DEF Flush, OutboxOnly, CallPublisher, Handle, HandledAndReturned, OutboxNext, FlushStep
    <2>3. ASSUME NEW f \in Flushers, HandlerThrows(f)
          PROVE  OutboxNext
      BY Zenon, <2>3 DEF HandlerThrows, OutboxNext
    <2> QED BY Zenon, <2>1, <2>2, <2>3 DEF FlowNext, flow_vars
  <1> QED BY <1>1, <1>2, PTL DEF FlowSpec, OutboxSpec

\* The subscribed handlers are different ones, and the bus stores no event of which a
\* handler read something else.
StoreInv ==
    /\ last_handler \in Nat /\ last_id \in Nat
    /\ handlers \in Seq(Nat) /\ Range(handlers) \subseteq 1..last_handler
    /\ IsInjective(handlers)
    /\ event \in [Flushers -> 0..last_id]
    /\ published \in Seq(Nat) /\ Range(published) \subseteq 1..last_id
    /\ misread \subseteq 1..last_id /\ misread \cap Range(published) = {}

\* A list without repetition stays one when something new is appended.
LEMMA NoRepetitionAppend ==
    ASSUME NEW S, NEW s \in Seq(S), NEW e \in S, IsInjective(s), e \notin Range(s)
    PROVE  IsInjective(Append(s, e))
  <1>1. /\ DOMAIN Append(s, e) = 1..(Len(s) + 1)
        /\ DOMAIN s = 1..Len(s) /\ Len(s) \in Nat
        /\ \A i \in 1..Len(s) : Append(s, e)[i] = s[i] /\ s[i] # e
        /\ Append(s, e)[Len(s) + 1] = e
    BY DEF Range
  <1> QED BY <1>1 DEF IsInjective

\* subscribe() adds a handler that was not in the list.
LEMMA SubscribeStoreInv ==
    ASSUME StoreInv, Bus!Subscribe
    PROVE  StoreInv'
  <1>1. /\ handlers' = Append(handlers, last_handler + 1) /\ last_handler' = last_handler + 1
        /\ UNCHANGED <<published, event, last_id, misread>>
    BY Zenon DEF Bus!Subscribe
  <1>2. last_handler \in Nat /\ handlers \in Seq(Nat) /\ IsInjective(handlers)
    BY Zenon DEF StoreInv
  <1>3. /\ last_handler + 1 \in Nat /\ last_handler + 1 \notin Range(handlers)
        /\ Range(handlers) \cup {last_handler + 1} \subseteq 1..(last_handler + 1)
    BY <1>2 DEF StoreInv
  <1>4. /\ handlers' \in Seq(Nat) /\ Range(handlers') = Range(handlers) \cup {last_handler + 1}
        /\ IsInjective(handlers')
    BY Zenon, <1>1, <1>2, <1>3, RangeAppend, NoRepetitionAppend
  <1>5. handlers' \in Seq(Nat) /\ Range(handlers') \subseteq 1..last_handler'
    BY Zenon, <1>1, <1>3, <1>4
  <1>6. last_handler' \in Nat
    BY Zenon, <1>1, <1>3
  <1> QED BY Zenon, <1>1, <1>4, <1>5, <1>6 DEF StoreInv

\* publish() stores an event of a new number.
LEMMA PublishStoreStoreInv ==
    ASSUME StoreInv, NEW f \in Flushers, Bus!PublishStore(f)
    PROVE  StoreInv'
  <1>1. /\ last_id' = last_id + 1 /\ event' = [event EXCEPT ![f] = last_id + 1]
        /\ published' = Append(published, last_id + 1)
        /\ UNCHANGED <<handlers, last_handler, misread>>
    BY Zenon DEF Bus!PublishStore
  <1>2. /\ last_id \in Nat /\ published \in Seq(Nat) /\ event \in [Flushers -> 0..last_id]
        /\ Range(published) \subseteq 1..last_id /\ misread \subseteq 1..last_id
    BY Zenon DEF StoreInv
  <1>3. /\ last_id + 1 \in Nat /\ last_id + 1 \notin misread
        /\ Range(published) \cup {last_id + 1} \subseteq 1..(last_id + 1)
        /\ misread \subseteq 1..(last_id + 1)
        /\ event' \in [Flushers -> 0..(last_id + 1)]
    BY <1>1, <1>2
  <1>4. published' \in Seq(Nat) /\ Range(published') = Range(published) \cup {last_id + 1}
    BY Zenon, <1>1, <1>2, <1>3, RangeAppend
  <1> QED BY Zenon, <1>1, <1>3, <1>4 DEF StoreInv

\* Every step keeps the numbers of handlers and events apart, and a handler that reads
\* something else than its event does so after clear() has dropped the event.
LEMMA NextStoreInv == StoreInv /\ [FlowNext]_flow_vars => StoreInv'
  <1> SUFFICES ASSUME StoreInv, [FlowNext]_flow_vars
               PROVE  StoreInv'
    BY Zenon
  <1>1. CASE UNCHANGED bus_vars
    BY Zenon, <1>1 DEF StoreInv, bus_vars
  <1>2. CASE Bus!Clear
    <2>1. /\ published' = <<>> /\ handlers' = <<>>
          /\ UNCHANGED <<event, last_id, last_handler, misread>>
      BY Zenon, <1>2 DEF Bus!Clear
    <2>2. /\ published' \in Seq(Nat) /\ Range(published') = {}
          /\ handlers' \in Seq(Nat) /\ Range(handlers') = {} /\ IsInjective(handlers')
      BY <2>1 DEF Range, IsInjective
    <2> QED BY Zenon, <2>1, <2>2 DEF StoreInv
  <1>3. ASSUME NEW f \in Flushers, Bus!RunHandler(f) \/ Bus!HandlerThrows(f)
        PROVE  StoreInv'
    <2>1. /\ event[f] # 0
          /\ event' = event \/ event' = [event EXCEPT ![f] = 0]
          /\ \/ misread' = misread
             \/ event[f] \notin Range(published) /\ misread' = misread \cup {event[f]}
          /\ UNCHANGED <<published, handlers, last_id, last_handler>>
      BY Zenon, <1>3 DEF Bus!RunHandler, Bus!HandlerThrows, Bus!Read, Bus!Range, Range
    <2>2. event \in [Flushers -> 0..last_id] /\ last_id \in Nat
      BY Zenon DEF StoreInv
    <2>3. event[f] \in 1..last_id /\ event' \in [Flushers -> 0..last_id]
      BY <2>1, <2>2
    <2> QED BY Zenon, <2>1, <2>3 DEF StoreInv
  <1>4. ASSUME NEW f \in Flushers, Bus!PublishReturns(f)
        PROVE  StoreInv'
    <2>1. /\ event' = [event EXCEPT ![f] = 0]
          /\ UNCHANGED <<published, handlers, last_id, last_handler, misread>>
      BY Zenon, <1>4 DEF Bus!PublishReturns
    <2>2. event \in [Flushers -> 0..last_id] /\ last_id \in Nat
      BY Zenon DEF StoreInv
    <2>3. event' \in [Flushers -> 0..last_id]
      BY <2>1, <2>2
    <2> QED BY Zenon, <2>1, <2>3 DEF StoreInv
  <1> QED
    BY Zenon, <1>1, <1>2, <1>3, <1>4, SubscribeStoreInv, PublishStoreStoreInv
    DEF FlowNext, flow_vars, Setup, Flush, OutboxOnly, CallPublisher, Handle,
        HandledAndReturned, HandlerThrows

\* The handlers of the bus are numbered in the order of the subscriptions.
Handlers == Nat

\* The handlers that were given bus event i.
GivenTo(i) == {ran[k][1] : k \in Bus!RunsOf(i)}

OnceEach(i) == \A j, k \in Bus!RunsOf(i) : j # k => ran[j][1] # ran[k][1]

BusTypes ==
    /\ handlers \in Seq(Handlers)
    /\ local \in [Flushers -> Seq(Handlers)]
    /\ source \in Seq(Events)
    /\ last_id = Len(source)
    /\ event \in [Flushers -> 0..Len(source)]
    /\ due \in [1..MaxStores -> SUBSET Handlers] /\ Len(source) <= MaxStores
    /\ ran \in Seq(Handlers \X Nat)

\* A publish in progress is for the entry its flush is at; the handlers it has to run
\* and those that ran are the ones subscribed when it began, none of them both.
InPublish(f) ==
    event[f] # 0 =>
        /\ AtEntry(f)
        /\ TypeOf(Current(f)) \in publishers
        /\ source[event[f]] = Current(f)
        /\ GivenTo(event[f]) \cup Range(local[f]) = due[event[f]]
        /\ GivenTo(event[f]) \cap Range(local[f]) = {}

\* A bus event is being published, was delivered to all its handlers, or was lost to
\* one of them.
Settled(i) ==
    \/ \E f \in Flushers : event[f] = i
    \/ source[i] \in Delivered /\ GivenTo(i) = due[i]
    \/ source[i] \in lost /\ Bus!RunsOf(i) # {}

BusInv ==
    /\ BusTypes
    /\ IsInjective(handlers)
    /\ \A f \in Flushers : IsInjective(local[f]) /\ InPublish(f)
    /\ \A f, g \in Flushers : f # g /\ event[f] # 0 => event[f] # event[g]
    /\ \A i \in DOMAIN source : Settled(i) /\ OnceEach(i)
    /\ IsInjective(source)
    /\ \A k \in DOMAIN ran : ran[k][2] \in DOMAIN source

\* What entering one more handler changes.
LEMMA RanAppend ==
    ASSUME BusTypes, NEW h \in Handlers, NEW e \in Nat, ran' = Append(ran, <<h, e>>)
    PROVE  /\ ran' \in Seq(Handlers \X Nat)
           /\ GivenTo(e)' = GivenTo(e) \cup {h}
           /\ (Bus!RunsOf(e))' # {}
           /\ \A i \in Nat : i # e => /\ GivenTo(i)' = GivenTo(i)
                                      /\ (Bus!RunsOf(i))' = Bus!RunsOf(i)
           /\ \A i \in Nat : i # e /\ OnceEach(i) => OnceEach(i)'
           /\ OnceEach(e) /\ h \notin GivenTo(e) => OnceEach(e)'
           /\ \A k \in DOMAIN ran' : ran'[k][2] = e \/ \E j \in DOMAIN ran : ran'[k][2] = ran[j][2]
  <1> DEFINE n == Len(ran)
  <1>1. /\ ran \in Seq(Handlers \X Nat) /\ <<h, e>> \in Handlers \X Nat
    BY Zenon DEF BusTypes
  <1>2. /\ ran' \in Seq(Handlers \X Nat)
        /\ n \in Nat /\ DOMAIN ran = 1..n /\ DOMAIN ran' = 1..(n + 1)
        /\ \A k \in 1..n : ran'[k] = ran[k] /\ k \in 1..(n + 1) /\ k # n + 1
        /\ ran'[n + 1] = <<h, e>> /\ n + 1 \in 1..(n + 1)
        /\ \A k \in 1..(n + 1) : k \in 1..n \/ k = n + 1
    BY <1>1
  <1> HIDE DEF n
  <1>3. (Bus!RunsOf(e))' = Bus!RunsOf(e) \cup {n + 1} /\ Bus!RunsOf(e) \subseteq 1..n
    BY <1>2 DEF Bus!RunsOf
  <1>4. \A i \in Nat : i # e => (Bus!RunsOf(i))' = Bus!RunsOf(i) /\ Bus!RunsOf(i) \subseteq 1..n
    BY <1>2 DEF Bus!RunsOf
  <1>5. GivenTo(e)' = GivenTo(e) \cup {h}
    BY <1>2, <1>3 DEF GivenTo
  <1>6. \A i \in Nat : i # e => GivenTo(i)' = GivenTo(i)
    BY <1>2, <1>4 DEF GivenTo
  <1>7. \A i \in Nat : i # e /\ OnceEach(i) => OnceEach(i)'
    BY <1>2, <1>4 DEF OnceEach
  <1>8. OnceEach(e) /\ h \notin GivenTo(e) => OnceEach(e)'
    BY <1>2, <1>3 DEF OnceEach, GivenTo
  <1> QED BY <1>2, <1>3, <1>4, <1>5, <1>6, <1>7, <1>8

\* The handlers of a list without repetition: the first one and the others.
LEMMA NoRepetitionTail ==
    ASSUME NEW S, NEW s \in Seq(S), s # <<>>, IsInjective(s)
    PROVE  IsInjective(Tail(s)) /\ Head(s) \notin Range(Tail(s))
  <1>1. /\ Len(s) \in Nat /\ Len(s) > 0 /\ Head(s) = s[1]
        /\ DOMAIN s = 1..Len(s)
        /\ DOMAIN Tail(s) = 1..(Len(s) - 1)
        /\ \A i \in 1..(Len(s) - 1) : Tail(s)[i] = s[i + 1] /\ i + 1 \in 1..Len(s) /\ 1 # i + 1
    OBVIOUS
  <1>2. IsInjective(Tail(s))
    BY <1>1 DEF IsInjective
  <1>3. \A i \in 1..(Len(s) - 1) : Head(s) # Tail(s)[i]
    BY <1>1 DEF IsInjective
  <1> QED BY Zenon, <1>1, <1>2, <1>3 DEF Range

\* A step that leaves the bus alone, and every entry that is being published in its
\* flush's hands, keeps the invariant.
LEMMA BusUntouched ==
    ASSUME BusInv, UNCHANGED <<bus_vars, source>>,
           \A f \in Flushers : event[f] # 0 => f \in flushing' /\ pending'[f] = pending[f],
           publishers \subseteq publishers', Delivered \subseteq Delivered', lost \subseteq lost'
    PROVE  BusInv'
  <1>1. UNCHANGED <<handlers, event, local, last_id, due, ran, source>>
    BY Zenon DEF bus_vars
  <1>2. /\ \A i : (Bus!RunsOf(i))' = Bus!RunsOf(i)
        /\ \A i : GivenTo(i)' = GivenTo(i) /\ OnceEach(i)' = OnceEach(i)
    BY Zenon, <1>1 DEF Bus!RunsOf, GivenTo, OnceEach
  <1>3. BusTypes'
    BY Zenon, <1>1 DEF BusInv, BusTypes
  <1>4. ASSUME NEW f \in Flushers
        PROVE  InPublish(f)'
    <2>1. CASE event[f] = 0
      BY Zenon, <1>1, <2>1 DEF InPublish
    <2>2. CASE event[f] # 0
      <3>1. /\ AtEntry(f) /\ TypeOf(Current(f)) \in publishers
            /\ source[event[f]] = Current(f)
            /\ GivenTo(event[f]) \cup Range(local[f]) = due[event[f]]
            /\ GivenTo(event[f]) \cap Range(local[f]) = {}
        BY Zenon, <2>2 DEF BusInv, InPublish
      <3>2. AtEntry(f)' /\ Current(f)' = Current(f)
        BY Zenon, <2>2, <3>1 DEF AtEntry, Current
      <3> QED BY Zenon, <1>1, <1>2, <3>1, <3>2 DEF InPublish, TypeOf
    <2> QED BY Zenon, <2>1, <2>2
  <1>5. ASSUME NEW i \in DOMAIN source
        PROVE  Settled(i)' /\ OnceEach(i)'
    <2>1. Settled(i) /\ OnceEach(i)
      BY Zenon DEF BusInv
    <2> QED BY Zenon, <1>1, <1>2, <2>1 DEF Settled
  <1> QED BY Zenon, <1>1, <1>3, <1>4, <1>5 DEF BusInv

\* The outbox's own steps, of a flush that is not inside publish or of a caller.
LEMMA OutboxStepBusInv ==
    ASSUME BusInv, OutboxInv, UNCHANGED <<bus_vars, source>>,
           \/ \E ty \in Types : RegisterPublisher(ty) \/ Store(ty)
           \/ \E f \in Flushers : FlushBegin(f) \/ SkipUnregistered(f) \/ FlushEnd(f)
           \/ UNCHANGED outbox_vars
    PROVE  BusInv'
  <1>1. \A f \in Flushers : event[f] # 0 => AtEntry(f) /\ TypeOf(Current(f)) \in publishers
    BY Zenon DEF BusInv, InPublish
  <1>2. delivered' = delivered /\ lost' = lost /\ publishers \subseteq publishers'
    BY Zenon DEF RegisterPublisher, Store, FlushBegin, SkipUnregistered, FlushEnd, outbox_vars
  <1>3. Delivered' = Delivered
    BY Zenon, <1>2 DEF Delivered
  <1>4. ASSUME NEW ty \in Types, RegisterPublisher(ty) \/ Store(ty)
        PROVE  flushing' = flushing /\ pending' = pending
    BY Zenon, <1>4 DEF RegisterPublisher, Store
  <1>5. ASSUME NEW f \in Flushers, FlushBegin(f) \/ SkipUnregistered(f) \/ FlushEnd(f)
        PROVE  \A g \in Flushers : event[g] # 0 => g \in flushing' /\ pending'[g] = pending[g]
    <2>1. event[f] = 0
      BY Zenon, <1>1, <1>5 DEF FlushBegin, SkipUnregistered, FlushEnd, AtEntry
    <2>2. pending \in [Flushers -> Seq(Events)]
      BY Zenon DEF OutboxInv, OutboxTypeOK
    <2>3. ASSUME NEW g \in Flushers, event[g] # 0
          PROVE  g \in flushing' /\ pending'[g] = pending[g]
      <3>1. g # f /\ g \in flushing
        BY Zenon, <1>1, <2>1, <2>3 DEF AtEntry
      <3> QED BY Zenon, <1>5, <2>2, <3>1 DEF FlushBegin, SkipUnregistered, FlushEnd, Advance
    <2> QED BY Zenon, <2>3
  <1>6. \A g \in Flushers : event[g] # 0 => g \in flushing' /\ pending'[g] = pending[g]
    BY Zenon, <1>1, <1>4, <1>5 DEF outbox_vars, AtEntry
  <1> QED BY Zenon, <1>2, <1>3, <1>6, BusUntouched

\* subscribe() and clear() change the list of later publishes only.
LEMMA ListBusInv ==
    ASSUME BusInv, StoreInv', Bus!Subscribe \/ Bus!Clear,
           UNCHANGED <<outbox_vars, source>>
    PROVE  BusInv'
  <1>1. /\ UNCHANGED <<event, local, last_id, due, ran, source>>
        /\ UNCHANGED <<outbox, publishers, flushing, pending, stored, delivered, skipped, lost>>
    BY Zenon DEF Bus!Subscribe, Bus!Clear, outbox_vars
  <1>2. handlers' \in Seq(Handlers) /\ IsInjective(handlers')
    BY Zenon DEF StoreInv, Handlers
  <1>3. /\ \A i : (Bus!RunsOf(i))' = Bus!RunsOf(i)
        /\ \A i : GivenTo(i)' = GivenTo(i) /\ OnceEach(i)' = OnceEach(i)
    BY Zenon, <1>1 DEF Bus!RunsOf, GivenTo, OnceEach
  <1>4. BusTypes'
    BY Zenon, <1>1, <1>2 DEF BusInv, BusTypes
  <1>5. \A f \in Flushers : InPublish(f)'
    BY Zenon, <1>1, <1>3 DEF BusInv, InPublish, AtEntry, Current, TypeOf
  <1>6. Delivered' = Delivered
    BY Zenon, <1>1 DEF Delivered
  <1>7. ASSUME NEW i \in DOMAIN source
        PROVE  Settled(i)' /\ OnceEach(i)'
    <2>1. Settled(i) /\ OnceEach(i)
      BY Zenon DEF BusInv
    <2> QED BY Zenon, <1>1, <1>3, <1>6, <2>1 DEF Settled
  <1> QED BY Zenon, <1>1, <1>2, <1>4, <1>5, <1>7 DEF BusInv

\* The entry a flush is at is in its hands, so neither delivered nor lost.
LEMMA CurrentIsHeld ==
    ASSUME OutboxInv, NEW f \in Flushers, AtEntry(f)
    PROVE  /\ Current(f) \in Events /\ Current(f) \in Range(pending[f])
           /\ Current(f) \notin Delivered /\ Current(f) \notin lost
           /\ \A g \in Flushers : g # f /\ AtEntry(g) => Current(g) # Current(f)
  <1>1. \A g \in Flushers : AtEntry(g) =>
            Current(g) \in Events /\ Current(g) \in Range(pending[g])
    BY RangeHeadTail DEF OutboxInv, OutboxTypeOK, AtEntry, Current
  <1>2. Range(pending[f]) \subseteq Held
    BY Zenon DEF Held
  <1> QED BY Zenon, <1>1, <1>2 DEF OutboxInv, EachEventInOnePlace

\* publish() stores a new bus event for the entry and copies the list of handlers.
LEMMA CallPublisherBusInv ==
    ASSUME BusInv, OutboxInv, NEW f \in Flushers, CallPublisher(f)
    PROVE  BusInv'
  <1> DEFINE n == Len(source) + 1
  <1>1. /\ AtEntry(f) /\ TypeOf(Current(f)) \in publishers
        /\ event[f] = 0 /\ last_id < MaxStores
        /\ last_id' = last_id + 1
        /\ event' = [event EXCEPT ![f] = last_id + 1]
        /\ local' = [local EXCEPT ![f] = handlers]
        /\ due' = [due EXCEPT ![last_id + 1] = Range(handlers)]
        /\ UNCHANGED <<handlers, ran>>
        /\ source' = Append(source, Current(f))
        /\ UNCHANGED <<outbox, publishers, flushing, pending, stored, delivered, skipped, lost>>
    BY Zenon DEF CallPublisher, Bus!PublishStore, outbox_vars, Bus!Range, Range
  <1>2. /\ source \in Seq(Events) /\ last_id = Len(source) /\ Len(source) \in Nat
        /\ event \in [Flushers -> 0..Len(source)] /\ local \in [Flushers -> Seq(Handlers)]
        /\ due \in [1..MaxStores -> SUBSET Handlers] /\ handlers \in Seq(Handlers)
        /\ DOMAIN source = 1..Len(source)
        /\ ran \in Seq(Handlers \X Nat) /\ n \in 1..MaxStores
    <2>1. BusTypes
      BY Zenon DEF BusInv
    <2>2. /\ source \in Seq(Events) /\ last_id = Len(source) /\ Len(source) \in Nat
          /\ event \in [Flushers -> 0..Len(source)] /\ local \in [Flushers -> Seq(Handlers)]
          /\ due \in [1..MaxStores -> SUBSET Handlers] /\ handlers \in Seq(Handlers)
          /\ DOMAIN source = 1..Len(source)
          /\ ran \in Seq(Handlers \X Nat)
      BY <2>1 DEF BusTypes
    <2>3. last_id < MaxStores
      BY Zenon, <1>1
    <2>4. n \in 1..MaxStores
      BY <2>2, <2>3, StoresAssumption
    <2> QED BY Zenon, <2>2, <2>4
  <1>3. /\ Current(f) \in Events /\ Current(f) \notin Delivered /\ Current(f) \notin lost
        /\ \A g \in Flushers : g # f /\ AtEntry(g) => Current(g) # Current(f)
    BY Zenon, <1>1, CurrentIsHeld
  <1>4. /\ source' \in Seq(Events) /\ Len(source') = n
        /\ DOMAIN source' = 1..n
        /\ \A i \in 1..Len(source) : source'[i] = source[i] /\ i \in 1..n /\ i # n
        /\ source'[n] = Current(f)
        /\ \A i \in 1..n : i \in 1..Len(source) \/ i = n
    <2>1. source \in Seq(Events) /\ Current(f) \in Events /\ source' = Append(source, Current(f))
      BY Zenon, <1>1, <1>2, <1>3
    <2>2. /\ source' \in Seq(Events) /\ Len(source') = n /\ DOMAIN source' = 1..n
          /\ \A i \in 1..Len(source) : source'[i] = source[i]
          /\ source'[n] = Current(f)
      BY <2>1
    <2> QED BY <1>2, <2>2
  <1>5. /\ event' \in [Flushers -> 0..n] /\ event'[f] = n /\ n # 0
        /\ local' \in [Flushers -> Seq(Handlers)] /\ local'[f] = handlers
        /\ due' \in [1..MaxStores -> SUBSET Handlers] /\ due'[n] = Range(handlers)
        /\ \A i \in 1..Len(source) : due'[i] = due[i]
        /\ \A g \in Flushers : g # f => event'[g] = event[g] /\ local'[g] = local[g]
        /\ last_id' = n
    <2>1. Range(handlers) \subseteq Handlers
      BY <1>2 DEF Range
    <2> QED BY <1>1, <1>2, <2>1
  <1> HIDE DEF n
  <1>6. /\ \A i : (Bus!RunsOf(i))' = Bus!RunsOf(i)
        /\ \A i : GivenTo(i)' = GivenTo(i) /\ OnceEach(i)' = OnceEach(i)
    BY Zenon, <1>1 DEF Bus!RunsOf, GivenTo, OnceEach
  <1>7. Bus!RunsOf(n) = {}
    BY Zenon, <1>2, <1>4 DEF BusInv, Bus!RunsOf
  <1>8. GivenTo(n) = {} /\ OnceEach(n)
    BY Zenon, <1>7 DEF GivenTo, OnceEach
  <1>9. BusTypes'
    BY <1>1, <1>2, <1>4, <1>5 DEF BusTypes
  <1>10. \A g \in Flushers : IsInjective(local'[g])
    BY Zenon, <1>5 DEF BusInv
  <1>11. ASSUME NEW g \in Flushers
         PROVE  InPublish(g)'
    <2>1. AtEntry(g)' = AtEntry(g) /\ Current(g)' = Current(g)
      BY Zenon, <1>1 DEF AtEntry, Current
    <2>2. CASE g = f
      BY <1>1, <1>4, <1>5, <1>6, <1>8, <2>1, <2>2 DEF InPublish, TypeOf
    <2>3. CASE g # f
      <3>1. InPublish(g) /\ event'[g] = event[g] /\ local'[g] = local[g]
        BY Zenon, <1>5, <2>3 DEF BusInv
      <3>2. event[g] # 0 => event[g] \in 1..Len(source)
        BY <1>2
      <3>3. event[g] # 0 => source'[event[g]] = source[event[g]] /\ due'[event[g]] = due[event[g]]
        BY Zenon, <1>4, <1>5, <3>2
      <3> QED BY Zenon, <1>1, <1>6, <2>1, <3>1, <3>3 DEF InPublish, TypeOf
    <2> QED BY Zenon, <2>2, <2>3
  <1>12. ASSUME NEW g \in Flushers, NEW h \in Flushers, g # h, event'[g] # 0
         PROVE  event'[g] # event'[h]
    <2>1. \A k \in Flushers : event[k] # n
      BY <1>2, <1>4
    <2> QED BY Zenon, <1>5, <1>12, <2>1 DEF BusInv
  <1>13. Delivered' = Delivered
    BY Zenon, <1>1 DEF Delivered
  <1>14. ASSUME NEW i \in 1..n
         PROVE  Settled(i)' /\ OnceEach(i)'
    <2>1. CASE i = n
      BY Zenon, <1>5, <1>6, <1>8, <2>1 DEF Settled
    <2>2. CASE i \in 1..Len(source)
      <3>1. Settled(i) /\ OnceEach(i) /\ source'[i] = source[i] /\ due'[i] = due[i]
        BY Zenon, <1>2, <1>4, <1>5, <2>2 DEF BusInv
      <3>2. ASSUME NEW g \in Flushers, event[g] = i
            PROVE  event'[g] = i
        BY <1>1, <1>2, <1>5, <2>2, <3>2
      <3> QED BY Zenon, <1>1, <1>6, <1>13, <3>1, <3>2 DEF Settled
    <2> QED BY Zenon, <1>4, <2>1, <2>2
  <1>15. Current(f) \notin Range(source)
    <2>1. ASSUME NEW i \in 1..Len(source), source[i] = Current(f)
          PROVE  FALSE
      <3>1. PICK g \in Flushers : event[g] = i
        BY Zenon, <1>2, <1>3, <2>1 DEF BusInv, Settled
      <3>2. event[g] # 0 /\ g # f
        BY <1>1, <3>1
      <3>3. AtEntry(g) /\ source[i] = Current(g)
        BY Zenon, <3>1, <3>2 DEF BusInv, InPublish
      <3> QED BY Zenon, <1>3, <2>1, <3>2, <3>3
    <2> QED BY Zenon, <1>2, <2>1 DEF Range
  <1>16. IsInjective(source')
    BY Zenon, <1>1, <1>2, <1>3, <1>15, NoRepetitionAppend DEF BusInv
  <1>17. \A k \in DOMAIN ran' : ran'[k][2] \in DOMAIN source'
    BY Zenon, <1>1, <1>2, <1>4 DEF BusInv
  <1>18. IsInjective(handlers')
    BY Zenon, <1>1 DEF BusInv
  <1> QED BY Zenon, <1>4, <1>9, <1>10, <1>11, <1>12, <1>14, <1>16, <1>17, <1>18 DEF BusInv

\* A publish in progress enters its next handler: the handler moves from the list of
\* those to run to those that were given the event, and no other event is concerned.
LEMMA EnteredHandler ==
    ASSUME BusInv, OutboxInv, NEW f \in Flushers, NEW n, n = event[f], n # 0,
           local[f] # <<>>, ran' = Append(ran, <<Head(local[f]), n>>)
    PROVE  /\ n \in 1..Len(source) /\ DOMAIN source = 1..Len(source)
           /\ Head(local[f]) \in Handlers /\ Tail(local[f]) \in Seq(Handlers)
           /\ IsInjective(Tail(local[f]))
           /\ GivenTo(n)' = GivenTo(n) \cup {Head(local[f])}
           /\ Range(local[f]) = {Head(local[f])} \cup Range(Tail(local[f]))
           /\ Head(local[f]) \notin Range(Tail(local[f]))
           /\ (Bus!RunsOf(n))' # {}
           /\ ran' \in Seq(Handlers \X Nat)
           /\ \A k \in DOMAIN ran' : ran'[k][2] \in DOMAIN source
           /\ \A i \in DOMAIN source : OnceEach(i)'
           /\ \A i \in Nat : i # n => /\ GivenTo(i)' = GivenTo(i)
                                             /\ (Bus!RunsOf(i))' = Bus!RunsOf(i)
  <1> DEFINE h == Head(local[f])
  <1>1. /\ n \in 1..Len(source) /\ DOMAIN source = 1..Len(source)
        /\ local[f] \in Seq(Handlers) /\ IsInjective(local[f]) /\ n \in Nat
        /\ Len(source) \in Nat
    BY DEF BusInv, BusTypes
  <1>2. /\ h \in Handlers /\ Tail(local[f]) \in Seq(Handlers)
        /\ Range(local[f]) = {h} \cup Range(Tail(local[f]))
    BY Zenon, <1>1, RangeHeadTail
  <1>3. IsInjective(Tail(local[f])) /\ h \notin Range(Tail(local[f]))
    BY Zenon, <1>1, NoRepetitionTail
  <1>4. h \notin GivenTo(n)
    BY Zenon, <1>2 DEF BusInv, InPublish
  <1> HIDE DEF h
  <1>5. /\ ran' \in Seq(Handlers \X Nat)
        /\ GivenTo(n)' = GivenTo(n) \cup {h}
        /\ (Bus!RunsOf(n))' # {}
        /\ \A i \in Nat : i # n => /\ GivenTo(i)' = GivenTo(i)
                                          /\ (Bus!RunsOf(i))' = Bus!RunsOf(i)
        /\ \A i \in Nat : i # n /\ OnceEach(i) => OnceEach(i)'
        /\ OnceEach(n) => OnceEach(n)'
        /\ \A k \in DOMAIN ran' : \/ ran'[k][2] = n
                                  \/ \E j \in DOMAIN ran : ran'[k][2] = ran[j][2]
    <2>1. BusTypes /\ ran' = Append(ran, <<h, n>>)
      BY Zenon DEF BusInv, h
    <2> QED BY Zenon, <1>1, <1>2, <1>4, <2>1, RanAppend
  <1>6. \A k \in DOMAIN ran' : ran'[k][2] \in DOMAIN source
    BY Zenon, <1>1, <1>5 DEF BusInv
  <1>7. ASSUME NEW i \in DOMAIN source
        PROVE  OnceEach(i)'
    <2>1. i \in Nat /\ OnceEach(i)
      BY <1>1 DEF BusInv
    <2> QED BY Zenon, <1>5, <2>1
  <1> QED BY Zenon, <1>1, <1>2, <1>3, <1>5, <1>6, <1>7 DEF h

\* A handler that returns.
LEMMA HandleBusInv ==
    ASSUME BusInv, OutboxInv, NEW f \in Flushers, Handle(f)
    PROVE  BusInv'
  <1>0. PICK n : n = event[f]
    BY Zenon
  <1>1. /\ event[f] # 0 /\ local[f] # <<>>
        /\ ran' = Append(ran, <<Head(local[f]), event[f]>>)
        /\ local' = [local EXCEPT ![f] = Tail(@)]
        /\ UNCHANGED <<handlers, event, last_id, due, source>>
        /\ UNCHANGED <<outbox, publishers, flushing, pending, stored, delivered, skipped, lost>>
    BY Zenon DEF Handle, Bus!RunHandler, outbox_vars
  <1>2. /\ n \in 1..Len(source) /\ DOMAIN source = 1..Len(source)
        /\ Tail(local[f]) \in Seq(Handlers) /\ IsInjective(Tail(local[f]))
        /\ GivenTo(n)' = GivenTo(n) \cup {Head(local[f])}
        /\ Range(local[f]) = {Head(local[f])} \cup Range(Tail(local[f]))
        /\ Head(local[f]) \notin Range(Tail(local[f]))
        /\ ran' \in Seq(Handlers \X Nat)
        /\ \A k \in DOMAIN ran' : ran'[k][2] \in DOMAIN source
        /\ \A i \in DOMAIN source : OnceEach(i)'
        /\ \A i \in Nat : i # n => GivenTo(i)' = GivenTo(i) /\ (Bus!RunsOf(i))' = Bus!RunsOf(i)
    BY Zenon, <1>0, <1>1, EnteredHandler
  <1>3. /\ local' \in [Flushers -> Seq(Handlers)] /\ local'[f] = Tail(local[f])
        /\ \A g \in Flushers : g # f => local'[g] = local[g]
        /\ event \in [Flushers -> 0..Len(source)] /\ Len(source) \in Nat
    <2>1. BusTypes
      BY Zenon DEF BusInv
    <2>2. /\ local \in [Flushers -> Seq(Handlers)] /\ source \in Seq(Events)
          /\ event \in [Flushers -> 0..Len(source)] /\ Len(source) \in Nat
      BY <2>1 DEF BusTypes
    <2>3. local' = [local EXCEPT ![f] = Tail(@)] /\ Tail(local[f]) \in Seq(Handlers)
      BY Zenon, <1>1, <1>2
    <2>4. /\ local' \in [Flushers -> Seq(Handlers)] /\ local'[f] = Tail(local[f])
          /\ \A g \in Flushers : g # f => local'[g] = local[g]
      BY Zenon, <2>2, <2>3
    <2> QED BY Zenon, <2>2, <2>4
  <1>4. BusTypes'
    BY Zenon, <1>1, <1>2, <1>3 DEF BusInv, BusTypes
  <1>5. ASSUME NEW g \in Flushers
        PROVE  IsInjective(local'[g]) /\ InPublish(g)'
    <2>1. InPublish(g) /\ IsInjective(local[g])
      BY Zenon DEF BusInv
    <2>2. AtEntry(g)' = AtEntry(g) /\ Current(g)' = Current(g)
      BY Zenon, <1>1 DEF AtEntry, Current
    <2>3. CASE g = f
      <3>1. /\ event[f] = n /\ n # 0
            /\ UNCHANGED <<event, source, publishers, due>>
        BY Zenon, <1>0, <1>1
      <3>2. /\ AtEntry(f) /\ TypeOf(Current(f)) \in publishers /\ source[n] = Current(f)
            /\ GivenTo(n) \cup Range(local[f]) = due[n]
            /\ GivenTo(n) \cap Range(local[f]) = {}
        BY Zenon, <2>1, <2>3, <3>1 DEF InPublish
      <3>3. local'[f] = Tail(local[f]) /\ IsInjective(local'[f])
        BY Zenon, <1>2, <1>3
      <3>4. /\ GivenTo(n)' \cup Range(local'[f]) = due[n]
            /\ GivenTo(n)' \cap Range(local'[f]) = {}
        BY Zenon, <1>2, <3>2, <3>3
      <3> QED BY Zenon, <2>2, <2>3, <3>1, <3>2, <3>3, <3>4 DEF InPublish, TypeOf
    <2>4. CASE g # f /\ event[g] # 0
      <3>1. event[g] # n
        BY Zenon, <1>0, <2>4 DEF BusInv
      <3>2. event[g] \in Nat
        BY <1>3
      <3>3. GivenTo(event[g])' = GivenTo(event[g])
        BY Zenon, <1>1, <1>2, <3>1, <3>2
      <3> QED BY Zenon, <1>1, <1>3, <2>1, <2>2, <2>4, <3>3 DEF InPublish, TypeOf
    <2>5. CASE g # f /\ event[g] = 0
      BY Zenon, <1>1, <1>3, <2>1, <2>5 DEF InPublish
    <2> QED BY Zenon, <2>3, <2>4, <2>5
  <1>6. Delivered' = Delivered
    BY Zenon, <1>1 DEF Delivered
  <1>7. ASSUME NEW i \in DOMAIN source
        PROVE  Settled(i)'
    <2>1. CASE i = n
      BY Zenon, <1>0, <1>1, <2>1 DEF Settled
    <2>2. CASE i # n
      <3>1. Settled(i)
        BY Zenon DEF BusInv
      <3>2. i \in Nat
        BY <1>2, <1>3
      <3> QED BY Zenon, <1>1, <1>2, <1>6, <2>2, <3>1, <3>2 DEF Settled
    <2> QED BY Zenon, <2>1, <2>2
  <1> QED BY Zenon, <1>1, <1>2, <1>4, <1>5, <1>7 DEF BusInv

\* publish() returns, and flush counts the entry as delivered.
LEMMA ReturnedBusInv ==
    ASSUME BusInv, OutboxInv, NEW f \in Flushers, HandledAndReturned(f)
    PROVE  BusInv'
  <1> DEFINE n == event[f]
  <1>1. /\ event[f] # 0 /\ local[f] = <<>> /\ AtEntry(f) /\ Advance(f)
        /\ event' = [event EXCEPT ![f] = 0]
        /\ UNCHANGED <<handlers, local, last_id, due, ran, source>>
        /\ delivered' = Append(delivered, <<f, Current(f)>>)
        /\ UNCHANGED <<outbox, publishers, flushing, stored, skipped, lost>>
    BY Zenon DEF HandledAndReturned, Bus!PublishReturns, PublisherReturns
  <1>2. /\ event \in [Flushers -> 0..Len(source)] /\ Len(source) \in Nat
        /\ event' \in [Flushers -> 0..Len(source)] /\ event'[f] = 0
        /\ \A g \in Flushers : g # f => event'[g] = event[g]
        /\ DOMAIN source = 1..Len(source)
    BY <1>1 DEF BusInv, BusTypes
  <1>3. /\ \A i : (Bus!RunsOf(i))' = Bus!RunsOf(i)
        /\ \A i : GivenTo(i)' = GivenTo(i) /\ OnceEach(i)' = OnceEach(i)
    BY <1>1 DEF Bus!RunsOf, GivenTo, OnceEach
  <1>4. BusTypes'
    BY Zenon, <1>1, <1>2 DEF BusInv, BusTypes
  <1>5. Current(f) \in Events /\ \A g \in Flushers : g # f => pending'[g] = pending[g]
    BY Zenon, <1>1, AdvanceTakesOne
  <1>6. Delivered' = Delivered \cup {Current(f)}
    BY Zenon, <1>1, <1>5, DeliveredAppend DEF OutboxInv
  <1>7. ASSUME NEW g \in Flushers
        PROVE  InPublish(g)'
    <2>1. CASE g = f
      BY Zenon, <1>2, <2>1 DEF InPublish
    <2>2. CASE g # f
      <3>1. InPublish(g) /\ event'[g] = event[g]
        BY Zenon, <1>2, <2>2 DEF BusInv
      <3>2. AtEntry(g)' = AtEntry(g) /\ Current(g)' = Current(g)
        BY Zenon, <1>1, <1>5, <2>2 DEF AtEntry, Current
      <3> QED BY Zenon, <1>1, <1>3, <3>1, <3>2 DEF InPublish, TypeOf
    <2> QED BY <2>1, <2>2
  <1>8. ASSUME NEW i \in DOMAIN source
        PROVE  Settled(i)'
    <2>1. CASE i = n
      <3>1. Range(local[f]) = {}
        BY <1>1 DEF Range
      <3>2. source[i] = Current(f) /\ GivenTo(i) = due[i]
        BY Zenon, <1>1, <2>1, <3>1 DEF BusInv, InPublish
      <3> QED BY Zenon, <1>1, <1>3, <1>6, <3>2 DEF Settled
    <2>2. CASE i # n
      <3>1. Settled(i)
        BY DEF BusInv
      <3>2. ASSUME NEW g \in Flushers, event[g] = i
            PROVE  event'[g] = i
        BY Zenon, <1>2, <2>2, <3>2
      <3> QED BY Zenon, <1>1, <1>3, <1>6, <3>1, <3>2 DEF Settled
    <2> QED BY Zenon, <2>1, <2>2
  <1>9. ASSUME NEW g \in Flushers, NEW h \in Flushers, g # h, event'[g] # 0
        PROVE  event'[g] # event'[h]
    BY Zenon, <1>2, <1>9 DEF BusInv
  <1> QED BY Zenon, <1>1, <1>3, <1>4, <1>7, <1>8, <1>9 DEF BusInv

\* A handler that throws ends its publish and its flush; the entry is lost, and the
\* handlers behind it are no longer due.
LEMMA ThrowsBusInv ==
    ASSUME BusInv, OutboxInv, NEW f \in Flushers, HandlerThrows(f)
    PROVE  BusInv'
  <1>0. PICK n : n = event[f]
    OBVIOUS
  <1>1. /\ event[f] # 0 /\ local[f] # <<>> /\ AtEntry(f)
        /\ ran' = Append(ran, <<Head(local[f]), event[f]>>)
        /\ due' = [due EXCEPT ![n] = @ \ Range(Tail(local[f]))]
        /\ local' = [local EXCEPT ![f] = <<>>]
        /\ event' = [event EXCEPT ![f] = 0]
        /\ UNCHANGED <<handlers, last_id, source>>
        /\ flushing' = flushing \ {f}
        /\ pending' = [pending EXCEPT ![f] = <<>>]
        /\ lost' = lost \cup Range(pending[f])
        /\ UNCHANGED <<outbox, publishers, stored, delivered, skipped>>
    BY Zenon, <1>0 DEF HandlerThrows, Bus!HandlerThrows, PublisherThrows, Bus!Range, Range
  <1>2. /\ n \in 1..Len(source) /\ DOMAIN source = 1..Len(source)
        /\ (Bus!RunsOf(n))' # {}
        /\ ran' \in Seq(Handlers \X Nat)
        /\ \A k \in DOMAIN ran' : ran'[k][2] \in DOMAIN source
        /\ \A i \in DOMAIN source : OnceEach(i)'
        /\ \A i \in Nat : i # n => GivenTo(i)' = GivenTo(i) /\ (Bus!RunsOf(i))' = Bus!RunsOf(i)
    BY Zenon, <1>0, <1>1, EnteredHandler
  <1>3. /\ event \in [Flushers -> 0..Len(source)] /\ Len(source) \in Nat
        /\ event' \in [Flushers -> 0..Len(source)] /\ event'[f] = 0
        /\ local' \in [Flushers -> Seq(Handlers)] /\ local'[f] = <<>>
        /\ due' \in [1..MaxStores -> SUBSET Handlers]
        /\ \A i \in 1..MaxStores : i # n => due'[i] = due[i]
        /\ \A g \in Flushers : g # f => event'[g] = event[g] /\ local'[g] = local[g]
        /\ Len(source) <= MaxStores
    <2>1. BusTypes
      BY DEF BusInv
    <2>2. /\ event \in [Flushers -> 0..Len(source)] /\ Len(source) \in Nat
          /\ event' \in [Flushers -> 0..Len(source)] /\ event'[f] = 0
          /\ \A g \in Flushers : g # f => event'[g] = event[g]
      BY <1>1, <2>1 DEF BusTypes
    <2>3. /\ local' \in [Flushers -> Seq(Handlers)] /\ local'[f] = <<>>
          /\ \A g \in Flushers : g # f => local'[g] = local[g]
      BY <1>1, <2>1 DEF BusTypes
    <2>4. /\ due' \in [1..MaxStores -> SUBSET Handlers]
          /\ \A i \in 1..MaxStores : i # n => due'[i] = due[i]
      BY Zenon, <1>1, <2>1 DEF BusTypes
    <2> QED BY Zenon, <2>1, <2>2, <2>3, <2>4 DEF BusTypes
  <1>4. \A g \in Flushers : g # f => pending'[g] = pending[g]
    BY Zenon, <1>1 DEF OutboxInv, OutboxTypeOK
  <1>5. BusTypes'
    BY Zenon, <1>1, <1>2, <1>3 DEF BusInv, BusTypes
  <1>6. ASSUME NEW g \in Flushers
        PROVE  IsInjective(local'[g]) /\ InPublish(g)'
    <2>1. CASE g = f
      BY <1>3, <2>1 DEF InPublish, IsInjective
    <2>2. CASE g # f
      <3>1. /\ InPublish(g) /\ IsInjective(local[g])
            /\ event'[g] = event[g] /\ local'[g] = local[g]
        BY Zenon, <1>3, <2>2 DEF BusInv
      <3>2. AtEntry(g)' = AtEntry(g) /\ Current(g)' = Current(g)
        BY Zenon, <1>1, <1>4, <2>2 DEF AtEntry, Current
      <3>3. CASE event[g] # 0
        <4>1. event[g] \in 1..MaxStores /\ event[g] # n /\ event[g] \in Nat
          BY SMTT(20), <1>0, <1>3, <2>2, <3>3, StoresAssumption DEF BusInv
        <4>2. GivenTo(event[g])' = GivenTo(event[g])
          BY Zenon, <1>2, <3>1, <4>1
        <4>3. due'[event[g]] = due[event[g]]
          BY Zenon, <1>3, <4>1
        <4> QED BY Zenon, <1>1, <3>1, <3>2, <3>3, <4>2, <4>3 DEF InPublish, TypeOf
      <3>4. CASE event[g] = 0
        BY Zenon, <3>1, <3>4 DEF InPublish
      <3> QED BY Zenon, <3>3, <3>4
    <2> QED BY Zenon, <2>1, <2>2
  <1>7. Delivered' = Delivered
    BY Zenon, <1>1 DEF Delivered
  <1>8. ASSUME NEW i \in DOMAIN source
        PROVE  Settled(i)'
    <2>1. CASE i = n
      <3>1. source[i] = Current(f) /\ Current(f) \in Range(pending[f])
        BY Zenon, <1>0, <1>1, <2>1, CurrentIsHeld DEF BusInv, InPublish
      <3> QED BY Zenon, <1>1, <1>2, <2>1, <3>1 DEF Settled
    <2>2. CASE i # n
      <3>1. Settled(i)
        BY Zenon DEF BusInv
      <3>2. i \in Nat /\ i \in 1..MaxStores
        BY <1>2, <1>3, StoresAssumption
      <3>3. due'[i] = due[i]
        BY Zenon, <1>3, <2>2, <3>2
      <3>4. ASSUME NEW g \in Flushers, event[g] = i
            PROVE  event'[g] = i
        BY Zenon, <1>0, <1>3, <2>2, <3>4
      <3>5. GivenTo(i)' = GivenTo(i) /\ (Bus!RunsOf(i))' = Bus!RunsOf(i)
        BY Zenon, <1>2, <2>2, <3>2
      <3> QED BY Zenon, <1>1, <1>7, <3>1, <3>3, <3>4, <3>5 DEF Settled
    <2> QED BY <2>1, <2>2
  <1>9. ASSUME NEW g \in Flushers, NEW h \in Flushers, g # h, event'[g] # 0
        PROVE  event'[g] # event'[h]
    BY Zenon, <1>3, <1>9 DEF BusInv
  <1>10. IsInjective(handlers') /\ IsInjective(source')
    BY Zenon, <1>1 DEF BusInv
  <1> QED BY Zenon, <1>1, <1>2, <1>5, <1>6, <1>8, <1>9, <1>10 DEF BusInv

\* Every step of the stack preserves the inductive invariant.
LEMMA NextBusInv == OutboxInv /\ StoreInv' /\ BusInv /\ [FlowNext]_flow_vars => BusInv'
  <1> SUFFICES ASSUME OutboxInv, StoreInv', BusInv, [FlowNext]_flow_vars
               PROVE  BusInv'
    BY Zenon
  <1>1. CASE Setup
    BY Zenon, <1>1, OutboxStepBusInv, ListBusInv DEF Setup
  <1>2. ASSUME NEW f \in Flushers, OutboxOnly(f)
        PROVE  BusInv'
    BY Zenon, <1>2, OutboxStepBusInv DEF OutboxOnly
  <1>3. CASE UNCHANGED flow_vars
    BY Zenon, <1>3, OutboxStepBusInv DEF flow_vars
  <1> QED
    BY Zenon, <1>1, <1>2, <1>3, CallPublisherBusInv, HandleBusInv, ReturnedBusInv, ThrowsBusInv
    DEF FlowNext, Flush

\* The inductive invariant of outbox and bus holds in every reachable state.
THEOREM BusInvariance == FlowSpec => [](OutboxInv /\ StoreInv /\ BusInv)
  <1>1. FlowInit => StoreInv /\ BusInv
    <2> SUFFICES ASSUME FlowInit PROVE StoreInv /\ BusInv
      OBVIOUS
    <2>1. /\ handlers = <<>> /\ source = <<>> /\ ran = <<>> /\ last_id = 0
          /\ event = [t \in Flushers |-> 0] /\ local = [t \in Flushers |-> <<>>]
          /\ due = [e \in 1..MaxStores |-> {}]
          /\ published = <<>> /\ last_handler = 0 /\ misread = {}
      BY Zenon DEF FlowInit, Bus!Init
    <2>2. BusTypes
      BY <2>1, StoresAssumption DEF BusTypes
    <2>3. BusInv
      BY <2>1, <2>2 DEF BusInv, IsInjective, InPublish
    <2>4. StoreInv
      BY <2>1 DEF StoreInv, IsInjective, Range
    <2> QED BY Zenon, <2>3, <2>4
  <1> QED
    BY <1>1, NextStoreInv, NextBusInv, StackImplementsOutbox, OutboxInvariance, PTL DEF FlowSpec

\* With any number of flushing threads and handlers, whatever is subscribed, cleared or
\* published meanwhile, a delivered event was given once to each handler subscribed
\* when it reached the bus and to no other, a lost one to the handler that threw, and
\* what a handler reads of an event the bus still stores is that event.
THEOREM DeliveredAlwaysMeansHandled == FlowSpec => []DeliveredMeansHandled
  <1>1. OutboxInv /\ StoreInv /\ BusInv => DeliveredMeansHandled
    <2> SUFFICES ASSUME OutboxInv, StoreInv, BusInv, NEW i \in DOMAIN source
                 PROVE  /\ source[i] \in Delivered => GivenTo(i) = due[i] /\ OnceEach(i)
                        /\ source[i] \in lost => Bus!RunsOf(i) # {}
                        /\ i \in Range(published) => i \notin misread
      BY Zenon DEF DeliveredMeansHandled, GivenTo, OnceEach
    <2>1. Settled(i) /\ OnceEach(i)
      BY Zenon DEF BusInv
    <2>2. Delivered \cap lost = {}
      BY Zenon DEF OutboxInv, EachEventInOnePlace
    <2>3. ASSUME NEW f \in Flushers, event[f] = i
          PROVE  source[i] \notin Delivered /\ source[i] \notin lost
      <3>1. event[f] # 0
        BY <2>3 DEF BusInv, BusTypes
      <3>2. AtEntry(f) /\ source[i] = Current(f)
        BY Zenon, <2>3, <3>1 DEF BusInv, InPublish
      <3> QED BY Zenon, <3>2, CurrentIsHeld
    <2>4. i \in Range(published) => i \notin misread
      BY Zenon DEF StoreInv
    <2> QED BY Zenon, <2>1, <2>2, <2>3, <2>4 DEF Settled
  <1> QED BY <1>1, BusInvariance, PTL

\* No two events of the bus were made from the same outbox event: overlapping flushes
\* publish each event at most once.
PublishedOnce == IsInjective(source)

\* With any number of flushing threads each event reaches the bus at most once.
THEOREM AlwaysPublishedOnce == FlowSpec => []PublishedOnce
  <1>1. BusInv => PublishedOnce
    BY Zenon DEF BusInv, PublishedOnce
  <1> QED BY <1>1, BusInvariance, PTL

\* With the bus behind it the outbox still keeps each event in one place and each
\* thread's deliveries in order.
THEOREM StackKeepsEvents == FlowSpec => []EachEventInOnePlace /\ []InOrderPerFlusher
  BY StackImplementsOutbox, EachEventAlwaysInOnePlace, AlwaysInOrderPerFlusher, PTL
=============================================================================
