--------------------------- MODULE PrometheusMetrics ---------------------------
(***************************************************************************)
(* observability::PrometheusMetrics.  Counters and gauges are atomics in two *)
(* maps guarded by a shared_mutex: a thread looks a cell up (find), enters   *)
(* it if it was missing (insert), and writes it without any lock.            *)
(* Histograms are updated under a mutex of their own.  render() and reset()  *)
(* walk over the cells under the map's lock, then handle the histograms.     *)
(***************************************************************************)
EXTENDS Integers, FiniteSets

CONSTANTS Threads,     \* threads that record metrics
          Bounds       \* upper bounds of a histogram's buckets

VARIABLES
    cells,        \* counters_ and gauges_: <<"counter" or "gauge", name>> -> value
    histograms_,  \* histograms_
    op,           \* per thread: the increment() or gauge() it is in
    walk,         \* the render() or reset() in progress
    \* Kept to state properties.
    was_reset     \* reset() has been called

metrics_vars == <<cells, histograms_, op, walk, was_reset>>

\* A map after map[key] = value; and after map[key] alone, value being what is
\* entered for a missing key.
Assign(map, key, value) == [k \in DOMAIN map \cup {key} |-> IF k = key THEN value ELSE map[k]]
Emplace(map, key, value) == IF key \in DOMAIN map THEN map ELSE Assign(map, key, value)

NoOp == [at |-> "none"]
NoWalk == [fn |-> "none"]

MetricsInit ==
    /\ cells = <<>>
    /\ histograms_ = <<>>
    /\ op = [t \in Threads |-> NoOp]
    /\ walk = NoWalk
    /\ was_reset = FALSE

\* The walk still holds the map's lock, shared for render() and unique for reset().
Locked == walk.fn # "none" /\ walk.left # {}

\* ensure_counter() and ensure_gauge(), first part: find under the shared lock.
Find(t, kind, name, value) ==
    /\ op[t] = NoOp
    /\ ~(Locked /\ walk.fn = "reset")
    /\ op' = [op EXCEPT ![t] =
                 [at |-> IF <<kind, name>> \in DOMAIN cells THEN "write" ELSE "insert",
                  cell |-> <<kind, name>>, value |-> value]]
    /\ UNCHANGED <<cells, histograms_, walk, was_reset>>

InsertOverwriting(t) ==
    /\ op[t].at = "insert"
    /\ ~Locked
    /\ cells' = Assign(cells, op[t].cell, 0)
    /\ op' = [op EXCEPT ![t].at = "write"]
    /\ UNCHANGED <<histograms_, walk, was_reset>>

\* Second part: operator[] under the unique lock keeps a cell that has been
\* entered since.
Insert(t) ==
    /\ op[t].at = "insert"
    /\ ~Locked
    /\ cells' = Emplace(cells, op[t].cell, 0)
    /\ op' = [op EXCEPT ![t].at = "write"]
    /\ UNCHANGED <<histograms_, walk, was_reset>>

\* fetch_add or store through the reference, outside the lock
Write(t) ==
    /\ op[t].at = "write"
    /\ cells' = [cells EXCEPT ![op[t].cell] =
                    IF op[t].cell[1] = "counter" THEN @ + 1 ELSE op[t].value]
    /\ op' = [op EXCEPT ![t] = NoOp]
    /\ UNCHANGED <<histograms_, walk, was_reset>>

NewHistogram == [sum |-> 0, count |-> 0, buckets |-> [b \in Bounds |-> 0]]

Observed(h, value) ==
    [sum |-> h.sum + value,
     count |-> h.count + 1,
     buckets |-> [b \in Bounds |-> h.buckets[b] + IF value <= b THEN 1 ELSE 0]]

\* histogram(), under hist_mutex_
Histogram(name, value) ==
    /\ histograms_' =
          LET all == Emplace(histograms_, name, NewHistogram)
          IN  [all EXCEPT ![name] = Observed(@, value)]
    /\ UNCHANGED <<cells, op, walk, was_reset>>

\* render() or reset() takes the map's lock; values is the page.
BeginWalk(fn) ==
    /\ walk = NoWalk
    /\ walk' = [fn |-> fn, left |-> DOMAIN cells, values |-> <<>>]
    /\ was_reset' = (was_reset \/ fn = "reset")
    /\ UNCHANGED <<cells, histograms_, op>>

\* One round of the loop over counters_ or, after it, of the one over gauges_: load
\* or store(0).  A loop visits its cells in any order.
Visit(cell) ==
    /\ walk.fn # "none"
    /\ cell \in walk.left
    /\ cell[1] = "gauge" => \A c \in walk.left : c[1] = "gauge"
    /\ walk' = [walk EXCEPT !.left = @ \ {cell}, !.values = Assign(@, cell, cells[cell])]
    /\ cells' = IF walk.fn = "reset" THEN [cells EXCEPT ![cell] = 0] ELSE cells
    /\ UNCHANGED <<histograms_, op, was_reset>>

\* The map's lock is free again; the histograms are written, or cleared, under
\* hist_mutex_.
EndWalk ==
    /\ walk.fn # "none"
    /\ walk.left = {}
    /\ walk' = NoWalk
    /\ histograms_' = IF walk.fn = "reset" THEN <<>> ELSE histograms_
    /\ UNCHANGED <<cells, op, was_reset>>
=============================================================================
