----------------------------- MODULE MetricsProofs -----------------------------
(***************************************************************************)
(* The metrics that the pool threads of Application.tla update while another *)
(* thread renders or resets them, for any number of threads and tasks.       *)
(***************************************************************************)
EXTENDS ApplicationProofs

\* MetricsAccounted, and what the cells and the histogram hold meanwhile: a thread
\* writes a cell that exists; an error is dealt with after its duration was recorded.
MetricsInv ==
    /\ ended \in [Outcomes -> Nat]
    /\ was_reset \in BOOLEAN
    /\ walk = NoWalk \/ walk = [fn |-> walk.fn, left |-> walk.left, values |-> walk.values]
    /\ walk.fn = "reset" => was_reset
    /\ \A c \in {Calls, Errors} : c \in DOMAIN cells => cells[c] \in Int
    /\ \A t \in Threads : op[t].at = "write" => op[t].cell \in DOMAIN cells
    /\ "duration_ms" \in DOMAIN histograms_ => histograms_["duration_ms"].count \in Nat
    /\ IsFiniteSet(Frames("use_case"))
    /\ IsFiniteSet(Uncalled) /\ IsFiniteSet(Erring) /\ IsFiniteSet(Uncounted)
    /\ MetricsAccounted
    /\ ~was_reset /\ (Erring # {} \/ Errors \in DOMAIN cells) => "duration_ms" \in DOMAIN histograms_

-----------------------------------------------------------------------------
(* Metrics *)

\* The numbers MetricsAccounted relates.
LEMMA Numbers ==
    ASSUME Counting, MetricsInv
    PROVE  /\ CounterValue("calls") \in Int /\ CounterValue("errors") \in Int /\ Recorded \in Nat
           /\ ended["ok"] \in Nat /\ ended["err"] \in Nat /\ ended["thrown"] \in Nat
           /\ Cardinality(Frames("use_case")) \in Nat
           /\ Cardinality(Uncalled) \in Nat /\ Cardinality(Erring) \in Nat /\ Cardinality(Uncounted) \in Nat
  <1>1. CounterValue("calls") \in Int /\ CounterValue("errors") \in Int /\ Recorded \in Nat
    BY DEF MetricsInv, CounterValue, Recorded, Calls, Errors
  <1>2. ended["ok"] \in Nat /\ ended["err"] \in Nat /\ ended["thrown"] \in Nat
    BY Zenon DEF MetricsInv, Outcomes
  <1>3. \A A : IsFiniteSet(A) => Cardinality(A) \in Nat
    BY Zenon DEF Counting
  <1> QED BY Zenon, <1>1, <1>2, <1>3 DEF MetricsInv

\* A step of a thread that touches no metric.
LEMMA MetricsKept ==
    ASSUME Counting, ThreadsInv, MetricsInv, NEW t \in Workers, NEW where, NEW s, NEW w, NEW c,
           Steps(t, where, s, w, NoOp, c), op[t] = NoOp,
           going[t] \notin {"failed", "counting"}, where \notin {"failed", "counting"},
           UNCHANGED <<cells, histograms_, walk, was_reset, ended>>,
           IsFiniteSet(Frames("use_case")'),
           Cardinality(Frames("use_case")') = Cardinality(Frames("use_case"))
    PROVE  MetricsInv'
  <1>1. /\ IsFiniteSet(Uncalled') /\ IsFiniteSet(Erring') /\ IsFiniteSet(Uncounted')
        /\ Cardinality(Uncalled') = Cardinality(Uncalled)
        /\ Cardinality(Erring') = Cardinality(Erring)
        /\ Cardinality(Uncounted') = Cardinality(Uncounted)
    <2>1. Moved(t, where, NoOp)
      BY Zenon, ThreadsMoved DEF MetricsInv
    <2> QED BY <2>1 DEF Moved, One
  <1>2. op' = op /\ \A u \in Workers : u # t => going'[u] = going[u]
    BY Zenon DEF ThreadsInv, Steps
  <1>3. t \notin Erring' /\ Erring' \subseteq Erring
    BY Zenon, <1>2 DEF Erring, Steps, ThreadsInv
  <1>4. MetricsAccounted'
    BY Zenon, <1>1 DEF MetricsInv, MetricsAccounted, CounterValue, Recorded
  <1> QED BY Zenon, <1>1, <1>2, <1>3, <1>4 DEF MetricsInv

\* A thread outside execute() makes a call or ends one, or goes on.
LEMMA MetricsKeptByCalls ==
    ASSUME Counting, ThreadsInv, MetricsInv, NEW t \in Workers, NEW where, NEW s, NEW w, NEW c,
           Steps(t, where, s, w, NoOp, c), op[t] = NoOp,
           going[t] \notin {"failed", "counting"}, where \notin {"failed", "counting"},
           UNCHANGED <<cells, histograms_, walk, was_reset, ended>>,
           \/ s = frames[t]
           \/ \E f \in Frame : f.kind # "use_case" /\ s = Append(frames[t], f)
           \/ frames[t] # <<>> /\ Top(t).kind # "use_case" /\ s = Below(t)
    PROVE  MetricsInv'
  <1>1. frames' = [frames EXCEPT ![t] = s] /\ frames \in [Workers -> Seq(Frame)]
        /\ IsFiniteSet(Frames("use_case"))
    BY Zenon DEF Steps, ThreadsInv, MetricsInv
  <1>2. IsFiniteSet(Frames("use_case")') /\ Cardinality(Frames("use_case")') = Cardinality(Frames("use_case"))
    <2>1. CASE s = frames[t]
      <3>1. frames' = frames
        BY Zenon, <1>1, <2>1
      <3>2. Frames("use_case")' = Frames("use_case")
        BY Zenon, <3>1 DEF Frames
      <3> QED BY Zenon, <1>1, <3>2
    <2>2. ASSUME NEW f \in Frame, f.kind # "use_case", s = Append(frames[t], f)
          PROVE  IsFiniteSet(Frames("use_case")') /\ Cardinality(Frames("use_case")') = Cardinality(Frames("use_case"))
      <3>1. Pushed(f, "use_case")
        BY Zenon, <1>1, <2>2, FramesPushed
      <3> QED BY <1>1, <2>2, <3>1 DEF Pushed, One
    <2>3. CASE frames[t] # <<>> /\ Top(t).kind # "use_case" /\ s = Below(t)
      <3>1. PICK f : f = Top(t)
        BY Zenon
      <3>2. Popped(f, "use_case")
        BY Zenon, <1>1, <2>3, <3>1, FramesPopped
      <3> QED BY <1>1, <2>3, <3>1, <3>2 DEF Popped, One
    <2> QED BY Zenon, <2>1, <2>2, <2>3
  <1> QED BY Zenon, <1>2, MetricsKept

\* The use case of the thread ends: one call of execute() less.
LEMMA UseCaseEnds ==
    ASSUME Counting, ThreadsInv, MetricsInv, NEW t \in Workers, going[t] # "idle", Top(t).kind = "use_case",
           NEW where, Pop(t, where)
    PROVE  /\ IsFiniteSet(Frames("use_case")') /\ Cardinality(Frames("use_case")') \in Nat
           /\ Cardinality(Frames("use_case")') + 1 = Cardinality(Frames("use_case"))
  <1>1. /\ frames' = [frames EXCEPT ![t] = Below(t)] /\ frames \in [Workers -> Seq(Frame)]
        /\ IsFiniteSet(Frames("use_case")) /\ frames[t] # <<>>
    BY Zenon, OfThread DEF Pop, Go, ThreadsInv, MetricsInv
  <1>2. PICK f : f = Top(t)
    BY Zenon
  <1>3. Popped(f, "use_case")
    BY Zenon, <1>1, <1>2, FramesPopped
  <1> QED BY Zenon, <1>1, <1>2, <1>3 DEF Popped, One

\* histogram() counts one more duration.
LEMMA DurationRecorded ==
    ASSUME MetricsInv, NEW d, Histogram("duration_ms", d)
    PROVE  /\ "duration_ms" \in DOMAIN histograms_'
           /\ histograms_'["duration_ms"].count = Recorded + 1
           /\ Recorded' = Recorded + 1
           /\ UNCHANGED <<cells, op, walk, was_reset>>
  <1> DEFINE all == Emplace(histograms_, "duration_ms", NewHistogram)
  <1>1. "duration_ms" \in DOMAIN all /\ all["duration_ms"].count = Recorded
    BY Zenon DEF Emplace, Assign, NewHistogram, Recorded
  <1>2. histograms_' = [all EXCEPT !["duration_ms"] = Observed(all["duration_ms"], d)]
    BY Zenon DEF Histogram
  <1> HIDE DEF all
  <1>3. "duration_ms" \in DOMAIN histograms_' /\ histograms_'["duration_ms"] = Observed(all["duration_ms"], d)
    BY Zenon, <1>1, <1>2
  <1>4. histograms_'["duration_ms"].count = Recorded + 1
    BY <1>1, <1>3 DEF Observed
  <1> QED BY Zenon, <1>3, <1>4 DEF Recorded, Histogram

\* The counters and the histogram account for every execution.
LEMMA NextMetricsInv == Counting /\ ThreadsInv /\ BusInv /\ MetricsInv /\ [StackNext]_all_vars => MetricsInv'
  <1> SUFFICES ASSUME Counting, ThreadsInv, BusInv, MetricsInv, [StackNext]_all_vars
               PROVE  MetricsInv'
    BY Zenon
  <1>0. /\ op \in [Threads -> Ops] /\ \A t \in Workers : t \in Threads
        /\ IsFiniteSet(Uncalled) /\ IsFiniteSet(Erring) /\ IsFiniteSet(Uncounted)
        /\ IsFiniteSet(Frames("use_case"))
    BY Zenon DEF ThreadsInv, MetricsInv, Workers
  <1>1. ASSUME UNCHANGED <<cells, histograms_, walk, was_reset, ended, op, going, frames>>
        PROVE  MetricsInv'
    BY <1>1
    DEF MetricsInv, MetricsAccounted, CounterValue, Recorded, Uncalled, Erring, Uncounted, Frames
  <1>2. ASSUME NEW t \in Workers, NEW task \in Tasks, OpenScope(t, task), UNCHANGED <<metrics_vars, ended>>,
               going[t] \in {"idle", "down"}, op[t] = NoOp
        PROVE  MetricsInv'
    <2> DEFINE f == [kind |-> "scope", ctx |-> task.ctx, previous_ |-> tl_current[t]]
    <2>1. Steps(t, task.message, Append(frames[t], f), <<>>, NoOp, task.ctx)
      BY Zenon, <1>0, <1>2 DEF OpenScope, Go, Steps, metrics_vars
    <2>2. task.message \notin {"failed", "counting"}
      BY Zenon, ApplicationAssumption DEF Places
    <2>3. f \in Frame /\ f.kind # "use_case"
      <3>1. tl_current[t] \in Contexts /\ task.ctx \in Contexts
        BY Zenon, OfThread DEF Contexts
      <3> QED BY Zenon, <3>1 DEF Frame
    <2> HIDE DEF f
    <2> QED BY Zenon, <1>2, <2>1, <2>2, <2>3, MetricsKeptByCalls DEF metrics_vars
  <1>3. ASSUME NEW t \in Workers, Take(t)
        PROVE  MetricsInv'
    <2>1. Head(queue) \in Tasks /\ op[t] = NoOp
      BY Zenon, <1>3, EmptyOrNot, OfThread DEF Take, BusInv
    <2> QED BY Zenon, <1>2, <1>3, <2>1 DEF Take
  <1>4. ASSUME NEW t \in Workers, NEW task \in Tasks, Dispatch(t, task)
        PROVE  MetricsInv'
    BY Zenon, <1>2, <1>4 DEF Dispatch, InUseCase
  <1>5. ASSUME NEW t \in Workers, CloseScope(t)
        PROVE  MetricsInv'
    <2> DEFINE where == IF Len(frames[t]) = 1 THEN "idle" ELSE IF going[t] = "back" THEN "down" ELSE going[t]
    <2>1. /\ going[t] \in {"back", "unwinding"} /\ where \notin {"failed", "counting"}
          /\ Top(t).kind = "scope" /\ UNCHANGED <<metrics_vars, ended>>
      BY Zenon, <1>5 DEF CloseScope, IsScope
    <2>2. op[t] = NoOp /\ frames[t] # <<>>
      BY Zenon, <2>1, OfThread
    <2>3. Steps(t, where, Below(t), <<>>, NoOp, Top(t).previous_)
      BY Zenon, <1>0, <1>5, <2>2 DEF CloseScope, Pop, Go, Steps, metrics_vars
    <2> HIDE DEF where
    <2> QED BY Zenon, <2>1, <2>2, <2>3, MetricsKeptByCalls DEF metrics_vars
  <1>6. ASSUME NEW t \in Workers, NEW type \in TypesOf(going[t]), Send(t, type)
        PROVE  MetricsInv'
    <2>1. /\ going[t] \in Messages /\ going[t] \notin Places
          /\ UNCHANGED <<metrics_vars, ended, tl_current>>
      BY Zenon, <1>6, ApplicationAssumption DEF Send
    <2>2. op[t] = NoOp /\ going[t] \notin {"failed", "counting"}
      BY Zenon, <2>1, OfThread DEF Places
    <2>3. CASE going[t] \in DOMAIN handlers_
      <3> DEFINE f == [kind |-> "send", message |-> going[t], type |-> type]
      <3>1. f \in Frame /\ f.kind # "use_case"
        BY Zenon, <1>6, <2>1 DEF Frame, TypesOf
      <3>2. Go(t, "down", Append(frames[t], f), handlers_[going[t]].chain)
        BY Zenon, <1>6, <2>3 DEF Send
      <3> HIDE DEF f
      <3>3. Steps(t, "down", Append(frames[t], f), handlers_[going[t]].chain, NoOp, tl_current[t])
        BY Zenon, <2>1, <2>2, <3>2, GoSteps DEF metrics_vars
      <3>4. Pushed(f, "use_case")
        BY Zenon, <3>1, <3>2, FramesPushed DEF Go, ThreadsInv
      <3>5. /\ IsFiniteSet(Frames("use_case")')
            /\ Cardinality(Frames("use_case")') = Cardinality(Frames("use_case"))
        BY <1>0, <3>1, <3>4 DEF Pushed, One
      <3>6. PICK s, chain : Steps(t, "down", s, chain, NoOp, tl_current[t])
        BY Zenon, <3>3
      <3>7. UNCHANGED <<cells, histograms_, walk, was_reset, ended>>
        BY Zenon, <2>1 DEF metrics_vars
      <3> QED BY <2>2, <3>5, <3>6, <3>7, MetricsKept
    <2>4. CASE going[t] \notin DOMAIN handlers_
      <3>1. Steps(t, "unwinding", frames[t], <<>>, NoOp, tl_current[t])
        BY Zenon, <1>6, <2>1, <2>2, <2>4, GoSteps DEF Send, metrics_vars
      <3> QED BY <2>1, <2>2, <3>1, MetricsKeptByCalls DEF metrics_vars
    <2> QED BY Zenon, <2>3, <2>4
  <1>7. ASSUME NEW t \in Workers, NEW where \in {"back", "unwinding"}, going[t] \in {"back", "unwinding"},
               Top(t).kind # "use_case", Pop(t, where), UNCHANGED <<metrics_vars, tl_current, ended>>
        PROVE  MetricsInv'
    <2>1. op[t] = NoOp /\ frames[t] # <<>>
      BY Zenon, <1>7, OfThread
    <2>2. Steps(t, where, Below(t), <<>>, NoOp, tl_current[t])
      BY Zenon, <1>7, <2>1, GoSteps DEF Pop, metrics_vars
    <2> QED BY Zenon, <1>7, <2>1, <2>2, MetricsKeptByCalls DEF metrics_vars
  <1>8. ASSUME NEW t \in Workers, Sent(t)
        PROVE  MetricsInv'
    <2>1. PICK where \in {"back", "unwinding"} : Pop(t, where)
      BY Zenon, <1>8 DEF Sent
    <2> QED BY Zenon, <1>7, <1>8, <2>1 DEF Sent
  <1>9. ASSUME NEW t \in Workers, LeaveLogging(t)
        PROVE  MetricsInv'
    BY Zenon, <1>7, <1>9 DEF LeaveLogging, Leaving
  <1>10. ASSUME NEW t \in Workers, LeaveTracing(t)
         PROVE  MetricsInv'
    BY Zenon, <1>7, <1>10 DEF LeaveTracing, Leaving
  <1>11. ASSUME NEW t \in Workers, NEW wrapper, NEW f \in Frame, f.kind # "use_case",
                Entering(t, wrapper), Push(t, f, "down"),
                UNCHANGED <<metrics_vars, tl_current, ended>>
         PROVE  MetricsInv'
    <2>1. op[t] = NoOp /\ going[t] = "down"
      BY Zenon, <1>11, OfThread DEF Entering
    <2>2. Steps(t, "down", Append(frames[t], f), Tail(todo[t]), NoOp, tl_current[t])
      BY Zenon, <1>11, <2>1, GoSteps DEF Push, metrics_vars
    <2> QED BY Zenon, <1>11, <2>1, <2>2, MetricsKeptByCalls DEF metrics_vars
  <1>12. ASSUME NEW t \in Workers, EnterLogging(t) \/ EnterTracing(t)
         PROVE  MetricsInv'
    <2>1. PICK f \in Frame : \/ f.kind = "logging" /\ Entering(t, "logging") /\ Push(t, f, "down")
                             \/ f.kind = "tracing" /\ Entering(t, "tracing") /\ Push(t, f, "down")
      BY Zenon, <1>12, FrameOfWrapper
    <2>2. UNCHANGED <<metrics_vars, tl_current, ended>>
      BY Zenon, <1>12 DEF EnterLogging, EnterTracing
    <2> QED BY Zenon, <1>11, <2>1, <2>2
  <1>13. ASSUME NEW t \in Workers, Validate(t)
         PROVE  MetricsInv'
    <2>1. /\ going[t] = "down" /\ op[t] = NoOp /\ UNCHANGED <<metrics_vars, tl_current, ended>>
      BY Zenon, <1>13, OfThread DEF Validate, Entering
    <2>2. CASE Go(t, "down", frames[t], Tail(todo[t]))
      <3>1. Steps(t, "down", frames[t], Tail(todo[t]), NoOp, tl_current[t])
        BY Zenon, <2>1, <2>2, GoSteps DEF metrics_vars
      <3> QED BY Zenon, <2>1, <3>1, MetricsKeptByCalls DEF metrics_vars
    <2>3. CASE Go(t, "unwinding", frames[t], <<>>)
      <3>1. Steps(t, "unwinding", frames[t], <<>>, NoOp, tl_current[t])
        BY Zenon, <2>1, <2>3, GoSteps DEF metrics_vars
      <3> QED BY <2>1, <3>1, MetricsKeptByCalls DEF metrics_vars
    <2> QED BY Zenon, <1>13, <2>2, <2>3 DEF Validate
  <1>14. ASSUME NEW t \in Workers, Execute(t)
         PROVE  MetricsInv'
    <2> DEFINE f == [kind |-> "use_case"]
    <2>1. PICK o : /\ o = [at |-> IF Calls \in DOMAIN cells THEN "write" ELSE "insert",
                           cell |-> Calls, value |-> 0]
                   /\ op' = [op EXCEPT ![t] = o]
      BY <1>0, <1>14, OpOfThread DEF Execute, Calls
    <2>2. o # NoOp /\ o.cell = Calls /\ (o.at = "write" => Calls \in DOMAIN cells)
      BY Zenon, <2>1 DEF NoOp
    <2>3. /\ going[t] = "down" /\ op[t] = NoOp /\ f \in Frame /\ f.kind = "use_case"
          /\ UNCHANGED <<cells, histograms_, walk, was_reset, ended>>
      BY Zenon, <1>14 DEF Execute, Entering, Find, Frame
    <2>4. Steps(t, "down", Append(frames[t], f), Tail(todo[t]), o, tl_current[t])
      BY Zenon, <1>14, <2>1 DEF Execute, Push, Go, Steps, OthersUnchanged, ThreadsInv
    <2> HIDE DEF f
    <2>5. Pushed(f, "use_case")
      BY Zenon, <2>3, <2>4, FramesPushed DEF Steps, ThreadsInv
    <2>6. /\ IsFiniteSet(Frames("use_case")') /\ Cardinality(Frames("use_case")) \in Nat
          /\ Cardinality(Frames("use_case")') = Cardinality(Frames("use_case")) + 1
      BY Zenon, <1>0, <2>3, <2>5 DEF Pushed, One
    <2>7. /\ IsFiniteSet(Uncalled') /\ IsFiniteSet(Erring') /\ IsFiniteSet(Uncounted')
          /\ Cardinality(Uncalled') = Cardinality(Uncalled) + 1
          /\ Cardinality(Erring') = Cardinality(Erring)
          /\ Cardinality(Uncounted') = Cardinality(Uncounted)
      <3>1. Moved(t, "down", o)
        BY Zenon, <1>0, <2>4, ThreadsMoved
      <3> QED BY <2>2, <2>3, <3>1 DEF Moved, One
    <2>8. \A u \in Threads : op'[u].at = "write" => op'[u].cell \in DOMAIN cells
      BY Zenon, <1>0, <2>1, <2>2 DEF MetricsInv
    <2>9. Erring' = Erring
      BY Zenon, <2>3, <2>4 DEF Erring, Steps, ThreadsInv
    <2>10. MetricsAccounted'
      <3>1. /\ CounterValue("calls")' = CounterValue("calls")
            /\ CounterValue("errors")' = CounterValue("errors")
            /\ Recorded' = Recorded
        BY Zenon, <2>3 DEF CounterValue, Recorded
      <3> QED BY <2>3, <2>6, <2>7, <3>1, Numbers DEF MetricsInv, MetricsAccounted
    <2> QED BY Zenon, <2>3, <2>6, <2>7, <2>8, <2>9, <2>10 DEF MetricsInv
  <1>15. ASSUME NEW t \in Workers, Insert(t), UNCHANGED <<going, frames, ended>>
         PROVE  MetricsInv'
    <2>1. PICK o \in Ops : /\ op' = [op EXCEPT ![t] = o]
                           /\ o.at = "write" /\ o.cell = op[t].cell /\ o # NoOp
      BY Zenon, <1>0, <1>15, OpOfThread
    <2>2. op[t] # NoOp /\ op[t].cell \in {Calls, Errors}
      BY Zenon, <1>0, <1>15, OpOfThread, OfThread DEF Insert
    <2>3. /\ cells' = Emplace(cells, op[t].cell, 0) /\ UNCHANGED <<histograms_, walk, was_reset>>
      BY Zenon, <1>15 DEF Insert
    <2>4. /\ DOMAIN cells' = DOMAIN cells \cup {op[t].cell}
          /\ \A c \in DOMAIN cells : cells'[c] = cells[c]
          /\ op[t].cell \notin DOMAIN cells => cells'[op[t].cell] = 0
      BY Zenon, <2>3 DEF Emplace, Assign
    <2>5. /\ Uncalled' = Uncalled /\ Erring' = Erring /\ Uncounted' = Uncounted
      BY Zenon, <1>0, <1>15, <2>1, <2>2 DEF Uncalled, Erring, Uncounted
    <2>6. Frames("use_case")' = Frames("use_case")
      BY Zenon, <1>15 DEF Frames
    <2>7. \A u \in Threads : op'[u].at = "write" => op'[u].cell \in DOMAIN cells'
      BY Zenon, <1>0, <2>1, <2>4 DEF MetricsInv
    <2>8. \A c \in {Calls, Errors} : c \in DOMAIN cells' => cells'[c] \in Int
      BY <2>4 DEF MetricsInv
    <2>9. CounterValue("calls")' = CounterValue("calls") /\ CounterValue("errors")' = CounterValue("errors")
      BY Zenon, <2>2, <2>4 DEF CounterValue, Calls, Errors
    <2>10. Errors \in DOMAIN cells' => Errors \in DOMAIN cells \/ Erring # {}
      <3>1. op[t].cell = Errors => t \in Erring
        BY <2>2, OfThread DEF Erring, Calls, Errors
      <3> QED BY Zenon, <2>4, <3>1
    <2>11. MetricsAccounted'
      BY Zenon, <1>15, <2>3, <2>5, <2>6, <2>9 DEF MetricsInv, MetricsAccounted, Recorded
    <2> QED BY Zenon, <1>15, <2>3, <2>5, <2>6, <2>7, <2>8, <2>10, <2>11 DEF MetricsInv
  <1>16. ASSUME NEW t \in Workers, Write(t), UNCHANGED <<going, frames, todo, tl_current, ended>>
         PROVE  MetricsInv'
    <2>1. /\ op' = [op EXCEPT ![t] = NoOp] /\ op[t] # NoOp /\ op[t].cell \in DOMAIN cells
      BY Zenon, <1>0, <1>16, OpOfThread DEF Write, MetricsInv
    <2>2. \/ going[t] = "down" /\ op[t].cell = Calls
          \/ going[t] = "counting" /\ op[t].cell = Errors
      BY Zenon, <2>1, OfThread
    <2>3. /\ UNCHANGED <<histograms_, walk, was_reset>>
          /\ DOMAIN cells' = DOMAIN cells
          /\ \A c \in DOMAIN cells : c # op[t].cell => cells'[c] = cells[c]
          /\ cells'[op[t].cell] = cells[op[t].cell] + 1
      BY <1>16, <2>1, <2>2 DEF Write, Calls, Errors
    <2>4. Steps(t, going[t], frames[t], todo[t], NoOp, tl_current[t])
      BY Zenon, <1>16, <2>1 DEF Steps, ThreadsInv
    <2>5. /\ IsFiniteSet(Uncalled') /\ IsFiniteSet(Erring') /\ IsFiniteSet(Uncounted')
          /\ Cardinality(Uncalled') \in Nat /\ Cardinality(Uncounted') \in Nat
          /\ Cardinality(Uncalled') + One(going[t] = "down") = Cardinality(Uncalled)
          /\ Cardinality(Erring') = Cardinality(Erring)
          /\ Cardinality(Uncounted') + One(going[t] = "counting") = Cardinality(Uncounted)
      <3>1. Moved(t, going[t], NoOp)
        BY Zenon, <1>0, <2>4, ThreadsMoved
      <3> QED BY <2>1, <2>2, <3>1 DEF Moved, One
    <2>6. Frames("use_case")' = Frames("use_case") /\ Erring' = Erring
      BY Zenon, <1>16 DEF Frames, Erring
    <2>7. \A u \in Threads : op'[u].at = "write" => op'[u].cell \in DOMAIN cells'
      BY Zenon, <1>0, <2>1, <2>3 DEF MetricsInv, NoOp
    <2>8. \A c \in {Calls, Errors} : c \in DOMAIN cells' => cells'[c] \in Int
      BY <2>3 DEF MetricsInv
    <2>9. /\ CounterValue("calls")' = CounterValue("calls") + One(going[t] = "down")
          /\ CounterValue("errors")' = CounterValue("errors") + One(going[t] = "counting")
      <3>1. CASE going[t] = "down" /\ op[t].cell = Calls
        BY <2>1, <2>3, <3>1, Numbers DEF CounterValue, Calls, One
      <3>2. CASE going[t] = "counting" /\ op[t].cell = Errors
        BY <2>1, <2>3, <3>2, Numbers DEF CounterValue, Errors, One
      <3> QED BY Zenon, <2>2, <3>1, <3>2
    <2>10. MetricsAccounted'
      <3>1. One(going[t] = "down") \in Nat /\ One(going[t] = "counting") \in Nat
        BY Zenon DEF One
      <3> QED BY <1>16, <2>3, <2>5, <2>6, <2>9, <3>1, Numbers
              DEF MetricsInv, MetricsAccounted, Recorded
    <2> QED BY Zenon, <1>16, <2>3, <2>5, <2>6, <2>7, <2>8, <2>10 DEF MetricsInv
  <1>17. ASSUME NEW t \in Workers, Count(t)
         PROVE  MetricsInv'
    BY Zenon, <1>15, <1>16, <1>17 DEF Count, OthersUnchanged, call_vars
  <1>18. ASSUME NEW t \in Workers, InUseCase(t)
         PROVE  going[t] = "down" /\ op[t] = NoOp /\ Top(t).kind = "use_case"
    BY Zenon, <1>18, OfThread DEF InUseCase
  <1>19. ASSUME NEW t \in Workers, ExecuteThrows(t)
         PROVE  MetricsInv'
    <2>1. /\ going[t] \in {"down", "back", "unwinding"} /\ op[t] = NoOp /\ Top(t).kind = "use_case"
          /\ Pop(t, "unwinding") /\ UNCHANGED <<metrics_vars, tl_current>>
      BY Zenon, <1>18, <1>19, OfThread DEF ExecuteThrows, Leaving, OthersUnchanged
    <2>2. /\ IsFiniteSet(Frames("use_case")') /\ Cardinality(Frames("use_case")') \in Nat
          /\ Cardinality(Frames("use_case")') + 1 = Cardinality(Frames("use_case"))
      BY Zenon, <2>1, UseCaseEnds
    <2>3. Steps(t, "unwinding", Below(t), <<>>, NoOp, tl_current[t])
      BY Zenon, <2>1, GoSteps DEF Pop, metrics_vars
    <2>4. /\ IsFiniteSet(Uncalled') /\ IsFiniteSet(Erring') /\ IsFiniteSet(Uncounted')
          /\ Cardinality(Uncalled') = Cardinality(Uncalled)
          /\ Cardinality(Erring') = Cardinality(Erring)
          /\ Cardinality(Uncounted') = Cardinality(Uncounted)
      <3>1. Moved(t, "unwinding", NoOp)
        BY Zenon, <1>0, <2>3, ThreadsMoved
      <3> QED BY <2>1, <3>1 DEF Moved, One
    <2>5. /\ ended' \in [Outcomes -> Nat] /\ ended'["thrown"] = ended["thrown"] + 1
          /\ ended'["ok"] = ended["ok"] /\ ended'["err"] = ended["err"]
      BY <1>19 DEF ExecuteThrows, Ended, MetricsInv, Outcomes
    <2>6. Erring' = Erring
      BY Zenon, <2>1, <2>3 DEF Erring, Steps, ThreadsInv
    <2>7. MetricsAccounted'
      <3>1. /\ CounterValue("calls")' = CounterValue("calls")
            /\ CounterValue("errors")' = CounterValue("errors")
            /\ Recorded' = Recorded /\ was_reset' = was_reset
        BY Zenon, <2>1 DEF CounterValue, Recorded, metrics_vars
      <3> QED BY <2>2, <2>4, <2>5, <3>1, Numbers DEF MetricsInv, MetricsAccounted
    <2> QED BY Zenon, <2>1, <2>2, <2>4, <2>5, <2>6, <2>7 DEF MetricsInv, metrics_vars
  <1>20. ASSUME NEW t \in Workers, NEW d \in Durations, ExecuteReturns(t, d)
         PROVE  MetricsInv'
    <2>1. /\ going[t] = "down" /\ op[t] = NoOp /\ Top(t).kind = "use_case"
          /\ Pop(t, "back") /\ UNCHANGED tl_current /\ Histogram("duration_ms", d)
      BY Zenon, <1>18, <1>20 DEF ExecuteReturns, OthersUnchanged
    <2>2. /\ IsFiniteSet(Frames("use_case")') /\ Cardinality(Frames("use_case")') \in Nat
          /\ Cardinality(Frames("use_case")') + 1 = Cardinality(Frames("use_case"))
      BY Zenon, <2>1, UseCaseEnds
    <2>3. /\ "duration_ms" \in DOMAIN histograms_' /\ histograms_'["duration_ms"].count = Recorded + 1
          /\ Recorded' = Recorded + 1 /\ UNCHANGED <<cells, op, walk, was_reset>>
      BY Zenon, <2>1, DurationRecorded
    <2>4. Steps(t, "back", Below(t), <<>>, NoOp, tl_current[t])
      BY Zenon, <2>1, <2>3, GoSteps DEF Pop
    <2>5. /\ IsFiniteSet(Uncalled') /\ IsFiniteSet(Erring') /\ IsFiniteSet(Uncounted')
          /\ Cardinality(Uncalled') = Cardinality(Uncalled)
          /\ Cardinality(Erring') = Cardinality(Erring)
          /\ Cardinality(Uncounted') = Cardinality(Uncounted)
      <3>1. Moved(t, "back", NoOp)
        BY Zenon, <1>0, <2>4, ThreadsMoved
      <3> QED BY <2>1, <3>1 DEF Moved, One
    <2>6. /\ ended' \in [Outcomes -> Nat] /\ ended'["ok"] = ended["ok"] + 1
          /\ ended'["thrown"] = ended["thrown"] /\ ended'["err"] = ended["err"]
      BY <1>20 DEF ExecuteReturns, Ended, MetricsInv, Outcomes
    <2>7. MetricsAccounted'
      BY <2>2, <2>3, <2>5, <2>6, Numbers DEF MetricsInv, MetricsAccounted, CounterValue
    <2> QED BY <2>2, <2>3, <2>5, <2>6, <2>7, Numbers DEF MetricsInv
  <1>21. ASSUME NEW t \in Workers, NEW d \in Durations, ExecuteFails(t, d)
         PROVE  MetricsInv'
    <2>1. /\ going[t] = "down" /\ op[t] = NoOp /\ Go(t, "failed", frames[t], <<>>)
          /\ UNCHANGED tl_current /\ Histogram("duration_ms", d)
      BY Zenon, <1>18, <1>21 DEF ExecuteFails, OthersUnchanged
    <2>2. Frames("use_case")' = Frames("use_case")
      <3>1. frames' = frames
        BY Zenon, <2>1 DEF Go, ThreadsInv
      <3> QED BY Zenon, <3>1 DEF Frames
    <2>3. /\ "duration_ms" \in DOMAIN histograms_' /\ histograms_'["duration_ms"].count = Recorded + 1
          /\ Recorded' = Recorded + 1 /\ UNCHANGED <<cells, op, walk, was_reset>>
      BY Zenon, <2>1, DurationRecorded
    <2>4. Steps(t, "failed", frames[t], <<>>, NoOp, tl_current[t])
      BY Zenon, <2>1, <2>3, GoSteps
    <2>5. /\ IsFiniteSet(Uncalled') /\ IsFiniteSet(Erring') /\ IsFiniteSet(Uncounted')
          /\ Cardinality(Uncalled') = Cardinality(Uncalled)
          /\ Cardinality(Erring') = Cardinality(Erring) + 1
          /\ Cardinality(Uncounted') = Cardinality(Uncounted) + 1
      <3>1. Moved(t, "failed", NoOp)
        BY Zenon, <1>0, <2>4, ThreadsMoved
      <3> QED BY <2>1, <3>1 DEF Moved, One
    <2>6. /\ ended' \in [Outcomes -> Nat] /\ ended'["err"] = ended["err"] + 1
          /\ ended'["thrown"] = ended["thrown"] /\ ended'["ok"] = ended["ok"]
      BY <1>21 DEF ExecuteFails, Ended, MetricsInv, Outcomes
    <2>7. MetricsAccounted'
      BY <2>2, <2>3, <2>5, <2>6, Numbers DEF MetricsInv, MetricsAccounted, CounterValue
    <2> QED BY <2>2, <2>3, <2>5, <2>6, <2>7, Numbers DEF MetricsInv
  <1>22. ASSUME NEW t \in Workers, CountError(t)
         PROVE  MetricsInv'
    <2>1. PICK o : /\ o = [at |-> IF Errors \in DOMAIN cells THEN "write" ELSE "insert",
                           cell |-> Errors, value |-> 0]
                   /\ op' = [op EXCEPT ![t] = o]
      BY SMTT(20), <1>0, <1>22, OpOfThread DEF CountError, Errors
    <2>2. o # NoOp /\ o.cell = Errors /\ (o.at = "write" => Errors \in DOMAIN cells)
      BY <2>1 DEF NoOp
    <2>3. /\ going[t] = "failed" /\ op[t] = NoOp /\ Go(t, "counting", frames[t], <<>>)
          /\ UNCHANGED <<cells, histograms_, walk, was_reset, ended, tl_current>>
      BY Zenon, <1>22 DEF CountError, Find, OthersUnchanged
    <2>4. Steps(t, "counting", frames[t], <<>>, o, tl_current[t])
      BY Zenon, <2>1, <2>3 DEF Go, Steps, ThreadsInv
    <2>5. /\ IsFiniteSet(Uncalled') /\ IsFiniteSet(Erring') /\ IsFiniteSet(Uncounted')
          /\ Cardinality(Uncalled') = Cardinality(Uncalled)
          /\ Cardinality(Erring') = Cardinality(Erring)
          /\ Cardinality(Uncounted') = Cardinality(Uncounted)
      <3>1. Moved(t, "counting", o)
        BY Zenon, <1>0, <2>4, ThreadsMoved
      <3> QED BY <2>2, <2>3, <3>1 DEF Moved, One
    <2>6. Frames("use_case")' = Frames("use_case")
      <3>1. frames' = frames
        BY Zenon, <2>3 DEF Go, ThreadsInv
      <3> QED BY Zenon, <3>1 DEF Frames
    <2>7. \A u \in Threads : op'[u].at = "write" => op'[u].cell \in DOMAIN cells
      BY Zenon, <1>0, <2>1, <2>2 DEF MetricsInv
    <2>8. Erring # {}
      BY Zenon, <2>3 DEF Erring
    <2>9. MetricsAccounted'
      BY Zenon, <2>3, <2>5, <2>6 DEF MetricsInv, MetricsAccounted, CounterValue, Recorded
    <2> QED BY Zenon, <2>3, <2>5, <2>6, <2>7, <2>8, <2>9 DEF MetricsInv
  <1>23. ASSUME NEW t \in Workers, ErrorCounted(t)
         PROVE  MetricsInv'
    <2>1. /\ going[t] = "counting" /\ op[t] = NoOp /\ Top(t).kind = "use_case"
          /\ Pop(t, "back") /\ UNCHANGED <<metrics_vars, tl_current, ended>>
      BY Zenon, <1>23, OfThread DEF ErrorCounted, OthersUnchanged
    <2>2. /\ IsFiniteSet(Frames("use_case")') /\ Cardinality(Frames("use_case")') \in Nat
          /\ Cardinality(Frames("use_case")') + 1 = Cardinality(Frames("use_case"))
      BY Zenon, <2>1, UseCaseEnds
    <2>3. Steps(t, "back", Below(t), <<>>, NoOp, tl_current[t])
      BY Zenon, <2>1, GoSteps DEF Pop, metrics_vars
    <2>4. /\ IsFiniteSet(Uncalled') /\ IsFiniteSet(Erring') /\ IsFiniteSet(Uncounted')
          /\ Cardinality(Erring') \in Nat
          /\ Cardinality(Uncalled') = Cardinality(Uncalled)
          /\ Cardinality(Erring') + 1 = Cardinality(Erring)
          /\ Cardinality(Uncounted') = Cardinality(Uncounted)
      <3>1. Moved(t, "back", NoOp)
        BY Zenon, <1>0, <2>3, ThreadsMoved
      <3> QED BY <2>1, <3>1 DEF Moved, One
    <2>5. Erring # {}
      BY Zenon, <2>1 DEF Erring
    <2>6. MetricsAccounted'
      <3>1. /\ MetricsAccounted /\ UNCHANGED <<was_reset, ended, Recorded>>
            /\ UNCHANGED <<CounterValue("calls"), CounterValue("errors")>>
        BY Zenon, <2>1 DEF MetricsInv, CounterValue, Recorded, metrics_vars
      <3> QED BY <2>2, <2>4, <3>1, Numbers DEF MetricsAccounted
    <2> QED BY Zenon, <2>1, <2>2, <2>4, <2>5, <2>6 DEF MetricsInv, metrics_vars
  <1>24. CASE Observe
    <2>1. UNCHANGED <<going, frames, ended>> /\ Monitor \in Threads /\ Monitor \notin Workers
      BY Zenon, <1>24, ApplicationAssumption DEF Observe, call_vars, Workers
    <2>2. Frames("use_case")' = Frames("use_case")
      BY Zenon, <2>1 DEF Frames
    <2>3. ASSUME \A t \in Workers : op'[t] = op[t]
          PROVE  Uncalled' = Uncalled /\ Erring' = Erring /\ Uncounted' = Uncounted
      BY Zenon, <2>1, <2>3 DEF Uncalled, Erring, Uncounted
    <2>4. ASSUME NEW v \in Durations, Find(Monitor, "gauge", "load", v)
          PROVE  MetricsInv'
      <3>1. PICK o : /\ o = [at |-> IF Load \in DOMAIN cells THEN "write" ELSE "insert",
                             cell |-> Load, value |-> v]
                     /\ op' = [op EXCEPT ![Monitor] = o]
        BY SMTT(20), <1>0, <2>1, <2>4, OpOfThread DEF Load
      <3>2. \A u \in Threads : op'[u].at = "write" => op'[u].cell \in DOMAIN cells
        BY Zenon, <1>0, <3>1 DEF MetricsInv
      <3>3. \A t \in Workers : op'[t] = op[t]
        BY Zenon, <1>0, <2>1, <3>1
      <3>4. UNCHANGED <<cells, histograms_, walk, was_reset>>
        BY Zenon, <2>4 DEF Find
      <3> QED BY Zenon, <2>1, <2>2, <2>3, <3>2, <3>3, <3>4
              DEF MetricsInv, MetricsAccounted, CounterValue, Recorded
    <2>5. ASSUME op[Monitor] # NoOp PROVE op[Monitor].cell = Load /\ Load # Calls /\ Load # Errors
      BY Zenon, <2>5 DEF ThreadsInv, Load, Calls, Errors
    <2>6. ASSUME Insert(Monitor)
          PROVE  MetricsInv'
      <3>1. PICK o \in Ops : op' = [op EXCEPT ![Monitor] = o] /\ o.cell = op[Monitor].cell
        BY Zenon, <1>0, <2>1, <2>6, OpOfThread
      <3>2. op[Monitor].cell = Load /\ Load # Calls /\ Load # Errors
        BY Zenon, <1>0, <2>1, <2>5, <2>6, OpOfThread DEF Insert
      <3>3. cells' = Emplace(cells, Load, 0) /\ UNCHANGED <<histograms_, walk, was_reset>>
        BY Zenon, <2>6, <3>2 DEF Insert
      <3>4. /\ DOMAIN cells' = DOMAIN cells \cup {Load} /\ \A c \in DOMAIN cells : cells'[c] = cells[c]
        BY Zenon, <3>3 DEF Emplace, Assign
      <3>5. \A u \in Threads : op'[u].at = "write" => op'[u].cell \in DOMAIN cells'
        BY Zenon, <1>0, <3>1, <3>2, <3>4 DEF MetricsInv
      <3>6. \A t \in Workers : op'[t] = op[t]
        BY Zenon, <1>0, <2>1, <3>1
      <3>7. /\ \A c \in {Calls, Errors} : c \in DOMAIN cells' => cells'[c] \in Int
            /\ Errors \in DOMAIN cells' <=> Errors \in DOMAIN cells
        BY Zenon, <3>2, <3>4 DEF MetricsInv
      <3>8. CounterValue("calls")' = CounterValue("calls") /\ CounterValue("errors")' = CounterValue("errors")
        BY Zenon, <3>2, <3>4 DEF CounterValue, Calls, Errors
      <3> QED BY Zenon, <2>1, <2>2, <2>3, <3>3, <3>5, <3>6, <3>7, <3>8
              DEF MetricsInv, MetricsAccounted, Recorded
    <2>7. ASSUME Write(Monitor)
          PROVE  MetricsInv'
      <3>1. op' = [op EXCEPT ![Monitor] = NoOp] /\ op[Monitor].cell \in DOMAIN cells
        BY Zenon, <1>0, <2>1, <2>7, OpOfThread DEF Write, MetricsInv
      <3>2. op[Monitor].cell = Load /\ Load # Calls /\ Load # Errors
        BY SMTT(20), <1>0, <2>1, <2>5, <2>7, OpOfThread DEF Write
      <3>3. /\ DOMAIN cells' = DOMAIN cells /\ \A c \in DOMAIN cells : c # Load => cells'[c] = cells[c]
            /\ UNCHANGED <<histograms_, walk, was_reset>>
        BY Zenon, <2>7, <3>2 DEF Write
      <3>4. \A u \in Threads : op'[u].at = "write" => op'[u].cell \in DOMAIN cells'
        BY Zenon, <1>0, <3>1, <3>3 DEF MetricsInv, NoOp
      <3>5. \A t \in Workers : op'[t] = op[t]
        BY Zenon, <1>0, <2>1, <3>1
      <3>6. \A c \in {Calls, Errors} : c \in DOMAIN cells' => cells'[c] \in Int
        BY Zenon, <3>2, <3>3 DEF MetricsInv
      <3>7. CounterValue("calls")' = CounterValue("calls") /\ CounterValue("errors")' = CounterValue("errors")
        BY Zenon, <3>2, <3>3 DEF CounterValue, Calls, Errors
      <3> QED BY SMTT(20), <2>1, <2>2, <2>3, <3>3, <3>4, <3>5, <3>6, <3>7
              DEF MetricsInv, MetricsAccounted, Recorded
    <2>8. ASSUME UNCHANGED op PROVE Uncalled' = Uncalled /\ Erring' = Erring /\ Uncounted' = Uncounted
      BY Zenon, <2>3, <2>8
    <2>9. ASSUME NEW fn \in {"render", "reset"}, BeginWalk(fn)
          PROVE  MetricsInv'
      <3>1. /\ walk'.fn = fn /\ walk' = [fn |-> walk'.fn, left |-> walk'.left, values |-> walk'.values]
            /\ was_reset' = (was_reset \/ fn = "reset") /\ UNCHANGED <<cells, histograms_, op>>
        BY Zenon, <2>9 DEF BeginWalk
      <3>2. was_reset' \in BOOLEAN /\ (was_reset => was_reset') /\ (walk'.fn = "reset" => was_reset')
        BY Zenon, <3>1 DEF MetricsInv
      <3>3. MetricsAccounted'
        BY <2>1, <2>2, <2>8, <3>1, <3>2 DEF MetricsInv, MetricsAccounted, CounterValue, Recorded
      <3> QED BY <2>1, <2>2, <2>8, <3>1, <3>2, <3>3 DEF MetricsInv
    <2>10. ASSUME NEW c \in DOMAIN cells, Visit(c)
           PROVE  MetricsInv'
      <3>1. /\ walk = [fn |-> walk.fn, left |-> walk.left, values |-> walk.values]
        BY <2>10 DEF Visit, MetricsInv, NoWalk
      <3>2. /\ walk'.fn = walk.fn /\ walk' = [fn |-> walk'.fn, left |-> walk'.left, values |-> walk'.values]
            /\ UNCHANGED <<histograms_, op, was_reset>>
        BY Zenon, <2>10, <3>1 DEF Visit
      <3>3. DOMAIN cells' = DOMAIN cells /\ (walk.fn # "reset" => cells' = cells)
        BY Zenon, <2>10 DEF Visit
      <3>4. \A e \in {Calls, Errors} : e \in DOMAIN cells' => cells'[e] \in Int
        BY <2>10 DEF Visit, MetricsInv
      <3>5. MetricsAccounted'
        BY Zenon, <2>1, <2>2, <2>8, <3>2, <3>3
        DEF MetricsInv, MetricsAccounted, CounterValue, Recorded
      <3> QED BY <2>1, <2>2, <2>8, <3>2, <3>3, <3>4, <3>5 DEF MetricsInv
    <2>11. ASSUME EndWalk
           PROVE  MetricsInv'
      <3>1. /\ walk' = NoWalk /\ walk'.fn # "reset" /\ UNCHANGED <<cells, op, was_reset>>
            /\ walk.fn # "reset" => histograms_' = histograms_
            /\ walk.fn = "reset" => DOMAIN histograms_' = {}
        BY <2>11 DEF EndWalk, NoWalk
      <3>2. MetricsAccounted'
        BY Zenon, <2>1, <2>2, <2>8, <3>1 DEF MetricsInv, MetricsAccounted, CounterValue, Recorded
      <3> QED BY Zenon, <2>1, <2>2, <2>8, <3>1, <3>2 DEF MetricsInv
    <2> QED BY <1>24, <2>4, <2>6, <2>7, <2>9, <2>10, <2>11 DEF Observe
  <1>25. ASSUME \/ \E m \in Messages : \E chain \in ChainsOf(m), type \in TypesOf(m) : Register(m, chain, type)
                \/ \E task \in Tasks : Post(task)
                \/ Waiting
                \/ UNCHANGED all_vars
         PROVE  MetricsInv'
    BY Zenon, <1>1, <1>25 DEF Register, Post, Waiting, all_vars, metrics_vars, call_vars
  <1> QED
    BY Zenon, <1>3, <1>4, <1>5, <1>6, <1>8, <1>9, <1>10, <1>12, <1>13, <1>14, <1>17, <1>19, <1>20, <1>21,
       <1>22, <1>23, <1>24, <1>25 DEF StackNext

-----------------------------------------------------------------------------
(* The rendered page *)

\* A counter that render() reads is at most the durations recorded so far, and these
\* only grow until the page is complete.
PageInv ==
    walk.fn = "render" /\ ~was_reset /\ Errors \in DOMAIN walk.values =>
        /\ "duration_ms" \in DOMAIN histograms_
        /\ walk.values[Errors] \in Int
        /\ walk.values[Errors] <= Recorded

\* No step of a worker, of render() or of reset() breaks the bound.
LEMMA NextPage == Counting /\ MetricsInv /\ PageInv /\ [StackNext]_all_vars => PageInv'
  <1> SUFFICES ASSUME Counting, MetricsInv, PageInv, [StackNext]_all_vars
               PROVE  PageInv'
    BY Zenon
  <1>1. ASSUME UNCHANGED <<walk, was_reset, histograms_>>
        PROVE  PageInv'
    BY Zenon, <1>1 DEF PageInv, Recorded
  <1>2. ASSUME NEW d \in Durations, Histogram("duration_ms", d)
        PROVE  PageInv'
    <2>1. /\ "duration_ms" \in DOMAIN histograms_' /\ Recorded' = Recorded + 1
          /\ UNCHANGED <<walk, was_reset>> /\ Recorded \in Nat
      BY Zenon, <1>2, DurationRecorded, Numbers
    <2> QED BY <2>1 DEF PageInv
  <1>3. ASSUME NEW fn \in {"render", "reset"}, BeginWalk(fn)
        PROVE  PageInv'
    <2>1. walk'.values = <<>>
      BY Zenon, <1>3 DEF BeginWalk
    <2> QED BY <2>1 DEF PageInv
  <1>4. ASSUME NEW c \in DOMAIN cells, Visit(c)
        PROVE  PageInv'
    <2>1. /\ walk = [fn |-> walk.fn, left |-> walk.left, values |-> walk.values]
      BY <1>4 DEF Visit, MetricsInv, NoWalk
    <2>2. /\ walk'.fn = walk.fn /\ walk'.values = Assign(walk.values, c, cells[c])
          /\ UNCHANGED <<histograms_, was_reset>>
      BY Zenon, <1>4, <2>1 DEF Visit
    <2>3. CASE c = Errors
      <3>1. Errors \in DOMAIN cells /\ walk'.values[Errors] = CounterValue("errors")
        BY Zenon, <2>2, <2>3 DEF Assign, CounterValue, Errors
      <3>2. ~was_reset => CounterValue("errors") <= Recorded /\ "duration_ms" \in DOMAIN histograms_
        BY <3>1, Numbers DEF MetricsInv, MetricsAccounted
      <3>3. CounterValue("errors") \in Int /\ Recorded' = Recorded
        BY Zenon, <2>2, Numbers DEF Recorded
      <3> QED BY Zenon, <2>2, <3>1, <3>2, <3>3 DEF PageInv
    <2>4. CASE c # Errors
      <3>1. /\ Errors \in DOMAIN walk'.values => Errors \in DOMAIN walk.values
            /\ Errors \in DOMAIN walk.values => walk'.values[Errors] = walk.values[Errors]
        BY Zenon, <2>2, <2>4 DEF Assign
      <3> QED BY Zenon, <2>2, <3>1 DEF PageInv, Recorded
    <2> QED BY Zenon, <2>3, <2>4
  <1>5. ASSUME EndWalk
        PROVE  PageInv'
    BY Zenon, <1>5 DEF EndWalk, NoWalk, PageInv
  <1>6. CASE Observe
    BY Zenon, <1>1, <1>3, <1>4, <1>5, <1>6 DEF Observe, Find, Insert, Write
  <1>7. ASSUME NEW t \in Workers, NEW d \in Durations, ExecuteReturns(t, d) \/ ExecuteFails(t, d)
        PROVE  PageInv'
    BY Zenon, <1>2, <1>7 DEF ExecuteReturns, ExecuteFails
  <1>8. ASSUME NEW t \in Workers, Execute(t) \/ Count(t) \/ CountError(t)
        PROVE  PageInv'
    BY Zenon, <1>1, <1>8 DEF Execute, Count, CountError, Find, Insert, Write
  <1>9. ASSUME UNCHANGED metrics_vars
        PROVE  PageInv'
    BY Zenon, <1>1, <1>9 DEF metrics_vars
  <1> QED
    BY Zenon, <1>6, <1>7, <1>8, <1>9
    DEF StackNext, Register, Post, Take, CloseScope, Send, Sent, EnterLogging, LeaveLogging, EnterTracing,
        LeaveTracing, Validate, Dispatch, ExecuteThrows, ErrorCounted, Waiting, all_vars

\* The bound is what PageIsConsistent says of the page.
LEMMA PageInvConsistent == PageInv => PageIsConsistent
  BY Zenon DEF PageInv, PageIsConsistent, Recorded, Errors

-----------------------------------------------------------------------------
(* What holds of every execution *)

\* The counters, the histogram and the page of every execution satisfy their invariants.
LEMMA MetricsInvariance == StackSpec => [](MetricsInv /\ PageInv)
  <1>1. ASSUME StackInit
        PROVE  MetricsInv /\ PageInv
    <2>1. /\ cells = <<>> /\ histograms_ = <<>> /\ was_reset = FALSE /\ walk = NoWalk
          /\ op = [t \in Threads |-> NoOp] /\ going = [t \in Workers |-> "idle"]
          /\ frames = [t \in Workers |-> <<>>] /\ ended = [o \in Outcomes |-> 0]
      BY Zenon, <1>1 DEF StackInit, MetricsInit
    <2>2. DOMAIN cells = {} /\ DOMAIN histograms_ = {}
      BY <2>1
    <2>3. Frames("use_case") = {} /\ Uncalled = {} /\ Erring = {} /\ Uncounted = {}
      BY <2>1 DEF Frames, Uncalled, Erring, Uncounted
    <2>4. /\ IsFiniteSet(Frames("use_case")) /\ IsFiniteSet(Uncalled) /\ IsFiniteSet(Erring) /\ IsFiniteSet(Uncounted)
          /\ Cardinality(Frames("use_case")) = 0 /\ Cardinality(Uncalled) = 0
          /\ Cardinality(Erring) = 0 /\ Cardinality(Uncounted) = 0
      BY Zenon, <2>3, FS_EmptySet
    <2>5. ended \in [Outcomes -> Nat] /\ ended["ok"] = 0 /\ ended["err"] = 0 /\ ended["thrown"] = 0
      BY Zenon, <2>1 DEF Outcomes
    <2>6. CounterValue("calls") = 0 /\ CounterValue("errors") = 0 /\ Recorded = 0
      BY Zenon, <2>2 DEF CounterValue, Recorded
    <2>7. MetricsAccounted
      BY <2>4, <2>5, <2>6 DEF MetricsAccounted
    <2>8. walk.fn = "none" /\ \A t \in Threads : op[t].at = "none"
      BY Zenon, <2>1 DEF NoWalk, NoOp
    <2>9. MetricsInv
      BY Zenon, <2>1, <2>2, <2>3, <2>4, <2>5, <2>7, <2>8 DEF MetricsInv
    <2> QED BY <2>8, <2>9 DEF PageInv
  <1>2. CallsInv /\ MetricsInv /\ PageInv /\ [StackNext]_all_vars => (MetricsInv /\ PageInv)'
    BY Zenon, OneElement, NextMetricsInv, NextPage DEF CallsInv
  <1> QED BY <1>1, <1>2, CallsInvariance, PTL DEF StackSpec

\* For any number of threads that enter and add to the counters in any interleaving,
\* and until reset() is called: no increment is lost or counted twice.
THEOREM MetricsAlwaysAccounted == StackSpec => []MetricsAccounted
  <1>1. MetricsInv => MetricsAccounted
    BY Zenon DEF MetricsInv
  <1> QED BY <1>1, MetricsInvariance, PTL

\* On no page that render() writes while any number of executions go on do the errors
\* exceed the executions whose duration is recorded.
THEOREM PageAlwaysConsistent == StackSpec => []PageIsConsistent
  BY MetricsInvariance, PageInvConsistent, PTL
=============================================================================
