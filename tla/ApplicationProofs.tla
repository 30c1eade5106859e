--------------------------- MODULE ApplicationProofs ---------------------------
(***************************************************************************)
(* The mediator with its wrappers, the tracer and the metrics, for any       *)
(* number of pool threads, message types, orders of wrappers and tasks,      *)
(* nested to any depth.                                                      *)
(***************************************************************************)
EXTENDS Application, TLAPS

Contexts == {NoContext} \cup {task.ctx : task \in Tasks}
Wrappers == {"logging", "tracing", "validation", "use_case"}

Frame == [kind : {"logging", "use_case"}]
            \cup [kind : {"tracing"}, serial : Nat]
            \cup [kind : {"scope"}, ctx : Contexts, previous_ : Contexts]
            \cup [kind : {"send"}, message : Messages, type : Types \cup {"void"}]

Calls == <<"counter", "calls">>
Errors == <<"counter", "errors">>
Load == <<"gauge", "load">>

Ops == {NoOp} \cup [at : {"insert", "write"}, cell : {Calls, Errors, Load}, value : {0} \cup Durations]

-----------------------------------------------------------------------------
(* What a thread is doing, its calls and its context *)

\* c is the context of the innermost task among the n outermost calls.
IsContext(s, n, c) ==
    \/ \E i \in 1..n : /\ s[i].kind = "scope"
                       /\ s[i].ctx = c
                       /\ \A j \in i + 1..n : s[j].kind # "scope"
    \/ c = NoContext /\ \A i \in 1..n : s[i].kind # "scope"

\* The outermost call is a task, every other task was dispatched by a use case; each
\* CorrelationScope keeps the context of the task around it.
CallsOK(s, c) ==
    /\ s \in Seq(Frame)
    /\ s # <<>> => s[1].kind = "scope"
    /\ \A i \in 1..Len(s) : s[i].kind = "scope" =>
          /\ IsContext(s, i - 1, s[i].previous_)
          /\ i > 1 => s[i - 1].kind = "use_case"
    /\ IsContext(s, Len(s), c)

\* The wrappers to be entered end with the handler proper.
WrappersOK(w) ==
    /\ w \in Seq(Wrappers)
    /\ \A i \in 1..Len(w) : w[i] = "use_case" <=> i = Len(w)

\* A thread has an update of a metric in progress only inside execute().
ThreadOK(where, s, w, o, c) ==
    /\ CallsOK(s, c)
    /\ WrappersOK(w)
    /\ where = "idle" <=> s = <<>>
    /\ (where = "down" /\ w = <<>>) \/ where \in {"failed", "counting"} => s[Len(s)].kind = "use_case"
    /\ o # NoOp => \/ where = "down" /\ w = <<>> /\ o.cell = Calls
                   \/ where = "counting" /\ o.cell = Errors

ThreadsInv ==
    /\ going \in [Workers -> Places \cup Messages]
    /\ frames \in [Workers -> Seq(Frame)]
    /\ todo \in [Workers -> Seq(Wrappers)]
    /\ tl_current \in [Workers -> Contexts]
    /\ op \in [Threads -> Ops]
    /\ \A t \in Workers : ThreadOK(going[t], frames[t], todo[t], op[t], tl_current[t])
    /\ op[Monitor] # NoOp => op[Monitor].cell = Load

BusInv ==
    /\ queue \in Seq(Tasks)
    /\ DOMAIN handlers_ \subseteq Messages
    /\ \A m \in DOMAIN handlers_ : handlers_[m].chain \in Chains
    /\ started \in Nat

-----------------------------------------------------------------------------
(* The accounts *)

IsSequence(s) == s \in Seq({s[i] : i \in DOMAIN s})

\* The calls among s that are tracing wrappers
Traced(s) == {i \in DOMAIN s : s[i].kind = "tracing"}

\* The stack k holds the spans of the tracing wrappers in s, in their order, and no other.
Holds(k, s) ==
    \E place \in [Traced(s) -> 1..Len(k)] :
        /\ \A i, j \in Traced(s) : i < j => place[i] < place[j]
        /\ \A n \in 1..Len(k) : \E i \in Traced(s) : place[i] = n
        /\ \A i \in Traced(s) : k[place[i]].serial = s[i].serial

\* Spans are numbered in their order and below those still to be started; each is a
\* child of the one below it.
Numbered(k, count) ==
    /\ \A n \in 1..Len(k) : k[n].serial \in 1..count
    /\ \A m, n \in 1..Len(k) : m < n => k[m].serial < k[n].serial
    /\ \A n \in 1..Len(k) : k[n].parent_span_id = IF n = 1 THEN Tracer!NoSpan ELSE k[n - 1].span_id

\* One thread at most is inside tracing wrappers, and its spans are the open ones; no
\* span is open when no thread is.
Undisturbed ==
    /\ \A t, u \in Workers : Tracing(t) # {} /\ Tracing(u) # {} => t = u
    /\ \A t \in Workers : Tracing(t) # {} => Holds(stack_, frames[t])
    /\ (\A t \in Workers : Tracing(t) = {}) => stack_ = <<>>

SpansInv ==
    /\ IsSequence(stack_)
    /\ IsSequence(refused)
    /\ skipped \in Nat
    /\ IsFiniteSet(Frames("tracing"))
    /\ Len(stack_) = Cardinality(Frames("tracing")) + skipped + Len(refused)
    /\ Numbered(stack_, started)
    /\ Tracer!OpenOrExported
    /\ ~crossed /\ skipped = 0 /\ refused = <<>> => Undisturbed

CallsInv == ThreadsInv /\ BusInv /\ LinesOfOwnTask

-----------------------------------------------------------------------------
(* Calls begin and end *)

\* A sequence is empty when its length is zero; otherwise it has a head and a tail.
LEMMA EmptyOrNot ==
    ASSUME NEW S, NEW s \in Seq(S)
    PROVE  /\ Len(s) \in Nat /\ (s = <<>> <=> Len(s) = 0)
           /\ s # <<>> => Head(s) \in S /\ Tail(s) \in Seq(S)
  OBVIOUS

\* A sequence with one element more.
LEMMA Appended ==
    ASSUME NEW S, NEW s \in Seq(S), NEW e \in S
    PROVE  /\ Append(s, e) \in Seq(S) /\ Append(s, e) # <<>>
           /\ Len(s) \in Nat /\ Len(Append(s, e)) = Len(s) + 1
           /\ \A i \in 1..Len(s) : Append(s, e)[i] = s[i]
           /\ Append(s, e)[Len(s) + 1] = e
  OBVIOUS

\* The first n elements of a sequence of n + 1.
LEMMA Prefix ==
    ASSUME NEW S, NEW s \in Seq(S), NEW n \in Nat, n + 1 = Len(s)
    PROVE  /\ SubSeq(s, 1, n) \in Seq(S)
           /\ Len(SubSeq(s, 1, n)) = n
           /\ \A i \in 1..n : SubSeq(s, 1, n)[i] = s[i]
  <1>1. SubSeq(s, 1, n) \in Seq(S)
    OBVIOUS
  <1>2. Len(SubSeq(s, 1, n)) = n
    OBVIOUS
  <1>3. \A i \in 1..n : SubSeq(s, 1, n)[i] = s[i]
    OBVIOUS
  <1> QED BY Zenon, <1>1, <1>2, <1>3

\* A sequence without its last element, as Below() leaves the calls of a thread.
LEMMA Shortened ==
    ASSUME NEW S, NEW s \in Seq(S), s # <<>>
    PROVE  LET b == SubSeq(s, 1, Len(s) - 1)
           IN  /\ b \in Seq(S) /\ Len(s) \in Nat \ {0} /\ Len(b) = Len(s) - 1
               /\ \A i \in 1..Len(s) - 1 : b[i] = s[i]
               /\ b = <<>> <=> Len(s) = 1
  <1>1. Len(s) \in Nat \ {0}
    BY Zenon, EmptyOrNot
  <1>2. PICK n \in Nat : n = Len(s) - 1 /\ n + 1 = Len(s)
    BY <1>1
  <1> DEFINE b == SubSeq(s, 1, n)
  <1>3. b \in Seq(S) /\ Len(b) = n /\ \A i \in 1..n : b[i] = s[i]
    BY Zenon, <1>2, Prefix
  <1> HIDE DEF b
  <1>4. b = <<>> <=> n = 0
    BY Zenon, <1>3, EmptyOrNot
  <1>5. /\ b \in Seq(S) /\ Len(s) \in Nat \ {0} /\ Len(b) = n
        /\ \A i \in 1..n : b[i] = s[i]
        /\ b = <<>> <=> Len(s) = 1
    BY <1>1, <1>2, <1>3, <1>4
  <1> QED BY Zenon, <1>2, <1>5 DEF b

\* Only the outermost n calls matter.
LEMMA ContextOfPrefix ==
    ASSUME NEW s, NEW r, NEW n \in Nat, NEW c, \A i \in 1..n : r[i] = s[i], IsContext(s, n, c)
    PROVE  IsContext(r, n, c)
  BY DEF IsContext

\* A call that is not a task leaves the context as it is.
LEMMA ContextOfCall ==
    ASSUME NEW s, NEW n \in Nat, NEW c, s[n + 1].kind # "scope"
    PROVE  IsContext(s, n, c) <=> IsContext(s, n + 1, c)
  <1>1. ASSUME IsContext(s, n, c) PROVE IsContext(s, n + 1, c)
    BY <1>1 DEF IsContext
  <1>2. ASSUME IsContext(s, n + 1, c) PROVE IsContext(s, n, c)
    BY <1>2 DEF IsContext
  <1> QED BY Zenon, <1>1, <1>2

\* A call other than a task begins.
LEMMA CallBegins ==
    ASSUME NEW s, NEW c, CallsOK(s, c), s # <<>>, NEW f \in Frame, f.kind # "scope"
    PROVE  CallsOK(Append(s, f), c)
  <1> DEFINE r == Append(s, f)
  <1>1. /\ s \in Seq(Frame) /\ r \in Seq(Frame) /\ r # <<>>
        /\ Len(s) \in Nat /\ Len(r) = Len(s) + 1
        /\ \A i \in 1..Len(s) : r[i] = s[i]
        /\ r[Len(s) + 1] = f
    BY Appended DEF CallsOK
  <1> HIDE DEF r
  <1>2. r[1].kind = "scope"
    BY <1>1 DEF CallsOK
  <1>3. IsContext(r, Len(r), c)
    <2>1. IsContext(r, Len(s), c)
      BY Zenon, <1>1, ContextOfPrefix DEF CallsOK
    <2> QED BY <1>1, <2>1, ContextOfCall
  <1>4. ASSUME NEW i \in 1..Len(r), r[i].kind = "scope"
        PROVE  /\ IsContext(r, i - 1, r[i].previous_)
               /\ i > 1 => r[i - 1].kind = "use_case"
    <2>1. i \in 1..Len(s) /\ i - 1 \in Nat /\ s[i].kind = "scope" /\ r[i] = s[i]
      BY <1>1, <1>4
    <2>2. \A j \in 1..i - 1 : r[j] = s[j]
      BY <1>1, <2>1
    <2>3. IsContext(s, i - 1, s[i].previous_) /\ (i > 1 => s[i - 1].kind = "use_case")
      BY Zenon, <2>1 DEF CallsOK
    <2>4. IsContext(r, i - 1, s[i].previous_)
      BY Zenon, <2>1, <2>2, <2>3, ContextOfPrefix
    <2> QED BY <2>1, <2>2, <2>3, <2>4
  <1>5. CallsOK(r, c)
    BY Zenon, <1>1, <1>2, <1>3, <1>4 DEF CallsOK
  <1> QED BY Zenon, <1>5 DEF r

\* CorrelationScope{ctx}
LEMMA ScopeBegins ==
    ASSUME NEW s, NEW c, CallsOK(s, c), s # <<>> => s[Len(s)].kind = "use_case",
           NEW ctx, NEW f \in Frame,
           f.kind = "scope", f.ctx = ctx, f.previous_ = c
    PROVE  CallsOK(Append(s, f), ctx)
  <1> DEFINE r == Append(s, f)
  <1>1. /\ s \in Seq(Frame) /\ r \in Seq(Frame) /\ r # <<>>
        /\ Len(s) \in Nat /\ Len(r) = Len(s) + 1
        /\ \A i \in 1..Len(s) : r[i] = s[i]
        /\ r[Len(s) + 1] = f
        /\ s = <<>> <=> Len(s) = 0
    BY Appended DEF CallsOK
  <1> HIDE DEF r
  <1>2. r[1].kind = "scope"
    <2>1. CASE s = <<>>
      BY <1>1, <2>1
    <2>2. CASE s # <<>>
      BY <1>1, <2>2 DEF CallsOK
    <2> QED BY Zenon, <2>1, <2>2
  <1>3. IsContext(r, Len(r), ctx)
    BY <1>1 DEF IsContext
  <1>4. ASSUME NEW i \in 1..Len(r), r[i].kind = "scope"
        PROVE  /\ IsContext(r, i - 1, r[i].previous_)
               /\ i > 1 => r[i - 1].kind = "use_case"
    <2>1. i - 1 \in Nat /\ (i \in 1..Len(s) \/ i = Len(s) + 1)
      BY <1>1
    <2>2. \A j \in 1..i - 1 : r[j] = s[j]
      BY <1>1, <2>1
    <2>3. CASE i \in 1..Len(s)
      <3>1. IsContext(s, i - 1, s[i].previous_) /\ (i > 1 => s[i - 1].kind = "use_case") /\ r[i] = s[i]
        BY Zenon, <1>1, <1>4, <2>3 DEF CallsOK
      <3>2. IsContext(r, i - 1, s[i].previous_)
        BY Zenon, <2>1, <2>2, <3>1, ContextOfPrefix
      <3> QED BY <2>1, <2>2, <3>1, <3>2
    <2>4. CASE i = Len(s) + 1
      <3>1. r[i].previous_ = c /\ i - 1 = Len(s) /\ IsContext(s, i - 1, c)
        BY <1>1, <2>4 DEF CallsOK
      <3>2. IsContext(r, i - 1, c)
        BY Zenon, <2>1, <2>2, <3>1, ContextOfPrefix
      <3>3. i > 1 => s # <<>> /\ r[i - 1] = s[Len(s)]
        BY <1>1, <2>2, <2>4
      <3> QED BY Zenon, <3>1, <3>2, <3>3
    <2> QED BY Zenon, <2>1, <2>3, <2>4
  <1>5. CallsOK(r, ctx)
    BY Zenon, <1>1, <1>2, <1>3, <1>4 DEF CallsOK
  <1> QED BY Zenon, <1>5 DEF r

\* The innermost call ends: the context is that of the call around it.
LEMMA CallEnds ==
    ASSUME NEW s, NEW c, CallsOK(s, c), s # <<>>
    PROVE  LET b == SubSeq(s, 1, Len(s) - 1)
           IN  /\ s[Len(s)].kind # "scope" => CallsOK(b, c) /\ b # <<>>
               /\ s[Len(s)].kind = "scope" =>
                     /\ CallsOK(b, s[Len(s)].previous_)
                     /\ b # <<>> => b[Len(b)].kind = "use_case"
               /\ b = <<>> <=> Len(s) = 1
               /\ Len(s) \in Nat \ {0}
  <1> DEFINE b == SubSeq(s, 1, Len(s) - 1)
  <1>1. /\ b \in Seq(Frame) /\ Len(s) \in Nat \ {0} /\ Len(b) = Len(s) - 1
        /\ \A i \in 1..Len(s) - 1 : b[i] = s[i]
        /\ b = <<>> <=> Len(s) = 1
    BY Zenon, Shortened DEF CallsOK
  <1> HIDE DEF b
  <1>2. b # <<>> => b[1].kind = "scope"
    BY <1>1 DEF CallsOK
  <1>3. ASSUME NEW i \in 1..Len(b), b[i].kind = "scope"
        PROVE  /\ IsContext(b, i - 1, b[i].previous_)
               /\ i > 1 => b[i - 1].kind = "use_case"
    <2>1. i \in 1..Len(s) /\ i - 1 \in Nat /\ b[i] = s[i] /\ s[i].kind = "scope"
      BY <1>1, <1>3
    <2>2. \A j \in 1..i - 1 : b[j] = s[j]
      BY <1>1, <2>1
    <2>3. IsContext(s, i - 1, s[i].previous_) /\ (i > 1 => s[i - 1].kind = "use_case")
      BY Zenon, <2>1 DEF CallsOK
    <2>4. IsContext(b, i - 1, s[i].previous_)
      BY Zenon, <2>1, <2>2, <2>3, ContextOfPrefix
    <2> QED BY <2>1, <2>2, <2>3, <2>4
  <1>4. ASSUME s[Len(s)].kind # "scope"
        PROVE  CallsOK(b, c) /\ b # <<>>
    <2>1. b # <<>>
      BY Zenon, <1>1, <1>4 DEF CallsOK
    <2>2. Len(b) \in Nat /\ Len(b) + 1 = Len(s)
      BY <1>1
    <2>3. IsContext(s, Len(b), c)
      BY Zenon, <1>4, <2>2, ContextOfCall DEF CallsOK
    <2>4. IsContext(b, Len(b), c)
      BY Zenon, <1>1, <2>2, <2>3, ContextOfPrefix
    <2> QED BY Zenon, <1>1, <1>2, <1>3, <2>1, <2>4 DEF CallsOK
  <1>5. ASSUME s[Len(s)].kind = "scope"
        PROVE  /\ CallsOK(b, s[Len(s)].previous_)
               /\ b # <<>> => b[Len(b)].kind = "use_case"
    <2>1. Len(b) \in Nat /\ Len(b) = Len(s) - 1 /\ Len(s) \in 1..Len(s)
      BY <1>1
    <2>2. IsContext(s, Len(b), s[Len(s)].previous_) /\ (Len(s) > 1 => s[Len(s) - 1].kind = "use_case")
      BY Zenon, <1>5, <2>1 DEF CallsOK
    <2>3. IsContext(b, Len(b), s[Len(s)].previous_)
      BY Zenon, <1>1, <2>1, <2>2, ContextOfPrefix
    <2>4. b # <<>> => Len(s) > 1 /\ b[Len(b)] = s[Len(s) - 1]
      BY <1>1, <2>1
    <2> QED BY Zenon, <1>1, <1>2, <1>3, <2>2, <2>3, <2>4 DEF CallsOK
  <1> QED BY Zenon, <1>1, <1>4, <1>5 DEF b

\* The next wrapper is entered.
LEMMA WrapperEntered ==
    ASSUME NEW w, WrappersOK(w), w # <<>>
    PROVE  /\ WrappersOK(Tail(w))
           /\ Head(w) \in Wrappers
           /\ Head(w) = "use_case" <=> Tail(w) = <<>>
  <1>1. w \in Seq(Wrappers)
    BY Zenon DEF WrappersOK
  <1>2. /\ Len(w) \in Nat \ {0} /\ Tail(w) \in Seq(Wrappers)
        /\ Len(Tail(w)) = Len(w) - 1 /\ Head(w) = w[1] /\ w[1] \in Wrappers
        /\ \A i \in 1..Len(w) - 1 : Tail(w)[i] = w[i + 1]
    BY <1>1, EmptyOrNot
  <1>3. Tail(w) = <<>> <=> Len(Tail(w)) = 0
    BY Zenon, <1>2, EmptyOrNot
  <1>4. \A i \in 1..Len(w) : w[i] = "use_case" <=> i = Len(w)
    BY Zenon DEF WrappersOK
  <1>5. ASSUME NEW i \in 1..Len(Tail(w))
        PROVE  Tail(w)[i] = "use_case" <=> i = Len(Tail(w))
    <2>1. i + 1 \in 1..Len(w) /\ Tail(w)[i] = w[i + 1] /\ (i = Len(Tail(w)) <=> i + 1 = Len(w))
      BY <1>2
    <2> QED BY Zenon, <1>4, <2>1
  <1>6. 1 \in 1..Len(w)
    BY <1>2
  <1>7. Head(w) = "use_case" <=> Len(w) = 1
    BY Zenon, <1>2, <1>4, <1>6
  <1>8. WrappersOK(Tail(w))
    BY Zenon, <1>2, <1>5 DEF WrappersOK
  <1> QED BY <1>2, <1>3, <1>7, <1>8

\* The context found by looking for the innermost task is the one IsContext describes.
LEMMA ContextFound ==
    ASSUME NEW t, NEW c, frames[t] \in Seq(Frame), IsContext(frames[t], Len(frames[t]), c)
    PROVE  ContextOfTask(t) = c
  <1> DEFINE s == frames[t]
  <1>1. DOMAIN s = 1..Len(s) /\ Len(s) \in Nat
    OBVIOUS
  <1>2. CASE \A i \in 1..Len(s) : s[i].kind # "scope"
    BY Zenon, <1>1, <1>2 DEF IsContext, ContextOfTask, IsScope
  <1>3. CASE \E i \in 1..Len(s) : s[i].kind = "scope"
    <2>1. PICK i \in 1..Len(s) : /\ s[i].kind = "scope" /\ s[i].ctx = c
                                 /\ \A j \in i + 1..Len(s) : s[j].kind # "scope"
      BY Zenon, <1>3 DEF IsContext
    <2> DEFINE Is(k) == s[k].kind = "scope" /\ \A j \in DOMAIN s : j > k => s[j].kind # "scope"
    <2>2. Is(i)
      BY <1>1, <2>1
    <2>3. \A k \in DOMAIN s : Is(k) => k = i
      BY <1>1, <2>1, <2>2
    <2>4. (CHOOSE k \in DOMAIN s : Is(k)) = i
      <3> HIDE DEF Is
      <3> QED BY Zenon, <1>1, <2>1, <2>2, <2>3
    <2>5. Innermost(t, "scope") = i
      BY Zenon, <2>4 DEF Innermost
    <2>6. \E k \in DOMAIN frames[t] : IsScope(frames[t][k])
      BY Zenon, <1>1, <2>1 DEF IsScope
    <2> QED BY Zenon, <2>1, <2>5, <2>6 DEF ContextOfTask
  <1> QED BY Zenon, <1>2, <1>3

-----------------------------------------------------------------------------
(* A step of a thread *)

Steps(t, where, s, w, o, c) ==
    /\ going' = [going EXCEPT ![t] = where]
    /\ frames' = [frames EXCEPT ![t] = s]
    /\ todo' = [todo EXCEPT ![t] = w]
    /\ op' = [op EXCEPT ![t] = o]
    /\ tl_current' = [tl_current EXCEPT ![t] = c]

\* A step of one thread that leaves it in order leaves all threads in order.
LEMMA OneThread ==
    ASSUME ThreadsInv, NEW t \in Workers,
           NEW where \in Places \cup Messages, NEW s, NEW w, NEW o \in Ops, NEW c \in Contexts,
           Steps(t, where, s, w, o, c), ThreadOK(where, s, w, o, c)
    PROVE  ThreadsInv'
  <1>1. s \in Seq(Frame) /\ w \in Seq(Wrappers)
    BY Zenon DEF ThreadOK, CallsOK, WrappersOK
  <1>2. t \in Threads /\ t # Monitor
    BY Zenon DEF Workers
  <1>3. /\ going' \in [Workers -> Places \cup Messages]
        /\ frames' \in [Workers -> Seq(Frame)]
        /\ todo' \in [Workers -> Seq(Wrappers)]
        /\ tl_current' \in [Workers -> Contexts]
        /\ op' \in [Threads -> Ops]
        /\ op'[Monitor] = op[Monitor]
    BY Zenon, <1>1, <1>2, ApplicationAssumption DEF ThreadsInv, Steps
  <1>4. ASSUME NEW u \in Workers
        PROVE  ThreadOK(going'[u], frames'[u], todo'[u], op'[u], tl_current'[u])
    <2>1. CASE u = t
      BY Zenon, <1>2, <2>1 DEF ThreadsInv, Steps
    <2>2. CASE u # t
      <3>1. /\ going'[u] = going[u] /\ frames'[u] = frames[u] /\ todo'[u] = todo[u]
            /\ op'[u] = op[u] /\ tl_current'[u] = tl_current[u]
        BY Zenon, <2>2 DEF ThreadsInv, Steps, Workers
      <3> QED BY Zenon, <3>1 DEF ThreadsInv
    <2> QED BY Zenon, <2>1, <2>2
  <1> QED BY Zenon, <1>3, <1>4 DEF ThreadsInv

\* What the invariant says of one thread.
LEMMA OfThread ==
    ASSUME ThreadsInv, NEW t \in Workers
    PROVE  /\ going[t] \in Places \cup Messages
           /\ op[t] \in Ops /\ tl_current[t] \in Contexts
           /\ frames[t] \in Seq(Frame)
           /\ CallsOK(frames[t], tl_current[t]) /\ WrappersOK(todo[t])
           /\ going[t] = "idle" <=> frames[t] = <<>>
           /\ (going[t] = "down" /\ todo[t] = <<>>) \/ going[t] \in {"failed", "counting"} => Top(t).kind = "use_case"
           /\ op[t] # NoOp => \/ going[t] = "down" /\ todo[t] = <<>> /\ op[t].cell = Calls
                              \/ going[t] = "counting" /\ op[t].cell = Errors
  BY Zenon DEF ThreadsInv, ThreadOK, Workers, Top

\* Go() is a step of the thread that keeps its context and its update in progress.
LEMMA GoSteps ==
    ASSUME ThreadsInv, NEW t \in Workers, NEW where, NEW s, NEW w,
           Go(t, where, s, w), UNCHANGED <<op, tl_current>>
    PROVE  Steps(t, where, s, w, op[t], tl_current[t])
  BY Zenon DEF ThreadsInv, Go, Steps, Workers

\* What a wrapper that is entered leaves among the calls of its thread.
LEMMA FrameOfWrapper ==
    ASSUME BusInv, NEW t \in Workers, EnterLogging(t) \/ EnterTracing(t)
    PROVE  \E f \in Frame : \/ f.kind = "logging" /\ Entering(t, "logging") /\ Push(t, f, "down")
                            \/ f.kind = "tracing" /\ Entering(t, "tracing") /\ Push(t, f, "down")
  <1>1. CASE EnterLogging(t)
    <2>1. [kind |-> "logging"] \in Frame /\ [kind |-> "logging"].kind = "logging"
      BY Zenon DEF Frame
    <2> QED BY Zenon, <1>1, <2>1 DEF EnterLogging
  <1>2. CASE EnterTracing(t)
    <2>1. started' = started + 1 /\ Entering(t, "tracing") /\ Push(t, [kind |-> "tracing", serial |-> started'], "down")
      BY Zenon, <1>2 DEF EnterTracing, Tracer!StartSpan
    <2>2. started' \in Nat
      BY <2>1 DEF BusInv
    <2>3. [kind |-> "tracing", serial |-> started'] \in Frame /\ [kind |-> "tracing", serial |-> started'].kind = "tracing"
      BY Zenon, <2>2 DEF Frame
    <2> QED BY Zenon, <2>1, <2>3
  <1> QED BY Zenon, <1>1, <1>2

\* The innermost call, not a task, returns or throws.
LEMMA Returns ==
    ASSUME ThreadsInv, NEW t \in Workers, NEW where \in {"back", "unwinding"},
           going[t] # "idle", Top(t).kind # "scope", op[t] = NoOp,
           Pop(t, where), UNCHANGED <<op, tl_current>>
    PROVE  ThreadsInv'
  <1>1. Steps(t, where, Below(t), <<>>, op[t], tl_current[t])
    BY Zenon, GoSteps DEF Pop
  <1>2. CallsOK(frames[t], tl_current[t]) /\ frames[t] # <<>>
    BY Zenon, OfThread
  <1>3. CallsOK(Below(t), tl_current[t]) /\ Below(t) # <<>>
    BY Zenon, <1>2, CallEnds DEF Top, Below
  <1>4. WrappersOK(<<>>)
    BY DEF WrappersOK
  <1>5. ThreadOK(where, Below(t), <<>>, op[t], tl_current[t])
    BY Zenon, <1>3, <1>4 DEF ThreadOK
  <1> QED BY Zenon, <1>1, <1>5, OneThread, OfThread DEF Places

\* CorrelationScope's constructor, when a task is taken or dispatched.
LEMMA ScopeOpens ==
    ASSUME ThreadsInv, NEW t \in Workers, NEW task \in Tasks, OpenScope(t, task), UNCHANGED op,
           op[t] = NoOp, going[t] = "idle" \/ (going[t] = "down" /\ todo[t] = <<>>)
    PROVE  ThreadsInv'
  <1> DEFINE f == [kind |-> "scope", ctx |-> task.ctx, previous_ |-> tl_current[t]]
  <1>1. Steps(t, task.message, Append(frames[t], f), <<>>, op[t], task.ctx)
    BY Zenon DEF OpenScope, Go, Steps, ThreadsInv, Workers
  <1>2. /\ task.message \in Messages /\ task.message \notin Places /\ task.ctx \in Contexts
    BY Zenon, ApplicationAssumption DEF Contexts
  <1>3. f \in Frame /\ f.kind = "scope" /\ f.ctx = task.ctx /\ f.previous_ = tl_current[t]
    BY Zenon, <1>2, OfThread DEF Frame
  <1>4. frames[t] # <<>> => frames[t][Len(frames[t])].kind = "use_case"
    BY Zenon, OfThread DEF Top
  <1> HIDE DEF f
  <1>5. CallsOK(Append(frames[t], f), task.ctx)
    BY Zenon, <1>3, <1>4, ScopeBegins, OfThread
  <1>6. Append(frames[t], f) # <<>>
    BY <1>3, OfThread, Appended
  <1>7. WrappersOK(<<>>)
    BY DEF WrappersOK
  <1>8. ThreadOK(task.message, Append(frames[t], f), <<>>, op[t], task.ctx)
    BY Zenon, <1>2, <1>5, <1>6, <1>7 DEF ThreadOK, Places
  <1> QED BY Zenon, <1>1, <1>2, <1>8, OneThread, OfThread

\* A wrapper, or the handler proper, is entered.
LEMMA WrapperBegins ==
    ASSUME ThreadsInv, NEW t \in Workers, NEW wrapper \in {"logging", "tracing", "use_case"},
           NEW f \in Frame, f.kind = wrapper, NEW o \in Ops,
           Entering(t, wrapper), Push(t, f, "down"), UNCHANGED tl_current,
           op' = [op EXCEPT ![t] = o],
           o # NoOp => wrapper = "use_case" /\ o.cell = Calls
    PROVE  ThreadsInv'
  <1>1. Steps(t, "down", Append(frames[t], f), Tail(todo[t]), o, tl_current[t])
    BY Zenon DEF Push, Go, Steps, ThreadsInv
  <1>2. /\ WrappersOK(Tail(todo[t]))
        /\ Tail(todo[t]) = <<>> <=> wrapper = "use_case"
    BY Zenon, WrapperEntered, OfThread DEF Entering
  <1>3. CallsOK(frames[t], tl_current[t]) /\ frames[t] # <<>> /\ frames[t] \in Seq(Frame)
    BY Zenon, OfThread DEF Entering
  <1>4. CallsOK(Append(frames[t], f), tl_current[t])
    BY Zenon, <1>3, CallBegins
  <1>5. /\ Append(frames[t], f) # <<>>
        /\ Append(frames[t], f)[Len(Append(frames[t], f))].kind = wrapper
    BY <1>3, Appended
  <1>6. ThreadOK("down", Append(frames[t], f), Tail(todo[t]), o, tl_current[t])
    BY Zenon, <1>2, <1>4, <1>5 DEF ThreadOK
  <1> QED BY Zenon, <1>1, <1>6, OneThread, OfThread DEF Places

\* The thread goes on with the same calls.
LEMMA SameCalls ==
    ASSUME ThreadsInv, NEW t \in Workers, NEW where \in Places, NEW w, NEW o \in Ops,
           going[t] # "idle", where # "idle", WrappersOK(w),
           Go(t, where, frames[t], w), UNCHANGED tl_current, op' = [op EXCEPT ![t] = o],
           (where = "down" /\ w = <<>>) \/ where \in {"failed", "counting"} => Top(t).kind = "use_case",
           o # NoOp => \/ where = "down" /\ w = <<>> /\ o.cell = Calls
                       \/ where = "counting" /\ o.cell = Errors
    PROVE  ThreadsInv'
  <1>1. Steps(t, where, frames[t], w, o, tl_current[t])
    BY Zenon DEF Go, Steps, ThreadsInv
  <1>2. ThreadOK(where, frames[t], w, o, tl_current[t])
    BY Zenon, OfThread DEF ThreadOK, Top
  <1> QED BY Zenon, <1>1, <1>2, OneThread, OfThread

\* increment() and gauge() by one thread: what each part leaves in op.
LEMMA OpOfThread ==
    ASSUME op \in [Threads -> Ops], NEW t \in Threads
    PROVE  /\ \A kind, name, value : Find(t, kind, name, value) =>
                 \E o : /\ o = [at |-> IF <<kind, name>> \in DOMAIN cells THEN "write" ELSE "insert",
                                cell |-> <<kind, name>>, value |-> value]
                        /\ op' = [op EXCEPT ![t] = o]
           /\ Insert(t) => \E o \in Ops : /\ op' = [op EXCEPT ![t] = o]
                                          /\ o.at = "write" /\ o.cell = op[t].cell /\ o # NoOp
           /\ Write(t) => op' = [op EXCEPT ![t] = NoOp]
           /\ op[t].at \in {"insert", "write"} => op[t] # NoOp
  <1>1. ASSUME Insert(t)
        PROVE  \E o \in Ops : /\ op' = [op EXCEPT ![t] = o]
                              /\ o.at = "write" /\ o.cell = op[t].cell /\ o # NoOp
    <2>1. op[t] \in [at : {"insert", "write"}, cell : {Calls, Errors, Load}, value : {0} \cup Durations]
      BY <1>1 DEF Insert, Ops, NoOp
    <2>2. /\ [op[t] EXCEPT !.at = "write"] \in Ops
          /\ [op[t] EXCEPT !.at = "write"].at = "write"
          /\ [op[t] EXCEPT !.at = "write"].cell = op[t].cell
          /\ [op[t] EXCEPT !.at = "write"] # NoOp
      BY Zenon, <2>1 DEF Ops, NoOp
    <2>3. op' = [op EXCEPT ![t] = [op[t] EXCEPT !.at = "write"]]
      BY Zenon, <1>1 DEF Insert
    <2> QED BY Zenon, <2>2, <2>3
  <1> QED BY <1>1 DEF Find, Write, NoOp

\* Threads have only the calls, wrappers, contexts and updates they should.
LEMMA NextThreadsInv == ThreadsInv /\ BusInv /\ [StackNext]_all_vars => ThreadsInv'
  <1> SUFFICES ASSUME ThreadsInv, BusInv, [StackNext]_all_vars
               PROVE  ThreadsInv'
    BY Zenon
  <1>0. /\ op \in [Threads -> Ops] /\ NoOp \in Ops /\ WrappersOK(<<>>)
        /\ \A t \in Workers : t \in Threads
    BY DEF ThreadsInv, Ops, WrappersOK, Workers
  <1>1. ASSUME UNCHANGED <<going, frames, todo, tl_current, op>>
        PROVE  ThreadsInv'
    BY Zenon, <1>1 DEF ThreadsInv
  <1>2. ASSUME NEW t \in Workers, Take(t)
        PROVE  ThreadsInv'
    <2>1. Head(queue) \in Tasks /\ OpenScope(t, Head(queue)) /\ UNCHANGED op /\ going[t] = "idle"
      BY Zenon, <1>2, EmptyOrNot DEF Take, BusInv, metrics_vars
    <2>2. op[t] = NoOp
      BY Zenon, <2>1, OfThread
    <2> QED BY Zenon, <2>1, <2>2, ScopeOpens
  <1>3. ASSUME NEW t \in Workers, CloseScope(t)
        PROVE  ThreadsInv'
    <2> DEFINE where == IF Len(frames[t]) = 1 THEN "idle" ELSE IF going[t] = "back" THEN "down" ELSE going[t]
    <2>1. /\ going[t] \in {"back", "unwinding"} /\ Top(t).kind = "scope" /\ UNCHANGED op
          /\ Steps(t, where, Below(t), <<>>, op[t], Top(t).previous_)
      BY Zenon, <1>3 DEF CloseScope, IsScope, metrics_vars, Pop, Go, Steps, ThreadsInv, Workers
    <2>2. CallsOK(frames[t], tl_current[t]) /\ frames[t] # <<>> /\ op[t] = NoOp /\ frames[t] \in Seq(Frame)
      BY Zenon, <2>1, OfThread
    <2>3. /\ CallsOK(Below(t), Top(t).previous_)
          /\ Below(t) # <<>> => Below(t)[Len(Below(t))].kind = "use_case"
          /\ Below(t) = <<>> <=> Len(frames[t]) = 1
          /\ Len(frames[t]) \in Nat \ {0}
      BY Zenon, <2>1, <2>2, CallEnds DEF Top, Below
    <2>4. Top(t) \in Frame
      BY <2>2, <2>3 DEF Top
    <2>5. Top(t).previous_ \in Contexts
      BY Zenon, <2>1, <2>4 DEF Frame
    <2>6. where \in Places /\ (where = "idle" <=> Below(t) = <<>>) /\ where \in {"idle", "down", "unwinding"}
      BY Zenon, <2>1, <2>3 DEF Places
    <2> HIDE DEF where
    <2>7. ThreadOK(where, Below(t), <<>>, op[t], Top(t).previous_)
      BY Zenon, <1>0, <2>2, <2>3, <2>6 DEF ThreadOK
    <2> QED BY Zenon, <1>0, <2>1, <2>2, <2>5, <2>6, <2>7, OneThread
  <1>4. ASSUME NEW t \in Workers, NEW type \in TypesOf(going[t]), Send(t, type)
        PROVE  ThreadsInv'
    <2>1. going[t] \in Messages /\ UNCHANGED <<op, tl_current>> /\ going[t] \notin Places
      BY Zenon, <1>4, ApplicationAssumption DEF Send, metrics_vars
    <2>2. going[t] # "idle" /\ op[t] = NoOp /\ frames[t] # <<>> /\ op' = [op EXCEPT ![t] = NoOp]
      BY Zenon, <1>0, <2>1, OfThread DEF Places
    <2>3. CASE going[t] \in DOMAIN handlers_
      <3> DEFINE f == [kind |-> "send", message |-> going[t], type |-> type]
                 chain == handlers_[going[t]].chain
      <3>1. Go(t, "down", Append(frames[t], f), chain)
        BY Zenon, <1>4, <2>3 DEF Send
      <3>2. f \in Frame /\ f.kind = "send"
        BY Zenon, <1>4, <2>1 DEF Frame, TypesOf
      <3>3. WrappersOK(chain) /\ chain # <<>>
        BY Zenon, <2>3, ApplicationAssumption DEF BusInv, WrappersOK, Wrappers
      <3> HIDE DEF f, chain
      <3>4. Steps(t, "down", Append(frames[t], f), chain, op[t], tl_current[t])
        BY Zenon, <2>1, <3>1, GoSteps
      <3>5. CallsOK(Append(frames[t], f), tl_current[t])
        BY Zenon, <2>2, <3>2, CallBegins, OfThread
      <3>6. Append(frames[t], f) # <<>>
        BY <3>2, Appended, OfThread
      <3>7. ThreadOK("down", Append(frames[t], f), chain, op[t], tl_current[t])
        BY Zenon, <2>2, <3>3, <3>5, <3>6 DEF ThreadOK
      <3> QED BY Zenon, <3>4, <3>7, OneThread, OfThread DEF Places
    <2>4. CASE going[t] \notin DOMAIN handlers_
      <3>1. Go(t, "unwinding", frames[t], <<>>)
        BY Zenon, <1>4, <2>4 DEF Send
      <3> QED BY Zenon, <1>0, <2>1, <2>2, <3>1, SameCalls DEF Places
    <2> QED BY Zenon, <2>3, <2>4
  <1>5. ASSUME NEW t \in Workers, NEW where \in {"back", "unwinding"}, going[t] \in {"back", "unwinding"},
               Top(t).kind # "scope", Pop(t, where), UNCHANGED <<op, tl_current>>
        PROVE  ThreadsInv'
    <2>1. op[t] = NoOp
      BY Zenon, <1>5, OfThread
    <2> QED BY Zenon, <1>5, <2>1, Returns
  <1>6. ASSUME NEW t \in Workers, NEW wrapper \in {"logging", "tracing"}, NEW f \in Frame, f.kind = wrapper,
               Entering(t, wrapper), Push(t, f, "down"), UNCHANGED <<op, tl_current>>
        PROVE  ThreadsInv'
    <2>1. op[t] = NoOp
      BY Zenon, <1>6, OfThread DEF Entering
    <2>2. op' = [op EXCEPT ![t] = NoOp]
      BY Zenon, <1>0, <1>6, <2>1
    <2> QED BY Zenon, <1>0, <1>6, <2>1, <2>2, WrapperBegins
  <1>7. ASSUME NEW t \in Workers, Validate(t)
        PROVE  ThreadsInv'
    <2>1. /\ going[t] = "down" /\ todo[t] # <<>> /\ Head(todo[t]) = "validation"
          /\ UNCHANGED <<op, tl_current>>
      BY Zenon, <1>7 DEF Validate, Entering, metrics_vars
    <2>2. op[t] = NoOp /\ op' = [op EXCEPT ![t] = NoOp]
      BY Zenon, <1>0, <2>1, OfThread
    <2>3. WrappersOK(Tail(todo[t])) /\ Tail(todo[t]) # <<>>
      BY Zenon, <2>1, WrapperEntered, OfThread
    <2>4. CASE Go(t, "down", frames[t], Tail(todo[t]))
      BY Zenon, <1>0, <2>1, <2>2, <2>3, <2>4, SameCalls DEF Places
    <2>5. CASE Go(t, "unwinding", frames[t], <<>>)
      BY Zenon, <1>0, <2>1, <2>2, <2>5, SameCalls DEF Places
    <2> QED BY Zenon, <1>7, <2>4, <2>5 DEF Validate
  <1>8. ASSUME NEW t \in Workers, Execute(t)
        PROVE  ThreadsInv'
    <2>1. PICK o : /\ o = [at |-> IF Calls \in DOMAIN cells THEN "write" ELSE "insert",
                           cell |-> Calls, value |-> 0]
                   /\ op' = [op EXCEPT ![t] = o]
      BY <1>0, <1>8, OpOfThread DEF Execute, Calls
    <2>2. o \in Ops /\ o.cell = Calls /\ [kind |-> "use_case"] \in Frame
      BY Zenon, <2>1 DEF Ops, Frame
    <2> QED BY Zenon, <1>8, <2>1, <2>2, WrapperBegins DEF Execute, OthersUnchanged
  <1>9. ASSUME NEW t \in Workers, Count(t)
        PROVE  ThreadsInv'
    <2>1. UNCHANGED <<going, frames, todo, tl_current>>
      BY Zenon, <1>9 DEF Count, OthersUnchanged, call_vars
    <2>2. Go(t, going[t], frames[t], todo[t])
      BY Zenon, <2>1 DEF Go, ThreadsInv
    <2>3. op[t] # NoOp
      BY Zenon, <1>0, <1>9, OpOfThread DEF Count, Insert, Write
    <2>4. PICK o \in Ops : op' = [op EXCEPT ![t] = o] /\ (o = NoOp \/ o.cell = op[t].cell)
      BY Zenon, <1>0, <1>9, OpOfThread DEF Count
    <2>5. going[t] \in {"down", "counting"} /\ going[t] \in Places /\ WrappersOK(todo[t])
      BY Zenon, <2>3, OfThread DEF Places
    <2> QED BY Zenon, <2>1, <2>2, <2>3, <2>4, <2>5, SameCalls, OfThread
  <1>10. ASSUME NEW t \in Workers, NEW task \in Tasks, Dispatch(t, task)
         PROVE  ThreadsInv'
    BY Zenon, <1>10, ScopeOpens DEF Dispatch, InUseCase, metrics_vars
  <1>11. ASSUME NEW t \in Workers, NEW where \in {"back", "unwinding"}, InUseCase(t),
                Pop(t, where), UNCHANGED <<op, tl_current>>
         PROVE  ThreadsInv'
    BY Zenon, <1>11, OfThread, Returns DEF InUseCase
  <1>12. ASSUME NEW t \in Workers, NEW d \in Durations, ExecuteFails(t, d)
         PROVE  ThreadsInv'
    <2>1. /\ going[t] = "down" /\ todo[t] = <<>> /\ op[t] = NoOp /\ Go(t, "failed", frames[t], <<>>)
          /\ UNCHANGED <<op, tl_current>>
      BY Zenon, <1>12 DEF ExecuteFails, InUseCase, Histogram, OthersUnchanged
    <2>2. op' = [op EXCEPT ![t] = NoOp] /\ Top(t).kind = "use_case"
      BY Zenon, <1>0, <2>1, OfThread
    <2> QED BY Zenon, <1>0, <2>1, <2>2, SameCalls DEF Places
  <1>13. ASSUME NEW t \in Workers, CountError(t)
         PROVE  ThreadsInv'
    <2>1. PICK o : /\ o = [at |-> IF Errors \in DOMAIN cells THEN "write" ELSE "insert",
                           cell |-> Errors, value |-> 0]
                   /\ op' = [op EXCEPT ![t] = o]
      BY <1>0, <1>13, OpOfThread DEF CountError, Errors
    <2>2. o \in Ops /\ o.cell = Errors
      BY Zenon, <2>1 DEF Ops
    <2>3. /\ going[t] = "failed" /\ Go(t, "counting", frames[t], <<>>) /\ UNCHANGED tl_current
      BY Zenon, <1>13 DEF CountError, OthersUnchanged
    <2> QED BY Zenon, <1>0, <2>1, <2>2, <2>3, SameCalls, OfThread DEF Places
  <1>14. ASSUME NEW t \in Workers, ErrorCounted(t)
         PROVE  ThreadsInv'
    <2>1. /\ going[t] = "counting" /\ op[t] = NoOp /\ Pop(t, "back") /\ UNCHANGED <<op, tl_current>>
      BY Zenon, <1>14 DEF ErrorCounted, OthersUnchanged, metrics_vars
    <2> QED BY Zenon, <2>1, Returns, OfThread
  <1>15. CASE Observe
    <2>1. UNCHANGED <<going, frames, todo, tl_current>> /\ Monitor \in Threads
      BY Zenon, <1>15, ApplicationAssumption DEF Observe, call_vars
    <2>2. UNCHANGED op \/ \E o \in Ops : op' = [op EXCEPT ![Monitor] = o] /\ (o # NoOp => o.cell = Load)
      <3>1. ASSUME NEW v \in Durations, Find(Monitor, "gauge", "load", v)
            PROVE  \E o \in Ops : op' = [op EXCEPT ![Monitor] = o] /\ (o # NoOp => o.cell = Load)
        <4>1. PICK o : /\ o = [at |-> IF Load \in DOMAIN cells THEN "write" ELSE "insert",
                               cell |-> Load, value |-> v]
                       /\ op' = [op EXCEPT ![Monitor] = o]
          BY <1>0, <2>1, <3>1, OpOfThread DEF Load
        <4>2. o \in Ops /\ o.cell = Load
          BY Zenon, <4>1 DEF Ops
        <4> QED BY Zenon, <4>1, <4>2
      <3>2. ASSUME Insert(Monitor)
            PROVE  \E o \in Ops : op' = [op EXCEPT ![Monitor] = o] /\ (o # NoOp => o.cell = Load)
        <4>1. op[Monitor] # NoOp
          BY Zenon, <1>0, <2>1, <3>2, OpOfThread DEF Insert
        <4> QED BY SMTT(20), <1>0, <2>1, <3>2, <4>1, OpOfThread DEF ThreadsInv
      <3>3. ASSUME Write(Monitor)
            PROVE  \E o \in Ops : op' = [op EXCEPT ![Monitor] = o] /\ (o # NoOp => o.cell = Load)
        BY Zenon, <1>0, <2>1, <3>3, OpOfThread
      <3> QED BY Zenon, <1>15, <3>1, <3>2, <3>3 DEF Observe, BeginWalk, Visit, EndWalk
    <2>3. CASE UNCHANGED op
      BY Zenon, <1>1, <2>1, <2>3
    <2>4. ASSUME NEW o \in Ops, op' = [op EXCEPT ![Monitor] = o], o # NoOp => o.cell = Load
          PROVE  ThreadsInv'
      <3>1. op' \in [Threads -> Ops] /\ op'[Monitor] = o /\ \A t \in Workers : op'[t] = op[t]
        BY Zenon, <1>0, <2>1, <2>4 DEF Workers
      <3> QED BY Zenon, <2>1, <2>4, <3>1 DEF ThreadsInv
    <2> QED BY Zenon, <2>2, <2>3, <2>4
  <1>16. ASSUME NEW t \in Workers, Sent(t)
         PROVE  ThreadsInv'
    <2>1. PICK where \in {"back", "unwinding"} : Pop(t, where)
      BY Zenon, <1>16 DEF Sent
    <2> QED BY Zenon, <1>5, <1>16, <2>1 DEF Sent, metrics_vars
  <1>17. ASSUME NEW t \in Workers, LeaveLogging(t)
         PROVE  ThreadsInv'
    BY Zenon, <1>5, <1>17 DEF LeaveLogging, Leaving, metrics_vars
  <1>18. ASSUME NEW t \in Workers, LeaveTracing(t)
         PROVE  ThreadsInv'
    BY Zenon, <1>5, <1>18 DEF LeaveTracing, Leaving, metrics_vars
  <1>19. ASSUME NEW t \in Workers, ExecuteThrows(t)
         PROVE  ThreadsInv'
    BY Zenon, <1>5, <1>11, <1>19 DEF ExecuteThrows, Leaving, metrics_vars, OthersUnchanged
  <1>20. ASSUME NEW t \in Workers, NEW d \in Durations, ExecuteReturns(t, d)
         PROVE  ThreadsInv'
    BY Zenon, <1>11, <1>20 DEF ExecuteReturns, Histogram, OthersUnchanged
  <1>21. ASSUME NEW t \in Workers, EnterLogging(t) \/ EnterTracing(t)
         PROVE  ThreadsInv'
    <2>1. PICK f \in Frame : \/ f.kind = "logging" /\ Entering(t, "logging") /\ Push(t, f, "down")
                             \/ f.kind = "tracing" /\ Entering(t, "tracing") /\ Push(t, f, "down")
      BY Zenon, <1>21, FrameOfWrapper
    <2> QED BY Zenon, <1>6, <1>21, <2>1 DEF EnterLogging, EnterTracing, metrics_vars
  <1>22. ASSUME \/ \E m \in Messages : \E chain \in ChainsOf(m), type \in TypesOf(m) : Register(m, chain, type)
                \/ \E task \in Tasks : Post(task)
                \/ Waiting
                \/ UNCHANGED all_vars
         PROVE  ThreadsInv'
    BY Zenon, <1>1, <1>22 DEF Register, Post, Waiting, all_vars, metrics_vars, call_vars
  <1> QED
    BY Zenon, <1>2, <1>3, <1>4, <1>7, <1>8, <1>9, <1>10, <1>12, <1>13, <1>14, <1>15, <1>16, <1>17, <1>18,
       <1>19, <1>20, <1>21, <1>22 DEF StackNext

\* Registered handlers end with the handler proper; queued tasks are tasks; spans are
\* numbered.
LEMMA NextBusInv == BusInv /\ [StackNext]_all_vars => BusInv'
  <1> SUFFICES ASSUME BusInv, [StackNext]_all_vars
               PROVE  BusInv'
    BY Zenon
  <1>1. ASSUME NEW m \in Messages, NEW chain \in ChainsOf(m), NEW type \in TypesOf(m), Register(m, chain, type)
        PROVE  BusInv'
    BY Zenon, <1>1 DEF Register, BusInv, ChainsOf, Assign, tracer_vars
  <1>2. ASSUME NEW task \in Tasks, Post(task)
        PROVE  BusInv'
    BY <1>2 DEF Post, BusInv, tracer_vars
  <1>3. ASSUME NEW t \in Workers, Take(t)
        PROVE  BusInv'
    BY Zenon, <1>3, EmptyOrNot DEF Take, BusInv, tracer_vars
  <1>4. ASSUME UNCHANGED <<queue, handlers_, started>>
        PROVE  BusInv'
    BY Zenon, <1>4 DEF BusInv
  <1>5. ASSUME NEW t \in Workers, EnterTracing(t)
        PROVE  BusInv'
    <2>1. started' = started + 1 /\ UNCHANGED <<queue, handlers_>>
      BY Zenon, <1>5 DEF EnterTracing, Tracer!StartSpan
    <2>2. started' \in Nat
      BY <2>1 DEF BusInv
    <2> QED BY Zenon, <2>1, <2>2 DEF BusInv
  <1> QED
    BY Zenon, <1>1, <1>2, <1>3, <1>4, <1>5
    DEF StackNext, CloseScope, Send, Sent, EnterLogging, LeaveLogging, LeaveTracing,
        Validate, Execute, Count, Dispatch, ExecuteThrows, ExecuteReturns, ExecuteFails, CountError,
        ErrorCounted, Observe, Waiting, OthersUnchanged, all_vars, tracer_vars, Tracer!tracer_vars,
        Tracer!EndSpan, Tracer!EndSpanThrows

-----------------------------------------------------------------------------
(* Sets of calls and of threads that differ in one element *)

One(b) == IF b THEN 1 ELSE 0

\* Finite sets that differ in at most one element differ by at most one in size: the
\* law the accounts of spans and metrics rest on, shown at the end of MetricsProofs.
Counting ==
    \A A, B, x : IsFiniteSet(A) /\ (\A y : y # x => (y \in A <=> y \in B)) =>
        /\ IsFiniteSet(B)
        /\ Cardinality(A) \in Nat /\ Cardinality(B) \in Nat
        /\ Cardinality(B) + One(x \in A) = Cardinality(A) + One(x \in B)

\* A call that the thread makes or ends is one element of Frames of its kind.
LEMMA FrameElements ==
    ASSUME frames \in [Workers -> Seq(Frame)], NEW kind
    PROVE  \A f : f \in Frames(kind) <=>
              \E t \in Workers : \E i \in DOMAIN frames[t] : f = <<t, i>> /\ frames[t][i].kind = kind
  BY DEF Frames

Pushed(f, kind) ==
    IsFiniteSet(Frames(kind)) =>
        /\ IsFiniteSet(Frames(kind)') /\ Cardinality(Frames(kind)) \in Nat
        /\ Cardinality(Frames(kind)') = Cardinality(Frames(kind)) + One(f.kind = kind)

Popped(f, kind) ==
    IsFiniteSet(Frames(kind)) =>
        /\ IsFiniteSet(Frames(kind)')
        /\ Cardinality(Frames(kind)) \in Nat /\ Cardinality(Frames(kind)') \in Nat
        /\ Cardinality(Frames(kind)') + One(f.kind = kind) = Cardinality(Frames(kind))

\* A call begins: one frame more of its kind, and of no other.
LEMMA FramesPushed ==
    ASSUME Counting, frames \in [Workers -> Seq(Frame)], NEW t \in Workers, NEW f \in Frame, NEW kind,
           frames' = [frames EXCEPT ![t] = Append(frames[t], f)]
    PROVE  Pushed(f, kind)
  <1> SUFFICES ASSUME IsFiniteSet(Frames(kind))
               PROVE  /\ IsFiniteSet(Frames(kind)') /\ Cardinality(Frames(kind)) \in Nat
                      /\ Cardinality(Frames(kind)') = Cardinality(Frames(kind)) + One(f.kind = kind)
    BY Zenon DEF Pushed
  <1> DEFINE n == Len(frames[t])
             A == Frames(kind)
             B == Frames(kind)'
  <1>1. /\ n \in Nat /\ DOMAIN frames[t] = 1..n /\ frames'[t] \in Seq(Frame) /\ DOMAIN frames'[t] = 1..n + 1
        /\ \A i \in 1..n : frames'[t][i] = frames[t][i]
        /\ frames'[t][n + 1] = f
        /\ \A u \in Workers : u # t => frames'[u] = frames[u]
    BY Appended
  <1>2. frames' \in [Workers -> Seq(Frame)]
    BY Zenon, <1>1
  <1>3. \A g : g \in A <=> \E u \in Workers : \E i \in DOMAIN frames[u] : g = <<u, i>> /\ frames[u][i].kind = kind
    BY Zenon, FrameElements
  <1>4. \A g : g \in B <=> \E u \in Workers : \E i \in DOMAIN frames'[u] : g = <<u, i>> /\ frames'[u][i].kind = kind
    BY <1>2 DEF Frames
  <1>5. <<t, n + 1>> \notin A /\ (<<t, n + 1>> \in B <=> f.kind = kind)
    BY <1>1, <1>3, <1>4
  <1>6. ASSUME NEW g, g # <<t, n + 1>>
        PROVE  g \in A <=> g \in B
    <2>1. ASSUME g \in A PROVE g \in B
      <3>1. PICK u \in Workers : \E i \in DOMAIN frames[u] : g = <<u, i>> /\ frames[u][i].kind = kind
        BY Zenon, <1>3, <2>1
      <3>2. PICK i \in DOMAIN frames[u] : g = <<u, i>> /\ frames[u][i].kind = kind
        BY Zenon, <3>1
      <3>3. i \in DOMAIN frames'[u] /\ frames'[u][i] = frames[u][i]
        BY <1>1, <3>2
      <3> QED BY Zenon, <1>4, <3>2, <3>3
    <2>2. ASSUME g \in B PROVE g \in A
      <3>1. PICK u \in Workers : \E i \in DOMAIN frames'[u] : g = <<u, i>> /\ frames'[u][i].kind = kind
        BY Zenon, <1>4, <2>2
      <3>2. PICK i \in DOMAIN frames'[u] : g = <<u, i>> /\ frames'[u][i].kind = kind
        BY Zenon, <3>1
      <3>3. i \in DOMAIN frames[u] /\ frames'[u][i] = frames[u][i]
        BY <1>1, <1>6, <3>2
      <3> QED BY Zenon, <1>3, <3>2, <3>3
    <2> QED BY Zenon, <2>1, <2>2
  <1> HIDE DEF A, B, n
  <1>7. IsFiniteSet(A)
    BY Zenon DEF A
  <1>8. IsFiniteSet(B) /\ Cardinality(A) \in Nat /\ Cardinality(B) \in Nat
        /\ Cardinality(B) + One(<<t, n + 1>> \in A) = Cardinality(A) + One(<<t, n + 1>> \in B)
    BY ZenonT(40), <1>6, <1>7 DEF Counting
  <1>9. Cardinality(B) = Cardinality(A) + One(f.kind = kind)
    BY <1>5, <1>8 DEF One
  <1> QED BY Zenon, <1>8, <1>9 DEF A, B

\* A call ends: one frame less of its kind, and of no other.
LEMMA FramesPopped ==
    ASSUME Counting, frames \in [Workers -> Seq(Frame)], NEW t \in Workers, frames[t] # <<>>, NEW kind,
           NEW f, f = Top(t), frames' = [frames EXCEPT ![t] = Below(t)]
    PROVE  Popped(f, kind)
  <1> SUFFICES ASSUME IsFiniteSet(Frames(kind))
               PROVE  /\ IsFiniteSet(Frames(kind)')
                      /\ Cardinality(Frames(kind)) \in Nat /\ Cardinality(Frames(kind)') \in Nat
                      /\ Cardinality(Frames(kind)') + One(f.kind = kind) = Cardinality(Frames(kind))
    BY Zenon DEF Popped
  <1> DEFINE n == Len(frames[t])
             A == Frames(kind)
             B == Frames(kind)'
  <1>1. /\ n \in Nat \ {0} /\ DOMAIN frames[t] = 1..n /\ frames'[t] \in Seq(Frame) /\ DOMAIN frames'[t] = 1..n - 1
        /\ \A i \in 1..n - 1 : frames'[t][i] = frames[t][i]
        /\ frames[t][n] = f
        /\ \A u \in Workers : u # t => frames'[u] = frames[u]
    BY Shortened DEF Below, Top
  <1>2. frames' \in [Workers -> Seq(Frame)]
    BY Zenon, <1>1
  <1>3. \A g : g \in A <=> \E u \in Workers : \E i \in DOMAIN frames[u] : g = <<u, i>> /\ frames[u][i].kind = kind
    BY Zenon, FrameElements
  <1>4. \A g : g \in B <=> \E u \in Workers : \E i \in DOMAIN frames'[u] : g = <<u, i>> /\ frames'[u][i].kind = kind
    BY <1>2 DEF Frames
  <1>5. <<t, n>> \notin B /\ (<<t, n>> \in A <=> f.kind = kind)
    BY <1>1, <1>3, <1>4
  <1>6. ASSUME NEW g, g # <<t, n>>
        PROVE  g \in A <=> g \in B
    <2>1. ASSUME g \in A PROVE g \in B
      <3>1. PICK u \in Workers : \E i \in DOMAIN frames[u] : g = <<u, i>> /\ frames[u][i].kind = kind
        BY Zenon, <1>3, <2>1
      <3>2. PICK i \in DOMAIN frames[u] : g = <<u, i>> /\ frames[u][i].kind = kind
        BY Zenon, <3>1
      <3>3. i \in DOMAIN frames'[u] /\ frames'[u][i] = frames[u][i]
        BY <1>1, <1>6, <3>2
      <3> QED BY Zenon, <1>4, <3>2, <3>3
    <2>2. ASSUME g \in B PROVE g \in A
      <3>1. PICK u \in Workers : \E i \in DOMAIN frames'[u] : g = <<u, i>> /\ frames'[u][i].kind = kind
        BY Zenon, <1>4, <2>2
      <3>2. PICK i \in DOMAIN frames'[u] : g = <<u, i>> /\ frames'[u][i].kind = kind
        BY Zenon, <3>1
      <3>3. i \in DOMAIN frames[u] /\ frames'[u][i] = frames[u][i]
        BY <1>1, <3>2
      <3> QED BY Zenon, <1>3, <3>2, <3>3
    <2> QED BY Zenon, <2>1, <2>2
  <1> HIDE DEF A, B, n
  <1>7. IsFiniteSet(A)
    BY Zenon DEF A
  <1>8. IsFiniteSet(B) /\ Cardinality(A) \in Nat /\ Cardinality(B) \in Nat
        /\ Cardinality(B) + One(<<t, n>> \in A) = Cardinality(A) + One(<<t, n>> \in B)
    BY ZenonT(40), <1>6, <1>7 DEF Counting
  <1>9. Cardinality(B) + One(f.kind = kind) = Cardinality(A)
    BY <1>5, <1>8 DEF One
  <1> QED BY Zenon, <1>8, <1>9 DEF A, B

\* What a thread that has moved to where with the operation o has changed in the
\* sets of threads that MetricsAccounted counts.
Moved(t, where, o) ==
    /\ IsFiniteSet(Uncalled') /\ IsFiniteSet(Erring') /\ IsFiniteSet(Uncounted')
    /\ Cardinality(Uncalled) \in Nat /\ Cardinality(Uncalled') \in Nat
    /\ Cardinality(Erring) \in Nat /\ Cardinality(Erring') \in Nat
    /\ Cardinality(Uncounted) \in Nat /\ Cardinality(Uncounted') \in Nat
    /\ Cardinality(Uncalled') + One(going[t] = "down" /\ op[t] # NoOp)
          = Cardinality(Uncalled) + One(where = "down" /\ o # NoOp)
    /\ Cardinality(Erring') + One(going[t] \in {"failed", "counting"})
          = Cardinality(Erring) + One(where \in {"failed", "counting"})
    /\ Cardinality(Uncounted') + One(going[t] = "failed" \/ (going[t] = "counting" /\ op[t] # NoOp))
          = Cardinality(Uncounted) + One(where = "failed" \/ (where = "counting" /\ o # NoOp))

\* A thread that moves enters or leaves the sets of threads that MetricsAccounted counts.
LEMMA ThreadsMoved ==
    ASSUME Counting, ThreadsInv, NEW t \in Workers, NEW where, NEW s, NEW w, NEW o, NEW c,
           Steps(t, where, s, w, o, c),
           IsFiniteSet(Uncalled), IsFiniteSet(Erring), IsFiniteSet(Uncounted)
    PROVE  Moved(t, where, o)
  <1>1. /\ going'[t] = where /\ op'[t] = o
        /\ \A u \in Workers : u # t => going'[u] = going[u] /\ op'[u] = op[u]
    BY Zenon DEF ThreadsInv, Steps, Workers
  <1>2. /\ t \in Uncalled <=> going[t] = "down" /\ op[t] # NoOp
        /\ t \in Uncalled' <=> where = "down" /\ o # NoOp
    BY Zenon, <1>1 DEF Uncalled
  <1>3. /\ t \in Erring <=> going[t] \in {"failed", "counting"}
        /\ t \in Erring' <=> where \in {"failed", "counting"}
    BY Zenon, <1>1 DEF Erring
  <1>4. /\ t \in Uncounted <=> going[t] = "failed" \/ (going[t] = "counting" /\ op[t] # NoOp)
        /\ t \in Uncounted' <=> where = "failed" \/ (where = "counting" /\ o # NoOp)
    BY Zenon, <1>1 DEF Uncounted
  <1>5. /\ IsFiniteSet(Uncalled') /\ Cardinality(Uncalled) \in Nat /\ Cardinality(Uncalled') \in Nat
        /\ Cardinality(Uncalled') + One(t \in Uncalled) = Cardinality(Uncalled) + One(t \in Uncalled')
    <2>1. \A u : u # t => (u \in Uncalled <=> u \in Uncalled')
      BY Zenon, <1>1 DEF Uncalled
    <2> QED BY Zenon, <2>1 DEF Counting
  <1>6. /\ IsFiniteSet(Erring') /\ Cardinality(Erring) \in Nat /\ Cardinality(Erring') \in Nat
        /\ Cardinality(Erring') + One(t \in Erring) = Cardinality(Erring) + One(t \in Erring')
    <2>1. \A u : u # t => (u \in Erring <=> u \in Erring')
      BY Zenon, <1>1 DEF Erring
    <2> QED BY Zenon, <2>1 DEF Counting
  <1>7. /\ IsFiniteSet(Uncounted') /\ Cardinality(Uncounted) \in Nat /\ Cardinality(Uncounted') \in Nat
        /\ Cardinality(Uncounted') + One(t \in Uncounted) = Cardinality(Uncounted) + One(t \in Uncounted')
    <2>1. \A u : u # t => (u \in Uncounted <=> u \in Uncounted')
      BY Zenon, <1>1 DEF Uncounted
    <2> QED BY Zenon, <2>1 DEF Counting
  <1>8. /\ One(t \in Uncalled) = One(going[t] = "down" /\ op[t] # NoOp)
        /\ One(t \in Uncalled') = One(where = "down" /\ o # NoOp)
    BY Zenon, <1>2 DEF One
  <1>9. /\ One(t \in Erring) = One(going[t] \in {"failed", "counting"})
        /\ One(t \in Erring') = One(where \in {"failed", "counting"})
    BY Zenon, <1>3 DEF One
  <1>10. /\ One(t \in Uncounted) = One(going[t] = "failed" \/ (going[t] = "counting" /\ op[t] # NoOp))
         /\ One(t \in Uncounted') = One(where = "failed" \/ (where = "counting" /\ o # NoOp))
    BY Zenon, <1>4 DEF One
  <1> QED BY Zenon, <1>5, <1>6, <1>7, <1>8, <1>9, <1>10 DEF Moved

-----------------------------------------------------------------------------
(* Spans *)

\* Any sequence is one over its own elements.
LEMMA SequenceOfItsElements ==
    ASSUME NEW S, NEW s \in Seq(S)
    PROVE  IsSequence(s)
  BY DEF IsSequence

\* A wrapper begins a span: its stack holds that of the wrapper, too.
LEMMA HoldsPushed ==
    ASSUME NEW S, NEW s \in Seq(S), NEW f \in S, f.kind = "tracing",
           NEW K, NEW k \in Seq(K), NEW e \in K, e.serial = f.serial,
           Holds(k, s)
    PROVE  Holds(Append(k, e), Append(s, f))
  <1> DEFINE r == Append(s, f)
             l == Append(k, e)
             n == Len(k)
             top == Len(s) + 1
  <1>1. /\ Len(s) \in Nat /\ DOMAIN s = 1..Len(s) /\ DOMAIN r = 1..top
        /\ \A i \in 1..Len(s) : r[i] = s[i]
        /\ r[top] = f /\ top \in Nat /\ top \notin 1..Len(s)
    BY Appended
  <1>2. n \in Nat /\ Len(l) = n + 1 /\ l[n + 1] = e /\ \A i \in 1..n : l[i] = k[i]
    BY Appended
  <1> HIDE DEF r, l, n
  <1>3. PICK place \in [Traced(s) -> 1..n] :
            /\ \A i, j \in Traced(s) : i < j => place[i] < place[j]
            /\ \A m \in 1..n : \E i \in Traced(s) : place[i] = m
            /\ \A i \in Traced(s) : k[place[i]].serial = s[i].serial
    BY Zenon DEF Holds, n
  <1>4. /\ Traced(r) = Traced(s) \cup {top}
        /\ \A i \in Traced(s) : i \in 1..Len(s) /\ i < top /\ r[i] = s[i]
    BY <1>1 DEF Traced
  <1> HIDE DEF top
  <1>5. top \notin Traced(s)
    BY Zenon, <1>1, <1>4
  <1> DEFINE p == [i \in Traced(r) |-> IF i = top THEN n + 1 ELSE place[i]]
  <1>6. p[top] = n + 1 /\ \A i \in Traced(s) : p[i] = place[i]
    BY Zenon, <1>4, <1>5
  <1>7. n + 1 \in 1..n + 1 /\ \A m \in 1..n : m \in 1..n + 1 /\ m < n + 1 /\ ~(n + 1 < m)
    BY <1>2
  <1>8. p \in [Traced(r) -> 1..n + 1]
    <2>1. ASSUME NEW i \in Traced(r) PROVE (IF i = top THEN n + 1 ELSE place[i]) \in 1..n + 1
      BY Zenon, <1>3, <1>4, <1>7
    <2> QED BY Zenon, <2>1
  <1> HIDE DEF p
  <1>9. ASSUME NEW i \in Traced(r), NEW j \in Traced(r), i < j PROVE p[i] < p[j]
    <2>1. i \in Traced(s)
      <3>1. ASSUME i = top PROVE FALSE
        BY <1>1, <1>4, <1>9, <3>1
      <3> QED BY Zenon, <1>4, <3>1
    <2> QED BY Zenon, <1>3, <1>4, <1>6, <1>7, <1>9, <2>1
  <1>10. ASSUME NEW m \in 1..n + 1 PROVE \E i \in Traced(r) : p[i] = m
    <2>1. m = n + 1 \/ m \in 1..n
      BY <1>2
    <2> QED BY Zenon, <1>3, <1>4, <1>6, <2>1
  <1>11. ASSUME NEW i \in Traced(r) PROVE l[p[i]].serial = r[i].serial
    <2>1. CASE i = top
      BY Zenon, <1>1, <1>2, <1>6, <2>1
    <2>2. CASE i \in Traced(s)
      <3>1. p[i] = place[i] /\ place[i] \in 1..n /\ r[i] = s[i]
        BY Zenon, <1>3, <1>4, <1>6, <2>2
      <3>2. l[p[i]] = k[place[i]]
        BY <1>2, <3>1
      <3>3. k[place[i]].serial = s[i].serial
        BY Zenon, <1>3, <2>2
      <3> QED BY Zenon, <3>1, <3>2, <3>3
    <2> QED BY Zenon, <1>4, <2>1, <2>2
  <1>12. p \in [Traced(r) -> 1..Len(l)] /\ \A m \in 1..Len(l) : \E i \in Traced(r) : p[i] = m
    BY Zenon, <1>2, <1>8, <1>10
  <1>13. Holds(l, r)
    BY Zenon, <1>9, <1>11, <1>12 DEF Holds
  <1> QED BY Zenon, <1>13 DEF l, r

\* A wrapper ends the innermost span: that was its own.
LEMMA HoldsPopped ==
    ASSUME NEW S, NEW s \in Seq(S), s # <<>>, s[Len(s)].kind = "tracing",
           NEW K, NEW k \in Seq(K), k # <<>>, Holds(k, s)
    PROVE  /\ Holds(SubSeq(k, 1, Len(k) - 1), SubSeq(s, 1, Len(s) - 1))
           /\ Traced(SubSeq(s, 1, Len(s) - 1)) = {} => SubSeq(k, 1, Len(k) - 1) = <<>>
  <1> DEFINE r == SubSeq(s, 1, Len(s) - 1)
             l == SubSeq(k, 1, Len(k) - 1)
             n == Len(k)
             top == Len(s)
  <1>1. /\ r \in Seq(S) /\ top \in Nat \ {0} /\ Len(r) = top - 1
        /\ \A i \in 1..top - 1 : r[i] = s[i]
    BY Zenon, Shortened
  <1>2. /\ l \in Seq(K) /\ n \in Nat \ {0} /\ Len(l) = n - 1
        /\ \A i \in 1..n - 1 : l[i] = k[i]
        /\ l = <<>> <=> n = 1
    BY Zenon, Shortened
  <1> HIDE DEF r, l, n
  <1>3. PICK place \in [Traced(s) -> 1..n] :
            /\ \A i, j \in Traced(s) : i < j => place[i] < place[j]
            /\ \A m \in 1..n : \E i \in Traced(s) : place[i] = m
            /\ \A i \in Traced(s) : k[place[i]].serial = s[i].serial
    BY Zenon DEF Holds, n
  <1>4. DOMAIN s = 1..top /\ DOMAIN r = 1..top - 1
    BY <1>1
  <1>5. /\ top \in Traced(s)
        /\ \A i : i \in Traced(s) <=> i \in Traced(r) \/ i = top
        /\ \A i \in Traced(r) : i \in 1..top - 1 /\ i < top /\ i # top /\ r[i] = s[i]
    BY <1>1, <1>4 DEF Traced
  <1> HIDE DEF top
  <1>6. place[top] = n
    <2>1. n \in 1..n
      BY <1>2
    <2>2. PICK i \in Traced(s) : place[i] = n
      BY Zenon, <1>3, <2>1
    <2>3. place[top] \in 1..n
      BY Zenon, <1>3, <1>5
    <2>4. ~(n < place[top])
      BY <1>2, <2>3
    <2> QED BY Zenon, <1>3, <1>5, <2>2, <2>4
  <1>7. ASSUME NEW i \in Traced(r) PROVE place[i] \in 1..n - 1
    <2>1. i \in Traced(s) /\ i < top
      BY Zenon, <1>5
    <2>2. place[i] \in 1..n /\ place[i] < place[top]
      BY Zenon, <1>3, <1>5, <2>1
    <2> QED BY <1>2, <1>6, <2>2
  <1> DEFINE p == [i \in Traced(r) |-> place[i]]
  <1>8. p \in [Traced(r) -> 1..n - 1] /\ \A i \in Traced(r) : p[i] = place[i]
    BY Zenon, <1>7
  <1> HIDE DEF p
  <1>9. ASSUME NEW m \in 1..n - 1 PROVE \E i \in Traced(r) : p[i] = m
    <2>1. m \in 1..n /\ m # n
      BY <1>2
    <2> QED BY Zenon, <1>3, <1>5, <1>6, <1>8, <2>1
  <1>10. ASSUME NEW i \in Traced(r) PROVE l[p[i]].serial = r[i].serial
    <2>1. p[i] = place[i] /\ place[i] \in 1..n - 1 /\ r[i] = s[i] /\ i \in Traced(s)
      BY Zenon, <1>5, <1>7, <1>8
    <2>2. l[p[i]] = k[place[i]]
      BY <1>2, <2>1
    <2>3. k[place[i]].serial = s[i].serial
      BY Zenon, <1>3, <2>1
    <2> QED BY Zenon, <2>1, <2>2, <2>3
  <1>11. Holds(l, r)
    <2>1. p \in [Traced(r) -> 1..Len(l)] /\ \A m \in 1..Len(l) : \E i \in Traced(r) : p[i] = m
      BY Zenon, <1>2, <1>8, <1>9
    <2>2. \A i, j \in Traced(r) : i < j => p[i] < p[j]
      BY Zenon, <1>3, <1>5, <1>8
    <2> QED BY Zenon, <1>10, <2>1, <2>2 DEF Holds
  <1>12. Traced(r) = {} => l = <<>>
    <2>1. n # 1 => 1 \in 1..n - 1
      BY <1>2
    <2> QED BY Zenon, <1>2, <1>9, <2>1
  <1> QED BY Zenon, <1>11, <1>12 DEF l, r

\* Nothing changes for the stack when the tracing wrappers stay the same.
LEMMA HoldsSame ==
    ASSUME NEW k, NEW s, NEW r, Holds(k, s), Traced(r) = Traced(s),
           \A i \in Traced(s) : r[i] = s[i]
    PROVE  Holds(k, r)
  <1>1. PICK place \in [Traced(s) -> 1..Len(k)] :
            /\ \A i, j \in Traced(s) : i < j => place[i] < place[j]
            /\ \A n \in 1..Len(k) : \E i \in Traced(s) : place[i] = n
            /\ \A i \in Traced(s) : k[place[i]].serial = s[i].serial
    BY Zenon DEF Holds
  <1>2. place \in [Traced(r) -> 1..Len(k)]
    BY Zenon
  <1>3. ASSUME NEW i \in Traced(r) PROVE k[place[i]].serial = r[i].serial
    <2>1. i \in Traced(s) /\ r[i] = s[i]
      BY Zenon
    <2>2. k[place[i]].serial = s[i].serial
      BY Zenon, <1>1, <2>1
    <2> QED BY Zenon, <2>1, <2>2
  <1>4. /\ \A i, j \in Traced(r) : i < j => place[i] < place[j]
        /\ \A n \in 1..Len(k) : \E i \in Traced(r) : place[i] = n
    BY Zenon, <1>1
  <1> QED BY Zenon, <1>2, <1>3, <1>4 DEF Holds

\* A span that is opened gets the next number and the innermost span as its parent.
LEMMA NumberedPushed ==
    ASSUME NEW K, NEW k \in Seq(K), NEW e \in K, NEW count \in Nat, Numbered(k, count),
           e.serial = count + 1,
           e.parent_span_id = IF k = <<>> THEN Tracer!NoSpan ELSE k[Len(k)].span_id
    PROVE  Numbered(Append(k, e), count + 1)
  <1> DEFINE l == Append(k, e)
             n == Len(k)
  <1>1. n \in Nat /\ Len(l) = n + 1 /\ l[n + 1] = e /\ (\A i \in 1..n : l[i] = k[i]) /\ (k = <<>> <=> n = 0)
    BY Appended
  <1> HIDE DEF l
  <1>2. /\ \A i \in 1..n : k[i].serial \in 1..count
        /\ \A i, j \in 1..n : i < j => k[i].serial < k[j].serial
        /\ \A i \in 1..n : k[i].parent_span_id = IF i = 1 THEN Tracer!NoSpan ELSE k[i - 1].span_id
    BY Zenon DEF Numbered
  <1>3. ASSUME NEW i \in 1..n + 1
        PROVE  i \in 1..n \/ i = n + 1
    BY <1>1
  <1>4. ASSUME NEW i \in 1..n
        PROVE  l[i].serial \in 1..count + 1 /\ l[i].serial < count + 1
    BY <1>1, <1>2
  <1>5. count + 1 \in 1..count + 1
    OBVIOUS
  <1>6. \A i \in 1..n + 1 : l[i].serial \in 1..count + 1
    BY Zenon, <1>1, <1>3, <1>4, <1>5
  <1>7. ASSUME NEW i \in 1..n + 1, NEW j \in 1..n + 1, i < j PROVE l[i].serial < l[j].serial
    <2>1. i \in 1..n
      BY <1>1, <1>7
    <2>2. CASE j \in 1..n
      BY Zenon, <1>1, <1>2, <1>7, <2>1, <2>2
    <2>3. CASE j = n + 1
      BY Zenon, <1>1, <1>4, <2>1, <2>3
    <2> QED BY Zenon, <1>3, <2>2, <2>3
  <1>8. ASSUME NEW i \in 1..n + 1
        PROVE  l[i].parent_span_id = IF i = 1 THEN Tracer!NoSpan ELSE l[i - 1].span_id
    <2>1. i # 1 => i - 1 \in 1..n
      BY <1>1
    <2>2. CASE i \in 1..n
      BY Zenon, <1>1, <1>2, <2>1, <2>2
    <2>3. CASE i = n + 1
      <3>1. (i = 1 <=> n = 0) /\ i - 1 = n
        BY <1>1, <2>3
      <3> QED BY Zenon, <1>1, <2>1, <2>3, <3>1 DEF n
    <2> QED BY Zenon, <1>3, <2>2, <2>3
  <1>9. Numbered(l, count + 1)
    BY Zenon, <1>1, <1>6, <1>7, <1>8 DEF Numbered
  <1> QED BY Zenon, <1>9 DEF l

\* The spans below the innermost stay numbered when it is closed.
LEMMA NumberedPopped ==
    ASSUME NEW K, NEW k \in Seq(K), k # <<>>, NEW count, Numbered(k, count)
    PROVE  /\ Numbered(SubSeq(k, 1, Len(k) - 1), count)
           /\ \A m \in 1..Len(k) - 1 : k[m].serial # k[Len(k)].serial
  <1> DEFINE l == SubSeq(k, 1, Len(k) - 1)
             n == Len(k)
  <1>1. n \in Nat \ {0} /\ Len(l) = n - 1 /\ \A i \in 1..n - 1 : l[i] = k[i]
    BY Zenon, Shortened
  <1> HIDE DEF l
  <1>2. ASSUME NEW i \in 1..n - 1 PROVE i \in 1..n /\ i < n /\ n \in 1..n /\ (i # 1 => i - 1 \in 1..n - 1)
    BY <1>1
  <1>3. Numbered(l, count)
    BY Zenon, <1>1, <1>2 DEF Numbered
  <1>4. ASSUME NEW i \in 1..n - 1 PROVE k[i].serial # k[n].serial
    <2>1. k[i].serial < k[n].serial /\ k[i].serial \in 1..count
      BY Zenon, <1>2 DEF Numbered
    <2>2. \A v : ~(v < v) \/ v \notin Int
      OBVIOUS
    <2>3. k[i].serial \in Int
      BY <2>1
    <2> QED BY Zenon, <2>1, <2>2, <2>3
  <1> QED BY Zenon, <1>3, <1>4 DEF l

\* Whatever a thread does other than entering or leaving a tracing wrapper.
LEMMA SpansKept ==
    ASSUME Counting, ThreadsInv, SpansInv, UNCHANGED <<tracer_vars, skipped, crossed>>,
           \/ UNCHANGED frames
           \/ \E t \in Workers, f \in Frame : /\ f.kind # "tracing"
                                              /\ frames' = [frames EXCEPT ![t] = Append(frames[t], f)]
           \/ \E t \in Workers : /\ frames[t] # <<>> /\ Top(t).kind # "tracing"
                                 /\ frames' = [frames EXCEPT ![t] = Below(t)]
    PROVE  SpansInv'
  <1> DEFINE Same == \A u \in Workers : Tracing(u)' = Tracing(u) /\ \A i \in Tracing(u) : frames'[u][i] = frames[u][i]
  <1>0. frames \in [Workers -> Seq(Frame)]
    BY Zenon DEF ThreadsInv
  <1>1. /\ IsFiniteSet(Frames("tracing")')
        /\ Cardinality(Frames("tracing")') = Cardinality(Frames("tracing"))
        /\ Same
    <2>1. CASE UNCHANGED frames
      BY Zenon, <2>1 DEF SpansInv, Frames, Tracing
    <2>2. ASSUME NEW t \in Workers, NEW f \in Frame, f.kind # "tracing",
                 frames' = [frames EXCEPT ![t] = Append(frames[t], f)]
          PROVE  /\ IsFiniteSet(Frames("tracing")')
                 /\ Cardinality(Frames("tracing")') = Cardinality(Frames("tracing"))
                 /\ Same
      <3>1. Pushed(f, "tracing")
        BY Zenon, <2>2, FramesPushed DEF ThreadsInv
      <3>2. IsFiniteSet(Frames("tracing")') /\ Cardinality(Frames("tracing")') = Cardinality(Frames("tracing"))
        BY <2>2, <3>1 DEF Pushed, SpansInv, One
      <3>3. frames'[t] = Append(frames[t], f) /\ frames[t] \in Seq(Frame)
            /\ \A u \in Workers : u # t => frames'[u] = frames[u]
        BY Zenon, <1>0, <2>2
      <3>4. Tracing(t)' = Tracing(t) /\ \A i \in Tracing(t) : frames'[t][i] = frames[t][i]
        BY <2>2, <3>3 DEF Tracing
      <3> QED BY Zenon, <3>2, <3>3, <3>4 DEF Tracing
    <2>3. ASSUME NEW t \in Workers, frames[t] # <<>>, Top(t).kind # "tracing",
                 frames' = [frames EXCEPT ![t] = Below(t)]
          PROVE  /\ IsFiniteSet(Frames("tracing")')
                 /\ Cardinality(Frames("tracing")') = Cardinality(Frames("tracing"))
                 /\ Same
      <3>1. PICK f : f = Top(t)
        BY Zenon
      <3>2. Popped(f, "tracing")
        BY Zenon, <2>3, <3>1, FramesPopped DEF ThreadsInv
      <3>3. IsFiniteSet(Frames("tracing")') /\ Cardinality(Frames("tracing")') = Cardinality(Frames("tracing"))
        BY <2>3, <3>1, <3>2 DEF Popped, SpansInv, One
      <3>4. frames'[t] = Below(t) /\ frames[t] \in Seq(Frame)
            /\ \A u \in Workers : u # t => frames'[u] = frames[u]
        BY Zenon, <1>0, <2>3
      <3> DEFINE s == frames[t]
                 b == SubSeq(s, 1, Len(s) - 1)
      <3>5. /\ b \in Seq(Frame) /\ Len(s) \in Nat \ {0} /\ Len(b) = Len(s) - 1
            /\ \A i \in 1..Len(s) - 1 : b[i] = s[i]
        BY Zenon, <2>3, <3>4, Shortened
      <3>6. s[Len(s)].kind # "tracing" /\ frames'[t] = b
        BY Zenon, <2>3, <3>4 DEF Top, Below
      <3> HIDE DEF b
      <3>61. DOMAIN s = 1..Len(s) /\ DOMAIN b = 1..Len(s) - 1
        BY <3>4, <3>5
      <3>7. Tracing(t)' = Tracing(t) /\ \A i \in Tracing(t) : frames'[t][i] = frames[t][i]
        BY <3>5, <3>6, <3>61 DEF Tracing
      <3> QED BY Zenon, <3>3, <3>4, <3>7 DEF Tracing
    <2> QED BY Zenon, <2>1, <2>2, <2>3
  <1> HIDE DEF Same
  <1>2. UNCHANGED <<stack_, started, exported, refused>>
    BY Zenon DEF tracer_vars
  <1>3. Tracer!OpenOrExported'
    BY Zenon, <1>2 DEF SpansInv, Tracer!OpenOrExported, Tracer!OpenSpans
  <1>4. ASSUME Undisturbed PROVE Undisturbed'
    <2>1. \A u \in Workers : Tracing(u)' = Tracing(u) /\ \A i \in Tracing(u) : frames'[u][i] = frames[u][i]
      BY Zenon, <1>1 DEF Same
    <2>2. ASSUME NEW u \in Workers, Holds(stack_, frames[u]) PROVE Holds(stack_, frames'[u])
      <3>1. Traced(frames[u]) = Tracing(u) /\ Traced(frames'[u]) = Tracing(u)'
        BY Zenon DEF Traced, Tracing
      <3>2. Traced(frames'[u]) = Traced(frames[u]) /\ \A i \in Traced(frames[u]) : frames'[u][i] = frames[u][i]
        BY Zenon, <2>1, <3>1
      <3>3. PICK r, s : r = frames'[u] /\ s = frames[u]
        BY Zenon
      <3> QED BY Zenon, <2>2, <3>2, <3>3, HoldsSame
    <2> QED BY Zenon, <1>2, <1>4, <2>1, <2>2 DEF Undisturbed
  <1> QED BY Zenon, <1>1, <1>2, <1>3, <1>4 DEF SpansInv

\* A wrapper opens a span.
LEMMA SpanOpened ==
    ASSUME Counting, ThreadsInv, BusInv, SpansInv, NEW t \in Workers, EnterTracing(t)
    PROVE  SpansInv'
  <1> DEFINE n == Len(stack_)
             S == {stack_[i] : i \in DOMAIN stack_}
  <1>1. /\ stack_ \in Seq(S) /\ skipped \in Nat /\ started \in Nat
        /\ n = Cardinality(Frames("tracing")) + skipped + Len(refused)
        /\ frames \in [Workers -> Seq(Frame)] /\ IsFiniteSet(Frames("tracing"))
        /\ Numbered(stack_, started)
    BY Zenon DEF SpansInv, IsSequence, ThreadsInv, BusInv
  <1>2. n \in Nat /\ DOMAIN stack_ = 1..n /\ Len(refused) \in Nat
    <2>1. refused \in Seq({refused[i] : i \in DOMAIN refused})
      BY Zenon DEF SpansInv, IsSequence
    <2> QED BY <1>1, <2>1
  <1>3. PICK e : /\ stack_' = Append(stack_, e)
                 /\ e.serial = started + 1
                 /\ e.parent_span_id = IF stack_ = <<>> THEN Tracer!NoSpan ELSE stack_[n].span_id
    BY DEF EnterTracing, Tracer!StartSpan, Tracer!Parent
  <1>4. /\ started' = started + 1 /\ UNCHANGED <<exported, refused, skipped>>
        /\ crossed' = (crossed \/ \E u \in Workers : u # t /\ Tracing(u) # {})
    BY Zenon DEF EnterTracing, Tracer!StartSpan
  <1>5. PICK f \in Frame : /\ f.kind = "tracing" /\ f.serial = started + 1
                           /\ frames' = [frames EXCEPT ![t] = Append(frames[t], f)]
    <2>1. started' \in Nat
      BY <1>1, <1>4
    <2>2. [kind |-> "tracing", serial |-> started'] \in Frame
      BY Zenon, <2>1 DEF Frame
    <2>3. frames' = [frames EXCEPT ![t] = Append(frames[t], [kind |-> "tracing", serial |-> started'])]
      BY Zenon DEF EnterTracing, Push, Go
    <2> QED BY Zenon, <1>4, <2>2, <2>3
  <1>6. /\ IsFiniteSet(Frames("tracing")')
        /\ Cardinality(Frames("tracing")') = Cardinality(Frames("tracing")) + 1
        /\ Cardinality(Frames("tracing")) \in Nat
    <2>1. Pushed(f, "tracing")
      BY Zenon, <1>1, <1>5, FramesPushed
    <2> QED BY Zenon, <1>1, <1>5, <2>1 DEF Pushed, One
  <1> DEFINE K == S \cup {e}
  <1>7. stack_ \in Seq(K) /\ e \in K
    BY <1>1
  <1> HIDE DEF K
  <1>8. /\ stack_' \in Seq(K) /\ Len(stack_') = n + 1 /\ stack_'[n + 1] = e
        /\ \A i \in 1..n : stack_'[i] = stack_[i]
    BY <1>3, <1>7, Appended
  <1>9. Len(stack_') = Cardinality(Frames("tracing")') + skipped' + Len(refused')
    BY <1>1, <1>2, <1>4, <1>6, <1>8
  <1>10. Numbered(stack_', started')
    BY Zenon, <1>1, <1>3, <1>4, <1>7, NumberedPushed
  <1>11. IsSequence(stack_')
    BY Zenon, <1>8, SequenceOfItsElements
  <1>12. Tracer!OpenOrExported'
    <2>1. 1..started = Tracer!OpenSpans \cup exported /\ Tracer!OpenSpans \cap exported = {}
      BY Zenon DEF SpansInv, Tracer!OpenOrExported
    <2>2. DOMAIN stack_' = 1..n + 1 /\ (\A i \in 1..n + 1 : i \in 1..n \/ i = n + 1)
          /\ (\A i \in 1..n : i \in 1..n + 1) /\ n + 1 \in 1..n + 1
      BY <1>2, <1>8
    <2>3. Tracer!OpenSpans' = Tracer!OpenSpans \cup {started + 1}
      BY Zenon, <1>2, <1>3, <1>8, <2>2 DEF Tracer!OpenSpans
    <2>4. started + 1 \notin 1..started /\ 1..started + 1 = 1..started \cup {started + 1}
      BY <1>1
    <2>5. 1..started' = Tracer!OpenSpans' \cup exported' /\ Tracer!OpenSpans' \cap exported' = {}
      BY <1>4, <2>1, <2>3, <2>4
    <2> QED BY Zenon, <2>5 DEF Tracer!OpenOrExported
  <1>13. ASSUME Undisturbed, ~crossed' PROVE Undisturbed'
    <2>1. \A u \in Workers : u # t => Tracing(u) = {} /\ frames'[u] = frames[u]
      BY Zenon, <1>1, <1>4, <1>5, <1>13
    <2>2. frames'[t] = Append(frames[t], f) /\ frames[t] \in Seq(Frame)
      BY Zenon, <1>1, <1>5
    <2>3. \A u \in Workers : u # t => Tracing(u)' = {}
      BY Zenon, <2>1 DEF Tracing
    <2>4. Tracing(t)' # {}
      <3>1. Len(frames[t]) + 1 \in DOMAIN frames'[t] /\ frames'[t][Len(frames[t]) + 1] = f
        BY <2>2
      <3> QED BY Zenon, <1>5, <3>1 DEF Tracing
    <2>5. Holds(stack_, frames[t])
      <3>1. CASE Tracing(t) # {}
        BY Zenon, <1>13, <3>1 DEF Undisturbed
      <3>2. CASE Tracing(t) = {}
        <4>1. stack_ = <<>>
          BY Zenon, <1>13, <2>1, <3>2 DEF Undisturbed
        <4>2. Traced(frames[t]) = {} /\ 1..Len(stack_) = {}
          BY <3>2, <4>1 DEF Traced, Tracing
        <4>3. PICK place : place \in [{} -> {}]
          <5>1. [x \in {} |-> x] \in [{} -> {}]
            OBVIOUS
          <5> QED BY Zenon, <5>1
        <4>4. place \in [Traced(frames[t]) -> 1..Len(stack_)]
          BY Zenon, <4>2, <4>3
        <4> QED BY Zenon, <4>2, <4>4 DEF Holds
      <3> QED BY Zenon, <3>1, <3>2
    <2>6. Holds(stack_', frames'[t])
      BY Zenon, <1>3, <1>5, <1>7, <2>2, <2>5, HoldsPushed
    <2> QED BY Zenon, <2>3, <2>4, <2>6 DEF Undisturbed
  <1>14. ~crossed' => ~crossed
    BY Zenon, <1>4
  <1>15. ~crossed' /\ skipped' = 0 /\ refused' = <<>> => Undisturbed'
    BY Zenon, <1>4, <1>13, <1>14 DEF SpansInv
  <1> QED BY Zenon, <1>1, <1>4, <1>6, <1>9, <1>10, <1>11, <1>12, <1>15 DEF SpansInv

\* A wrapper closes the innermost span, or leaves it because of an exception.
LEMMA SpanClosed ==
    ASSUME Counting, ThreadsInv, SpansInv, NEW t \in Workers, LeaveTracing(t)
    PROVE  SpansInv'
  <1> DEFINE n == Len(stack_)
             S == {stack_[i] : i \in DOMAIN stack_}
  <1>1. /\ stack_ \in Seq(S) /\ skipped \in Nat
        /\ n = Cardinality(Frames("tracing")) + skipped + Len(refused)
        /\ frames \in [Workers -> Seq(Frame)] /\ IsFiniteSet(Frames("tracing"))
        /\ Numbered(stack_, started)
        /\ Tracer!OpenOrExported
    BY Zenon DEF SpansInv, IsSequence, ThreadsInv
  <1> DEFINE R == {refused[i] : i \in DOMAIN refused}
  <1>2. refused \in Seq(R)
    BY Zenon DEF SpansInv, IsSequence
  <1>3. n \in Nat /\ DOMAIN stack_ = 1..n /\ Len(refused) \in Nat
    BY <1>1, <1>2
  <1>4. /\ frames[t] # <<>> /\ Top(t).kind = "tracing"
        /\ frames' = [frames EXCEPT ![t] = Below(t)]
        /\ UNCHANGED crossed
    BY Zenon, OfThread DEF LeaveTracing, Leaving, Pop, Go
  <1>5. /\ IsFiniteSet(Frames("tracing")')
        /\ Cardinality(Frames("tracing")') \in Nat
        /\ Cardinality(Frames("tracing")') + 1 = Cardinality(Frames("tracing"))
    <2>1. PICK f : f = Top(t)
      BY Zenon
    <2>2. Popped(f, "tracing")
      BY Zenon, <1>1, <1>4, <2>1, FramesPopped
    <2> QED BY Zenon, <1>1, <1>4, <2>1, <2>2 DEF Popped, One
  <1>6. stack_ # <<>> /\ n > 0
    BY <1>1, <1>3, <1>5, EmptyOrNot
  <1>7. CASE Tracer!EndSpan /\ UNCHANGED skipped
    <2>1. /\ stack_' = SubSeq(stack_, 1, n - 1) /\ exported' = exported \cup {stack_[n].serial}
          /\ UNCHANGED <<started, refused>>
      BY Zenon, <1>6, <1>7 DEF Tracer!EndSpan, Tracer!Outer, Tracer!Innermost
    <2>2. /\ stack_' \in Seq(S) /\ Len(stack_') = n - 1
          /\ \A i \in 1..n - 1 : stack_'[i] = stack_[i]
      BY Zenon, <1>1, <1>6, <2>1, Shortened
    <2>3. IsSequence(stack_')
      BY Zenon, <2>2, SequenceOfItsElements
    <2>4. Numbered(stack_', started') /\ \A m \in 1..n - 1 : stack_[m].serial # stack_[n].serial
      BY Zenon, <1>1, <1>6, <2>1, NumberedPopped
    <2>5. Len(stack_') = Cardinality(Frames("tracing")') + skipped' + Len(refused')
      BY <1>1, <1>3, <1>5, <1>7, <2>1, <2>2
    <2>6. Tracer!OpenOrExported'
      <3>1. DOMAIN stack_' = 1..n - 1 /\ (\A i \in 1..n : i \in 1..n - 1 \/ i = n)
            /\ (\A i \in 1..n - 1 : i \in 1..n) /\ n \in 1..n
        <4>1. DOMAIN stack_' = 1..n - 1
          BY <2>2
        <4> HIDE DEF n
        <4>2. n \in Nat /\ n > 0
          BY Zenon, <1>3, <1>6
        <4>3. (\A i \in 1..n : i \in 1..n - 1 \/ i = n) /\ (\A i \in 1..n - 1 : i \in 1..n) /\ n \in 1..n
          BY <4>2
        <4> QED BY Zenon, <4>1, <4>3
      <3>2. \A x : x \in Tracer!OpenSpans' <=> \E i \in 1..n - 1 : stack_[i].serial = x
        BY Zenon, <2>2, <3>1 DEF Tracer!OpenSpans
      <3>3. \A x : x \in Tracer!OpenSpans <=> \E i \in 1..n : stack_[i].serial = x
        BY Zenon, <1>3 DEF Tracer!OpenSpans
      <3>4. /\ stack_[n].serial \notin Tracer!OpenSpans' /\ stack_[n].serial \in Tracer!OpenSpans
            /\ \A x : x \in Tracer!OpenSpans' => x \in Tracer!OpenSpans
            /\ \A x : x \in Tracer!OpenSpans /\ x # stack_[n].serial => x \in Tracer!OpenSpans'
        BY Zenon, <2>4, <3>1, <3>2, <3>3
      <3>5. 1..started = Tracer!OpenSpans \cup exported /\ Tracer!OpenSpans \cap exported = {}
        BY Zenon, <1>1 DEF Tracer!OpenOrExported
      <3>6. Tracer!OpenSpans' \cup exported' = Tracer!OpenSpans \cup exported
        BY Zenon, <2>1, <3>4
      <3>7. Tracer!OpenSpans' \cap exported' = {}
        BY Zenon, <2>1, <3>4, <3>5
      <3>8. 1..started' = Tracer!OpenSpans' \cup exported'
        BY Zenon, <2>1, <3>5, <3>6
      <3> QED BY Zenon, <3>7, <3>8 DEF Tracer!OpenOrExported
    <2>7. ASSUME Undisturbed PROVE Undisturbed'
      <3> DEFINE s == frames[t]
      <3>1. frames'[t] = SubSeq(s, 1, Len(s) - 1) /\ s \in Seq(Frame) /\ s # <<>> /\ s[Len(s)].kind = "tracing"
            /\ \A u \in Workers : u # t => frames'[u] = frames[u]
        BY Zenon, <1>1, <1>4 DEF Below, Top
      <3>2. Tracing(t) # {}
        <4>1. Len(s) \in DOMAIN s
          BY <3>1
        <4> QED BY Zenon, <3>1, <4>1 DEF Tracing
      <3>3. \A u \in Workers : u # t => Tracing(u)' = {}
        BY Zenon, <2>7, <3>1, <3>2 DEF Undisturbed, Tracing
      <3>4. Holds(stack_, s)
        BY Zenon, <2>7, <3>2 DEF Undisturbed
      <3>5. Holds(stack_', frames'[t]) /\ (Traced(frames'[t]) = {} => stack_' = <<>>)
        BY Zenon, <1>1, <1>6, <2>1, <3>1, <3>4, HoldsPopped
      <3>6. Tracing(t)' = Traced(frames'[t])
        BY Zenon DEF Tracing, Traced
      <3> QED BY Zenon, <3>3, <3>5, <3>6 DEF Undisturbed
    <2> QED BY Zenon, <1>1, <1>4, <1>5, <1>7, <2>1, <2>3, <2>4, <2>5, <2>6, <2>7 DEF SpansInv
  <1>8. CASE \/ Tracer!EndSpanThrows /\ UNCHANGED skipped
             \/ skipped' = skipped + 1 /\ UNCHANGED tracer_vars
    <2>1. UNCHANGED <<stack_, started, exported>>
      BY Zenon, <1>8 DEF Tracer!EndSpanThrows, tracer_vars
    <2>2. /\ IsSequence(refused') /\ skipped' \in Nat
          /\ skipped' + Len(refused') = skipped + Len(refused) + 1
          /\ ~(skipped' = 0 /\ refused' = <<>>)
      <3>1. CASE Tracer!EndSpanThrows /\ UNCHANGED skipped
        <4>1. PICK x : refused' = Append(refused, x)
          BY Zenon, <3>1 DEF Tracer!EndSpanThrows
        <4>2. refused \in Seq(R \cup {x})
          BY <1>2
        <4>3. refused' \in Seq(R \cup {x}) /\ refused' # <<>> /\ Len(refused') = Len(refused) + 1
          BY <4>1, <4>2, Appended
        <4>4. IsSequence(refused')
          BY Zenon, <4>3, SequenceOfItsElements
        <4> QED BY <1>1, <1>3, <3>1, <4>3, <4>4
      <3>2. CASE skipped' = skipped + 1 /\ UNCHANGED tracer_vars
        <4>1. refused' = refused
          BY Zenon, <3>2 DEF tracer_vars
        <4>2. IsSequence(refused')
          BY Zenon, <4>1 DEF SpansInv
        <4> QED BY <1>1, <1>3, <3>2, <4>1, <4>2
      <3> QED BY Zenon, <1>8, <3>1, <3>2
    <2>3. Len(stack_') = Cardinality(Frames("tracing")') + skipped' + Len(refused')
      <3>1. Len(refused') \in Nat
        BY <2>2 DEF IsSequence
      <3> DEFINE c == Cardinality(Frames("tracing")')
      <3>2. n = Cardinality(Frames("tracing")) + skipped + Len(refused) /\ c + 1 = Cardinality(Frames("tracing"))
            /\ c \in Nat /\ skipped \in Nat /\ Len(refused) \in Nat /\ Len(stack_') = n
        BY Zenon, <1>1, <1>3, <1>5, <2>1
      <3> HIDE DEF c
      <3>3. skipped' \in Nat /\ skipped' + Len(refused') = skipped + Len(refused) + 1
        BY Zenon, <2>2
      <3>4. PICK x \in Nat, y \in Nat, z \in Nat, u \in Nat, v \in Nat :
                x = c /\ y = skipped /\ z = Len(refused) /\ u = skipped' /\ v = Len(refused')
        BY Zenon, <3>1, <3>2, <3>3
      <3>5. Len(stack_') = c + 1 + y + z /\ u + v = y + z + 1
        BY Zenon, <3>2, <3>3, <3>4
      <3>6. x + 1 + y + z = x + u + v
        BY <3>5
      <3>7. Len(stack_') = c + skipped' + Len(refused')
        BY Zenon, <3>4, <3>5, <3>6
      <3> QED BY Zenon, <3>7 DEF c
    <2>4. Numbered(stack_', started') /\ IsSequence(stack_')
      BY Zenon, <1>1, <2>1 DEF SpansInv
    <2>5. Tracer!OpenOrExported'
      BY Zenon, <1>1, <2>1 DEF Tracer!OpenOrExported, Tracer!OpenSpans
    <2> QED BY Zenon, <1>5, <2>2, <2>3, <2>4, <2>5 DEF SpansInv
  <1> QED BY Zenon, <1>7, <1>8 DEF LeaveTracing

\* Each wrapper opens one span and closes one, or leaves it.
LEMMA NextSpansInv == Counting /\ ThreadsInv /\ BusInv /\ SpansInv /\ [StackNext]_all_vars => SpansInv'
  <1> SUFFICES ASSUME Counting, ThreadsInv, BusInv, SpansInv, [StackNext]_all_vars
               PROVE  SpansInv'
    BY Zenon
  <1> DEFINE Kept == UNCHANGED <<tracer_vars, skipped, crossed>>
  <1>0. frames \in [Workers -> Seq(Frame)]
    BY Zenon DEF ThreadsInv
  <1>1. ASSUME Kept, UNCHANGED frames
        PROVE  SpansInv'
    BY Zenon, <1>1, SpansKept
  <1>2. ASSUME NEW t \in Workers, NEW f \in Frame, NEW where, NEW w, f.kind # "tracing",
               Go(t, where, Append(frames[t], f), w), Kept
        PROVE  SpansInv'
    <2>1. frames' = [frames EXCEPT ![t] = Append(frames[t], f)]
      BY Zenon, <1>2 DEF Go
    <2>2. \E u \in Workers, g \in Frame : /\ g.kind # "tracing"
                                          /\ frames' = [frames EXCEPT ![u] = Append(frames[u], g)]
      BY <1>2, <2>1, Zenon
    <2> QED BY Zenon, <1>2, <2>2, SpansKept
  <1>3. ASSUME NEW t \in Workers, NEW where, going[t] # "idle", Top(t).kind # "tracing", Pop(t, where), Kept
        PROVE  SpansInv'
    <2>1. frames' = [frames EXCEPT ![t] = Below(t)] /\ frames[t] # <<>>
      BY Zenon, <1>3, OfThread DEF Pop, Go
    <2>2. \E u \in Workers : /\ frames[u] # <<>> /\ Top(u).kind # "tracing"
                             /\ frames' = [frames EXCEPT ![u] = Below(u)]
      BY <1>3, <2>1, Zenon
    <2> QED BY Zenon, <1>3, <2>2, SpansKept
  <1>4. ASSUME NEW t \in Workers, NEW where, NEW w, Go(t, where, frames[t], w), Kept
        PROVE  SpansInv'
    <2>1. frames' = frames
      BY Zenon, <1>0, <1>4 DEF Go
    <2> QED BY Zenon, <1>1, <1>4, <2>1
  <1>5. ASSUME NEW t \in Workers, EnterTracing(t)
        PROVE  SpansInv'
    BY Zenon, <1>5, SpanOpened
  <1>6. ASSUME NEW t \in Workers, LeaveTracing(t)
        PROVE  SpansInv'
    BY Zenon, <1>6, SpanClosed
  <1>7. ASSUME NEW t \in Workers, NEW task \in Tasks, OpenScope(t, task), Kept
        PROVE  SpansInv'
    <2>1. [kind |-> "scope", ctx |-> task.ctx, previous_ |-> tl_current[t]] \in Frame
      <3>1. tl_current[t] \in Contexts /\ task.ctx \in Contexts
        BY Zenon, OfThread DEF Contexts
      <3> QED BY Zenon, <3>1 DEF Frame
    <2>2. [kind |-> "scope", ctx |-> task.ctx, previous_ |-> tl_current[t]].kind # "tracing"
      BY Zenon
    <2> QED BY Zenon, <1>2, <1>7, <2>1, <2>2 DEF OpenScope
  <1>8. ASSUME NEW t \in Workers, Take(t)
        PROVE  SpansInv'
    BY Zenon, <1>7, <1>8, EmptyOrNot DEF Take, BusInv
  <1>9. ASSUME NEW t \in Workers, NEW task \in Tasks, Dispatch(t, task)
        PROVE  SpansInv'
    BY Zenon, <1>7, <1>9 DEF Dispatch
  <1>10. ASSUME NEW t \in Workers, CloseScope(t)
         PROVE  SpansInv'
    BY Zenon, <1>3, <1>10 DEF CloseScope, IsScope
  <1>11. ASSUME NEW t \in Workers, NEW type \in TypesOf(going[t]), Send(t, type)
         PROVE  SpansInv'
    <2>1. CASE going[t] \in DOMAIN handlers_
      <3> DEFINE f == [kind |-> "send", message |-> going[t], type |-> type]
      <3>1. f \in Frame /\ f.kind # "tracing"
        BY Zenon, <1>11 DEF Frame, TypesOf, Send
      <3>2. Go(t, "down", Append(frames[t], f), handlers_[going[t]].chain) /\ Kept
        BY Zenon, <1>11, <2>1 DEF Send
      <3> HIDE DEF f
      <3> QED BY Zenon, <1>2, <3>1, <3>2
    <2>2. CASE going[t] \notin DOMAIN handlers_
      BY Zenon, <1>4, <1>11, <2>2 DEF Send
    <2> QED BY Zenon, <2>1, <2>2
  <1>12. ASSUME NEW t \in Workers, Sent(t)
         PROVE  SpansInv'
    BY Zenon, <1>3, <1>12 DEF Sent
  <1>13. ASSUME NEW t \in Workers, EnterLogging(t)
         PROVE  SpansInv'
    <2>1. [kind |-> "logging"] \in Frame /\ [kind |-> "logging"].kind # "tracing"
      BY Zenon DEF Frame
    <2> QED BY Zenon, <1>2, <1>13, <2>1 DEF EnterLogging, Push
  <1>14. ASSUME NEW t \in Workers, LeaveLogging(t)
         PROVE  SpansInv'
    BY Zenon, <1>3, <1>14 DEF LeaveLogging, Leaving
  <1>15. ASSUME NEW t \in Workers, Validate(t)
         PROVE  SpansInv'
    BY Zenon, <1>4, <1>15 DEF Validate
  <1>16. ASSUME NEW t \in Workers, Execute(t)
         PROVE  SpansInv'
    <2>1. [kind |-> "use_case"] \in Frame /\ [kind |-> "use_case"].kind # "tracing"
      BY Zenon DEF Frame
    <2> QED BY Zenon, <1>2, <1>16, <2>1 DEF Execute, OthersUnchanged, Push
  <1>17. ASSUME NEW t \in Workers, InUseCase(t)
         PROVE  going[t] # "idle" /\ Top(t).kind = "use_case"
    BY Zenon, <1>17, OfThread DEF InUseCase
  <1>18. ASSUME NEW t \in Workers, ExecuteThrows(t)
         PROVE  SpansInv'
    <2>1. going[t] # "idle" /\ Top(t).kind = "use_case"
      BY Zenon, <1>17, <1>18 DEF ExecuteThrows, Leaving
    <2> QED BY Zenon, <1>3, <1>18, <2>1 DEF ExecuteThrows, OthersUnchanged
  <1>19. ASSUME NEW t \in Workers, NEW d \in Durations, ExecuteReturns(t, d)
         PROVE  SpansInv'
    BY Zenon, <1>3, <1>17, <1>19 DEF ExecuteReturns, OthersUnchanged
  <1>20. ASSUME NEW t \in Workers, NEW d \in Durations, ExecuteFails(t, d)
         PROVE  SpansInv'
    BY Zenon, <1>4, <1>20 DEF ExecuteFails, OthersUnchanged
  <1>21. ASSUME NEW t \in Workers, CountError(t)
         PROVE  SpansInv'
    BY Zenon, <1>4, <1>21 DEF CountError, OthersUnchanged
  <1>22. ASSUME NEW t \in Workers, ErrorCounted(t)
         PROVE  SpansInv'
    <2>1. going[t] # "idle" /\ Top(t).kind = "use_case"
      BY Zenon, <1>22, OfThread DEF ErrorCounted
    <2> QED BY Zenon, <1>3, <1>22, <2>1 DEF ErrorCounted, OthersUnchanged
  <1>23. ASSUME \/ \E m \in Messages : \E chain \in ChainsOf(m), type \in TypesOf(m) : Register(m, chain, type)
                \/ \E task \in Tasks : Post(task)
                \/ \E t \in Workers : Count(t)
                \/ Observe \/ Waiting
                \/ UNCHANGED all_vars
         PROVE  SpansInv'
    BY Zenon, <1>1, <1>23
    DEF Register, Post, Count, Observe, Waiting, OthersUnchanged, all_vars, call_vars
  <1> QED
    BY Zenon, <1>5, <1>6, <1>8, <1>9, <1>10, <1>11, <1>12, <1>13, <1>14, <1>15, <1>16, <1>18, <1>19, <1>20,
       <1>21, <1>22, <1>23 DEF StackNext

-----------------------------------------------------------------------------
(* Log lines *)

\* A line is written in the context of the task that the thread is running; an idle
\* thread runs none.
LEMMA NextLines == ThreadsInv /\ ThreadsInv' /\ LinesOfOwnTask /\ [StackNext]_all_vars => LinesOfOwnTask'
  <1> SUFFICES ASSUME ThreadsInv, ThreadsInv', LinesOfOwnTask, [StackNext]_all_vars
               PROVE  LinesOfOwnTask'
    BY Zenon
  <1>1. ASSUME NEW t \in Workers, going'[t] = "idle"
        PROVE  tl_current'[t] = NoContext
    <2>1. ThreadOK(going'[t], frames'[t], todo'[t], op'[t], tl_current'[t])
      BY Zenon DEF ThreadsInv
    <2>2. frames'[t] = <<>> /\ IsContext(frames'[t], Len(frames'[t]), tl_current'[t])
      BY Zenon, <1>1, <2>1 DEF ThreadOK, CallsOK
    <2> QED BY <2>2 DEF IsContext
  <1>2. ASSUME NEW t \in Workers, Log(t)
        PROVE  \A line \in lines' : line.cid = line.task
    <2>1. ContextOfTask(t) = tl_current[t]
      BY Zenon, ContextFound, OfThread DEF CallsOK
    <2> QED BY <1>2, <2>1 DEF Log, LinesOfOwnTask
  <1>3. ASSUME UNCHANGED lines
        PROVE  \A line \in lines' : line.cid = line.task
    BY Zenon, <1>3 DEF LinesOfOwnTask
  <1>4. \A line \in lines' : line.cid = line.task
    BY Zenon, <1>2, <1>3
    DEF StackNext, Register, Post, Take, CloseScope, Send, Sent, EnterLogging, LeaveLogging, EnterTracing,
        LeaveTracing, Validate, Execute, Count, Dispatch, ExecuteThrows, ExecuteReturns, ExecuteFails,
        CountError, ErrorCounted, Observe, Waiting, OthersUnchanged, all_vars
  <1> QED BY Zenon, <1>1, <1>4 DEF LinesOfOwnTask

-----------------------------------------------------------------------------
(* What holds of every execution *)

\* The calls, the bus and the lines of every execution satisfy the inductive invariant.
LEMMA CallsInvariance == StackSpec => []CallsInv
  <1>1. StackInit => CallsInv
    <2> SUFFICES ASSUME StackInit PROVE CallsInv
      BY Zenon
    <2>2. ThreadsInv
      <3>0. /\ Len(<<>>) = 0 /\ 1..0 = {}
            /\ <<>> \in Seq(Wrappers) /\ <<>> \in Seq(Frame)
        OBVIOUS
      <3>1. WrappersOK(<<>>) /\ CallsOK(<<>>, NoContext)
        BY Zenon, <3>0 DEF WrappersOK, CallsOK, IsContext
      <3>2. ThreadOK("idle", <<>>, <<>>, NoOp, NoContext)
        BY Zenon, <3>1 DEF ThreadOK
      <3>3. /\ going \in [Workers -> Places \cup Messages] /\ frames \in [Workers -> Seq(Frame)]
            /\ todo \in [Workers -> Seq(Wrappers)] /\ tl_current \in [Workers -> Contexts]
            /\ op \in [Threads -> Ops]
        BY DEF StackInit, MetricsInit, Places, Contexts, Ops
      <3>4. op[Monitor] = NoOp /\ \A t \in Workers : ThreadOK(going[t], frames[t], todo[t], op[t], tl_current[t])
        BY Zenon, <3>2, ApplicationAssumption DEF StackInit, MetricsInit, Workers
      <3> QED BY Zenon, <3>3, <3>4 DEF ThreadsInv
    <2>3. BusInv
      BY DEF StackInit, BusInv, Tracer!TracerInit
    <2>4. LinesOfOwnTask
      BY Zenon DEF StackInit, LinesOfOwnTask
    <2> QED BY Zenon, <2>2, <2>3, <2>4 DEF CallsInv
  <1>2. CallsInv /\ [StackNext]_all_vars => CallsInv'
    BY Zenon, NextThreadsInv, NextBusInv, NextLines DEF CallsInv
  <1> QED BY <1>1, <1>2, PTL DEF StackSpec

\* For tasks nested to any depth, returning or throwing: every log line carries the
\* context of its own task, and a thread between two tasks is in no context.
THEOREM LinesAlwaysOfOwnTask == StackSpec => []LinesOfOwnTask
  <1>1. CallsInv => LinesOfOwnTask
    BY Zenon DEF CallsInv
  <1> QED BY <1>1, CallsInvariance, PTL

INSTANCE FiniteSetTheorems

\* Finite sets that differ in at most one element differ by at most one in size.
LEMMA OneElement == Counting
  <1> SUFFICES ASSUME NEW A, IsFiniteSet(A), NEW B, NEW x, \A y : y # x => (y \in A <=> y \in B)
               PROVE  /\ IsFiniteSet(B)
                      /\ Cardinality(A) \in Nat /\ Cardinality(B) \in Nat
                      /\ Cardinality(B) + One(x \in A) = Cardinality(A) + One(x \in B)
    BY Zenon DEF Counting
  <1>1. Cardinality(A) \in Nat
    BY Zenon, FS_CardinalityType
  <1>2. CASE x \in A /\ x \in B
    <2>1. A = B
      BY <1>2
    <2> QED BY <1>1, <1>2, <2>1 DEF One
  <1>3. CASE x \notin A /\ x \notin B
    <2>1. A = B
      BY <1>3
    <2> QED BY <1>1, <1>3, <2>1 DEF One
  <1>4. CASE x \notin A /\ x \in B
    <2>1. B = A \cup {x}
      BY <1>4
    <2>2. IsFiniteSet(B) /\ Cardinality(B) = Cardinality(A) + 1
      BY <1>4, <2>1, FS_AddElement
    <2> QED BY <1>1, <1>4, <2>2 DEF One
  <1>5. CASE x \in A /\ x \notin B
    <2>1. B = A \ {x}
      BY Zenon, <1>5
    <2>2. IsFiniteSet(B) /\ Cardinality(B) = Cardinality(A) - 1
      BY <1>5, <2>1, FS_RemoveElement
    <2>3. Cardinality(B) \in Nat
      BY <2>2, FS_CardinalityType
    <2> QED BY <1>1, <1>5, <2>2, <2>3 DEF One
  <1> QED BY <1>2, <1>3, <1>4, <1>5

\* The spans of every execution satisfy their invariant.
LEMMA SpansInvariance == StackSpec => []SpansInv
  <1>1. ASSUME StackInit
        PROVE  SpansInv
    <2>1. /\ stack_ = <<>> /\ skipped = 0 /\ refused = <<>> /\ started = 0 /\ exported = {}
          /\ \A t \in Workers : frames[t] = <<>>
      BY Zenon, <1>1 DEF StackInit, Tracer!TracerInit
    <2>2. IsSequence(stack_) /\ IsSequence(refused) /\ Len(stack_) = 0 /\ Len(refused) = 0 /\ DOMAIN stack_ = {}
      BY <2>1 DEF IsSequence
    <2>3. Frames("tracing") = {}
      BY <1>1 DEF StackInit, Frames
    <2>4. IsFiniteSet(Frames("tracing")) /\ Cardinality(Frames("tracing")) = 0
      BY <2>3, FS_EmptySet
    <2>5. Numbered(stack_, started)
      BY <2>2 DEF Numbered
    <2>6. Tracer!OpenOrExported
      BY <2>1, <2>2 DEF Tracer!OpenOrExported, Tracer!OpenSpans
    <2>7. Undisturbed
      <3>1. \A t \in Workers : Tracing(t) = {}
        BY <2>1 DEF Tracing
      <3> QED BY Zenon, <2>1, <3>1 DEF Undisturbed
    <2>8. Len(stack_) = Cardinality(Frames("tracing")) + skipped + Len(refused) /\ skipped \in Nat
      BY <2>1, <2>2, <2>4
    <2> QED BY Zenon, <2>2, <2>4, <2>5, <2>6, <2>7, <2>8 DEF SpansInv
  <1>2. CallsInv /\ SpansInv /\ [StackNext]_all_vars => SpansInv'
    BY Zenon, OneElement, NextSpansInv DEF CallsInv
  <1> QED BY <1>1, <1>2, CallsInvariance, PTL DEF StackSpec

\* For any number of threads and any nesting: no span is lost or exported while it is
\* open, end_span() meets no empty stack, and only exceptions leave spans open for good;
\* without them, and as long as no two threads trace at the same time, every wrapper
\* closes its own span, a child of that of the wrapper around it.
THEOREM SpansAlwaysAccounted == StackSpec => []SpansAccounted
  <1>1. ASSUME SpansInv
        PROVE  SpansAccounted
    <2>1. /\ skipped \in Nat /\ Tracer!OpenOrExported /\ Numbered(stack_, started)
          /\ Len(stack_) = Cardinality(Frames("tracing")) + skipped + Len(refused)
          /\ IsFiniteSet(Frames("tracing"))
          /\ ~crossed /\ skipped = 0 /\ refused = <<>> => Undisturbed
      BY Zenon, <1>1 DEF SpansInv
    <2>2. Cardinality(Frames("tracing")) \in Nat
      BY Zenon, <2>1, FS_CardinalityType
    <2>3. Len(refused) \in Nat /\ DOMAIN stack_ = 1..Len(stack_)
      BY <1>1 DEF SpansInv, IsSequence
    <2>4. /\ Cardinality(Frames("tracing")) <= Len(stack_)
          /\ Len(stack_) <= Cardinality(Frames("tracing")) + skipped + Len(refused)
      BY <2>1, <2>2, <2>3
    <2>5. ASSUME Undisturbed, NEW t \in Workers, Tracing(t) # {}
          PROVE  OwnSpans(t)
      <3>1. Holds(stack_, frames[t]) /\ Traced(frames[t]) = Tracing(t)
        BY Zenon, <2>5 DEF Undisturbed, Traced, Tracing
      <3>2. \A n \in DOMAIN stack_ :
                stack_[n].parent_span_id = IF n = 1 THEN Tracer!NoSpan ELSE stack_[n - 1].span_id
        BY Zenon, <2>1, <2>3 DEF Numbered
      <3>3. PICK place \in [Tracing(t) -> DOMAIN stack_] :
                /\ \A i, j \in Tracing(t) : i < j => place[i] < place[j]
                /\ \A n \in DOMAIN stack_ : \E i \in Tracing(t) : place[i] = n
                /\ \A i \in Tracing(t) : stack_[place[i]].serial = frames[t][i].serial
        <4>1. PICK place \in [Traced(frames[t]) -> 1..Len(stack_)] :
                  /\ \A i, j \in Traced(frames[t]) : i < j => place[i] < place[j]
                  /\ \A n \in 1..Len(stack_) : \E i \in Traced(frames[t]) : place[i] = n
                  /\ \A i \in Traced(frames[t]) : stack_[place[i]].serial = frames[t][i].serial
          BY Zenon, <3>1 DEF Holds
        <4>2. place \in [Tracing(t) -> DOMAIN stack_]
          BY Zenon, <2>3, <3>1, <4>1
        <4>3. /\ \A i, j \in Tracing(t) : i < j => place[i] < place[j]
              /\ \A n \in DOMAIN stack_ : \E i \in Tracing(t) : place[i] = n
          BY Zenon, <2>3, <3>1, <4>1
        <4>4. ASSUME NEW i \in Tracing(t) PROVE stack_[place[i]].serial = frames[t][i].serial
          BY Zenon, <3>1, <4>1
        <4> QED BY Zenon, <4>2, <4>3, <4>4
      <3> QED BY Zenon, <3>2, <3>3 DEF OwnSpans
    <2> QED BY Zenon, <2>1, <2>4, <2>5 DEF SpansAccounted
  <1> QED BY <1>1, SpansInvariance, PTL
=============================================================================
