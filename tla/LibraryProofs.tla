----------------------------- MODULE LibraryProofs -----------------------------
(***************************************************************************)
(* The parts of the library that are used on their own: hedge and            *)
(* ConfigWatcher, whose work is spread over threads; rotation of keys on any *)
(* number of nodes; money of any width, in any currencies; pages of any size *)
(* of any number of items; sagas of any number of steps; and Bulkhead, alone *)
(* and around with_timeout.                                                  *)
(***************************************************************************)
EXTENDS BulkheadedTimeout, Hedge, ConfigWatcher, KeyRotation, Money, Pagination, Saga, TLAPS

-----------------------------------------------------------------------------
(* hedge, for every delay *)

Threw(t) == <<t, "exception">> \in Range(ended)

\* What the atomics tell a thread about the other one.
HedgeInv ==
    /\ at \in [Threads -> {"fn", "delayed", "skipped", "won", "failed_first", "failed",
                           "publish", "done"}]
    /\ cancelled \in BOOLEAN
    /\ ended \in Seq(Threads \X {"value", "exception"})
    /\ promise = Unset \/ promise[2] \in {"value", "exception"}
    \* failures counts the threads that threw; only the primary's fn is never put off.
    /\ \A t \in Threads :
          /\ at[t] \in {"failed_first", "failed"} => Threw(t)
          /\ at[t] \in {"fn", "delayed", "skipped", "won"} => ~Threw(t)
    /\ at["primary"] \notin {"delayed", "skipped"}
    /\ failures = (IF Threw("primary") THEN 1 ELSE 0) + (IF Threw("hedge") THEN 1 ELSE 0)
    \* An exception is published when no thread can return a value any more.
    /\ (\E t \in Threads : at[t] = "publish") \/ promise[2] = "exception" =>
          \A t \in Threads : at[t] \notin {"fn", "delayed", "won"}
    \* cancelled is set by the first value, whose thread alone may store it.
    /\ cancelled \/ \A e \in Range(ended) : e[2] # "value"
    /\ \A t \in Threads : at[t] = "won" => IsFirstOfItsKind(<<t, "value">>)
    /\ FirstValueReturned

\* What an outcome recorded in ended adds to it; the first of a kind stays the first.
LEMMA OutcomeRecorded ==
    ASSUME NEW e \in Threads \X {"value", "exception"},
           ended \in Seq(Threads \X {"value", "exception"}),
           ended' = Append(ended, e)
    PROVE  /\ ended' \in Seq(Threads \X {"value", "exception"})
           /\ Range(ended)' = Range(ended) \cup {e}
           /\ \A d : IsFirstOfItsKind(d) => IsFirstOfItsKind(d)'
           /\ (\A d \in Range(ended) : d[2] # e[2]) => IsFirstOfItsKind(e)'
  <1>1. /\ ended' \in Seq(Threads \X {"value", "exception"})
        /\ DOMAIN ended = 1..Len(ended) /\ DOMAIN ended' = 1..Len(ended) + 1
        /\ \A i \in 1..Len(ended) : ended'[i] = ended[i]
        /\ ended'[Len(ended) + 1] = e
        /\ Len(ended) \in Nat
    OBVIOUS
  <1>2. Range(ended)' = Range(ended) \cup {e}
    BY <1>1 DEF Range
  <1>3. ASSUME NEW d, IsFirstOfItsKind(d)
        PROVE  IsFirstOfItsKind(d)'
    BY <1>1, <1>3 DEF IsFirstOfItsKind
  <1>4. ASSUME \A d \in Range(ended) : d[2] # e[2]
        PROVE  IsFirstOfItsKind(e)'
    <2>1. \A j \in 1..Len(ended) : ended'[j][2] # e[2]
      BY Zenon, <1>1, <1>4 DEF Range
    <2>2. Len(ended) + 1 \in DOMAIN ended' /\ (Len(ended) + 1) - 1 = Len(ended)
      BY <1>1
    <2> QED BY Zenon, <1>1, <2>1, <2>2 DEF IsFirstOfItsKind
  <1> QED BY Zenon, <1>1, <1>2, <1>3, <1>4

\* Each access to the shared data preserves the invariant.
LEMMA HedgeInvNext == HedgeInv /\ [HedgeNext]_hedge_vars => HedgeInv'
  <1> SUFFICES ASSUME HedgeInv, [HedgeNext]_hedge_vars
               PROVE  HedgeInv'
    BY Zenon
  <1> USE DEF HedgeInv, Threads, Goto, Threw, FirstValueReturned
  <1>1. ASSUME NEW t \in Threads, FnReturns(t)
        PROVE  HedgeInv'
    BY <1>1, OutcomeRecorded DEF FnReturns, Exchange
  <1>2. ASSUME NEW t \in Threads, SetValue(t)
        PROVE  HedgeInv'
    BY <1>2 DEF SetValue, IsFirstOfItsKind
  <1>3. ASSUME NEW t \in Threads, Throws(t)
        PROVE  HedgeInv'
    BY <1>3, OutcomeRecorded DEF Throws
  <1>4. ASSUME NEW t \in Threads, KeepException(t)
        PROVE  HedgeInv'
    BY <1>4 DEF KeepException, IsFirstOfItsKind
  <1>5. ASSUME NEW t \in Threads, LoadFailures(t)
        PROVE  HedgeInv'
    BY <1>5 DEF LoadFailures, EnoughFailures, IsFirstOfItsKind
  <1>6. ASSUME NEW t \in Threads, SetException(t)
        PROVE  HedgeInv'
    BY Zenon, <1>6 DEF SetException, SeenException, IsFirstOfItsKind
  <1>7. ASSUME UNCHANGED <<at, cancelled, failures, promise, ended>>
        PROVE  HedgeInv'
    <2>1. \A d : IsFirstOfItsKind(d)' = IsFirstOfItsKind(d)
      BY Zenon, <1>7 DEF IsFirstOfItsKind
    <2> QED BY Zenon, <1>7, <2>1
  <1>8. CASE HedgeWakes
    BY Zenon, <1>8 DEF HedgeWakes, IsFirstOfItsKind
  <1>9. CASE Skip
    BY <1>9 DEF Skip, IsFirstOfItsKind
  <1>10. HedgeSleeps \/ CallerGets \/ Over \/ UNCHANGED hedge_vars =>
            UNCHANGED <<at, cancelled, failures, promise, ended>>
    BY Zenon DEF HedgeSleeps, CallerGets, Over, hedge_vars
  <1> HIDE DEF HedgeInv, Goto
  <1> QED BY Zenon, <1>1, <1>2, <1>3, <1>4, <1>5, <1>6, <1>7, <1>8, <1>9, <1>10 DEF HedgeNext, Run

\* The invariant holds in every reachable state.
THEOREM HedgeInvariance == HedgeSpec => []HedgeInv
  <1>1. ASSUME HedgeInit
        PROVE  HedgeInv
    <2>1. Range(ended) = {}
      BY <1>1 DEF HedgeInit, Range
    <2>2. promise = Unset /\ promise[2] = "unset"
      BY Zenon, <1>1 DEF HedgeInit, Unset
    <2>3. /\ at = [t \in Threads |-> IF t = "primary" THEN "fn" ELSE "delayed"]
          /\ failures = 0 /\ cancelled = FALSE /\ ended = <<>>
      BY Zenon, <1>1 DEF HedgeInit
    <2>4. ended \in Seq(Threads \X {"value", "exception"})
      BY <2>3
    <2>5. at["primary"] = "fn" /\ at["hedge"] = "delayed"
      BY Zenon, <2>3 DEF Threads
    <2>6. \A t : ~Threw(t)
      BY Zenon, <2>1 DEF Threw
    <2>7. at \in [Threads -> {"fn", "delayed", "skipped", "won", "failed_first", "failed",
                              "publish", "done"}]
      BY Zenon, <2>3
    <2>8. failures = (IF Threw("primary") THEN 1 ELSE 0) + (IF Threw("hedge") THEN 1 ELSE 0)
      BY <2>3, <2>6
    <2>9. \A t \in Threads : at[t] \in {"fn", "delayed"}
      BY Zenon, <2>5 DEF Threads
    <2> QED BY Zenon, <2>1, <2>2, <2>3, <2>4, <2>5, <2>6, <2>7, <2>8, <2>9
            DEF HedgeInv, FirstValueReturned
  <1> QED BY <1>1, HedgeInvNext, PTL DEF HedgeSpec

\* A value that reaches the caller is the one of the first fn to return, whichever
\* thread that is and whatever the other does, for every delay of the hedge.
THEOREM FirstValueAlwaysReturned == HedgeSpec => []FirstValueReturned
  <1>1. HedgeInv => FirstValueReturned
    BY Zenon DEF HedgeInv
  <1> QED BY <1>1, HedgeInvariance, PTL

\* The caller is given an exception only when no fn can return a value any more:
\* the two counters of failures and cancellations never give up too early.
THEOREM ExceptionAlwaysWithoutValue == HedgeSpec => []ExceptionOnlyWithoutValue
  <1>1. HedgeInv => ExceptionOnlyWithoutValue
    BY Zenon DEF HedgeInv, ExceptionOnlyWithoutValue
  <1> QED BY <1>1, HedgeInvariance, PTL

-----------------------------------------------------------------------------
(* ConfigWatcher, however often it is started and stopped *)

\* Who may still use the background thread and the inotify instance.
WatcherInv ==
    \* Outside start() and stop(), thread_ not being joinable means the loop is left.
    /\ owner \in {"idle", "spawn", "gone"} /\ ~thread_ => watcher \in {"none", "done"}
    \* The descriptor is forgotten only after it was closed, by whichever thread.
    /\ open => inotify_fd_
    /\ watcher \in {"none", "init", "clear", "store", "done"} => ~open
    /\ watcher \in {"none", "init", "store", "done"} => ~inotify_fd_
    /\ owner = "clear" => ~open /\ watcher # "init"
    \* The loop clears running_ when it ends; only a start() under way sets it again.
    /\ watcher = "done" /\ running_ => owner = "spawn"

\* Each step of the owner, of watch_loop() and of the kernel preserves the invariant.
LEMMA WatcherInvNext == WatcherInv /\ [WatcherNext]_watcher_vars => WatcherInv'
  <1> SUFFICES ASSUME WatcherInv, [WatcherNext]_watcher_vars
               PROVE  WatcherInv'
    BY Zenon
  <1> USE DEF WatcherInv, owner_vars, kernel_vars, Owner, Watcher
  <1>1. CASE start \/ Spawn \/ DestroyStopped
    BY <1>1 DEF start, Spawn, DestroyStopped
  <1>2. CASE \E by_destructor \in BOOLEAN : StopBegin(by_destructor)
    BY <1>2 DEF StopBegin
  <1>3. CASE StopStep
    BY <1>3 DEF StopStep, StopClose, StopClear, StopJoin, CloseInstance
  <1>4. CASE Inotify_init \/ Inotify_add_watch \/ AddFailed
    BY <1>4 DEF Inotify_init, Inotify_add_watch, AddFailed, CloseInstance
  <1>5. CASE LoopTest \/ Fd_set \/ Select \/ ReadEvents \/ HandleEvent
    BY <1>5 DEF LoopTest, Fd_set, Select, ReadEvents, HandleEvent
  <1>6. CASE Inotify_rm_watch \/ CleanupClose \/ CleanupClear \/ CleanupStore
    BY <1>6 DEF Inotify_rm_watch, CleanupClose, CleanupClear, CleanupStore, CloseInstance
  <1>7. CASE WriteFile \/ ReplaceFile
    BY <1>7 DEF WriteFile, ReplaceFile
  <1>8. CASE UNCHANGED watcher_vars
    BY Zenon, <1>8 DEF watcher_vars
  <1> QED BY Zenon, <1>1, <1>2, <1>3, <1>4, <1>5, <1>6, <1>7, <1>8 DEF WatcherNext, WatcherStep

\* The invariant holds in every reachable state.
THEOREM WatcherInvariance == WatcherSpec => []WatcherInv
  <1>1. WatcherInit => WatcherInv
    BY Zenon DEF WatcherInit, WatcherInv
  <1> QED BY <1>1, WatcherInvNext, PTL DEF WatcherSpec

\* When stop() or the destructor has returned no callback runs, over any number of
\* starts and stops and any number of file changes.
THEOREM NeverCallbackAfterStop == WatcherSpec => []NoCallbackAfterStop
  <1>1. WatcherInv => NoCallbackAfterStop
    BY Zenon DEF WatcherInv, NoCallbackAfterStop
  <1> QED BY <1>1, WatcherInvariance, PTL

\* The loop, once left, has left neither an inotify instance nor running_ behind,
\* whether it or stop() was the one to close the descriptor.
THEOREM NeverAnythingLeftBehind == WatcherSpec => []NothingLeftBehind
  <1>1. WatcherInv => NothingLeftBehind
    BY Zenon DEF WatcherInv, NothingLeftBehind
  <1> QED BY <1>1, WatcherInvariance, PTL

-----------------------------------------------------------------------------
(* KeyRotationService *)

\* A stored blob carries the version and the key its author encrypted it with, and
\* its author still has that key under that version.
RotationInv ==
    /\ DOMAIN keys_ = Nodes
    /\ \A n \in Nodes : /\ DOMAIN keys_[n] \subseteq Versions
                        /\ \A v \in DOMAIN keys_[n] : keys_[n][v] \in Keys
    /\ \A b \in blobs :
          /\ b.by \in Nodes
          /\ b.body.text = b.text
          /\ Len(b.prefix) = 4
          /\ b.prefix \in Seq(0..255)
          /\ b.body.key \in Keys
          /\ HoldsKeyOf(b.by, b)

\* A version is read back from the four bytes it was written as.
LEMMA PrefixRoundTrip ==
    ASSUME NEW v \in Versions
    PROVE  /\ VersionIn(PrefixOf(v)) = v
           /\ PrefixOf(v) \in Seq(0..255)
           /\ Len(PrefixOf(v)) = 4
  <1>1. v \in Nat /\ v \div 16777216 < 256
    BY VersionsAssumption
  <1> DEFINE a == v \div 16777216
             b == (v \div 65536) % 256
             c == (v \div 256) % 256
             d == v % 256
  <1>2. a \in 0..255 /\ b \in 0..255 /\ c \in 0..255 /\ d \in 0..255
    BY <1>1
  <1>3. a * 16777216 + b * 65536 + c * 256 + d = v
    BY <1>1
  <1>4. PrefixOf(v) = <<a, b, c, d>>
    BY <1>1 DEF PrefixOf
  <1> QED
    BY SMTT(20), <1>2, <1>3, <1>4 DEF VersionIn

\* add_key() keeps every key a node has.
LEMMA AddKeyKeeps ==
    ASSUME RotationInv, NEW n \in Nodes, NEW version \in Versions, NEW key \in Keys,
           AddKey(n, version, key), NEW m \in Nodes
    PROVE  /\ DOMAIN keys_[m] \subseteq DOMAIN keys_'[m]
           /\ DOMAIN keys_'[m] \subseteq DOMAIN keys_[m] \cup {version}
           /\ \A v \in DOMAIN keys_[m] : keys_'[m][v] = keys_[m][v]
           /\ \A v \in DOMAIN keys_'[m] : keys_'[m][v] \in Keys
  <1>1. CASE m = n
    <2>1. keys_'[m] = Emplaced(keys_[m], version, key)
      BY Zenon, <1>1 DEF AddKey, RotationInv
    <2> QED
      BY Zenon, <2>1 DEF RotationInv, Emplaced
  <1>2. CASE m # n
    <2>1. keys_'[m] = keys_[m]
      BY Zenon, <1>2 DEF AddKey, RotationInv
    <2> QED
      BY Zenon, <2>1 DEF RotationInv
  <1> QED BY Zenon, <1>1, <1>2

\* Every action preserves the inductive invariant.
LEMMA RotationInvNext == RotationInv /\ [RotationNext]_rotation_vars => RotationInv'
  <1> SUFFICES ASSUME RotationInv, [RotationNext]_rotation_vars
               PROVE  RotationInv'
    BY Zenon
  <1>1. ASSUME NEW n \in Nodes, NEW version \in Versions, NEW key \in Keys,
               AddKey(n, version, key)
        PROVE  RotationInv'
    <2>0. \A m \in Nodes :
              /\ DOMAIN keys_[m] \subseteq DOMAIN keys_'[m]
              /\ DOMAIN keys_'[m] \subseteq DOMAIN keys_[m] \cup {version}
              /\ \A v \in DOMAIN keys_[m] : keys_'[m][v] = keys_[m][v]
              /\ \A v \in DOMAIN keys_'[m] : keys_'[m][v] \in Keys
      BY Zenon, <1>1, AddKeyKeeps
    <2>1. \A m \in Nodes :
              /\ DOMAIN keys_'[m] \subseteq Versions
              /\ \A v \in DOMAIN keys_'[m] : keys_'[m][v] \in Keys
      BY <2>0 DEF RotationInv
    <2>2. ASSUME NEW b \in blobs
          PROVE  HoldsKeyOf(b.by, b)'
      BY Zenon, <2>0 DEF RotationInv, HoldsKeyOf
    <2> QED
      BY <1>1, <2>1, <2>2 DEF AddKey, RotationInv
  <1>2. ASSUME NEW n \in Nodes, NEW text \in Texts, Encrypt(n, text)
        PROVE  RotationInv'
    <2>1. PICK version \in DOMAIN keys_[n] :
              /\ blobs' = blobs \cup {[by |-> n, text |-> text,
                                       prefix |-> PrefixOf(version),
                                       body |-> Seal(keys_[n][version], text)]}
              /\ UNCHANGED keys_
      BY Zenon, <1>2 DEF Encrypt
    <2>2. version \in Versions /\ keys_[n][version] \in Keys
      BY Zenon DEF RotationInv
    <2> QED
      BY <2>1, <2>2, PrefixRoundTrip DEF RotationInv, HoldsKeyOf, Seal
  <1>3. CASE UNCHANGED rotation_vars
    BY <1>3 DEF rotation_vars, RotationInv, HoldsKeyOf
  <1> QED
    BY Zenon, <1>1, <1>2, <1>3 DEF RotationNext, AddKeyRefused, EncryptRefused

\* The inductive invariant holds in every reachable state.
THEOREM RotationInvariance == RotationSpec => []RotationInv
  <1>1. RotationInit => RotationInv
    BY DEF RotationInit, RotationInv
  <1> QED BY <1>1, RotationInvNext, PTL DEF RotationSpec

\* For any nodes, versions and keys, and however keys reach the nodes: what a node
\* encrypted it can decrypt for ever, and another node gets the text or an error.
THEOREM AlwaysReadable == RotationSpec => []OldCiphertextsStayReadable
  <1>1. RotationInv => OldCiphertextsStayReadable
    <2> SUFFICES ASSUME RotationInv, NEW b \in blobs
                 PROVE  /\ HoldsKeyOf(b.by, b)
                        /\ \A n \in Nodes :
                              /\ decrypt(n, b.prefix, b.body) =
                                    IF HoldsKeyOf(n, b) THEN b.text ELSE Error
                              /\ decrypt(n, b.prefix, CutBody) = Error
                              /\ \A l \in 0..3 :
                                    decrypt(n, SubSeq(b.prefix, 1, l), b.body) = Error
      BY Zenon DEF OldCiphertextsStayReadable
    <2>1. HoldsKeyOf(b.by, b) /\ Len(b.prefix) = 4 /\ b.prefix \in Seq(0..255)
      BY Zenon DEF RotationInv
    <2>2. b.body # CutBody
      BY Zenon, CutAssumption DEF RotationInv
    <2>3. b.body.text = b.text
      BY Zenon DEF RotationInv
    <2>4. ASSUME NEW n \in Nodes
          PROVE  decrypt(n, b.prefix, b.body) = IF HoldsKeyOf(n, b) THEN b.text ELSE Error
      BY <2>1, <2>2, <2>3 DEF decrypt, HoldsKeyOf, Open
    <2>5. \A l \in 0..3 : Len(SubSeq(b.prefix, 1, l)) < 4
      BY <2>1
    <2> QED BY Zenon, <2>1, <2>4, <2>5 DEF decrypt
  <1> QED BY <1>1, RotationInvariance, PTL

\* For any nodes, versions and keys the version a node encrypts with never falls.
THEOREM CurrentAlwaysGrows == RotationSpec => CurrentNeverGoesBack
  <1>1. ASSUME RotationInv, [RotationNext]_rotation_vars
        PROVE  [\A n \in Nodes : \A v, w \in Versions :
                   IsCurrent(n, v) /\ IsCurrent(n, w)' => v <= w]_rotation_vars
    <2> SUFFICES ASSUME RotationNext, NEW m \in Nodes, NEW v \in Versions, NEW w \in Versions,
                        IsCurrent(m, v), IsCurrent(m, w)'
                 PROVE  v <= w
      BY Zenon, <1>1
    <2>1. DOMAIN keys_[m] \subseteq DOMAIN keys_'[m]
      BY Zenon, <1>1, AddKeyKeeps
      DEF RotationNext, AddKeyRefused, Encrypt, EncryptRefused, rotation_vars
    <2> QED BY Zenon, <2>1 DEF IsCurrent
  <1> QED BY <1>1, RotationInvariance, PTL DEF RotationSpec, CurrentNeverGoesBack

-----------------------------------------------------------------------------
(* Money and Page *)


MoneyInv == balance \in Moneys /\ balance.cents = booked

\* A result that fits is not changed by the width.
LEMMA WrappedFits ==
    ASSUME NEW n \in Cents
    PROVE  Wrapped(n) = n
  <1>1. MaxCents \in Nat /\ n \in Int /\ n - MinCents >= 0 /\ n - MinCents < 2 * MaxCents + 2
    BY MaxCentsAssumption DEF Cents, MinCents
  <1> DEFINE d == n - MinCents
             w == 2 * MaxCents + 2
  <1>2. d \in Nat /\ w \in Nat /\ w > 0 /\ d < w
    BY <1>1, MaxCentsAssumption DEF MinCents
  <1> HIDE DEF d, w
  <1>3. d % w = d
    BY <1>2
  <1> QED
    BY <1>1, <1>3, MaxCentsAssumption DEF Wrapped, MinCents, d, w

\* check_no_overflow() lets through exactly the sums that fit.
LEMMA FitsIffInRange ==
    ASSUME NEW a \in Cents, NEW b \in Cents
    PROVE  Fits(a, b) <=> a + b \in Cents
  BY MaxCentsAssumption DEF Fits, Cents, MinCents

\* operator+ is exact: the sum, or an exception when it does not fit.
LEMMA PlusExact ==
    ASSUME NEW m \in Moneys, NEW o \in Moneys
    PROVE  Plus(m, o) = Exactly(m.cents + o.cents, m.currency, o)
  <1>1. m.cents \in Cents /\ o.cents \in Cents /\ m = [cents |-> m.cents, currency |-> m.currency]
    BY Zenon DEF Moneys
  <1>2. Fits(m.cents, o.cents) <=> m.cents + o.cents \in Cents
    BY Zenon, <1>1, FitsIffInRange
  <1>3. m.cents + o.cents \in Cents => Wrapped(m.cents + o.cents) = m.cents + o.cents
    BY Zenon, WrappedFits
  <1> QED
    BY <1>1, <1>2, <1>3 DEF Plus, Exactly, Same, Moneys

\* operator- is exact, for every amount but the smallest.
LEMMA MinusExact ==
    ASSUME NEW m \in Moneys, NEW o \in Negatable
    PROVE  Minus(m, o) = Exactly(m.cents - o.cents, m.currency, o)
  <1>1. /\ m.cents \in Cents /\ o.cents \in Cents /\ -o.cents \in Cents
        /\ m = [cents |-> m.cents, currency |-> m.currency]
    BY MaxCentsAssumption DEF Moneys, Negatable, Cents, MinCents
  <1>2. Wrapped(-o.cents) = -o.cents
    BY Zenon, <1>1, WrappedFits
  <1>3. Fits(m.cents, -o.cents) <=> m.cents - o.cents \in Cents
    BY Zenon, <1>1, FitsIffInRange, MaxCentsAssumption DEF Cents, MinCents
  <1>4. m.cents - o.cents \in Cents => Wrapped(m.cents - o.cents) = m.cents - o.cents
    BY Zenon, WrappedFits
  <1> QED
    BY <1>1, <1>2, <1>3, <1>4 DEF Minus, Exactly, Same, Moneys

\* An exception is not an amount, and an exact result is.
LEMMA ExactlyType ==
    ASSUME NEW n \in Int, NEW currency \in Currencies, NEW m \in Moneys
    PROVE  /\ Thrown \notin Moneys
           /\ Exactly(n, currency, m) # Thrown =>
                 /\ Exactly(n, currency, m) \in Moneys
                 /\ Exactly(n, currency, m).cents = n
                 /\ Exactly(n, currency, m).currency = currency
  <1>1. Thrown \notin Moneys
    BY Zenon DEF Thrown, Moneys
  <1> QED BY Zenon, <1>1 DEF Exactly, Moneys

\* An account agrees with the sum of what was booked on it.
LEMMA MoneyInvNext == MoneyInv /\ [MoneyNext]_money_vars => MoneyInv'
  <1> SUFFICES ASSUME MoneyInv, [MoneyNext]_money_vars
               PROVE  MoneyInv'
    BY Zenon
  <1>0. balance.cents \in Int /\ balance.currency \in Currencies /\ balance \in Moneys
    BY MaxCentsAssumption DEF MoneyInv, Moneys, Cents, MinCents
  <1>1. ASSUME NEW m \in Moneys, Add(m)
        PROVE  MoneyInv'
    <2>1. m.cents \in Int
      BY MaxCentsAssumption DEF Moneys, Cents, MinCents
    <2>2. Plus(balance, m) # Thrown =>
             Plus(balance, m) \in Moneys /\ Plus(balance, m).cents = balance.cents + m.cents
      BY <1>0, <2>1, PlusExact, ExactlyType
    <2> QED
      BY Zenon, <1>1, <2>1, <2>2 DEF Add, Booked, MoneyInv, money_vars
  <1>2. ASSUME NEW m \in Negatable, Take(m)
        PROVE  MoneyInv'
    <2>1. m \in Moneys /\ m.cents \in Int
      BY MaxCentsAssumption DEF Negatable, Moneys, Cents, MinCents
    <2>2. Minus(balance, m) # Thrown =>
             Minus(balance, m) \in Moneys /\ Minus(balance, m).cents = balance.cents - m.cents
      BY <1>0, <2>1, MinusExact, ExactlyType
    <2> QED
      BY Zenon, <1>0, <1>2, <2>1, <2>2 DEF Take, Booked, MoneyInv, money_vars
  <1>3. CASE UNCHANGED money_vars
    BY Zenon, <1>3 DEF MoneyInv, money_vars
  <1> QED
    BY Zenon, <1>1, <1>2, <1>3 DEF MoneyNext

\* For every width of the integer and any currencies, accounts are exact.
THEOREM AlwaysExact == MoneySpec => []ArithmeticExact
  <1>1. MoneyInit => MoneyInv
    BY Zenon DEF MoneyInit, MoneyInv
  <1>2. ASSUME MoneyInv
        PROVE  ArithmeticExact
    <2>0. balance \in Moneys /\ balance.cents = booked /\ booked \in Int
          /\ balance.currency \in Currencies
      BY <1>2, MaxCentsAssumption DEF MoneyInv, Moneys, Cents, MinCents
    <2>1. ASSUME NEW m \in Moneys
          PROVE  /\ Plus(balance, m) = Exactly(booked + m.cents, balance.currency, m)
                 /\ m \in Negatable =>
                       Minus(balance, m) = Exactly(booked - m.cents, balance.currency, m)
      BY Zenon, <2>0, PlusExact, MinusExact
    <2>2. ASSUME NEW m \in Moneys, Plus(balance, m) # Thrown
          PROVE  Less(balance, Plus(balance, m)) <=> m.cents > 0
      <3>1. m.cents \in Int
        BY MaxCentsAssumption DEF Moneys, Cents, MinCents
      <3>2. /\ Plus(balance, m).cents = booked + m.cents
            /\ Plus(balance, m).currency = balance.currency
        BY <2>0, <2>1, <2>2, <3>1, ExactlyType
      <3> QED
        BY <2>0, <3>1, <3>2 DEF Less, Same
    <2> QED
      BY Zenon, <2>0, <2>1, <2>2 DEF ArithmeticExact
  <1> QED
    BY <1>1, <1>2, MoneyInvNext, PTL DEF MoneySpec
-----------------------------------------------------------------------------

\* The client has all items up to the end of its page, which is not empty.
PagesInv ==
    /\ size \in Sizes /\ total \in 1..Wide /\ total + size - 1 < Wide * size
    /\ page \in Nat /\ page * size < total
    /\ fetched = page + 1
    /\ seen = {i \in 0..total - 1 : i < page * size + size}

\* Without items there is no page after the first.
NoItems ==
    /\ size \in Sizes /\ total = 0
    /\ page = 0 /\ fetched = 1 /\ seen = {}

\* Products by a size keep and reflect the order.
LEMMA TimesOrder ==
    ASSUME NEW s \in Nat, s > 0, NEW a \in Nat, NEW b \in Nat
    PROVE  /\ a * s \in Nat
           /\ (a + 1) * s = a * s + s
           /\ a * s < b * s => a < b
  <1>1. a * s \in Nat /\ (a + 1) * s = a * s + s
    OBVIOUS
  <1>2. a >= b => a * s >= b * s
    OBVIOUS
  <1>3. b * s \in Nat
    OBVIOUS
  <1> QED BY <1>1, <1>2, <1>3

\* What the divisions and remainders of a page are, in states of the invariant.
LEMMA PageNumbers ==
    ASSUME PagesInv
    PROVE  /\ size \in Nat /\ size > 0 /\ total \in Nat /\ page * size \in Nat
           /\ (page + 1) % Wide = page + 1 /\ Wide \in Nat
           /\ offset(page) = page * size
           /\ has_next(page) <=> page * size + size < total
           /\ has_next(page) => offset(page + 1) = page * size + size
  <1>1. size \in Nat /\ size > 0 /\ total \in Nat /\ total <= Wide /\ Wide \in Nat /\ page \in Nat
    BY PagesAssumption DEF PagesInv
  <1>2. page * size \in Nat /\ (page + 1) * size = page * size + size
    BY Zenon, <1>1, TimesOrder
  <1>3. (page + 1) * size < Wide * size
    <2>1. Wide * size \in Nat
      BY Zenon, <1>1, TimesOrder
    <2> QED BY <1>1, <1>2, <2>1 DEF PagesInv
  <1>4. page + 1 < Wide
    BY <1>1, <1>3, TimesOrder, page + 1 \in Nat
  <1> DEFINE o == page * size
  <1>5. o \in Nat /\ o < Wide
    BY <1>1, <1>2 DEF PagesInv
  <1>6. (page + 1) % Wide = page + 1
    BY <1>1, <1>4
  <1>7. has_next(page) <=> o + size < total
    BY Zenon, <1>2, <1>6 DEF has_next
  <1> HIDE DEF o
  <1>8. o % Wide = o /\ (o + size < total => (o + size) % Wide = o + size)
    BY <1>1, <1>5
  <1> QED
    BY Zenon, <1>1, <1>2, <1>5, <1>6, <1>7, <1>8 DEF offset, o

\* Fetching the next page preserves the invariant.
LEMMA PagesInvNext == PagesInv /\ [PagesNext]_page_vars => PagesInv'
  <1> SUFFICES ASSUME PagesInv, [PagesNext]_page_vars
               PROVE  PagesInv'
    BY Zenon
  <1>1. ASSUME NextPage
        PROVE  PagesInv'
    <2> DEFINE o == page * size
    <2>1. /\ size \in Nat /\ size > 0 /\ total \in Nat /\ o \in Nat
          /\ o + size < total /\ offset(page + 1) = o + size /\ (page + 1) % Wide = page + 1
      BY Zenon, <1>1, PageNumbers, page \in Nat DEF NextPage, PagesInv
    <2>2. page' = page + 1 /\ page' * size' = o + size /\ size' = size /\ total' = total
      BY Zenon, <1>1, <2>1, TimesOrder DEF NextPage, PagesInv
    <2>3. seen' = seen \cup {i \in o + size..o + size + size - 1 : i < total}
      BY Zenon, <1>1, <2>1, <2>2 DEF NextPage, Items
    <2> HIDE DEF o
    <2>4. seen = {i \in 0..total - 1 : i < o + size}
      BY Zenon DEF PagesInv, o
    <2>5. seen' = {i \in 0..total - 1 : i < o + size + size}
      BY <2>1, <2>3, <2>4
    <2> QED
      BY <1>1, <2>1, <2>2, <2>5 DEF NextPage, PagesInv
  <1>2. CASE UNCHANGED page_vars
    BY Zenon, <1>2 DEF page_vars, PagesInv
  <1> QED
    BY Zenon, <1>1, <1>2 DEF PagesNext, LastPage

\* Nothing follows the first page of no items.
LEMMA NoItemsNext == NoItems /\ [PagesNext]_page_vars => NoItems'
  <1>1. NoItems => ~has_next(page)
    <2> SUFFICES ASSUME NoItems PROVE ~has_next(page)
      BY Zenon
    <2>1. size \in Nat /\ (page + 1) % Wide \in Nat /\ total = 0
      BY PagesAssumption DEF NoItems
    <2>2. ((page + 1) % Wide) * size \in Nat
      BY <2>1
    <2> QED BY <2>1, <2>2 DEF has_next
  <1> QED BY Zenon, <1>1 DEF PagesNext, NextPage, LastPage, page_vars, NoItems

\* total_pages() is the number of pages it takes to hold all items.
LEMMA TotalPages ==
    ASSUME PagesInv
    PROVE  /\ page + 1 <= total_pages
           /\ ~has_next(page) => page + 1 = total_pages
  <1> DEFINE x == total + size - 1
             q == x \div size
             o == page * size
  <1>1. /\ size \in Nat /\ size > 0 /\ total \in Nat /\ o \in Nat /\ page \in Nat
        /\ Wide \in Nat /\ x \in Nat /\ o < total /\ total > 0
        /\ has_next(page) <=> o + size < total
    BY PageNumbers DEF PagesInv
  <1>2. q \in Nat /\ q * size <= x /\ x < q * size + size
    BY <1>1
  <1>3. q * size < Wide * size
    BY <1>1, <1>2, TimesOrder DEF PagesInv
  <1>4. q < Wide
    BY Zenon, <1>1, <1>2, <1>3, TimesOrder
  <1>5. total_pages = q
    BY <1>1, <1>2, <1>4 DEF total_pages
  <1>6. (page + 1) * size = o + size /\ (q + 1) * size = q * size + size
        /\ (page + 2) * size = o + size + size
    BY <1>1, <1>2, TimesOrder
  <1>7. page + 1 < q + 1
    <2>1. (page + 1) * size < (q + 1) * size
      BY <1>1, <1>2, <1>6
    <2> QED BY <1>1, <1>2, <2>1, TimesOrder, page + 1 \in Nat, q + 1 \in Nat
  <1>8. ~has_next(page) => q < page + 2
    <2>1. ~has_next(page) => q * size < (page + 2) * size
      BY <1>1, <1>2, <1>6
    <2> QED BY <1>1, <1>2, <2>1, TimesOrder, page + 2 \in Nat
  <1> QED
    BY <1>1, <1>2, <1>5, <1>7, <1>8

\* For every width, every page size and every total whose pages can be numbered,
\* following has_next() from page 0 visits every item exactly once.
THEOREM AlwaysEveryItemOnce == PagesSpec => []EveryItemOnce
  <1>1. PagesInit => PagesInv \/ NoItems
    <2> SUFFICES ASSUME PagesInit
                 PROVE  PagesInv \/ NoItems
      BY Zenon
    <2>1. size \in Nat /\ size > 0 /\ total \in Nat /\ Wide \in Nat
      BY PagesAssumption DEF PagesInit
    <2>2. 0 * size = 0 /\ offset(0) = 0
      BY <2>1, PagesAssumption DEF offset
    <2>3. CASE total > 0
      BY <2>1, <2>2, <2>3 DEF PagesInit, PagesInv, Items
    <2>4. CASE total = 0
      BY <2>1, <2>2, <2>4 DEF PagesInit, NoItems, Items
    <2> QED BY <2>1, <2>3, <2>4
  <1>2. ASSUME PagesInv
        PROVE  EveryItemOnce
    <2> DEFINE o == page * size
    <2>1. /\ size \in Nat /\ size > 0 /\ total \in Nat /\ o \in Nat /\ o < total
          /\ page \in Nat /\ offset(page) = o
          /\ has_next(page) <=> o + size < total
          /\ has_next(page) => offset(page + 1) = o + size
          /\ (page + 1) % Wide = page + 1
      BY Zenon, <1>2, PageNumbers DEF PagesInv
    <2>2. fetched = page + 1 /\ seen = {i \in 0..total - 1 : i < o + size}
      BY Zenon, <1>2 DEF PagesInv
    <2> HIDE DEF o
    <2>3. o \in Items(page)
      BY <2>1 DEF Items
    <2>4. has_next(page) => Items((page + 1) % Wide) \cap seen = {}
      BY <2>1, <2>2 DEF Items
    <2>5. ~has_next(page) => seen = 0..total - 1
      BY <2>1, <2>2
    <2>6. fetched <= total_pages /\ (~has_next(page) => fetched = total_pages)
      BY Zenon, <1>2, <2>2, TotalPages
    <2>7. total # 0
      BY <1>2 DEF PagesInv
    <2> QED
      BY Zenon, <2>3, <2>4, <2>5, <2>6, <2>7 DEF EveryItemOnce
  <1>3. ASSUME NoItems
        PROVE  EveryItemOnce
    <2>1. /\ total = 0 /\ fetched = 1 /\ seen = {}
      BY Zenon, <1>3 DEF NoItems
    <2>2. size \in Nat /\ Wide \in Nat /\ (page + 1) % Wide \in Nat
      BY <1>3, PagesAssumption DEF NoItems
    <2>3. ((page + 1) % Wide) * size \in Nat
      BY <2>2
    <2>4. ~has_next(page) /\ 0..total - 1 = {} /\ ~(total > 0)
      BY <2>1, <2>3 DEF has_next
    <2> QED BY Zenon, <2>1, <2>4 DEF EveryItemOnce
  <1> QED
    BY <1>1, <1>2, <1>3, PagesInvNext, NoItemsNext, PTL DEF PagesSpec

-----------------------------------------------------------------------------
(* SagaOrchestrator *)

Descending(s) == \A i, j \in DOMAIN s : i < j => s[i] > s[j]

\* run() has executed the first completed steps; compensate(), at index i, has called
\* the compensations there are above i, downwards.
SagaInv ==
    /\ phase \in {"idle", "action", "compensate", "returned", "SagaError", "foreign"}
    /\ steps_ \in Seq(BOOLEAN)
    /\ current \in Nat /\ completed \in Nat
    /\ executed \in Seq(Nat) /\ compensated \in Seq(Nat)
    /\ phase # "idle" => /\ Len(executed) = completed
                      /\ completed <= Len(steps_)
                      /\ \A i \in 1..completed : executed[i] = i
    /\ phase \in {"action", "returned", "foreign"} => compensated = <<>>
    /\ phase = "action" => current = completed + 1
    /\ phase \in {"compensate", "SagaError"} =>
          /\ current <= completed
          /\ Range(compensated) = {s \in 1..completed : s > current /\ steps_[s]}
          /\ Descending(compensated)
    /\ phase = "SagaError" => current = 0

\* A sequence with one more at its end, element by element.
LEMMA AppendElements ==
    ASSUME NEW S, NEW s \in Seq(S), NEW e \in S
    PROVE  /\ Append(s, e) \in Seq(S) /\ Len(Append(s, e)) = Len(s) + 1
           /\ DOMAIN s = 1..Len(s) /\ DOMAIN Append(s, e) = 1..(Len(s) + 1)
           /\ \A i \in 1..Len(s) : Append(s, e)[i] = s[i]
           /\ Append(s, e)[Len(s) + 1] = e
           /\ Len(s) \in Nat
           /\ Range(Append(s, e)) = Range(s) \cup {e}
  <1>1. /\ Append(s, e) \in Seq(S) /\ Len(Append(s, e)) = Len(s) + 1
        /\ DOMAIN s = 1..Len(s) /\ DOMAIN Append(s, e) = 1..(Len(s) + 1)
        /\ \A i \in 1..Len(s) : Append(s, e)[i] = s[i]
        /\ Append(s, e)[Len(s) + 1] = e
        /\ Len(s) \in Nat
    OBVIOUS
  <1>2. \A x : x \in Range(Append(s, e)) <=> x \in Range(s) \cup {e}
    BY <1>1 DEF Range
  <1> QED BY Zenon, <1>1, <1>2

\* Every step of run(), and step() between two runs, preserves the invariant.
LEMMA SagaInvNext == SagaInv /\ [SagaNext]_saga_vars => SagaInv'
  <1> SUFFICES ASSUME SagaInv, [SagaNext]_saga_vars
               PROVE  SagaInv'
    BY Zenon
  <1>1. ASSUME NEW b \in BOOLEAN, step(b)
        PROVE  SagaInv'
    BY <1>1 DEF step, Outside, SagaInv
  <1>2. CASE RunBegin
    BY <1>2 DEF RunBegin, SagaInv
  <1>3. CASE ActionReturns
    <2>1. /\ executed' = Append(executed, current) /\ executed \in Seq(Nat) /\ current \in Nat
          /\ current = completed + 1 /\ current <= Len(steps_) /\ Len(executed) = completed
          /\ \A i \in 1..completed : executed[i] = i
      BY Zenon, <1>3 DEF ActionReturns, SagaInv
    <2>2. /\ executed' \in Seq(Nat) /\ Len(executed') = completed + 1
          /\ \A i \in 1..completed : executed'[i] = executed[i]
          /\ executed'[completed + 1] = completed + 1
      BY <2>1, AppendElements
    <2>3. \A i \in 1..completed + 1 : executed'[i] = i
      BY <2>1, <2>2 DEF SagaInv
    <2> QED BY <1>3, <2>1, <2>2, <2>3 DEF ActionReturns, SagaInv
  <1>4. CASE RunReturns
    BY Zenon, <1>4 DEF RunReturns, SagaInv
  <1>5. CASE ActionThrows
    <2>1. Range(compensated) = {} /\ compensated = <<>>
      BY <1>5 DEF ActionThrows, SagaInv, Range
    <2>2. {s \in 1..completed : s > completed /\ steps_[s]} = {}
      BY DEF SagaInv
    <2> QED BY <1>5, <2>1, <2>2 DEF ActionThrows, SagaInv, Descending
  <1>6. CASE ActionThrowsForeign
    BY Zenon, <1>6 DEF ActionThrowsForeign, SagaInv
  <1>7. CASE Compensate
    <2>1. /\ compensated' = Append(compensated, current) /\ compensated \in Seq(Nat)
          /\ current \in Nat /\ current > 0 /\ steps_[current] /\ current' = current - 1
          /\ completed \in Nat /\ current <= completed
          /\ Range(compensated) = {s \in 1..completed : s > current /\ steps_[s]}
          /\ Descending(compensated)
          /\ UNCHANGED <<steps_, phase, completed, executed>> /\ phase = "compensate"
      BY Zenon, <1>7 DEF Compensate, SagaInv
    <2>2. /\ compensated' \in Seq(Nat)
          /\ DOMAIN compensated = 1..Len(compensated) /\ Len(compensated) \in Nat
          /\ DOMAIN compensated' = 1..(Len(compensated) + 1)
          /\ \A i \in 1..Len(compensated) : compensated'[i] = compensated[i]
          /\ compensated'[Len(compensated) + 1] = current
          /\ Range(compensated') = Range(compensated) \cup {current}
      BY <2>1, AppendElements
    <2>3. Range(compensated') = {s \in 1..completed : s > current - 1 /\ steps_[s]}
      BY <2>1, <2>2
    <2>4. \A i \in 1..Len(compensated) : compensated[i] > current
      BY Zenon, <2>1, <2>2 DEF Range
    <2>5. ASSUME NEW i \in DOMAIN compensated', NEW j \in DOMAIN compensated', i < j
          PROVE  compensated'[i] > compensated'[j]
      <3>1. i \in 1..Len(compensated)
        BY <2>2, <2>5
      <3>2. CASE j = Len(compensated) + 1
        BY Zenon, <2>2, <2>4, <3>1, <3>2
      <3>3. CASE j \in 1..Len(compensated)
        BY Zenon, <2>1, <2>2, <2>5, <3>1, <3>3 DEF Descending
      <3> QED BY <2>2, <3>2, <3>3
    <2>6. Descending(compensated')
      BY Zenon, <2>5 DEF Descending
    <2> QED BY <2>1, <2>2, <2>3, <2>6 DEF SagaInv
  <1>8. CASE SkipStep
    <2>1. {s \in 1..completed : s > current /\ steps_[s]}
              = {s \in 1..completed : s > current - 1 /\ steps_[s]}
      BY <1>8 DEF SkipStep, SagaInv
    <2> QED BY <1>8, <2>1 DEF SkipStep, SagaInv
  <1>9. CASE ThrowSagaError
    BY Zenon, <1>9 DEF ThrowSagaError, SagaInv
  <1>10. CASE UNCHANGED saga_vars
    BY Zenon, <1>10 DEF saga_vars, SagaInv
  <1> QED
    BY <1>1, <1>2, <1>3, <1>4, <1>5, <1>6, <1>7, <1>8, <1>9, <1>10 DEF SagaNext

\* For sagas of any number of steps, run again and extended in between, a SagaError
\* means that the executed steps were compensated once each, in reverse, and any other
\* end that none was.
THEOREM AlwaysCompensatedInReverse == SagaSpec => []CompensatedInReverse
  <1>1. SagaInit => SagaInv
    BY DEF SagaInit, SagaInv
  <1>2. SagaInv => CompensatedInReverse
    <2> SUFFICES ASSUME SagaInv PROVE CompensatedInReverse
      BY Zenon
    <2>1. ASSUME phase # "idle" PROVE Range(executed) = 1..completed /\ DOMAIN executed = 1..completed
      BY <2>1 DEF SagaInv, Range
    <2>2. ASSUME phase # "idle" PROVE Compensable = {s \in 1..completed : steps_[s]}
      BY Zenon, <2>1, <2>2 DEF Compensable
    <2>3. phase # "idle" => \A i \in DOMAIN executed : executed[i] = i
      BY Zenon, <2>1 DEF SagaInv
    <2>4. ASSUME phase = "SagaError" PROVE Range(compensated) = Compensable
      <3>1. Compensable = {s \in 1..completed : steps_[s]}
        BY Zenon, <2>2, <2>4
      <3>2. Range(compensated) = {s \in 1..completed : s > 0 /\ steps_[s]}
        BY Zenon, <2>4 DEF SagaInv
      <3> QED BY <3>1, <3>2
    <2>5. ASSUME phase \in {"compensate", "SagaError"}
          PROVE  /\ Range(compensated) \subseteq Compensable
                 /\ \A i, j \in DOMAIN compensated : i < j => compensated[i] > compensated[j]
                 /\ \A c \in Range(compensated), s \in Compensable : s > c => s \in Range(compensated)
      <3>1. Compensable = {s \in 1..completed : steps_[s]}
        BY Zenon, <2>2, <2>5
      <3>2. /\ Range(compensated) = {s \in 1..completed : s > current /\ steps_[s]}
            /\ Descending(compensated) /\ current \in Nat /\ completed \in Nat
        BY Zenon, <2>5 DEF SagaInv
      <3> QED BY <3>1, <3>2 DEF Descending
    <2> QED BY Zenon, <2>3, <2>4, <2>5 DEF SagaInv, CompensatedInReverse
  <1> QED BY <1>1, <1>2, SagaInvNext, PTL DEF SagaSpec

-----------------------------------------------------------------------------
(* Bulkhead, for any finite set of calls and any capacity *)

INSTANCE FiniteSetTheorems

BulkheadInv == BulkheadTypeOK /\ SlotsAccounted

\* Acquire, a refusal and release preserve the inductive invariant.
LEMMA BulkheadInvNext == BulkheadInv /\ [BulkheadNext]_bulkhead_vars => BulkheadInv'
  <1> SUFFICES ASSUME BulkheadInv, [BulkheadNext]_bulkhead_vars
               PROVE  BulkheadInv'
    BY Zenon
  <1> USE BulkheadAssumption DEF BulkheadInv, BulkheadTypeOK, SlotsAccounted
  <1>0. IsFiniteSet(inside)
    BY Zenon, FS_Subset
  <1>1. ASSUME NEW c \in Callers, Acquire(c)
        PROVE  BulkheadInv'
    <2>1. Cardinality(inside \cup {c}) = Cardinality(inside) + 1
      BY Zenon, <1>0, <1>1, FS_AddElement DEF Acquire
    <2> QED BY <1>1, <2>1 DEF Acquire, HasRoom
  <1>2. ASSUME NEW c \in Callers, AcquireFull(c)
        PROVE  BulkheadInv'
    BY Zenon, <1>2 DEF AcquireFull, bulkhead_vars
  <1>3. ASSUME NEW c \in Callers, Release(c)
        PROVE  BulkheadInv'
    <2>1. Cardinality(inside \ {c}) = Cardinality(inside) - 1
      BY Zenon, <1>0, <1>3, FS_RemoveElement DEF Release
    <2>2. active > 0
      BY <1>0, <1>3, FS_EmptySet, FS_CardinalityType DEF Release
    <2> QED BY <1>3, <2>1, <2>2 DEF Release
  <1>4. CASE UNCHANGED bulkhead_vars
    BY Zenon, <1>4 DEF bulkhead_vars
  <1> QED BY <1>1, <1>2, <1>3, <1>4 DEF BulkheadNext

\* The inductive invariant holds in every reachable state.
THEOREM BulkheadInvariance == BulkheadSpec => []BulkheadInv
  <1>1. BulkheadInit => BulkheadInv
    BY FS_EmptySet, BulkheadAssumption DEF BulkheadInit, BulkheadInv, BulkheadTypeOK, SlotsAccounted
  <1> QED BY <1>1, BulkheadInvNext, PTL DEF BulkheadSpec

\* For every capacity and any number of calls active_ is the number of calls in
\* progress: the guard object never leaks or returns a slot twice.
THEOREM SlotsAlwaysAccounted == BulkheadSpec => []SlotsAccounted
  <1>1. BulkheadInv => SlotsAccounted
    BY Zenon DEF BulkheadInv
  <1> QED BY BulkheadInvariance, <1>1, PTL

\* For every capacity at most max_ calls are in progress at the same time.
THEOREM ConcurrencyAlwaysBounded == BulkheadSpec => []ConcurrencyBounded
  <1>1. BulkheadInv => ConcurrencyBounded
    BY BulkheadAssumption
    DEF BulkheadInv, BulkheadTypeOK, SlotsAccounted, ConcurrencyBounded, Available
  <1> QED BY BulkheadInvariance, <1>1, PTL

-----------------------------------------------------------------------------
(* with_timeout inside Bulkhead::call *)

\* Every step of the stack is a step of the bulkhead or leaves it alone, so what
\* holds of the bulkhead holds with with_timeout inside it.
THEOREM StackImplementsBulkhead == GuardedSpec => BulkheadSpec
  <1>1. GuardedInit => BulkheadInit
    BY Zenon DEF GuardedInit
  <1>2. [GuardedNext]_guarded_vars => [BulkheadNext]_bulkhead_vars
    BY Zenon DEF GuardedNext, BulkheadNext, Enter, Refused, Wait, FnEnds, Exit, GuardedTick, guarded_vars
  <1> QED BY <1>1, <1>2, PTL DEF GuardedSpec, BulkheadSpec

\* A call is out of with_timeout exactly when it holds no slot, and then its fn has
\* ended: leaving waits for the future's thread.
HeldWhileRunning ==
    /\ caller \in [Callers -> {"out", "waiting", "unwinding", "getting"}]
    /\ worker \in [Callers -> {"none", "running", "done"}]
    /\ \A c \in Callers : /\ c \in inside <=> caller[c] # "out"
                          /\ worker[c] = "running" => c \in inside

\* A fn runs only between acquire and release.
LEMMA AlwaysHeldWhileRunning == GuardedSpec => []HeldWhileRunning
  <1>1. GuardedInit => HeldWhileRunning
    BY Zenon DEF GuardedInit, BulkheadInit, Timed!Init, HeldWhileRunning
  <1>2. HeldWhileRunning /\ [GuardedNext]_guarded_vars => HeldWhileRunning'
    <2> SUFFICES ASSUME HeldWhileRunning, [GuardedNext]_guarded_vars
                 PROVE  HeldWhileRunning'
      BY Zenon
    <2> USE DEF HeldWhileRunning
    <2>1. ASSUME NEW c \in Callers, Enter(c)
          PROVE  HeldWhileRunning'
      BY <2>1 DEF Enter, Acquire, Timed!Launch
    <2>2. ASSUME NEW c \in Callers, Refused(c)
          PROVE  HeldWhileRunning'
      BY <2>2 DEF Refused, AcquireFull, bulkhead_vars, timeout_vars
    <2>3. ASSUME NEW c \in Callers, Wait(c)
          PROVE  HeldWhileRunning'
      BY Zenon, <2>3 DEF Wait, Timed!WaitReady, Timed!WaitTimesOut, bulkhead_vars
    <2>4. ASSUME NEW c \in Callers, FnEnds(c)
          PROVE  HeldWhileRunning'
      BY Zenon, <2>4 DEF FnEnds, Timed!FnEnds, bulkhead_vars
    <2>5. ASSUME NEW c \in Callers, Exit(c)
          PROVE  HeldWhileRunning'
      BY Zenon, <2>5 DEF Exit, Release, Timed!ThrowTimeout, Timed!GetResult, Timed!Leave,
                  Timed!FutureReleased
    <2>6. CASE GuardedTick
      BY <2>6 DEF GuardedTick, Timed!TickWaiting, bulkhead_vars
    <2>7. CASE UNCHANGED guarded_vars
      BY Zenon, <2>7 DEF guarded_vars, bulkhead_vars, timeout_vars
    <2> QED BY <2>1, <2>2, <2>3, <2>4, <2>5, <2>6, <2>7 DEF GuardedNext
  <1> QED BY <1>1, <1>2, PTL DEF GuardedSpec

\* At most max_ fns run at the same time, also when their callers were given
\* TimeoutError, for every capacity, limit and number of calls.
THEOREM ExecutionsAlwaysBounded == GuardedSpec => []ExecutionsBounded
  <1>1. BulkheadInv /\ HeldWhileRunning => ExecutionsBounded
    <2> SUFFICES ASSUME BulkheadInv, HeldWhileRunning
                 PROVE  ExecutionsBounded
      BY Zenon
    <2>1. IsFiniteSet(inside)
      <3>1. inside \in SUBSET Callers /\ IsFiniteSet(Callers)
        BY Zenon, BulkheadAssumption DEF BulkheadInv, BulkheadTypeOK
      <3> QED BY Zenon, <3>1, FS_Subset
    <2>2. Running \subseteq inside
      BY Zenon DEF Running, HeldWhileRunning
    <2>3. IsFiniteSet(Running) /\ Cardinality(Running) <= Cardinality(inside)
      BY <2>1, <2>2, FS_Subset
    <2>4. Cardinality(Running) \in Nat /\ Cardinality(inside) \in Nat
      BY <2>1, <2>3, FS_CardinalityType
    <2> QED BY <2>3, <2>4, BulkheadAssumption
            DEF BulkheadInv, BulkheadTypeOK, SlotsAccounted, ExecutionsBounded
  <1> QED BY <1>1, StackImplementsBulkhead, BulkheadInvariance, AlwaysHeldWhileRunning, PTL
=============================================================================
