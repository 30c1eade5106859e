----------------------------- MODULE ConfigWatcher -----------------------------
(***************************************************************************)
(* config::ConfigWatcher on Linux.  One owner thread calls start(), stop()   *)
(* and the destructor; a background thread runs watch_loop().  They share    *)
(* the atomics running_ and inotify_fd_, and the kernel's inotify instance,  *)
(* which is modelled from its documented behaviour: the watch is on the file *)
(* the path named when it was added, equal adjacent events are merged, and   *)
(* replacing the file removes the watch.                                     *)
(***************************************************************************)
EXTENDS Integers, Sequences

VARIABLES
    running_,      \* running_
    inotify_fd_,   \* inotify_fd_ >= 0
    thread_,       \* thread_.joinable()
    owner,         \* where the owner is
    dying,         \* stop() was called by the destructor
    watcher,       \* where watch_loop() is
    batch,         \* events of buf not handled yet
    open,          \* kernel: the inotify instance exists
    watched,       \* kernel: the watch on the file exists
    queue,         \* kernel: its queued events
    crash,         \* how the process ended, or "no"
    unreported     \* written in place under watch, no callback since (for properties)

owner_vars == <<owner, dying, thread_>>
kernel_vars == <<open, watched, queue, unreported>>
watcher_vars == <<running_, inotify_fd_, owner_vars, watcher, batch, kernel_vars, crash>>

WatcherInit ==
    /\ running_ = FALSE /\ inotify_fd_ = FALSE /\ thread_ = FALSE
    /\ owner = "idle" /\ dying = FALSE
    /\ watcher = "none" /\ batch = <<>>
    /\ open = FALSE /\ watched = FALSE /\ queue = <<>> /\ unreported = FALSE
    /\ crash = "no"

-----------------------------------------------------------------------------
(* The owner *)

Owner(label) == crash = "no" /\ owner = label
Watcher(label) == crash = "no" /\ watcher = label

\* running_.exchange(true) in start(); it returns at once when it was set.
start ==
    /\ Owner("idle")
    /\ ~running_
    /\ running_' = TRUE
    /\ owner' = "spawn"
    /\ UNCHANGED <<inotify_fd_, dying, thread_, watcher, batch, kernel_vars, crash>>

\* thread_ = std::thread{...}: assigning over a joinable thread terminates.
Spawn ==
    /\ Owner("spawn")
    /\ IF thread_
       THEN /\ crash' = "terminate"
            /\ UNCHANGED <<owner_vars, watcher>>
       ELSE /\ owner' = "idle"
            /\ thread_' = TRUE
            /\ watcher' = "init"
            /\ UNCHANGED <<crash, dying>>
    /\ UNCHANGED <<running_, inotify_fd_, batch, kernel_vars>>

\* running_.exchange(false) in stop() finds it set.
StopBegin(by_destructor) ==
    /\ Owner("idle")
    /\ running_
    /\ running_' = FALSE
    /\ dying' = by_destructor
    /\ owner' = "close"
    /\ UNCHANGED <<inotify_fd_, thread_, watcher, batch, kernel_vars, crash>>

\* The destructor, when stop() finds running_ clear: a joinable thread_ terminates.
DestroyStopped ==
    /\ Owner("idle")
    /\ ~running_
    /\ IF thread_ THEN crash' = "terminate" /\ UNCHANGED owner
                  ELSE owner' = "gone" /\ UNCHANGED crash
    /\ UNCHANGED <<running_, inotify_fd_, dying, thread_, watcher, batch, kernel_vars>>

\* close(inotify_fd_) when it is not -1; the kernel drops the watch and the queue.
CloseInstance ==
    /\ open' = FALSE
    /\ watched' = FALSE
    /\ queue' = <<>>
    /\ unreported' = FALSE

StopClose ==
    /\ Owner("close")
    /\ IF inotify_fd_ THEN owner' = "clear" /\ CloseInstance
                      ELSE owner' = "join" /\ UNCHANGED kernel_vars
    /\ UNCHANGED <<running_, inotify_fd_, dying, thread_, watcher, batch, crash>>

StopClear ==
    /\ Owner("clear")
    /\ inotify_fd_' = FALSE
    /\ owner' = "join"
    /\ UNCHANGED <<running_, dying, thread_, watcher, batch, kernel_vars, crash>>

StopDetach ==
    /\ Owner("join")
    /\ thread_' = FALSE
    /\ owner' = IF dying THEN "gone" ELSE "idle"
    /\ UNCHANGED <<running_, inotify_fd_, dying, watcher, batch, kernel_vars, crash>>

StopJoin ==
    /\ Owner("join")
    /\ Watcher("done")
    /\ thread_' = FALSE
    /\ owner' = IF dying THEN "gone" ELSE "idle"
    /\ UNCHANGED <<running_, inotify_fd_, dying, watcher, batch, kernel_vars, crash>>

-----------------------------------------------------------------------------
(* watch_loop() *)

Inotify_init ==
    /\ Watcher("init")
    /\ \/ /\ watcher' = "add"
          /\ inotify_fd_' = TRUE
          /\ open' = TRUE
          /\ UNCHANGED running_
       \/ /\ watcher' = "done"
          /\ running_' = FALSE
          /\ UNCHANGED <<inotify_fd_, open>>
    /\ UNCHANGED <<owner_vars, batch, watched, queue, unreported, crash>>

\* It may fail, and does on an instance stop() has closed already.
Inotify_add_watch ==
    /\ Watcher("add")
    /\ \/ /\ inotify_fd_ /\ open
          /\ watched' = TRUE
          /\ watcher' = "loop"
       \/ /\ watcher' = "add_failed"
          /\ UNCHANGED watched
    /\ UNCHANGED <<running_, inotify_fd_, owner_vars, batch, open, queue, unreported, crash>>

AddFailed ==
    /\ Watcher("add_failed")
    /\ IF inotify_fd_ THEN CloseInstance ELSE UNCHANGED kernel_vars
    /\ watcher' = "clear"
    /\ UNCHANGED <<running_, inotify_fd_, owner_vars, batch, crash>>

LoopAgainRegardless ==
    /\ Watcher("loop")
    /\ watcher' = "fd_set"
    /\ UNCHANGED <<running_, inotify_fd_, owner_vars, batch, kernel_vars, crash>>

\* while (running_.load())
LoopTest ==
    /\ Watcher("loop")
    /\ watcher' = IF running_ THEN "fd_set" ELSE "rm_watch"
    /\ UNCHANGED <<running_, inotify_fd_, owner_vars, batch, kernel_vars, crash>>

\* FD_SET(-1) is undefined: a plain build goes on, a fortified one aborts.
Fd_set ==
    /\ Watcher("fd_set")
    /\ \/ watcher' = "select" /\ UNCHANGED crash
       \/ ~inotify_fd_ /\ crash' = "bad_fd_set" /\ UNCHANGED watcher
    /\ UNCHANGED <<running_, inotify_fd_, owner_vars, batch, kernel_vars>>

\* select() finds events, or times out (also on a closed descriptor).
Select ==
    /\ Watcher("select")
    /\ watcher' = IF inotify_fd_ /\ open /\ queue # <<>> THEN "read" ELSE "loop"
    /\ UNCHANGED <<running_, inotify_fd_, owner_vars, batch, kernel_vars, crash>>

\* read() takes the queued events; it fails when stop() has closed the descriptor.
ReadEvents ==
    /\ Watcher("read")
    /\ IF inotify_fd_ /\ open
       THEN /\ batch' = queue
            /\ queue' = <<>>
            /\ watcher' = "events"
       ELSE /\ watcher' = "rm_watch"
            /\ UNCHANGED <<batch, queue>>
    /\ UNCHANGED <<running_, inotify_fd_, owner_vars, open, watched, unreported, crash>>

IsReportedMoveOnly(ev) == ev = "MOVED_TO"
\* ev->mask & (IN_CLOSE_WRITE | IN_MOVED_TO)
IsReported(ev) == ev = "CLOSE_WRITE"

\* One event of buf: callback_() for a write; when none is left, the loop's test.
HandleEvent ==
    /\ Watcher("events")
    /\ IF batch = <<>>
       THEN watcher' = "loop" /\ UNCHANGED <<batch, unreported>>
       ELSE /\ batch' = Tail(batch)
            /\ unreported' = (unreported /\ ~IsReported(Head(batch)))
            /\ UNCHANGED watcher
    /\ UNCHANGED <<running_, inotify_fd_, owner_vars, open, watched, queue, crash>>

Inotify_rm_watch ==
    /\ Watcher("rm_watch")
    /\ watched' = (watched /\ ~(inotify_fd_ /\ open))
    /\ watcher' = "close"
    /\ UNCHANGED <<running_, inotify_fd_, owner_vars, batch, open, queue, unreported, crash>>

CleanupCloseSkipped ==
    /\ Watcher("close")
    /\ watcher' = "clear"
    /\ UNCHANGED <<running_, inotify_fd_, owner_vars, batch, kernel_vars, crash>>

CleanupClose ==
    /\ Watcher("close")
    /\ IF inotify_fd_ THEN CloseInstance ELSE UNCHANGED kernel_vars
    /\ watcher' = "clear"
    /\ UNCHANGED <<running_, inotify_fd_, owner_vars, batch, crash>>

CleanupClear ==
    /\ Watcher("clear")
    /\ inotify_fd_' = FALSE
    /\ watcher' = "store"
    /\ UNCHANGED <<running_, owner_vars, batch, kernel_vars, crash>>

CleanupStore ==
    /\ Watcher("store")
    /\ running_' = FALSE
    /\ watcher' = "done"
    /\ UNCHANGED <<inotify_fd_, owner_vars, batch, kernel_vars, crash>>

-----------------------------------------------------------------------------
(* The file and the kernel's queue *)

Queued(ev) == IF queue # <<>> /\ queue[Len(queue)] = ev THEN queue ELSE Append(queue, ev)

\* The file is written in place and closed.
WriteFile ==
    /\ crash = "no"
    /\ watched
    /\ queue' = Queued("CLOSE_WRITE")
    /\ unreported' = TRUE
    /\ UNCHANGED <<running_, inotify_fd_, owner_vars, watcher, batch, open, watched, crash>>

\* Another file is renamed to the path: the watched one is gone.
ReplaceFile ==
    /\ crash = "no"
    /\ watched
    /\ queue' = Queued("IGNORED")
    /\ watched' = FALSE
    /\ UNCHANGED <<running_, inotify_fd_, owner_vars, watcher, batch, open, unreported, crash>>

-----------------------------------------------------------------------------
WatcherStep ==
    \/ Inotify_init \/ Inotify_add_watch \/ AddFailed
    \/ LoopTest \/ Fd_set \/ Select \/ ReadEvents \/ HandleEvent
    \/ Inotify_rm_watch \/ CleanupClose \/ CleanupClear \/ CleanupStore

StopStep == StopClose \/ StopClear \/ StopJoin

WatcherNext ==
    \/ start \/ Spawn \/ DestroyStopped
    \/ \E by_destructor \in BOOLEAN : StopBegin(by_destructor)
    \/ StopStep
    \/ WatcherStep
    \/ WriteFile \/ ReplaceFile

WatcherSpec == WatcherInit /\ [][WatcherNext]_watcher_vars

-----------------------------------------------------------------------------
(* Properties *)

\* When stop() or the destructor has returned, the background thread has left
\* watch_loop(): no callback runs or will run.
NoCallbackAfterStop ==
    crash = "no" /\ owner \in {"idle", "gone"} /\ ~thread_ => watcher \in {"none", "done"}

\* However stop() and watch_loop() interleave, the one that closes last leaves no
\* inotify instance behind, and running_ is clear.
NothingLeftBehind ==
    watcher = "done" => ~open /\ ~inotify_fd_ /\ (running_ => owner = "spawn")

\* stop() returns, at whatever point of watch_loop() it was called.
StopReturns == owner \in {"close", "clear", "join"} ~> owner \in {"idle", "gone"} \/ crash # "no"

\* config_watcher.hpp:15 "Watches a file for modifications and calls a callback when
\* it changes": a change written in place under watch is reported, also when the
\* file is replaced right after it, unless the watcher is stopped.
InPlaceChangeReported == unreported ~> ~unreported \/ ~running_ \/ crash # "no"
=============================================================================
