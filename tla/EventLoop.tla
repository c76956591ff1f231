----------------------------- MODULE EventLoop -----------------------------
(***************************************************************************)
(* The reactor's loop and its task queue: src/net/event_loop.cpp.          *)
(*                                                                         *)
(* Other threads queue tasks and write to the eventfd; the loop blocks in  *)
(* epoll_wait, handles the events it was given, runs the queued tasks and  *)
(* blocks again.  A signal handler may set quit_.  A task is the number of *)
(* its place in the order of queueing; the 10-second timeout of epoll_wait *)
(* is left out, so that nothing here depends on it.                        *)
(***************************************************************************)
EXTENDS Naturals, Sequences

CONSTANTS
    Threads,        \* threads that call QueueInLoop
    MaxTasks        \* bound: tasks queued

ASSUME EventLoopAssumption == MaxTasks \in Nat

VARIABLES
    pending_tasks_, tasks,  \* the queue, and what RunPendingTasks swapped out
    quit_,
    wakeup_fd_,     \* the eventfd is readable
    at,             \* where the loop is
    ready,          \* epoll_wait reported the eventfd
    pushed,         \* threads between the push and Wakeup in QueueInLoop
    signal,         \* where the signal handler is in Quit
    queued, ran     \* history: the last task queued, and the last one run

vars == <<pending_tasks_, tasks, quit_, wakeup_fd_, at, ready, pushed, signal, queued, ran>>

Init ==
    /\ pending_tasks_ = <<>> /\ tasks = <<>>
    /\ quit_ = FALSE /\ wakeup_fd_ = FALSE
    /\ at = "testing" /\ ready = FALSE
    /\ pushed = {} /\ signal = "none"
    /\ queued = 0 /\ ran = 0

----------------------------------------------------------------------------
QueueInLoop(t) ==
    /\ t \notin pushed /\ queued < MaxTasks
    /\ pending_tasks_' = Append(pending_tasks_, queued + 1)
    /\ queued' = queued + 1
    /\ pushed' = pushed \cup {t}
    /\ UNCHANGED <<tasks, quit_, wakeup_fd_, at, ready, signal, ran>>

(* Fault: the eventfd is written only if the loop is seen to block. *)
Wakes_IfBlocked == wakeup_fd_ \/ at = "blocked"

Wakes == TRUE

Wakeup(t) ==
    /\ t \in pushed
    /\ wakeup_fd_' = Wakes
    /\ pushed' = pushed \ {t}
    /\ UNCHANGED <<pending_tasks_, tasks, quit_, at, ready, signal, queued, ran>>

Quit ==
    /\ signal = "none"
    /\ quit_' = TRUE /\ signal' = "waking"
    /\ UNCHANGED <<pending_tasks_, tasks, wakeup_fd_, at, ready, pushed, queued, ran>>

(* Fault: Quit does not wake the loop. *)
QuitWakes_Not == wakeup_fd_

QuitWakes == TRUE

QuitWakeup ==
    /\ signal = "waking"
    /\ wakeup_fd_' = QuitWakes /\ signal' = "done"
    /\ UNCHANGED <<pending_tasks_, tasks, quit_, at, ready, pushed, queued, ran>>

----------------------------------------------------------------------------
Test ==
    /\ at = "testing"
    /\ at' = IF quit_ THEN "leaving" ELSE "blocked"
    /\ UNCHANGED <<pending_tasks_, tasks, quit_, wakeup_fd_, ready, pushed, signal, queued, ran>>

(* epoll_wait returns for the eventfd, for a socket, or for both. *)
Poll ==
    /\ at = "blocked"
    /\ at' = "handling" /\ ready' = wakeup_fd_
    /\ UNCHANGED <<pending_tasks_, tasks, quit_, wakeup_fd_, pushed, signal, queued, ran>>

(* EINTR: the queue is not looked at. *)
Interrupted ==
    /\ at = "blocked"
    /\ at' = "testing"
    /\ UNCHANGED <<pending_tasks_, tasks, quit_, wakeup_fd_, ready, pushed, signal, queued, ran>>

(* The events of the sockets change nothing here; HandleWakeup reads. *)
HandleEvents ==
    /\ at = "handling"
    /\ wakeup_fd_' = (wakeup_fd_ /\ ~ready)
    /\ at' = "swapping" /\ ready' = FALSE
    /\ UNCHANGED <<pending_tasks_, tasks, quit_, pushed, signal, queued, ran>>

(* RunPendingTasks, in the loop and once more behind it. *)
Swap ==
    /\ at \in {"swapping", "leaving"}
    /\ tasks' = pending_tasks_ /\ pending_tasks_' = <<>>
    /\ at' = IF at = "swapping" THEN "running" ELSE "finishing"
    /\ UNCHANGED <<quit_, wakeup_fd_, ready, pushed, signal, queued, ran>>

(* Fault: the batch is run from its end. *)
NextTask_Last == tasks[Len(tasks)]

NextTask == Head(tasks)

RunTask ==
    /\ at \in {"running", "finishing"} /\ tasks # <<>>
    /\ ran' = NextTask
    /\ tasks' = Tail(tasks)
    /\ UNCHANGED <<pending_tasks_, quit_, wakeup_fd_, at, ready, pushed, signal, queued>>

BatchDone ==
    /\ at \in {"running", "finishing"} /\ tasks = <<>>
    /\ at' = IF at = "running" THEN "testing" ELSE "ended"
    /\ UNCHANGED <<pending_tasks_, tasks, quit_, wakeup_fd_, ready, pushed, signal, queued, ran>>

Terminated == at = "ended" /\ UNCHANGED vars

LoopStep == Test \/ HandleEvents \/ Swap \/ RunTask \/ BatchDone

Next ==
    \/ LoopStep \/ Poll \/ Interrupted \/ Terminated
    \/ \E t \in Threads : QueueInLoop(t) \/ Wakeup(t)
    \/ Quit \/ QuitWakeup

Spec == Init /\ [][Next]_vars

----------------------------------------------------------------------------
TypeOK ==
    /\ pending_tasks_ \in Seq(1..MaxTasks) /\ tasks \in Seq(1..MaxTasks)
    /\ quit_ \in BOOLEAN /\ wakeup_fd_ \in BOOLEAN /\ ready \in BOOLEAN
    /\ at \in {"testing", "blocked", "handling", "swapping", "running", "leaving", "finishing",
               "ended"}
    /\ pushed \subseteq Threads
    /\ signal \in {"none", "waking", "done"}
    /\ queued \in 0..MaxTasks /\ ran \in 0..MaxTasks

(* No lost wake-up: while a task is queued and the loop is, or is on its   *)
(* way to be, in epoll_wait, the eventfd is readable or the thread that    *)
(* queued is about to make it so.  The order "read the eventfd, then take  *)
(* the queue" in Loop is what this rests on.                               *)
NoLostWakeup ==
    pending_tasks_ # <<>> /\ at \in {"testing", "running", "blocked"} => wakeup_fd_ \/ pushed # {}

(* Tasks run once each, in the order in which they were queued, across     *)
(* batches; so replies queued in order are sent in order.                  *)
TasksInOrder ==
    /\ ran + Len(tasks) + Len(pending_tasks_) = queued
    /\ \A i \in 1..Len(tasks) : tasks[i] = ran + i
    /\ \A i \in 1..Len(pending_tasks_) : pending_tasks_[i] = ran + Len(tasks) + i

(* What TasksInOrder needs to be inductive: a batch is finished before the *)
(* next one is taken.                                                      *)
BatchFinished == at \notin {"running", "finishing"} => tasks = <<>>

OrderInv == TypeOK /\ BatchFinished /\ TasksInOrder

(* A queued task is run, unless the loop has been left. *)
EveryTaskRuns == \A n \in 1..MaxTasks : queued >= n ~> (ran >= n \/ at = "ended")
=============================================================================
