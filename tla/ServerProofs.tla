---------------------------- MODULE ServerProofs ----------------------------
(***************************************************************************)
(* EventLoop and Server: NoLostWakeup and TasksInOrder for any threads and *)
(* any number of tasks: NoLostWakeup is inductive as it stands,            *)
(* TasksInOrder is, given types.  The server implements EventLoop, so both *)
(* hold of it too; and its tables agree, for any limit and any number of   *)
(* connections, commands and workers.                                      *)
(*                                                                         *)
(* Then two parts of it that are used by every connection and at every     *)
(* stop, for every size of theirs: a Buffer is a queue of bytes, and the   *)
(* file of SnapshotFile is replaced as a whole.                            *)
(***************************************************************************)
EXTENDS Server, Buffer, SnapshotFile, SequenceTheorems, FiniteSetTheorems, TLAPS

(* The initial state has the types the fields of EventLoop are declared with. *)
LEMMA InitType == Init => TypeOK
<1> SUFFICES ASSUME Init
             PROVE  TypeOK
  BY Zenon
<1>1. <<>> \in Seq(1..MaxTasks) /\ 0 \in 0..MaxTasks
  BY EventLoopAssumption
<1> QED
  BY <1>1, Zenon DEF Init, TypeOK

(* Every step of the loop, of a queueing thread and of Quit keeps the types. *)
LEMMA TypeStep == TypeOK /\ [Next]_vars => TypeOK'
<1> SUFFICES ASSUME TypeOK, [Next]_vars
             PROVE  TypeOK'
  BY Zenon
<1> USE EventLoopAssumption
<1>1. ASSUME NEW t \in Threads, QueueInLoop(t)
      PROVE  TypeOK'
  <2>1. queued + 1 \in 1..MaxTasks
    BY <1>1 DEF QueueInLoop, TypeOK
  <2> QED
    BY <1>1, <2>1 DEF QueueInLoop, TypeOK
<1>2. ASSUME NEW t \in Threads, Wakeup(t)
      PROVE  TypeOK'
  BY <1>2, Zenon DEF Wakeup, Wakes, TypeOK
<1>3. CASE Quit \/ QuitWakeup
  BY <1>3, Zenon DEF Quit, QuitWakeup, QuitWakes, TypeOK
<1>4. CASE Test \/ Poll \/ Interrupted \/ HandleEvents \/ BatchDone
  BY <1>4, Zenon DEF Test, Poll, Interrupted, HandleEvents, BatchDone, TypeOK
<1>5. CASE Swap
  BY <1>5 DEF Swap, TypeOK
<1>6. CASE RunTask
  <2>1. Head(tasks) \in 1..MaxTasks /\ Tail(tasks) \in Seq(1..MaxTasks)
    BY <1>6 DEF RunTask, TypeOK
  <2> QED
    BY <1>6, <2>1 DEF RunTask, NextTask, TypeOK
<1>7. CASE UNCHANGED vars
  BY <1>7, Zenon DEF vars, TypeOK
<1> QED
  BY <1>1, <1>2, <1>3, <1>4, <1>5, <1>6, <1>7, Zenon DEF Next, LoopStep, Terminated

(* Every variable of EventLoop keeps its type. *)
THEOREM TypeCorrect == Spec => []TypeOK
  BY InitType, TypeStep, PTL DEF Spec

(* A queued task is never without a wake-up that is or will be: every step *)
(* that clears the eventfd is followed by the one that takes the queue.    *)
LEMMA WakeupStep == NoLostWakeup /\ [Next]_vars => NoLostWakeup'
  BY Zenon DEF NoLostWakeup, Next, LoopStep, Terminated, vars, QueueInLoop, Wakeup, Wakes, Quit,
         QuitWakeup, QuitWakes, Test, Poll, Interrupted, HandleEvents, Swap, RunTask, BatchDone

(* No task is left in the queue of a loop that blocks in epoll_wait without *)
(* a wake-up written, or about to be written, by QueueInLoop.              *)
THEOREM WakeupIsNeverLost == Spec => []NoLostWakeup
<1>1. Init => NoLostWakeup
  BY Zenon DEF Init, NoLostWakeup
<1> QED
  BY <1>1, WakeupStep, PTL DEF Spec

(* The order of tasks as it was queued is kept by every step, the swap of  *)
(* the queue included.                                                     *)
LEMMA OrderStep == OrderInv /\ [Next]_vars => BatchFinished' /\ TasksInOrder'
<1> SUFFICES ASSUME OrderInv, [Next]_vars
             PROVE  BatchFinished' /\ TasksInOrder'
  BY Zenon
<1>t. /\ pending_tasks_ \in Seq(1..MaxTasks) /\ tasks \in Seq(1..MaxTasks)
      /\ queued \in Nat /\ ran \in Nat /\ TasksInOrder /\ BatchFinished
  BY EventLoopAssumption DEF OrderInv, TypeOK
<1>1. ASSUME NEW t \in Threads, QueueInLoop(t)
      PROVE  BatchFinished' /\ TasksInOrder'
  <2>1. queued + 1 \in 1..MaxTasks
    BY <1>1, <1>t, EventLoopAssumption DEF QueueInLoop
  <2>2. /\ Len(pending_tasks_') = Len(pending_tasks_) + 1
        /\ \A i \in 1..Len(pending_tasks_) : pending_tasks_'[i] = pending_tasks_[i]
        /\ pending_tasks_'[Len(pending_tasks_) + 1] = queued + 1
    BY <1>1, <1>t, <2>1 DEF QueueInLoop
  <2>3. tasks' = tasks /\ ran' = ran /\ queued' = queued + 1 /\ at' = at
    BY <1>1, Zenon DEF QueueInLoop
  <2>4. Len(tasks) \in Nat /\ Len(pending_tasks_) \in Nat
    BY <1>t
  <2>5. /\ ran + Len(tasks) + Len(pending_tasks_) = queued
        /\ \A i \in 1..Len(tasks) : tasks[i] = ran + i
        /\ \A i \in 1..Len(pending_tasks_) : pending_tasks_[i] = ran + Len(tasks) + i
    BY <1>t, Zenon DEF TasksInOrder
  <2>6. ran' + Len(tasks') + Len(pending_tasks_') = queued'
    BY <1>t, <2>2, <2>3, <2>4, <2>5
  <2>7. ASSUME NEW i \in 1..Len(pending_tasks_')
        PROVE  pending_tasks_'[i] = ran' + Len(tasks') + i
    <3>1. i \in 1..Len(pending_tasks_) \/ i = Len(pending_tasks_) + 1
      BY <2>2, <2>4
    <3>2. CASE i \in 1..Len(pending_tasks_)
      BY <2>2, <2>3, <2>5, <3>2, Zenon
    <3>3. CASE i = Len(pending_tasks_) + 1
      <4>1. queued + 1 = ran + Len(tasks) + (Len(pending_tasks_) + 1)
        BY <1>t, <2>4, <2>5
      <4> QED
        BY <2>2, <2>3, <3>3, <4>1, Zenon
    <3> QED
      BY <3>1, <3>2, <3>3, Zenon
  <2> QED
    BY <1>t, <2>3, <2>5, <2>6, <2>7, Zenon DEF TasksInOrder, BatchFinished
<1>2. CASE Swap
  <2>1. /\ tasks = <<>> /\ Len(tasks) = 0 /\ Len(pending_tasks_') = 0
        /\ tasks' = pending_tasks_ /\ queued' = queued /\ ran' = ran
        /\ at' \in {"running", "finishing"}
    BY <1>2, <1>t, Zenon DEF Swap, BatchFinished
  <2> QED
    BY <1>t, <2>1 DEF TasksInOrder, BatchFinished
<1>3. CASE RunTask
  <2>1. /\ Len(tasks) \in Nat /\ Len(tasks) > 0 /\ Len(tasks') = Len(tasks) - 1
        /\ \A i \in 1..(Len(tasks) - 1) : tasks'[i] = tasks[i + 1]
        /\ ran' = tasks[1] /\ queued' = queued /\ pending_tasks_' = pending_tasks_
        /\ at' \in {"running", "finishing"}
    BY <1>3, <1>t DEF RunTask, NextTask
  <2>2. ran' = ran + 1 /\ \A i \in 1..(Len(tasks) - 1) : tasks[i + 1] = ran + (i + 1)
    BY <1>t, <2>1 DEF TasksInOrder
  <2>3. \A i \in 1..Len(tasks') : tasks'[i] = ran' + i
    BY <1>t, <2>1, <2>2
  <2>4. ran' + Len(tasks') = ran + Len(tasks)
    BY <1>t, <2>1, <2>2
  <2>5. \A i \in 1..Len(pending_tasks_) : pending_tasks_[i] = ran' + Len(tasks') + i
    BY <1>t, <2>4, Zenon DEF TasksInOrder
  <2>6. ran' + Len(tasks') + Len(pending_tasks_) = queued
    BY <1>t, <2>4, Zenon DEF TasksInOrder
  <2> QED
    BY <2>1, <2>3, <2>5, <2>6, Zenon DEF TasksInOrder, BatchFinished
<1>4. CASE BatchDone
  BY <1>4, <1>t, Zenon DEF BatchDone, TasksInOrder, BatchFinished
<1>5. CASE Test \/ Poll \/ Interrupted \/ HandleEvents
  BY <1>5, <1>t, Zenon DEF Test, Poll, Interrupted, HandleEvents, TasksInOrder, BatchFinished
<1>6. UNCHANGED <<pending_tasks_, tasks, queued, ran, at>> => BatchFinished' /\ TasksInOrder'
  BY <1>t, Zenon DEF TasksInOrder, BatchFinished
<1> QED
  BY <1>1, <1>2, <1>3, <1>4, <1>5, <1>6, Zenon
  DEF Next, LoopStep, Terminated, vars, Wakeup, Quit, QuitWakeup

(* Tasks are run once each and in the order of queueing, for any number of *)
(* queueing threads.                                                       *)
THEOREM OrderIsKept == Spec => []TasksInOrder
<1>1. Init => OrderInv
  <2>1. Init => BatchFinished /\ TasksInOrder
    BY DEF Init, BatchFinished, TasksInOrder
  <2> QED
    BY <2>1, InitType, Zenon DEF OrderInv
<1>2. OrderInv /\ [Next]_vars => OrderInv'
  BY TypeStep, OrderStep, Zenon DEF OrderInv
<1>3. OrderInv => TasksInOrder
  BY Zenon DEF OrderInv
<1> QED
  BY <1>1, <1>2, <1>3, PTL DEF Spec

----------------------------------------------------------------------------

(* A step of the server is one of the loop, or leaves the loop alone. *)
LEMMA StepOfLoop == [NextServer]_allVars => [Next]_vars
<1> SUFFICES ASSUME [NextServer]_allVars
             PROVE  [Next]_vars
  BY Zenon
<1>1. CASE UNCHANGED allVars
  BY <1>1, Zenon DEF allVars
<1>2. CASE ReactorStep
  BY <1>2, Zenon
     DEF ReactorStep, Alone, HandledAll, RunServerTask, ServerBatchDone, Accept, AcceptNoMore,
              ReadCommand, ReadNothing, ReadError, ReadClose, WriteEvent, Next, LoopStep
<1>3. CASE PollServer \/ Alone(Interrupted) \/ Alone(Quit) \/ Alone(QuitWakeup)
  BY <1>3, Zenon DEF PollServer, Alone, Next
<1>4. ASSUME NEW w \in Workers, WorkerStep(w)
      PROVE  [Next]_vars
  BY <1>4, Zenon DEF WorkerStep, Take, Execute, Lock, SendDropped, Send, WakeLoop, Next, Workers
<1>5. CASE MainStep \/ Ended
  BY <1>5, Zenon DEF MainStep, StopDispatcher, Return, Ended
<1> QED
  BY <1>1, <1>2, <1>3, <1>4, <1>5, Zenon DEF NextServer

(* The composition of loop, server and workers implements the event loop:  *)
(* the handlers that run in it neither take its steps nor add to them.     *)
THEOREM ServerImplementsLoop == SpecServer => Spec
<1>1. InitServer => Init
  BY Zenon DEF InitServer
<1> QED
  BY <1>1, StepOfLoop, PTL DEF SpecServer, Spec

(* In the server, too, no queued reply is left without a wake-up. *)
THEOREM ServerKeepsWakeups == SpecServer => []NoLostWakeup
  BY ServerImplementsLoop, WakeupIsNeverLost, PTL

(* In the server, too, replies run in the order in which they were queued. *)
THEOREM ServerKeepsOrder == SpecServer => []TasksInOrder
  BY ServerImplementsLoop, OrderIsKept, PTL
----------------------------------------------------------------------------
(***************************************************************************)
(* The tables.  TablesAgree needs the types of what it reads, and that     *)
(* every connection a session, a worker or a task names was made.          *)
(***************************************************************************)
States == {"kConnected", "kDisconnecting", "kDisconnected"}
Places == {"idle", "executing", "replying", "sending", "queueing"}

TableTypes ==
    /\ max_clients \in Nat
    /\ state_ \in Seq(States) /\ Len(state_) <= MaxConnections
    /\ fd_ \in Seq(Nat) /\ Len(fd_) = Len(state_)
    /\ IsFiniteSet(DOMAIN connections_)
    /\ connections_ \in [DOMAIN connections_ -> Made]

References ==
    /\ commands \subseteq Made
    /\ worker \in [Workers -> [at : Places, connection : Nat]]
    /\ \A w \in Workers : worker[w].at # "idle" => worker[w].connection \in Made
    /\ task_of \in Seq(Nat) /\ Len(task_of) = queued
    /\ \A n \in 1..queued : task_of[n] \in Made

Stages == main # "serving" => at = "ended"

(* A round of events: those to come, and the one that runs, are distinct    *)
(* channels of the epoll set, but for one whose own handler has closed it. *)
Round ==
    /\ events \subseteq added_to_loop_ \cup {Listen}
    /\ event.at \in {"none", "reading", "writing"}
    /\ event.at # "none" => at = "handling" /\ event.channel \notin events
    /\ event.at = "none" => events = {}
    /\ event.at = "reading" => event.channel \in added_to_loop_ \cup {Listen}
    /\ event.at = "writing" => event.channel \in Made

ServerInv == OrderInv /\ TableTypes /\ References /\ Stages /\ Round /\ TablesAgree

(* What HandleClose finds under the descriptors it goes by: the open       *)
(* connections of C and no other.                                          *)
LEMMA CloseFindsItsOwn ==
    ASSUME TableTypes, TablesAgree, NEW C \in SUBSET Made,
           NEW G, G = {m \in C : state_[m] # "kDisconnected"},
           NEW named, named = {fd_[c] : c \in G}
    PROVE  /\ named \subseteq DOMAIN connections_
           /\ \A f \in DOMAIN connections_ : f \in named <=> connections_[f] \in G
           /\ {connections_[f] : f \in named \cap DOMAIN connections_} = G
<1>1. \A f \in DOMAIN connections_ : fd_[connections_[f]] = f
  BY Zenon DEF TablesAgree
<1>2. \A c \in G : \E f \in DOMAIN connections_ : connections_[f] = c
  BY Zenon DEF TablesAgree, Range
<1>3. \A c \in G : fd_[c] \in DOMAIN connections_ /\ connections_[fd_[c]] = c
  BY <1>1, <1>2
<1>4. \A f \in DOMAIN connections_ : f \in named <=> connections_[f] \in G
  BY <1>1, <1>3
<1> QED
  BY <1>3, <1>4

(* A set of open connections and their descriptors have the same size. *)
LEMMA AsManyDescriptors ==
    ASSUME TableTypes, TablesAgree, NEW G \in SUBSET Range(connections_),
           NEW named, named = {fd_[c] : c \in G}
    PROVE  /\ IsFiniteSet(named) /\ named \subseteq DOMAIN connections_
           /\ Cardinality(named) = Cardinality(G)
<1>1. \A f \in DOMAIN connections_ : fd_[connections_[f]] = f
  BY Zenon DEF TablesAgree
<1>2. \A c \in G : fd_[c] \in DOMAIN connections_ /\ connections_[fd_[c]] = c
  BY <1>1, Zenon DEF Range
<1>3. named \in SUBSET DOMAIN connections_
  BY <1>2, Zenon
<1>4. IsFiniteSet(named)
  BY <1>3, FS_Subset, Zenon DEF TableTypes
<1> DEFINE b == [f \in named |-> connections_[f]]
<1>5. b \in Bijection(named, G)
  <2>1. b \in [named -> G]
    BY <1>2, Zenon
  <2>2. \A f, g \in named : b[f] = b[g] => f = g
    BY <1>1, <1>3
  <2>3. \A c \in G : \E f \in named : b[f] = c
    BY <1>2, Zenon
  <2> QED
    BY <2>1, <2>2, <2>3, Zenon DEF Bijection, Injection, IsInjective, Surjection
<1>6. ExistsBijection(named, G)
  BY <1>5, Zenon DEF ExistsBijection
<1> QED
  BY <1>3, <1>4, <1>6, FS_Bijection, Zenon

(* HandleClose closes C and keeps the tables in step, whatever C. *)
LEMMA CloseStep ==
    ASSUME TableTypes, TablesAgree, NEW C \in SUBSET Made, HandleClose(C),
           main' = "serving" => main = "serving"
    PROVE  /\ TableTypes' /\ TablesAgree'
           /\ Made' = Made /\ commands' \subseteq commands
           /\ added_to_loop_ \subseteq added_to_loop_' \cup C
<1> DEFINE G == {m \in C : state_[m] # "kDisconnected"}
           named == {fd_[c] : c \in G}
<1>1. /\ named \subseteq DOMAIN connections_
      /\ \A f \in DOMAIN connections_ : f \in named <=> connections_[f] \in G
      /\ {connections_[f] : f \in named \cap DOMAIN connections_} = G
  BY CloseFindsItsOwn, Zenon
<1>2. {c \in C \cup G : state_[c] # "kDisconnected"} = G
  BY Zenon
<1>3. /\ state_' = [c \in Made |-> IF c \in G THEN "kDisconnected" ELSE state_[c]]
      /\ added_to_loop_' = added_to_loop_ \ G
      /\ active_connections_' = active_connections_ - Cardinality(G)
      /\ sessions_' = Restrict(sessions_, DOMAIN sessions_ \ (named \cap DOMAIN sessions_))
      /\ commands' \subseteq commands
      /\ connections_' = Restrict(connections_, DOMAIN connections_ \ named)
      /\ max_clients' = max_clients /\ fd_' = fd_
  BY <1>1, <1>2, Zenon DEF HandleClose, Unregistered, ClosedSessions
<1>4. G \subseteq Range(connections_)
  BY <1>1, Zenon DEF Range
<1>5. IsFiniteSet(named) /\ Cardinality(named) = Cardinality(G)
  BY <1>4, AsManyDescriptors, Zenon
<1> HIDE DEF named, G
<1>6. /\ DOMAIN connections_' = DOMAIN connections_ \ named
      /\ \A f \in DOMAIN connections_' : connections_'[f] = connections_[f]
  BY <1>3, Zenon DEF Restrict
<1>7. Range(connections_') = Range(connections_) \ G
  <2>1. \A c \in Range(connections_') : c \in Range(connections_) /\ c \notin G
    BY <1>1, <1>6, Zenon DEF Range
  <2>2. \A c \in Range(connections_) : c \notin G => c \in Range(connections_')
    BY <1>1, <1>6, Zenon DEF Range
  <2> QED
    BY <2>1, <2>2, Zenon
<1>8. /\ IsFiniteSet(DOMAIN connections_')
      /\ Cardinality(DOMAIN connections_') = Cardinality(DOMAIN connections_) - Cardinality(G)
      /\ Cardinality(DOMAIN connections_') \in Nat /\ Cardinality(G) \in Nat
      /\ Cardinality(DOMAIN connections_) \in Nat
  <2>1. IsFiniteSet(DOMAIN connections_)
    BY Zenon DEF TableTypes
  <2>2. named \cap DOMAIN connections_ = named
    BY <1>1, Zenon
  <2>3. /\ IsFiniteSet(DOMAIN connections_ \ named)
        /\ Cardinality(DOMAIN connections_ \ named)
            = Cardinality(DOMAIN connections_) - Cardinality(DOMAIN connections_ \cap named)
    BY <2>1, <1>5, FS_Difference, Zenon
  <2>4. DOMAIN connections_ \cap named = named
    BY <1>1, Zenon
  <2>5. Cardinality(named) \in Nat /\ Cardinality(DOMAIN connections_) \in Nat
    BY <2>1, <1>5, FS_CardinalityType, Zenon
  <2>6. Cardinality(DOMAIN connections_ \ named) \in Nat
    BY <2>3, FS_CardinalityType, Zenon
  <2> QED
    BY <1>5, <1>6, <2>3, <2>4, <2>5, <2>6, Zenon
<1>9. Made' = Made /\ Len(state_') = Len(state_) /\ state_' \in Seq(States)
  <2>1. state_ \in Seq(States) /\ Made = 1..Len(state_) /\ Len(state_) \in Nat
    BY DEF TableTypes, Made
  <2>2. state_' \in [1..Len(state_) -> States]
    BY <1>3, <2>1 DEF States
  <2> QED
    BY <2>1, <2>2 DEF Made
<1>10. TableTypes'
  <2>1. /\ max_clients \in Nat /\ Len(state_) <= MaxConnections
        /\ fd_ \in Seq(Nat) /\ Len(fd_) = Len(state_)
        /\ connections_ \in [DOMAIN connections_ -> Made]
    BY Zenon DEF TableTypes
  <2>2. connections_' \in [DOMAIN connections_' -> Made]
    BY <1>3, <1>6, <2>1, Zenon DEF Restrict
  <2> QED
    BY <1>3, <1>8, <1>9, <2>1, <2>2, Zenon DEF TableTypes
<1>11. main' = "serving" => sessions_' = connections_'
  <2>1. main' = "serving" => sessions_ = connections_
    BY Zenon DEF TablesAgree
  <2>2. DOMAIN connections_ \ (named \cap DOMAIN connections_) = DOMAIN connections_ \ named
    BY Zenon
  <2> QED
    BY <1>3, <2>1, <2>2, Zenon
<1>12. /\ \A f \in DOMAIN connections_' :
            fd_'[connections_'[f]] = f /\ state_'[connections_'[f]] # "kDisconnected"
       /\ \A c \in Made' : state_'[c] # "kDisconnected" => c \in Range(connections_')
  <2>1. /\ \A f \in DOMAIN connections_ :
             fd_[connections_[f]] = f /\ state_[connections_[f]] # "kDisconnected"
        /\ \A c \in Made : state_[c] # "kDisconnected" => c \in Range(connections_)
        /\ connections_ \in [DOMAIN connections_ -> Made]
    BY Zenon DEF TablesAgree, TableTypes
  <2>2. \A c \in Made : state_'[c] = IF c \in G THEN "kDisconnected" ELSE state_[c]
    BY <1>3, Zenon
  <2> QED
    BY <1>1, <1>3, <1>6, <1>7, <1>9, <2>1, <2>2, Zenon
<1>13. /\ added_to_loop_' = Range(connections_')
       /\ active_connections_' = Cardinality(DOMAIN connections_')
       /\ active_connections_' <= max_clients'
  <2>1. /\ added_to_loop_ = Range(connections_)
        /\ active_connections_ = Cardinality(DOMAIN connections_)
        /\ active_connections_ <= max_clients /\ max_clients \in Nat
    BY Zenon DEF TablesAgree, TableTypes
  <2>2. added_to_loop_' = Range(connections_')
    BY <1>3, <1>7, <2>1, Zenon
  <2>3. active_connections_' = Cardinality(DOMAIN connections_')
    BY <1>3, <1>8, <2>1, Zenon
  <2>4. Cardinality(DOMAIN connections_') <= max_clients
    BY <1>8, <2>1
  <2> QED
    BY <1>3, <2>2, <2>3, <2>4, Zenon
<1>14. TablesAgree'
  BY <1>11, <1>12, <1>13, Zenon DEF TablesAgree
<1>15. G \subseteq C
  BY Zenon DEF G
<1> QED
  BY <1>3, <1>9, <1>10, <1>14, <1>15, Zenon

(* HandleAccept takes a descriptor that no open connection has. *)
LEMMA AcceptStep ==
    ASSUME TableTypes, TablesAgree, main = "serving", main' = "serving", ~AtLimit, Accept
    PROVE  /\ TableTypes' /\ TablesAgree'
           /\ Made \subseteq Made' /\ added_to_loop_ \subseteq added_to_loop_'
<1> DEFINE c == Len(state_) + 1
<1>1. PICK f \in FreeFds :
        /\ c <= MaxConnections
        /\ fd_' = Append(fd_, f) /\ state_' = Append(state_, "kConnected")
        /\ connections_' = Emplaced(connections_, f, c)
        /\ added_to_loop_' = added_to_loop_ \cup {c}
        /\ active_connections_' = active_connections_ + 1
        /\ sessions_' = Assigned(sessions_, f, c)
        /\ max_clients' = max_clients
  BY Zenon DEF Accept
<1>2. /\ state_ \in Seq(States) /\ fd_ \in Seq(Nat) /\ Len(fd_) = Len(state_)
      /\ Made = 1..Len(state_) /\ Len(state_) \in Nat /\ max_clients \in Nat
      /\ IsFiniteSet(DOMAIN connections_) /\ connections_ \in [DOMAIN connections_ -> Made]
  BY DEF TableTypes, Made
<1>3. /\ \A g \in DOMAIN connections_ :
          fd_[connections_[g]] = g /\ state_[connections_[g]] # "kDisconnected"
      /\ \A m \in Made : state_[m] # "kDisconnected" => m \in Range(connections_)
      /\ added_to_loop_ = Range(connections_) /\ sessions_ = connections_
      /\ active_connections_ = Cardinality(DOMAIN connections_)
  BY Zenon DEF TablesAgree
<1>4. f \in Nat /\ f \notin DOMAIN connections_
  <2>1. \A m \in Range(connections_) : m \in Made /\ Alive(m)
    BY <1>2, Zenon DEF Range, Alive
  <2>2. \A g \in DOMAIN connections_ : connections_[g] \in Range(connections_)
    BY Zenon DEF Range
  <2>3. f \in 1..MaxConnections /\ \A m \in Made : Alive(m) => fd_[m] # f
    BY Zenon DEF FreeFds
  <2> QED
    BY <1>3, <2>1, <2>2, <2>3, ServerAssumption
<1>5. /\ state_' \in Seq(States) /\ Len(state_') = c /\ Made' = Made \cup {c}
      /\ fd_' \in Seq(Nat) /\ Len(fd_') = c
      /\ c \notin Made /\ fd_'[c] = f /\ state_'[c] = "kConnected"
      /\ \A m \in Made : fd_'[m] = fd_[m] /\ state_'[m] = state_[m]
  BY <1>1, <1>2, <1>4 DEF Made, States
<1> HIDE DEF c
<1>6. /\ DOMAIN connections_' = DOMAIN connections_ \cup {f} /\ connections_'[f] = c
      /\ \A g \in DOMAIN connections_ : connections_'[g] = connections_[g]
      /\ connections_' \in [DOMAIN connections_' -> Made']
      /\ sessions_' = connections_'
  <2> DEFINE added == [g \in DOMAIN connections_ \cup {f} |->
                            IF g = f THEN c ELSE connections_[g]]
  <2>1. connections_' = added
    BY <1>1, <1>4, Zenon DEF Emplaced
  <2>2. sessions_' = added
    BY <1>1, <1>3, <1>4, Zenon DEF Assigned
  <2>3. added \in [DOMAIN connections_ \cup {f} -> Made']
    BY <1>2, <1>5, Zenon
  <2> QED
    BY <1>4, <2>1, <2>2, <2>3, Zenon
<1>7. Range(connections_') = Range(connections_) \cup {c}
  BY <1>6 DEF Range
<1>8. /\ IsFiniteSet(DOMAIN connections_')
      /\ Cardinality(DOMAIN connections_') = Cardinality(DOMAIN connections_) + 1
      /\ Cardinality(DOMAIN connections_) \in Nat
  <2>1. IsFiniteSet(DOMAIN connections_) /\ f \notin DOMAIN connections_
    BY <1>2, <1>4, Zenon
  <2>2. /\ IsFiniteSet(DOMAIN connections_ \cup {f})
        /\ Cardinality(DOMAIN connections_ \cup {f}) = Cardinality(DOMAIN connections_) + 1
    BY <2>1, FS_AddElement, Zenon
  <2>3. Cardinality(DOMAIN connections_) \in Nat
    BY <2>1, FS_CardinalityType, Zenon
  <2> QED
    BY <1>6, <2>2, <2>3, Zenon
<1>9. Cardinality(DOMAIN connections_) < max_clients
  BY <1>2, <1>8 DEF AtLimit
<1>10. TableTypes'
  BY <1>1, <1>2, <1>5, <1>6, <1>8, Zenon DEF TableTypes
<1>11. /\ \A g \in DOMAIN connections_' :
            fd_'[connections_'[g]] = g /\ state_'[connections_'[g]] # "kDisconnected"
       /\ \A m \in Made' : state_'[m] # "kDisconnected" => m \in Range(connections_')
  <2>1. ASSUME NEW g \in DOMAIN connections_'
        PROVE  fd_'[connections_'[g]] = g /\ state_'[connections_'[g]] # "kDisconnected"
    <3>1. CASE g = f
      BY <1>5, <1>6, <3>1, Zenon
    <3>2. CASE g \in DOMAIN connections_
      <4>1. connections_'[g] = connections_[g] /\ connections_[g] \in Made
        BY <1>2, <1>6, <3>2, Zenon
      <4> QED
        BY <1>3, <1>5, <3>2, <4>1, Zenon
    <3> QED
      BY <1>6, <3>1, <3>2, Zenon
  <2>2. \A m \in Made' : state_'[m] # "kDisconnected" => m \in Range(connections_')
    BY <1>3, <1>5, <1>7, Zenon
  <2> QED
    BY <2>1, <2>2, Zenon
<1>12. /\ added_to_loop_' = Range(connections_')
       /\ active_connections_' = Cardinality(DOMAIN connections_')
       /\ active_connections_' <= max_clients'
  BY <1>1, <1>2, <1>3, <1>7, <1>8, <1>9, SMTT(30)
<1>13. TablesAgree'
  BY <1>6, <1>11, <1>12, Zenon DEF TablesAgree
<1> QED
  BY <1>1, <1>5, <1>10, <1>13, Zenon

(* A loop that has ended stays so. *)
LEMMA EndIsFinal == ASSUME [Next]_vars, at = "ended" PROVE at' = "ended"
  BY Zenon
     DEF Next, LoopStep, Terminated, vars, QueueInLoop, Wakeup, Quit, QuitWakeup, Test, Poll,
         Interrupted, HandleEvents, Swap, RunTask, BatchDone

(* The loop's own invariant goes with every step; the rest is to be shown. *)
LEMMA StepOfTables ==
    ASSUME ServerInv, [Next]_vars, TableTypes', TablesAgree', References',
           main' # "serving" => at = "ended", Round'
    PROVE  ServerInv'
<1>1. OrderInv'
  BY TypeStep, OrderStep, Zenon DEF ServerInv, OrderInv
<1>2. Stages'
  BY EndIsFinal, Zenon DEF Stages
<1> QED
  BY <1>1, <1>2, Zenon DEF ServerInv

(* Tables that a step leaves alone agree after it, also when main stops. *)
LEMMA TablesStay ==
    ASSUME TableTypes, TablesAgree, UNCHANGED tableVars, main' = "serving" => main = "serving"
    PROVE  TableTypes' /\ TablesAgree' /\ Made' = Made /\ added_to_loop_' = added_to_loop_
<1>1. Made' = Made /\ added_to_loop_' = added_to_loop_
  BY Zenon DEF tableVars, Made
<1>2. TableTypes'
  BY <1>1, Zenon DEF tableVars, TableTypes
<1>3. TablesAgree'
  BY <1>1, Zenon DEF tableVars, TablesAgree
<1> QED
  BY <1>1, <1>2, <1>3, Zenon

(* References stay good when no worker moves and no task is queued. *)
LEMMA ReferencesStay ==
    ASSUME References, Made \subseteq Made', commands' \subseteq Made',
           UNCHANGED <<worker, task_of, queued>>
    PROVE  References'
  BY Zenon DEF References

(* A worker goes on with a connection that was made, or has none. *)
LEMMA WorkerMoves ==
    ASSUME References, Made' = Made, commands' \subseteq Made, UNCHANGED <<task_of, queued>>,
           NEW w \in Workers, NEW c \in Nat, NEW p \in Places, p # "idle" => c \in Made,
           WorkerGoes(w, p, c)
    PROVE  References'
<1> DEFINE r == [at |-> p, connection |-> c]
<1>1. worker' = [worker EXCEPT ![w] = r] /\ r \in [at : Places, connection : Nat]
  BY Zenon DEF WorkerGoes
<1>2. worker' \in [Workers -> [at : Places, connection : Nat]]
  BY <1>1, Zenon DEF References
<1>3. ASSUME NEW v \in Workers, worker'[v].at # "idle"
      PROVE  worker'[v].connection \in Made
  <2>1. CASE v = w
    BY <1>1, <1>3, <2>1, Zenon DEF References
  <2>2. CASE v # w
    BY <1>1, <1>3, <2>2, Zenon DEF References
  <2> QED
    BY <2>1, <2>2, Zenon
<1> QED
  BY <1>2, <1>3, Zenon DEF References

(* A step that neither touches the tables nor moves a worker. *)
LEMMA QuietStep ==
    ASSUME ServerInv, [Next]_vars, UNCHANGED <<tableVars, worker, task_of, queued>>,
           main' = "serving" => main = "serving", main' # "serving" => at = "ended",
           commands' \subseteq Made, Round'
    PROVE  ServerInv'
<1>1. TableTypes' /\ TablesAgree' /\ Made' = Made /\ added_to_loop_' = added_to_loop_
  BY TablesStay, Zenon DEF ServerInv
<1>2. References'
  BY <1>1, ReferencesStay, Zenon DEF ServerInv
<1> QED
  BY <1>1, <1>2, StepOfTables, Zenon

(* The round stays as it is in a step that handles no event. *)
LEMMA RoundStays ==
    ASSUME Round, UNCHANGED <<events, event>>, at' = at \/ at # "handling" \/ event = NoEvent,
           added_to_loop_ \subseteq added_to_loop_', Made \subseteq Made'
    PROVE  Round'
<1>1. event = NoEvent => event.at = "none"
  BY SMT DEF NoEvent
<1> QED
  BY <1>1, Zenon DEF Round

(* The loop goes on to the next event of the round, if there is one. *)
LEMMA RoundGoesOn ==
    ASSUME NEW left \in SUBSET (added_to_loop_' \cup {Listen}), NextEvent(left), at' = "handling"
    PROVE  Round'
<1>1. CASE left = {}
  <2>1. events' = {} /\ event'.at = "none"
    BY <1>1, SMT DEF NextEvent, NoEvent
  <2> QED
    BY <2>1, SMT DEF Round
<1>2. CASE left # {}
  <2>1. PICK c \in left : events' = left \ {c} /\ event' = [at |-> "reading", channel |-> c]
    BY <1>2, Zenon DEF NextEvent
  <2>2. event'.at = "reading" /\ event'.channel = c
    BY <2>1, SMT
  <2> QED
    BY <2>1, <2>2, SMT DEF Round
<1> QED
  BY <1>1, <1>2, Zenon

(* HandleRead runs for a connection that was made, and returns. *)
LEMMA ReadingIsMade ==
    ASSUME Round, TableTypes, TablesAgree, NEW c \in Connections, Reading(c)
    PROVE  c \in Made /\ c \notin events /\ at = "handling"
<1>1. event.at = "reading" /\ event.channel = c /\ c # Listen
  BY ServerAssumption, SMT DEF Reading
<1>2. c \in Range(connections_) /\ c \notin events /\ at = "handling"
  BY <1>1, Zenon DEF Round, TablesAgree
<1> QED
  BY <1>2, Zenon DEF Range, TableTypes

(* After HandleRead only the closed channel itself may have left the epoll set. *)
LEMMA RoundAfterRead ==
    ASSUME Round, NEW c \in Made, c \notin events, ReadReturns(c), Made' = Made,
           UNCHANGED <<events, at>>, at = "handling",
           added_to_loop_ \subseteq added_to_loop_' \cup {c}
    PROVE  Round'
<1>1. event'.at = "writing" /\ event'.channel = c
  BY SMT DEF ReadReturns
<1> QED
  BY <1>1, SMT DEF Round

(* The reactor's steps, with the handlers they run. *)
LEMMA ReactorKeepsInv == ASSUME ServerInv, ReactorStep PROVE ServerInv'
<1> USE DEF ServerInv
<1>s. [Next]_vars
  BY StepOfLoop, Zenon DEF NextServer
<1>c. commands \subseteq Made /\ (main # "serving" => at = "ended")
  BY Zenon DEF References, Stages
<1>1. CASE Alone(Test) \/ HandledAll \/ Alone(Swap) \/ ServerBatchDone
  <2>1. /\ UNCHANGED <<tableVars, commands, worker, task_of, queued, events, event, main>>
        /\ at # "handling" \/ event = NoEvent
    BY <1>1, Zenon
       DEF Alone, HandledAll, ServerBatchDone, serverVars, tableVars, Test, HandleEvents,
                Swap, BatchDone
  <2>2. Round'
    BY <2>1, RoundStays, TablesStay, Zenon
  <2> QED
    BY <1>s, <1>c, <2>1, <2>2, QuietStep, Zenon
<1>2. CASE RunServerTask
  <2>1. /\ UNCHANGED <<worker, task_of, queued, events, event, main>>
        /\ at # "handling" /\ at' # "handling" /\ tasks # <<>>
    BY <1>2, Zenon DEF RunServerTask, RunTask
  <2>2. task_of[NextTask] \in Made
    <3>1. tasks \in Seq(1..MaxTasks) /\ queued \in Nat /\ ran \in Nat
      BY EventLoopAssumption DEF OrderInv, TypeOK
    <3>2. 1 \in 1..Len(tasks) /\ NextTask = tasks[1]
      BY <2>1, <3>1 DEF NextTask
    <3>3. pending_tasks_ \in Seq(1..MaxTasks)
      BY Zenon DEF OrderInv, TypeOK
    <3>4. tasks[1] = ran + 1 /\ ran + Len(tasks) + Len(pending_tasks_) = queued
      BY <3>2, Zenon DEF OrderInv, TasksInOrder
    <3>5. NextTask \in 1..queued
      BY <3>1, <3>2, <3>3, <3>4
    <3> QED
      BY <3>5, Zenon DEF References
  <2>3. PICK C \in SUBSET Made : HandleClose(C)
    BY <1>2, <2>2, Zenon DEF RunServerTask
  <2>4. /\ TableTypes' /\ TablesAgree' /\ Made' = Made /\ commands' \subseteq commands
    BY <2>1, <2>3, CloseStep, Zenon
  <2>5. References'
    BY <1>c, <2>1, <2>4, ReferencesStay, Zenon
  <2>6. Round'
    BY <2>1, Zenon DEF Round
  <2> QED
    BY <1>s, <1>c, <2>1, <2>4, <2>5, <2>6, StepOfTables, Zenon
<1>3. CASE Accept
  <2>r. at = "handling"
    <3>1. event.at = "reading"
      BY <1>3, SMT DEF Accept, Reading
    <3> QED
      BY <3>1, Zenon DEF Round
  <2>1. /\ UNCHANGED <<commands, worker, task_of, queued, at, events, event, main>>
        /\ main = "serving" /\ main' = "serving"
    BY <1>3, <1>c, <2>r, Zenon DEF Accept, vars
  <2>2. CASE AtLimit
    <3>1. UNCHANGED tableVars
      BY <1>3, <2>2, Zenon DEF Accept
    <3>2. Round'
      BY <2>1, <3>1, RoundStays, TablesStay, Zenon
    <3> QED
      BY <1>s, <1>c, <2>1, <3>1, <3>2, QuietStep, Zenon
  <2>3. CASE ~AtLimit
    <3>1. /\ TableTypes' /\ TablesAgree' /\ Made \subseteq Made'
          /\ added_to_loop_ \subseteq added_to_loop_'
      BY <1>3, <2>1, <2>3, AcceptStep, Zenon
    <3>2. References'
      BY <1>c, <2>1, <3>1, ReferencesStay, Zenon
    <3>3. Round'
      BY <2>1, <3>1, RoundStays, Zenon
    <3> QED
      BY <1>s, <1>c, <2>1, <3>1, <3>2, <3>3, StepOfTables, Zenon
  <2> QED
    BY <2>2, <2>3, Zenon
<1>4. CASE AcceptNoMore
  <2>1. /\ UNCHANGED <<tableVars, commands, worker, task_of, queued, at, main>>
        /\ Reading(Listen) /\ NextEvent(events)
    BY <1>4, Zenon DEF AcceptNoMore, vars
  <2>2. event.at = "reading"
    BY <2>1, SMT DEF Reading
  <2>3. events \in SUBSET (added_to_loop_' \cup {Listen}) /\ at' = "handling"
    BY <2>1, <2>2, Zenon DEF Round, tableVars
  <2>4. Round'
    BY <2>1, <2>3, RoundGoesOn, Zenon
  <2> QED
    BY <1>s, <1>c, <2>1, <2>4, QuietStep, Zenon
<1>5. ASSUME NEW c \in Connections, ReadNothing(c)
      PROVE  ServerInv'
  <2>1. /\ UNCHANGED <<tableVars, commands, worker, task_of, queued, at, events, main>>
        /\ Reading(c) /\ ReadReturns(c)
    BY <1>5, Zenon DEF ReadNothing, vars
  <2>2. c \in Made /\ c \notin events /\ at = "handling"
    BY <2>1, ReadingIsMade, Zenon
  <2>3. Made' = Made /\ added_to_loop_' = added_to_loop_
    BY <2>1, Zenon DEF tableVars, Made
  <2>4. Round'
    BY <2>1, <2>2, <2>3, RoundAfterRead, Zenon
  <2> QED
    BY <1>s, <1>c, <2>1, <2>4, QuietStep, Zenon
<1>6. ASSUME NEW c \in Connections, ReadCommand(c)
      PROVE  ServerInv'
  <2>r. Reading(c) /\ fd_[c] \in DOMAIN sessions_
    BY <1>6, Zenon DEF ReadCommand
  <2>1. main = "serving"
    BY <1>c, <2>r, ReadingIsMade, Zenon
  <2>2. sessions_[fd_[c]] \in Made
    BY <2>r, <2>1, Zenon DEF TableTypes, TablesAgree
  <2>3. /\ UNCHANGED <<tableVars, worker, task_of, queued, at, events, event, main>>
        /\ commands' = commands \cup {sessions_[fd_[c]]}
    BY <1>6, Zenon DEF ReadCommand, vars
  <2>4. Round'
    BY <2>3, RoundStays, TablesStay, Zenon
  <2> QED
    BY <1>s, <1>c, <2>2, <2>3, <2>4, QuietStep, Zenon
<1>7. ASSUME NEW c \in Connections, ReadClose(c)
      PROVE  ServerInv'
  <2>1. /\ UNCHANGED <<worker, task_of, queued, at, events, main>> /\ HandleClose({c})
        /\ Reading(c) /\ ReadReturns(c)
    BY <1>7, Zenon DEF ReadClose, vars
  <2>2. c \in Made /\ c \notin events /\ at = "handling"
    BY <2>1, ReadingIsMade, Zenon
  <2>3. /\ TableTypes' /\ TablesAgree' /\ Made' = Made /\ commands' \subseteq commands
        /\ added_to_loop_ \subseteq added_to_loop_' \cup {c}
    BY <2>1, <2>2, CloseStep, Zenon
  <2>4. References'
    BY <1>c, <2>1, <2>3, ReferencesStay, Zenon
  <2>5. Round'
    BY <2>1, <2>2, <2>3, RoundAfterRead, Zenon
  <2> QED
    BY <1>s, <1>c, <2>1, <2>3, <2>4, <2>5, StepOfTables, Zenon
<1>8. ASSUME NEW c \in Connections, ReadError(c)
      PROVE  ServerInv'
  <2>1. /\ UNCHANGED <<max_clients, fd_, connections_, added_to_loop_, active_connections_,
                       sessions_, commands, worker, task_of, queued, at, events, main>>
        /\ Reading(c) /\ ReadReturns(c) /\ state_[c] = "kConnected"
        /\ state_' = [state_ EXCEPT ![c] = "kDisconnecting"]
    BY <1>8, Zenon DEF ReadError, vars
  <2>2. /\ Made' = Made /\ Len(state_') = Len(state_) /\ state_' \in Seq(States)
        /\ \A m \in Made : state_'[m] = "kDisconnected" <=> state_[m] = "kDisconnected"
    <3>1. state_ \in Seq(States) /\ Made = 1..Len(state_) /\ Len(state_) \in Nat
      BY DEF TableTypes, Made
    <3>2. state_' \in [1..Len(state_) -> States]
      <4>1. state_ \in [1..Len(state_) -> States] /\ "kDisconnecting" \in States
        BY <3>1 DEF States
      <4> QED
        BY <2>1, <4>1, Zenon
    <3>3. Made' = Made /\ Len(state_') = Len(state_) /\ state_' \in Seq(States)
      BY <3>1, <3>2 DEF Made
    <3>4. \A m \in Made : state_'[m] = IF m = c THEN "kDisconnecting" ELSE state_[m]
      BY <2>1, <3>1
    <3> QED
      BY <2>1, <3>3, <3>4
  <2>3. TableTypes'
    BY <2>1, <2>2, Zenon DEF TableTypes
  <2>4. TablesAgree'
    <3>1. \A f \in DOMAIN connections_ : state_'[connections_[f]] # "kDisconnected"
      BY <2>2, Zenon DEF TablesAgree, TableTypes
    <3>2. \A m \in Made : state_'[m] # "kDisconnected" => m \in Range(connections_)
      BY <2>2, Zenon DEF TablesAgree
    <3> QED
      BY <2>1, <2>2, <3>1, <3>2, Zenon DEF TablesAgree
  <2>5. References'
    BY <1>c, <2>1, <2>2, ReferencesStay, Zenon
  <2>6. c \in Made /\ c \notin events /\ at = "handling"
    BY <2>1, ReadingIsMade, Zenon
  <2>7. Round'
    BY <2>1, <2>2, <2>6, RoundAfterRead, Zenon
  <2> QED
    BY <1>s, <1>c, <2>1, <2>3, <2>4, <2>5, <2>7, StepOfTables, Zenon
<1>9. ASSUME NEW c \in Connections, WriteEvent(c)
      PROVE  ServerInv'
  <2>1. /\ UNCHANGED <<worker, task_of, queued, at, main>> /\ NextEvent(events)
        /\ event = [at |-> "writing", channel |-> c]
    BY <1>9, Zenon DEF WriteEvent, vars
  <2>2. event.at = "writing" /\ event.channel = c
    BY <2>1, SMT
  <2>3. c \in Made /\ c \notin events /\ at = "handling"
    BY <2>2, Zenon DEF Round
  <2>4. PICK C \in {{}, {c}} : HandleClose(C)
    BY <1>9, Zenon DEF WriteEvent
  <2>5. C \in SUBSET Made /\ C \subseteq {c}
    BY <2>3, <2>4, Zenon
  <2>6. /\ TableTypes' /\ TablesAgree' /\ Made' = Made /\ commands' \subseteq commands
        /\ added_to_loop_ \subseteq added_to_loop_' \cup C
    BY <2>1, <2>4, <2>5, CloseStep, Zenon
  <2>7. References'
    BY <1>c, <2>1, <2>6, ReferencesStay, Zenon
  <2>8. events \in SUBSET (added_to_loop_' \cup {Listen})
    BY <2>3, <2>5, <2>6, SMT DEF Round
  <2>9. Round'
    BY <2>1, <2>3, <2>8, RoundGoesOn, Zenon
  <2> QED
    BY <1>s, <1>c, <2>1, <2>6, <2>7, <2>9, StepOfTables, Zenon
<1> HIDE DEF ServerInv
<1> QED
  BY <1>1, <1>2, <1>3, <1>4, <1>5, <1>6, <1>7, <1>8, <1>9, Zenon DEF ReactorStep

(* The workers' steps change no table. *)
LEMMA WorkerKeepsInv ==
    ASSUME ServerInv, NEW w \in Workers, WorkerStep(w)
    PROVE  ServerInv'
<1> USE DEF ServerInv
<1>s. [Next]_vars
  BY StepOfLoop, Zenon DEF NextServer
<1>c. commands \subseteq Made /\ Made \subseteq Nat /\ (main # "serving" => at = "ended")
  BY SMTT(30) DEF References, Stages, TableTypes, Made
<1>1. UNCHANGED <<tableVars, events, event, main, at>>
  BY Zenon
     DEF WorkerStep, Take, Execute, Lock, SendDropped, Send, WakeLoop, vars, QueueInLoop, Wakeup
<1>2. TableTypes' /\ TablesAgree' /\ Made' = Made /\ added_to_loop_' = added_to_loop_
  BY <1>1, TablesStay, Zenon
<1>r. Round'
  BY <1>1, <1>2, RoundStays, Zenon
<1>3. SUFFICES References'
  BY <1>s, <1>c, <1>1, <1>2, <1>r, StepOfTables, Zenon
<1>w. worker[w].at # "idle" => worker[w].connection \in Made
  BY Zenon DEF References
<1>i. ASSUME WorkerIsDone(w) PROVE WorkerGoes(w, "idle", 0)
  BY <1>i, SMTT(30) DEF WorkerIsDone, WorkerGoes, Idle
<1>4. CASE Take(w)
  <2>1. PICK c \in commands : WorkerGoes(w, "executing", c)
    BY <1>4, Zenon DEF Take
  <2>2. c \in Made /\ c \in Nat /\ commands' \subseteq Made /\ UNCHANGED <<task_of, queued>>
    BY <1>4, <1>c, Zenon DEF Take, vars
  <2> QED
    BY <1>2, <2>1, <2>2, WorkerMoves, Zenon DEF Places
<1>5. CASE Execute(w) \/ Lock(w) \/ SendDropped(w)
  <2>1. PICK p \in {"idle", "replying", "sending"} :
            WorkerGoes(w, p, IF p = "idle" THEN 0 ELSE worker[w].connection)
    BY <1>5, <1>i, Zenon DEF Execute, Lock, SendDropped
  <2>2. /\ commands' \subseteq Made /\ UNCHANGED <<task_of, queued>>
        /\ worker[w].at # "idle"
    BY <1>5, <1>c, Zenon DEF Execute, Lock, SendDropped, WorkerIs, vars
  <2> QED
    BY <1>2, <1>c, <1>w, <2>1, <2>2, WorkerMoves, Zenon DEF Places
<1>6. CASE Send(w)
  <2> DEFINE c == worker[w].connection
  <2>1. /\ WorkerGoes(w, "queueing", c) /\ task_of' = Append(task_of, c)
        /\ queued' = queued + 1 /\ commands' = commands /\ c \in Made
    BY <1>6, <1>w, Zenon DEF Send, QueueInLoop, WorkerIs
  <2>2. /\ worker \in [Workers -> [at : Places, connection : Nat]]
        /\ \A v \in Workers : worker[v].at # "idle" => worker[v].connection \in Made
        /\ task_of \in Seq(Nat) /\ Len(task_of) = queued /\ queued \in Nat
        /\ \A n \in 1..queued : task_of[n] \in Made
    BY DEF References
  <2> HIDE DEF c
  <2>3. /\ task_of' \in Seq(Nat) /\ Len(task_of') = queued'
        /\ \A n \in 1..queued' : task_of'[n] \in Made
    BY <1>c, <2>1, <2>2
  <2> DEFINE r == [at |-> "queueing", connection |-> c]
  <2>4. worker' = [worker EXCEPT ![w] = r] /\ r \in [at : Places, connection : Nat]
    BY <1>c, <2>1, Zenon DEF WorkerGoes, Places
  <2>5. worker' \in [Workers -> [at : Places, connection : Nat]]
    BY <2>2, <2>4, Zenon
  <2>6. \A v \in Workers : worker'[v].at # "idle" => worker'[v].connection \in Made
    BY <2>1, <2>2, <2>4, Zenon
  <2> QED
    BY <1>2, <1>c, <2>1, <2>3, <2>5, <2>6, SMTT(30) DEF References
<1>7. CASE WakeLoop(w)
  <2>1. WorkerGoes(w, "idle", 0) /\ commands' = commands /\ UNCHANGED <<task_of, queued>>
    BY <1>7, <1>i, Zenon DEF WakeLoop, Wakeup
  <2> QED
    BY <1>2, <1>c, <2>1, WorkerMoves, Zenon DEF Places
<1> QED
  BY <1>4, <1>5, <1>6, <1>7, Zenon DEF WorkerStep

(* The server starts with empty tables. *)
LEMMA InitKeepsInv == InitServer => ServerInv
<1> SUFFICES ASSUME InitServer
             PROVE  ServerInv
  BY Zenon
<1>1. OrderInv
  <2>1. Init
    BY Zenon DEF InitServer
  <2>2. TypeOK
    BY <2>1, InitType, Zenon
  <2>3. BatchFinished /\ TasksInOrder
    BY <2>1 DEF Init, BatchFinished, TasksInOrder
  <2> QED
    BY <2>2, <2>3, Zenon DEF OrderInv
<1>2. /\ DOMAIN connections_ = {} /\ Made = {} /\ Range(connections_) = {}
      /\ DOMAIN state_ = {} /\ sessions_ = connections_
  BY DEF InitServer, Made, Range
<1>3. IsFiniteSet({}) /\ Cardinality({}) = 0
  BY FS_EmptySet, Zenon
<1>4. TableTypes
  <2>1. max_clients \in Nat /\ Len(state_) <= MaxConnections
    BY ServerAssumption DEF InitServer
  <2>2. state_ \in Seq(States) /\ fd_ \in Seq(Nat) /\ Len(fd_) = Len(state_)
    BY DEF InitServer
  <2>3. connections_ \in [DOMAIN connections_ -> Made]
    BY <1>2 DEF InitServer
  <2> QED
    BY <1>2, <1>3, <2>1, <2>2, <2>3, Zenon DEF TableTypes
<1>5. References
  <2>1. queued = 0 /\ task_of = <<>> /\ commands = {}
    BY Zenon DEF InitServer, Init
  <2>2. /\ worker \in [Workers -> [at : Places, connection : Nat]]
        /\ \A w \in Workers : worker[w].at = "idle"
    BY Zenon DEF InitServer, Idle, Places
  <2> QED
    BY <2>1, <2>2 DEF References
<1>6. Stages
  BY Zenon DEF InitServer, Stages
<1>r. Round
  <2>1. events = {} /\ event.at = "none"
    BY SMT DEF InitServer, NoEvent
  <2> QED
    BY <2>1, SMT DEF Round
<1>7. TablesAgree
  <2>1. active_connections_ = 0 /\ added_to_loop_ = {} /\ max_clients \in Nat
    BY ServerAssumption, Zenon DEF InitServer
  <2> QED
    BY <1>2, <1>3, <2>1 DEF TablesAgree
<1> QED
  BY <1>1, <1>4, <1>5, <1>6, <1>r, <1>7, Zenon DEF ServerInv

(* Every step of the server keeps the invariant. *)
LEMMA StepKeepsInv == ServerInv /\ [NextServer]_allVars => ServerInv'
<1> SUFFICES ASSUME ServerInv, [NextServer]_allVars
             PROVE  ServerInv'
  BY Zenon
<1> USE DEF ServerInv
<1>s. [Next]_vars
  BY StepOfLoop, Zenon
<1>c. commands \subseteq Made /\ (main # "serving" => at = "ended")
  BY Zenon DEF References, Stages
<1>1. CASE UNCHANGED allVars \/ Ended
  <2>1. UNCHANGED <<tableVars, commands, worker, task_of, queued, at, events, event, main>>
    BY <1>1, Zenon DEF allVars, Ended, serverVars, tableVars, vars
  <2>2. Round'
    BY <2>1, RoundStays, TablesStay, Zenon
  <2> QED
    BY <1>s, <1>c, <2>1, <2>2, QuietStep, Zenon
<1>2. CASE PollServer
  <2>1. /\ UNCHANGED <<tableVars, commands, worker, task_of, queued, main>>
        /\ at' = "handling"
    BY <1>2, Zenon DEF PollServer, Poll
  <2>2. \E left \in SUBSET (added_to_loop_' \cup {Listen}) : NextEvent(left)
    BY <1>2, <2>1, Zenon DEF PollServer, tableVars
  <2>3. Round'
    BY <2>1, <2>2, RoundGoesOn, Zenon
  <2> QED
    BY <1>s, <1>c, <2>1, <2>3, QuietStep, Zenon
<1>3. CASE Alone(Interrupted) \/ Alone(Quit) \/ Alone(QuitWakeup)
  <2>1. /\ UNCHANGED <<tableVars, commands, worker, task_of, queued, events, event, main>>
        /\ at' = at \/ at # "handling"
    BY <1>3, Zenon DEF Alone, serverVars, tableVars, Interrupted, Quit, QuitWakeup
  <2>2. Round'
    BY <2>1, RoundStays, TablesStay, Zenon
  <2> QED
    BY <1>s, <1>c, <2>1, <2>2, QuietStep, Zenon
<1>4. CASE StopDispatcher
  <2>1. /\ UNCHANGED <<max_clients, fd_, state_, connections_, added_to_loop_,
                       active_connections_, commands, worker, task_of, queued, at, events, event>>
        /\ main' = "stopped" /\ at = "ended"
    BY <1>4, Zenon DEF StopDispatcher, vars
  <2>2. Made' = Made
    BY <2>1, Zenon DEF Made
  <2>3. TableTypes'
    BY <2>1, <2>2, SMTT(30) DEF TableTypes
  <2>4. TablesAgree'
    BY <2>1, <2>2, Zenon DEF TablesAgree
  <2>5. References'
    BY <1>c, <2>1, <2>2, ReferencesStay, Zenon
  <2>6. Round'
    BY <2>1, <2>2, RoundStays, Zenon
  <2> QED
    BY <1>s, <1>c, <2>1, <2>3, <2>4, <2>5, <2>6, StepOfTables, Zenon
<1>5. CASE Return
  <2>1. /\ UNCHANGED <<worker, task_of, queued, at, events, event>>
        /\ HandleClose(Range(connections_)) /\ main' = "returned" /\ at = "ended"
    BY <1>5, <1>c, Zenon DEF Return, vars
  <2>2. Range(connections_) \in SUBSET Made
    BY Zenon DEF TableTypes, Range
  <2>3. TableTypes' /\ TablesAgree' /\ Made' = Made /\ commands' \subseteq commands
    BY <2>1, <2>2, CloseStep, Zenon
  <2>4. References'
    BY <1>c, <2>1, <2>3, ReferencesStay, Zenon
  <2>5. Round'
    BY <2>1, Zenon DEF Round
  <2> QED
    BY <1>s, <1>c, <2>1, <2>3, <2>4, <2>5, StepOfTables, Zenon
<1> QED
  BY <1>1, <1>2, <1>3, <1>4, <1>5, ReactorKeepsInv, WorkerKeepsInv, Zenon DEF NextServer, MainStep

(* Connections, sessions, epoll set and gauge agree, and the limit of      *)
(* clients holds, in any order of accepts, closes, reused descriptors and  *)
(* late replies.                                                           *)
THEOREM TablesAlwaysAgree == SpecServer => []TablesAgree
<1>1. ServerInv => TablesAgree
  BY SMTT(30) DEF ServerInv
<1> QED
  BY <1>1, InitKeepsInv, StepKeepsInv, PTL DEF SpecServer

(* The loop comes to no channel of a connection that is destroyed, and     *)
(* HandleRead runs for none; after HandleRead the channel may be gone.     *)
(* What keeps them alive is their place in connections_, which a close and *)
(* the channel's removal from the epoll set leave together.                *)
THEOREM EventsAlwaysLive == SpecServer => []EventsAreLive
<1>1. ServerInv => EventsAreLive
  <2> SUFFICES ASSUME ServerInv
               PROVE  EventsAreLive
    BY Zenon
  <2> DEFINE read == IF event.at = "reading" THEN {event.channel} ELSE {}
  <2>1. (added_to_loop_ \cup events \cup read) \ {Listen} \subseteq Range(connections_)
    BY Zenon DEF ServerInv, Round, TablesAgree
  <2> QED
    BY <2>1, Zenon DEF EventsAreLive, Alive
<1> QED
  BY <1>1, InitKeepsInv, StepKeepsInv, PTL DEF SpecServer

-----------------------------------------------------------------------------
(***************************************************************************)
(* Buffer: what is read is appended to View, what is retrieved is taken    *)
(* from its front, and nothing that EnsureWritable does shows.             *)
(***************************************************************************)

(* The states of a Buffer over an alphabet. *)
Buffers(Byte) ==
    {b \in [storage : Seq(Byte), reader_index : Nat, writer_index : Nat] :
        b.reader_index <= b.writer_index /\ b.writer_index <= Len(b.storage)}

(* A function on 1..n is a sequence. *)
LEMMA FunctionIsSequence ==
    ASSUME NEW S, NEW n \in Nat, NEW f \in [1..n -> S]
    PROVE  f \in Seq(S) /\ Len(f) = n
BY SeqDef

(* The bytes between the two indices. *)
LEMMA ViewIs ==
    ASSUME NEW Byte, NEW b \in Buffers(Byte)
    PROVE  /\ ReadableBytes(b) \in Nat /\ WritableBytes(b) \in Nat
           /\ View(b) \in Seq(Byte) /\ Len(View(b)) = ReadableBytes(b)
           /\ \A i \in 1..ReadableBytes(b) : View(b)[i] = b.storage[b.reader_index + i]
<1>1. b.storage \in Seq(Byte) /\ b.reader_index \in Nat /\ b.writer_index \in Nat
      /\ b.reader_index <= b.writer_index /\ b.writer_index <= Len(b.storage)
  BY Zenon DEF Buffers
<1>2. Len(b.storage) \in Nat /\ ReadableBytes(b) \in Nat /\ WritableBytes(b) \in Nat
  BY <1>1 DEF ReadableBytes, WritableBytes
<1>3. \A i \in 1..ReadableBytes(b) : b.storage[b.reader_index + i] \in Byte
  <2>1. SUFFICES ASSUME NEW i \in 1..(b.writer_index - b.reader_index)
                 PROVE  b.storage[b.reader_index + i] \in Byte
    BY Zenon DEF ReadableBytes
  <2>2. b.reader_index + i \in 1..Len(b.storage)
    <3> DEFINE r == b.reader_index
               w == b.writer_index
               l == Len(b.storage)
    <3>1. r \in Nat /\ w \in Nat /\ l \in Nat /\ w <= l /\ i \in 1..(w - r)
      BY <1>1, <1>2, <2>1, Zenon
    <3> HIDE DEF r, w, l
    <3>2. r + i \in 1..l
      BY <3>1
    <3> QED
      BY <3>2, Zenon DEF r, l
  <2> QED
    BY <1>1, <2>2, ElementOfSeq, Zenon
<1>4. View(b) \in [1..ReadableBytes(b) -> Byte]
  BY <1>3, Zenon DEF View
<1> QED
  BY <1>2, <1>4, FunctionIsSequence, Zenon DEF View

(* Bytes written over a part of the storage. *)
LEMMA OverlayIs ==
    ASSUME NEW Byte, NEW storage \in Seq(Byte), NEW start \in Nat, NEW data \in Seq(Byte)
    PROVE  /\ Overlay(storage, start, data) \in Seq(Byte)
           /\ Len(Overlay(storage, start, data)) = Len(storage)
           /\ \A i \in 1..Len(storage) : Overlay(storage, start, data)[i] =
                 IF i > start /\ i <= start + Len(data) THEN data[i - start] ELSE storage[i]
<1> DEFINE o == Overlay(storage, start, data)
<1>1. Len(storage) \in Nat /\ Len(data) \in Nat
  OBVIOUS
<1>2. \A i \in 1..Len(storage) : o[i] =
        IF i > start /\ i <= start + Len(data) THEN data[i - start] ELSE storage[i]
  BY Zenon DEF Overlay
<1>3. \A i \in 1..Len(storage) : o[i] \in Byte
  <2>1. TAKE i \in 1..Len(storage)
  <2>2. CASE i > start /\ i <= start + Len(data)
    <3>1. i - start \in 1..Len(data)
      BY <1>1, <2>2
    <3> QED
      BY <1>2, <2>2, <3>1, ElementOfSeq, Zenon
  <2>3. CASE ~(i > start /\ i <= start + Len(data))
    BY <1>2, <2>3, ElementOfSeq, Zenon
  <2> QED
    BY <2>2, <2>3, Zenon
<1>4. o \in [1..Len(storage) -> Byte]
  <2>1. DOMAIN o = 1..Len(storage) /\ o = [i \in DOMAIN o |-> o[i]]
    BY Zenon DEF Overlay
  <2> QED
    BY <1>3, <2>1, Zenon
<1> QED
  BY <1>1, <1>2, <1>4, FunctionIsSequence, Zenon

(* Storage that vector::resize has grown. *)
LEMMA GrownIs ==
    ASSUME NEW Byte, Zero \in Byte, NEW storage \in Seq(Byte), NEW size \in Nat
    PROVE  /\ Grown(storage, size) \in Seq(Byte) /\ Len(Grown(storage, size)) = size
           /\ \A i \in 1..size : i <= Len(storage) => Grown(storage, size)[i] = storage[i]
<1> DEFINE g == Grown(storage, size)
<1>1. Len(storage) \in Nat
  OBVIOUS
<1>2. \A i \in 1..size : g[i] = IF i <= Len(storage) THEN storage[i] ELSE Zero
  BY Zenon DEF Grown
<1>3. \A i \in 1..size : i <= Len(storage) => storage[i] \in Byte
  BY <1>1, ElementOfSeq
<1>4. g \in [1..size -> Byte]
  <2>1. DOMAIN g = 1..size /\ g = [i \in DOMAIN g |-> g[i]]
    BY Zenon DEF Grown
  <2> QED
    BY <1>2, <1>3, <2>1, Zenon
<1> QED
  BY <1>2, <1>4, FunctionIsSequence, Zenon

----------------------------------------------------------------------------
(* What a step that keeps the readable bytes in place, or moves them with  *)
(* the reader index, does to View: nothing.                                *)
LEMMA SameView ==
    ASSUME NEW Byte, NEW b \in Buffers(Byte), NEW c \in Buffers(Byte),
           ReadableBytes(c) = ReadableBytes(b),
           \A i \in 1..ReadableBytes(b) :
               c.storage[c.reader_index + i] = b.storage[b.reader_index + i]
    PROVE  View(c) = View(b)
<1>1. \A i \in 1..Len(View(c)) : View(c)[i] = View(b)[i]
  BY ViewIs
<1> QED
  BY <1>1, ViewIs, SeqEqual, Zenon

(* EnsureWritable makes room for length bytes and shows nothing of it: the *)
(* readable bytes stay what they are, whether they are moved to the front  *)
(* or the storage grows.  It grows only if that is needed, and then to     *)
(* less than the readable bytes and twice what was asked for.              *)
THEOREM EnsureWritableIsHidden ==
    ASSUME NEW Byte, Zero \in Byte, NEW b \in Buffers(Byte), NEW length \in Nat
    PROVE  LET e == EnsureWritable(b, length) IN
           /\ e \in Buffers(Byte) /\ View(e) = View(b)
           /\ WritableBytes(e) >= length
           /\ \/ Len(e.storage) = Len(b.storage)
              \/ Len(e.storage) < ReadableBytes(b) + 2 * length
<1> DEFINE e == EnsureWritable(b, length)
<1>1. /\ b.storage \in Seq(Byte) /\ b.reader_index \in Nat /\ b.writer_index \in Nat
      /\ b.reader_index <= b.writer_index /\ b.writer_index <= Len(b.storage)
      /\ Len(b.storage) \in Nat
      /\ b = [storage |-> b.storage, reader_index |-> b.reader_index,
              writer_index |-> b.writer_index]
  BY DEF Buffers
<1>2. CASE WritableBytes(b) >= length
  BY <1>2, Zenon DEF EnsureWritable
<1>3. CASE ~(WritableBytes(b) >= length) /\ RoomInFront(b, length)
  <2> DEFINE s == Overlay(b.storage, 0, View(b))
  <2>1. e = [storage |-> s, reader_index |-> 0, writer_index |-> ReadableBytes(b)]
    BY <1>3, Zenon DEF EnsureWritable, Compacted
  <2>2. /\ View(b) \in Seq(Byte) /\ Len(View(b)) = ReadableBytes(b) /\ ReadableBytes(b) \in Nat
        /\ \A i \in 1..ReadableBytes(b) : View(b)[i] = b.storage[b.reader_index + i]
    BY ViewIs, Zenon
  <2>3. /\ s \in Seq(Byte) /\ Len(s) = Len(b.storage)
        /\ \A i \in 1..Len(b.storage) : i <= Len(View(b)) => s[i] = View(b)[i]
    <3> DEFINE storage == b.storage
               data == View(b)
    <3>1. storage \in Seq(Byte) /\ data \in Seq(Byte)
      BY <1>1, <2>2, Zenon
    <3> HIDE DEF storage, data
    <3>0. 0 \in Nat
      OBVIOUS
    <3>2. /\ Overlay(storage, 0, data) \in Seq(Byte)
          /\ Len(Overlay(storage, 0, data)) = Len(storage)
      BY <3>0, <3>1, OverlayIs, Zenon
    <3>3. \A i \in 1..Len(storage) : i <= Len(data) => Overlay(storage, 0, data)[i] = data[i]
      BY <3>1 DEF Overlay
    <3> QED
      BY <3>2, <3>3, Zenon DEF storage, data
  <2> HIDE DEF e, s
  <2>4. ReadableBytes(b) <= Len(b.storage)
    BY <1>1 DEF ReadableBytes
  <2>5. e \in Buffers(Byte)
    BY <2>1, <2>2, <2>3, <2>4 DEF Buffers
  <2>6. ReadableBytes(e) = ReadableBytes(b) /\ WritableBytes(e) = Len(b.storage) - ReadableBytes(b)
    BY <2>1, <2>2, <2>3 DEF ReadableBytes, WritableBytes
  <2>7. \A i \in 1..ReadableBytes(b) : e.storage[e.reader_index + i] = b.storage[b.reader_index + i]
    <3>1. TAKE i \in 1..ReadableBytes(b)
    <3>2. i \in Nat /\ i > 0 /\ i <= Len(View(b)) /\ i \in 1..Len(b.storage)
      BY <1>1, <2>2, <2>4
    <3>3. s[i] = View(b)[i]
      BY <2>2, <2>3, <3>2, Zenon
    <3>4. e.storage[e.reader_index + i] = s[i]
      BY <2>1, <3>2
    <3> QED
      BY <2>2, <3>3, <3>4, Zenon
  <2>8. View(e) = View(b)
    BY <2>5, <2>6, <2>7, SameView, Zenon
  <2>9. WritableBytes(e) >= length
    BY <1>1, <1>3, <2>6 DEF RoomInFront, ReadableBytes, WritableBytes
  <2>10. Len(e.storage) = Len(b.storage)
    BY <2>1, <2>3, Zenon
  <2> QED
    BY <2>5, <2>8, <2>9, <2>10, Zenon DEF e
<1>4. CASE ~(WritableBytes(b) >= length) /\ ~RoomInFront(b, length)
  <2> DEFINE size == b.writer_index + length
             g == Grown(b.storage, size)
  <2>1. e = [storage |-> g, reader_index |-> b.reader_index, writer_index |-> b.writer_index]
    BY <1>1, <1>4, Zenon DEF EnsureWritable
  <2>2. /\ g \in Seq(Byte) /\ Len(g) = size
        /\ \A i \in 1..size : i <= Len(b.storage) => g[i] = b.storage[i]
    <3>1. size \in Nat
      BY <1>1
    <3> HIDE DEF size
    <3> QED
      BY <1>1, <3>1, GrownIs, Zenon
  <2> HIDE DEF e, g
  <2>3. e \in Buffers(Byte)
    BY <1>1, <2>1, <2>2 DEF Buffers
  <2>4. ReadableBytes(e) = ReadableBytes(b) /\ WritableBytes(e) = length
    BY <1>1, <2>1, <2>2 DEF ReadableBytes, WritableBytes
  <2>5. \A i \in 1..ReadableBytes(b) : e.storage[e.reader_index + i] = b.storage[b.reader_index + i]
    <3>1. TAKE i \in 1..ReadableBytes(b)
    <3>2. b.reader_index + i \in 1..size /\ b.reader_index + i <= Len(b.storage)
      BY <1>1 DEF ReadableBytes
    <3> QED
      BY <2>1, <2>2, <3>2, Zenon
  <2>6. View(e) = View(b)
    BY <2>3, <2>4, <2>5, SameView, Zenon
  <2>7. Len(e.storage) < ReadableBytes(b) + 2 * length
    BY <1>1, <1>4, <2>1, <2>2 DEF RoomInFront, ReadableBytes, WritableBytes
  <2> QED
    BY <2>3, <2>4, <2>6, <2>7 DEF e
<1> QED
  BY <1>2, <1>3, <1>4, Zenon

----------------------------------------------------------------------------
(* Bytes copied to the writer index are appended to the view. *)
LEMMA CopyInAppends ==
    ASSUME NEW Byte, NEW b \in Buffers(Byte), NEW data \in Seq(Byte),
           Len(data) <= WritableBytes(b)
    PROVE  LET c == CopyIn(b, data) IN
           /\ c \in Buffers(Byte) /\ View(c) = View(b) \o data
           /\ Len(c.storage) = Len(b.storage)
<1> DEFINE storage == b.storage
           w == b.writer_index
           r == b.reader_index
           s == Overlay(storage, w, data)
           c == CopyIn(b, data)
<1>1. /\ storage \in Seq(Byte) /\ r \in Nat /\ w \in Nat /\ r <= w /\ w <= Len(storage)
      /\ Len(storage) \in Nat /\ Len(data) \in Nat
      /\ b = [storage |-> storage, reader_index |-> r, writer_index |-> w]
  BY DEF Buffers
<1>2. c = [storage |-> s, reader_index |-> r, writer_index |-> w + Len(data)]
  BY Zenon DEF CopyIn
<1>3. w + Len(data) <= Len(storage)
  BY <1>1 DEF WritableBytes
<1>4. ReadableBytes(b) = w - r
  BY Zenon DEF ReadableBytes
<1>5. /\ View(b) \in Seq(Byte) /\ Len(View(b)) = w - r
      /\ \A i \in 1..(w - r) : View(b)[i] = storage[r + i]
  BY <1>4, ViewIs, Zenon
<1> HIDE DEF storage, w, r, c
<1>6. s \in Seq(Byte) /\ Len(s) = Len(storage)
  BY <1>1, OverlayIs
<1>7. \A i \in 1..Len(storage) :
        s[i] = IF i > w /\ i <= w + Len(data) THEN data[i - w] ELSE storage[i]
  BY <1>1, Zenon DEF Overlay
<1> HIDE DEF s
<1>8. c \in Buffers(Byte)
  BY <1>1, <1>2, <1>3, <1>6 DEF Buffers
<1>9. ReadableBytes(c) = w + Len(data) - r
  BY <1>1, <1>2 DEF ReadableBytes
<1>10. /\ View(c) \in Seq(Byte) /\ Len(View(c)) = w + Len(data) - r
       /\ \A i \in 1..(w + Len(data) - r) : View(c)[i] = s[r + i]
  BY <1>2, <1>8, <1>9, ViewIs, Zenon
<1>11. /\ View(b) \o data \in Seq(Byte)
       /\ Len(View(b) \o data) = w + Len(data) - r
       /\ \A i \in 1..(w + Len(data) - r) :
             (View(b) \o data)[i] = IF i <= w - r THEN View(b)[i] ELSE data[i - (w - r)]
  <2> DEFINE v == View(b)
  <2>1. v \in Seq(Byte) /\ Len(v) = w - r
    BY <1>5, Zenon
  <2> HIDE DEF v
  <2>2. /\ v \o data \in Seq(Byte)
        /\ Len(v \o data) = Len(v) + Len(data)
        /\ \A i \in 1..(Len(v) + Len(data)) :
              (v \o data)[i] = IF i <= Len(v) THEN v[i] ELSE data[i - Len(v)]
    BY <2>1, ConcatProperties, Zenon
  <2>3. Len(v) + Len(data) = w + Len(data) - r
    BY <1>1, <2>1
  <2> QED
    BY <2>1, <2>2, <2>3, Zenon DEF v
<1>12. \A i \in 1..(w + Len(data) - r) : View(c)[i] = (View(b) \o data)[i]
  <2> SUFFICES ASSUME NEW i \in 1..(w + Len(data) - r)
               PROVE  View(c)[i] = (View(b) \o data)[i]
    BY Zenon
  <2>2. r + i \in 1..Len(storage)
    BY <1>1, <1>3
  <2>3. CASE i <= w - r
    <3>1. i \in 1..(w - r) /\ ~(r + i > w)
      BY <1>1, <2>3
    <3>2. s[r + i] = storage[r + i]
      BY <1>7, <2>2, <3>1, Zenon
    <3> QED
      BY <1>5, <1>10, <1>11, <2>3, <3>1, <3>2, Zenon
  <2>4. CASE i > w - r
    <3>1. r + i > w /\ r + i <= w + Len(data) /\ (r + i) - w = i - (w - r)
      BY <1>1, <2>4
    <3>2. s[r + i] = data[i - (w - r)]
      BY <1>7, <2>2, <3>1, Zenon
    <3>3. ~(i <= w - r)
      BY <1>1, <2>4
    <3> QED
      BY <1>10, <1>11, <3>2, <3>3, Zenon
  <2>5. i <= w - r \/ i > w - r
    BY <1>1
  <2> QED
    BY <2>3, <2>4, <2>5, Zenon
<1>13. View(c) = View(b) \o data
  BY <1>10, <1>11, <1>12, SeqEqual, Zenon
<1> QED
  BY <1>2, <1>6, <1>8, <1>13 DEF c, storage

(* Append puts data behind the readable bytes, whatever room there was.    *)
THEOREM AppendAppends ==
    ASSUME NEW Byte, Zero \in Byte, NEW b \in Buffers(Byte), NEW data \in Seq(Byte)
    PROVE  LET c == AppendBytes(b, data) IN
           /\ c \in Buffers(Byte) /\ View(c) = View(b) \o data
           /\ \/ Len(c.storage) = Len(b.storage)
              \/ Len(c.storage) < ReadableBytes(b) + 2 * Len(data)
<1> DEFINE e == EnsureWritable(b, Len(data))
<1>1. Len(data) \in Nat
  OBVIOUS
<1>2. /\ e \in Buffers(Byte) /\ View(e) = View(b) /\ WritableBytes(e) >= Len(data)
      /\ \/ Len(e.storage) = Len(b.storage)
         \/ Len(e.storage) < ReadableBytes(b) + 2 * Len(data)
  BY <1>1, EnsureWritableIsHidden, Zenon
<1> HIDE DEF e
<1>3. Len(data) <= WritableBytes(e)
  BY <1>1, <1>2, ViewIs, Zenon
<1>4. /\ CopyIn(e, data) \in Buffers(Byte) /\ View(CopyIn(e, data)) = View(e) \o data
      /\ Len(CopyIn(e, data).storage) = Len(e.storage)
  BY <1>2, <1>3, CopyInAppends, Zenon
<1>5. AppendBytes(b, data) = CopyIn(e, data)
  BY Zenon DEF AppendBytes, e
<1> QED
  BY <1>2, <1>4, <1>5, Zenon

(* ReadFd does the same with what readv takes, also with the part of it    *)
(* that went through the second vector: the bytes are in order, and none   *)
(* is lost or taken twice.                                                 *)
THEOREM ReadFdAppends ==
    ASSUME NEW Byte, Zero \in Byte, NEW b \in Buffers(Byte), NEW data \in Seq(Byte)
    PROVE  ReadFd(b, data) \in Buffers(Byte) /\ View(ReadFd(b, data)) = View(b) \o data
<1> DEFINE n == WritableBytes(b)
           first == SubSeq(data, 1, n)
           second == SubSeq(data, n + 1, Len(data))
<1>1. n \in Nat /\ Len(data) \in Nat
  BY ViewIs
<1>2. CASE Len(data) <= n
  BY <1>2, CopyInAppends, Zenon DEF ReadFd
<1>3. CASE ~(Len(data) <= n)
  <2> HIDE DEF n
  <2>1. \A i \in 1..Len(data) : data[i] \in Byte
    BY ElementOfSeq, Zenon
  <2>2. first \in Seq(Byte) /\ Len(first) = n
    BY <1>1, <1>3, <2>1
  <2>3. second \in Seq(Byte)
    BY <1>1, <1>3, <2>1
  <2>4. data = first \o second
    <3>1. data = SubSeq(data, 1, Len(data))
      BY SubSeqFull, Zenon
    <3>2. 1 \in 1..(Len(data) + 1) /\ n \in (1 - 1)..Len(data) /\ Len(data) \in n..Len(data)
      BY <1>1, <1>3
    <3>3. first \o second = SubSeq(data, 1, Len(data))
      BY <3>2, ConcatAdjacentSubSeq, Zenon
    <3> QED
      BY <3>1, <3>3, Zenon
  <2> HIDE DEF first, second
  <2>5. CopyIn(b, first) \in Buffers(Byte) /\ View(CopyIn(b, first)) = View(b) \o first
    BY <1>1, <2>2, CopyInAppends DEF n
  <2>6. /\ AppendBytes(CopyIn(b, first), second) \in Buffers(Byte)
        /\ View(AppendBytes(CopyIn(b, first), second)) = (View(b) \o first) \o second
    BY <2>3, <2>5, AppendAppends, Zenon
  <2>7. (View(b) \o first) \o second = View(b) \o data
    <3>1. View(b) \in Seq(Byte)
      BY ViewIs, Zenon
    <3>2. first \in Seq(Byte)
      BY <2>2, Zenon
    <3>3. (View(b) \o first) \o second = View(b) \o (first \o second)
      BY <2>3, <3>1, <3>2, ConcatAssociative, SMTT(30)
    <3> QED
      BY <2>4, <3>3, Zenon
  <2>8. ReadFd(b, data) = AppendBytes(CopyIn(b, first), second)
    BY <1>3, Zenon DEF ReadFd, n, first, second
  <2> QED
    BY <2>6, <2>7, <2>8, Zenon
<1> QED
  BY <1>2, <1>3, Zenon

(* Retrieve, and with it WriteFd, takes the first bytes and leaves the     *)
(* others as they are.                                                     *)
THEOREM RetrieveTakesTheFront ==
    ASSUME NEW Byte, NEW b \in Buffers(Byte), NEW length \in 0..ReadableBytes(b)
    PROVE  LET c == Retrieve(b, length) IN
           /\ c \in Buffers(Byte)
           /\ View(c) = SubSeq(View(b), length + 1, ReadableBytes(b))
<1> DEFINE storage == b.storage
           w == b.writer_index
           r == b.reader_index
           c == Retrieve(b, length)
           rest == SubSeq(View(b), length + 1, w - r)
<1>1. /\ storage \in Seq(Byte) /\ r \in Nat /\ w \in Nat /\ r <= w /\ w <= Len(storage)
      /\ Len(storage) \in Nat
      /\ b = [storage |-> storage, reader_index |-> r, writer_index |-> w]
  BY DEF Buffers
<1>2. ReadableBytes(b) = w - r
  BY Zenon DEF ReadableBytes
<1>3. /\ View(b) \in Seq(Byte) /\ Len(View(b)) = w - r
      /\ \A i \in 1..(w - r) : View(b)[i] = storage[r + i]
  BY <1>2, ViewIs, Zenon
<1>4. \A i \in 1..(w - r) : View(b)[i] \in Byte
  BY <1>3, ElementOfSeq, Zenon
<1>5. length \in Nat /\ length <= w - r
  BY <1>1, <1>2
<1>6. CASE length = w - r
  <2>1. c = [storage |-> storage, reader_index |-> 0, writer_index |-> 0]
    BY <1>1, <1>2, <1>6, Zenon DEF Retrieve, RetrieveAll
  <2> HIDE DEF storage, w, r, c
  <2>2. c \in Buffers(Byte) /\ ReadableBytes(c) = 0
    BY <1>1, <2>1 DEF Buffers, ReadableBytes
  <2>3. View(c) = <<>>
    BY <2>2, ViewIs
  <2>4. rest = <<>>
    BY <1>1, <1>6, SubSeqEmpty
  <2> QED
    BY <1>2, <2>2, <2>3, <2>4, Zenon DEF c
<1>7. CASE length # w - r
  <2>1. c = [storage |-> storage, reader_index |-> r + length, writer_index |-> w]
    BY <1>1, <1>2, <1>7, Zenon DEF Retrieve
  <2> HIDE DEF storage, w, r, c
  <2>2. c \in Buffers(Byte)
    BY <1>1, <1>5, <2>1 DEF Buffers
  <2>3. ReadableBytes(c) = w - (r + length)
    BY <2>1, Zenon DEF ReadableBytes
  <2>4. /\ View(c) \in Seq(Byte) /\ Len(View(c)) = w - (r + length)
        /\ \A i \in 1..(w - (r + length)) : View(c)[i] = storage[(r + length) + i]
    BY <2>1, <2>2, <2>3, ViewIs, Zenon
  <2>5. /\ rest \in Seq(Byte) /\ Len(rest) = w - (r + length)
        /\ \A i \in 1..(w - (r + length)) : rest[i] = View(b)[length + i]
    <3>1. /\ length + 1 \in Int /\ w - r \in Int /\ length + 1 <= w - r
          /\ (w - r) - (length + 1) + 1 = w - (r + length)
      BY <1>1, <1>5, <1>7
    <3>2. \A i \in (length + 1)..(w - r) : View(b)[i] \in Byte
      BY <1>4, <1>5
    <3>3. \A i \in 1..(w - (r + length)) : (length + 1) + i - 1 = length + i
      BY <1>5
    <3>4. /\ rest \in Seq(Byte)
          /\ Len(rest) = (IF length + 1 <= w - r THEN (w - r) - (length + 1) + 1 ELSE 0)
          /\ \A i \in 1..((w - r) - (length + 1) + 1) : rest[i] = View(b)[(length + 1) + i - 1]
      BY <3>1, <3>2, SubSeqProperties
    <3> HIDE DEF rest
    <3> QED
      BY <3>1, <3>3, <3>4, Zenon
  <2> HIDE DEF rest
  <2>6. \A i \in 1..(w - (r + length)) : View(c)[i] = rest[i]
    <3>1. TAKE i \in 1..(w - (r + length))
    <3>2. length + i \in 1..(w - r) /\ (r + length) + i = r + (length + i)
      BY <1>1, <1>5
    <3> QED
      BY <1>3, <2>4, <2>5, <3>2, Zenon
  <2>7. View(c) = rest
    BY <2>4, <2>5, <2>6, SeqEqual, Zenon
  <2> QED
    BY <1>2, <2>2, <2>7, Zenon DEF c, rest
<1> QED
  BY <1>6, <1>7, Zenon

-----------------------------------------------------------------------------
(***************************************************************************)
(* SnapshotFile: the snapshot at the path, whatever is lost.               *)
(***************************************************************************)

Lifetimes == {None} \cup {Some(l) : l \in Nat \ {0}}

(* A database that a start or a client can have made. *)
IsDatabase(d) ==
    /\ d = [k \in DOMAIN d |-> d[k]] /\ DOMAIN d \subseteq Keys
    /\ \A k \in DOMAIN d : d[k] = [value |-> d[k].value, life |-> d[k].life] /\ d[k].life \in Lifetimes

(* The entries of a save of d. *)
EntriesOf(list, d) ==
    \E n \in Nat : \E order \in [1..n -> DOMAIN d] :
        /\ \A k \in DOMAIN d : \E i \in 1..n : \A j \in 1..n : order[j] = k <=> j = i
        /\ list = [i \in 1..n |->
             [key |-> order[i], value |-> d[order[i]].value,
              ttl |-> IF d[order[i]].life = None THEN None ELSE Some(d[order[i]].life[1] \div 2)]]

(* The records that are written of the first n entries. *)
RecordsOf(list, n) == [i \in 1..n |-> Encoded(list[i])]

(* A life goes to whole milliseconds and back. *)
LEMMA RoundTrip ==
    ASSUME NEW l \in Nat \ {0}
    PROVE  /\ l \div 2 \in Nat /\ Milliseconds(l \div 2) \in Nat \ {0}
           /\ 2 * Milliseconds(l \div 2) = IF l < 2 THEN 2 ELSE 2 * (l \div 2)
<1>1. l \div 2 \in Nat /\ (l < 2 <=> l \div 2 = 0)
  OBVIOUS
<1> HIDE DEF Milliseconds
<1>2. CASE l \div 2 = 0
  BY <1>1, <1>2 DEF Milliseconds
<1>3. CASE l \div 2 # 0
  BY <1>1, <1>3, Zenon DEF Milliseconds
<1> QED
  BY <1>2, <1>3, Zenon

(* An optional value that is there. *)
LEMMA SomeIsNotNone == \A x : Some(x) # None /\ Some(x)[1] = x
BY Zenon DEF Some, None

(* r records a key of d as a start has to restore it. *)
Records(r, d) ==
    /\ r.key \in DOMAIN d /\ r.value = d[r.key].value /\ r.px # Some(0)
    /\ (IF r.px = None THEN None ELSE Some(2 * r.px[1])) = Restorable(d)[r.key].life

(* One of the entries, and only one, has key k. *)
OnePlace(list, k) ==
    \E i \in 1..Len(list) : \A j \in 1..Len(list) : Encoded(list[j]).key = k <=> j = i

(* Every entry is written as a record of its key, and every key has one.   *)
LEMMA RecordOfKey ==
    ASSUME NEW d, IsDatabase(d), NEW list, EntriesOf(list, d)
    PROVE  /\ Len(list) \in Nat /\ list \in Seq({list[i] : i \in 1..Len(list)})
           /\ \A i \in 1..Len(list) : Records(Encoded(list[i]), d)
           /\ \A k \in DOMAIN d : OnePlace(list, k)
<1>1. PICK n \in Nat : \E order \in [1..n -> DOMAIN d] :
        /\ \A k \in DOMAIN d : \E i \in 1..n : \A j \in 1..n : order[j] = k <=> j = i
        /\ list = [i \in 1..n |->
             [key |-> order[i], value |-> d[order[i]].value,
              ttl |-> IF d[order[i]].life = None THEN None ELSE Some(d[order[i]].life[1] \div 2)]]
  BY Zenon DEF EntriesOf
<1>2. PICK order \in [1..n -> DOMAIN d] :
        /\ \A k \in DOMAIN d : \E i \in 1..n : \A j \in 1..n : order[j] = k <=> j = i
        /\ list = [i \in 1..n |->
             [key |-> order[i], value |-> d[order[i]].value,
              ttl |-> IF d[order[i]].life = None THEN None ELSE Some(d[order[i]].life[1] \div 2)]]
  BY <1>1, Zenon
<1>3. list \in Seq({list[i] : i \in 1..n}) /\ Len(list) = n
  <2>1. list \in [1..n -> {list[i] : i \in 1..n}]
    BY <1>2, Zenon
  <2> QED
    BY <2>1, SeqDef
<1>4. ASSUME NEW i \in 1..n
      PROVE  Encoded(list[i]).key = order[i] /\ Records(Encoded(list[i]), d)
  <2> DEFINE k == order[i]
             life == d[k].life
             r == Encoded(list[i])
  <2>1. k \in DOMAIN d /\ life \in Lifetimes
    BY <1>2, Zenon DEF IsDatabase
  <2>2. list[i] = [key |-> k, value |-> d[k].value,
                   ttl |-> IF life = None THEN None ELSE Some(life[1] \div 2)]
    BY <1>2, Zenon
  <2>3. Restorable(d)[k].life
          = IF life = None THEN None
            ELSE Some(IF life[1] < 2 THEN 2 ELSE 2 * (life[1] \div 2))
    BY <2>1, Zenon DEF Restorable
  <2>4. r.key = k /\ r.value = d[k].value
    BY <2>2, SMTT(25) DEF Encoded
  <2>5. CASE life = None
    <3>1. r.px = None
      BY <2>2, <2>5 DEF Encoded
    <3> QED
      BY <2>1, <2>3, <2>4, <2>5, <3>1, SomeIsNotNone, SMTT(25) DEF Records
  <2>6. CASE life # None
    <3>1. PICK l \in Nat \ {0} : life = Some(l)
      BY <2>1, <2>6, Zenon DEF Lifetimes
    <3>2. life[1] = l
      BY <3>1, SomeIsNotNone, ZenonT(40)
    <3>3. list[i].ttl = Some(l \div 2)
      BY <2>2, <2>6, <3>2
    <3>4. r.px = Some(Milliseconds(l \div 2))
      BY <3>3, SomeIsNotNone, Zenon DEF Encoded
    <3>5. r.px # Some(0)
      BY <3>4, RoundTrip, SomeIsNotNone
    <3>6. (IF r.px = None THEN None ELSE Some(2 * r.px[1])) = Some(2 * Milliseconds(l \div 2))
      BY <3>4, SomeIsNotNone, Zenon
    <3>7. Restorable(d)[k].life = Some(2 * Milliseconds(l \div 2))
      BY <2>3, <2>6, <3>2, RoundTrip, Zenon
    <3> QED
      BY <2>1, <2>4, <3>5, <3>6, <3>7, Zenon DEF Records
  <2> QED
    BY <2>5, <2>6, Zenon
<1>5. \A k \in DOMAIN d : \E i \in 1..n : \A j \in 1..n : Encoded(list[j]).key = k <=> j = i
  <2>1. \A k \in DOMAIN d : \E i \in 1..n : \A j \in 1..n : order[j] = k <=> j = i
    BY <1>2, Zenon
  <2>2. \A j \in 1..n : Encoded(list[j]).key = order[j]
    BY <1>4, Zenon
  <2> HIDE DEF Encoded
  <2> QED
    BY <2>1, <2>2, Zenon
<1> QED
  BY <1>3, <1>4, <1>5, Zenon DEF OnePlace

(* A file with all of the records restores the database. *)
LEMMA WholeFileLoads ==
    ASSUME NEW d, IsDatabase(d), NEW list, EntriesOf(list, d)
    PROVE  Load(Contents(RecordsOf(list, Len(list)), "clean")) = {Restorable(d)}
<1> DEFINE n == Len(list)
           records == RecordsOf(list, n)
           LastOf(k) == CHOOSE i \in DOMAIN records :
                           /\ records[i].key = k
                           /\ \A j \in DOMAIN records : records[j].key = k => j <= i
<1>1. /\ n \in Nat /\ DOMAIN records = 1..n
      /\ \A i \in 1..n : records[i] = Encoded(list[i]) /\ Records(records[i], d)
      /\ \A k \in DOMAIN d : \E i \in 1..n : \A j \in 1..n : records[j].key = k <=> j = i
  <2>1. n \in Nat /\ \A i \in 1..n : Records(Encoded(list[i]), d)
    <3> HIDE DEF records, LastOf
    <3> QED
      BY RecordOfKey, Zenon
  <2>2. DOMAIN records = 1..n /\ \A i \in 1..n : records[i] = Encoded(list[i])
    BY Zenon DEF RecordsOf
  <2>3. \A i \in 1..n : Records(records[i], d)
    BY <2>1, <2>2, Zenon
  <2>4. \A k \in DOMAIN d : \E i \in 1..n : \A j \in 1..n : Encoded(list[j]).key = k <=> j = i
    <3>1. \A k \in DOMAIN d : OnePlace(list, k)
      BY RecordOfKey, Zenon
    <3> QED
      BY <3>1, Zenon DEF OnePlace
  <2>5. \A k \in DOMAIN d : \E i \in 1..n : \A j \in 1..n : records[j].key = k <=> j = i
    <3>1. \A j \in 1..n : records[j] = Encoded(list[j])
      BY <2>2, Zenon
    <3> HIDE DEF records, n
    <3> QED
      BY <2>4, <3>1, Zenon
  <2> QED
    BY <2>1, <2>2, <2>3, <2>5, Zenon
<1> HIDE DEF records, n
<1>2. Accepted(records)
  BY <1>1, Zenon DEF Accepted, Records
<1>3. {records[i].key : i \in DOMAIN records} = DOMAIN d
  <2>1. \A i \in 1..n : records[i].key \in DOMAIN d
    BY <1>1, Zenon DEF Records
  <2>2. \A k \in DOMAIN d : \E i \in 1..n : records[i].key = k
    BY <1>1, Zenon
  <2> QED
    BY <1>1, <2>1, <2>2, Zenon
<1>4. ASSUME NEW k \in DOMAIN d
      PROVE  LastOf(k) \in 1..n /\ records[LastOf(k)].key = k
  <2>1. PICK i \in 1..n : \A j \in 1..n : records[j].key = k <=> j = i
    BY <1>1, Zenon
  <2>2. \E l \in DOMAIN records : /\ records[l].key = k
                                  /\ \A j \in DOMAIN records : records[j].key = k => j <= l
    <3>1. i \in DOMAIN records /\ records[i].key = k
      BY <1>1, <2>1, ZenonT(40)
    <3>2. \A j \in DOMAIN records : records[j].key = k => j <= i
      BY <1>1, <2>1
    <3> QED
      BY <3>1, <3>2, Zenon
  <2>3. LastOf(k) \in DOMAIN records /\ records[LastOf(k)].key = k
    BY <2>2, Zenon
  <2> QED
    BY <1>1, <2>3, Zenon
<1>5. ASSUME NEW k \in DOMAIN d
      PROVE  [value |-> records[LastOf(k)].value,
              life |-> IF records[LastOf(k)].px = None THEN None
                       ELSE Some(2 * records[LastOf(k)].px[1])] = Restorable(d)[k]
  <2> DEFINE r == records[LastOf(k)]
  <2>1. Records(r, d) /\ r.key = k
    BY <1>1, <1>4, Zenon
  <2> HIDE DEF r
  <2>2. r.value = d[k].value
        /\ (IF r.px = None THEN None ELSE Some(2 * r.px[1])) = Restorable(d)[k].life
    BY <2>1, Zenon DEF Records
  <2>3. Restorable(d)[k] = [value |-> d[k].value, life |-> Restorable(d)[k].life]
    BY Zenon DEF Restorable
  <2> QED
    BY <2>2, <2>3, Zenon DEF r
<1>6. Replayed(records) = [k \in DOMAIN d |-> Restorable(d)[k]]
  <2>1. Replayed(records)
          = [k \in DOMAIN d |-> [value |-> records[LastOf(k)].value,
               life |-> IF records[LastOf(k)].px = None THEN None
                        ELSE Some(2 * records[LastOf(k)].px[1])]]
    BY <1>3, Zenon DEF Replayed
  <2> HIDE DEF LastOf
  <2> QED
    BY <1>5, <2>1, Zenon
<1>7. Restorable(d) = [k \in DOMAIN d |-> Restorable(d)[k]]
  BY Zenon DEF Restorable
<1> QED
  BY <1>2, <1>6, <1>7, Zenon DEF Load, Contents, records, n

----------------------------------------------------------------------------
(* A restart that finds the contents builds one of the databases dbs. *)
Restores(contents, dbs) == \E d \in dbs : Load(contents) = {d}

DirectoryStates(n) == [path : 0..n, tmp : 0..n]

(* A state of the directory that a restart may find: what is at the path   *)
(* is synced and restores one of dbs, and the temporary file is another.   *)
Sound(dir, contents, unsynced, dbs) ==
    /\ Restores(At(dir, contents), dbs)
    /\ dir.path # NoFile => dir.path \notin unsynced
    /\ dir.tmp # NoFile => dir.tmp # dir.path

(* The states of the directory since its last sync: each is sound, and the *)
(* temporary file is at the path in none.                                  *)
SoundStates(list, n, contents, unsynced, dbs) ==
    /\ list \in Seq(DirectoryStates(n)) /\ Len(list) > 0
    /\ \A i \in 1..Len(list) :
        /\ Sound(list[i], contents, unsynced, dbs)
        /\ list[Len(list)].tmp # NoFile => list[Len(list)].tmp # list[i].path

(* File f is at the path in no state of the directory.                     *)
NeverAtPath(list, f) == \A i \in 1..Len(list) : list[i].path # NoFile => list[i].path # f

(* The contents c of n files become d, and the unsynced ones u become v,   *)
(* with a change to f alone.                                               *)
ChangesOnly(f, n, c, d, u, v) == (\A g \in 1..n : g # f => d[g] = c[g]) /\ v \subseteq u \cup {f}

(* A change to a file that is never at the path leaves the states sound,   *)
LEMMA StatesKept ==
    ASSUME NEW list, NEW n \in Nat, NEW c, NEW d, NEW u, NEW v, NEW S,
           SoundStates(list, n, c, u, S), NEW f,
           NeverAtPath(list, f), ChangesOnly(f, n, c, d, u, v)
    PROVE  SoundStates(list, n, d, v, S)
<1>1. ASSUME NEW i \in 1..Len(list)
      PROVE  Sound(list[i], d, v, S)
  <2>1. list[i] \in DirectoryStates(n)
    BY DEF SoundStates
  <2>2. list[i].path \in 0..n
    BY <2>1, Zenon DEF DirectoryStates
  <2>3. Sound(list[i], c, u, S)
    BY Zenon DEF SoundStates
  <2>4. At(list[i], d) = At(list[i], c)
    BY <2>2 DEF At, NoFile, NeverAtPath, ChangesOnly
  <2> QED
    BY <2>3, <2>4, Zenon DEF Sound, NeverAtPath, ChangesOnly
<1> QED
  BY <1>1, Zenon DEF SoundStates

(* and so does another database that may be restored. *)
LEMMA MoreToRestore ==
    ASSUME NEW list, NEW n \in Nat, NEW c, NEW u, NEW S, NEW T,
           SoundStates(list, n, c, u, S), S \subseteq T
    PROVE  SoundStates(list, n + 1, c, u, T)
<1>1. list \in Seq(DirectoryStates(n)) /\ Len(list) \in Nat
  BY DEF SoundStates
<1>2. list \in Seq(DirectoryStates(n + 1))
  <2>1. DirectoryStates(n) \subseteq DirectoryStates(n + 1)
    BY DEF DirectoryStates
  <2>2. list \in [1..Len(list) -> DirectoryStates(n + 1)]
    BY <1>1, <2>1
  <2> QED
    BY <1>1, <2>2, SeqDef
<1>3. ASSUME NEW i \in 1..Len(list)
      PROVE  Sound(list[i], c, u, T)
  BY Zenon DEF SoundStates, Sound, Restores
<1> QED
  BY <1>2, <1>3, Zenon DEF SoundStates

(* A call that changes the directory adds a state, *)
LEMMA StateAdded ==
    ASSUME NEW list, NEW n \in Nat, NEW c, NEW u, NEW S, SoundStates(list, n, c, u, S),
           NEW dir \in DirectoryStates(n), Sound(dir, c, u, S),
           \A i \in 1..Len(list) : dir.tmp # NoFile => dir.tmp # list[i].path
    PROVE  SoundStates(Append(list, dir), n, c, u, S)
<1> DEFINE longer == Append(list, dir)
<1>1. list \in Seq(DirectoryStates(n)) /\ Len(list) \in Nat
  BY DEF SoundStates
<1>2. /\ longer \in Seq(DirectoryStates(n)) /\ Len(longer) = Len(list) + 1
      /\ longer[Len(list) + 1] = dir
      /\ \A i \in 1..Len(list) : longer[i] = list[i]
  BY <1>1
<1> HIDE DEF longer
<1>3. ASSUME NEW i \in 1..Len(longer)
      PROVE  Sound(longer[i], c, u, S) /\ (dir.tmp # NoFile => dir.tmp # longer[i].path)
  <2>1. CASE i = Len(list) + 1
    BY <1>2, <2>1, Zenon DEF Sound
  <2>2. CASE i \in 1..Len(list)
    BY <1>2, <2>2, Zenon DEF SoundStates
  <2> QED
    BY <1>1, <1>2, <2>1, <2>2
<1> QED
  BY <1>1, <1>2, <1>3 DEF SoundStates, longer

(* and a sync, or a loss of power, leaves one of them. *)
LEMMA StateAlone ==
    ASSUME NEW dir, NEW n \in Nat, NEW c, NEW u, NEW S,
           dir \in DirectoryStates(n), Sound(dir, c, u, S)
    PROVE  SoundStates(<<dir>>, n, c, u, S)
<1>1. <<dir>> \in Seq(DirectoryStates(n)) /\ Len(<<dir>>) = 1 /\ <<dir>>[1] = dir
  OBVIOUS
<1>2. \A i \in 1..1 : i = 1
  OBVIOUS
<1> QED
  BY <1>1, <1>2 DEF SoundStates, Sound

----------------------------------------------------------------------------
(* The databases that a restart may restore. *)
Recoverable == {saved} \cup attempts

(* How far a save has come.  All of the records are in the temporary file, *)
(* and synced, before it gets the name of the snapshot.                    *)
SaveProgress ==
    /\ step \in {"none", "open", "write", "sync directory", "rename", "sync replaced", "remove"}
    /\ step # "none" => mode = "saving"
    /\ step \notin {"none", "remove"} => EntriesOf(entries, db) /\ Restorable(db) \in attempts
    /\ step = "open" => /\ saves # 0 /\ written = 0
                        /\ \A i \in 1..Len(dirs) : saves \notin {dirs[i].path, dirs[i].tmp}
    /\ step = "write" => /\ Directory.tmp # NoFile /\ written \in 0..Len(entries)
                         /\ cached[Directory.tmp] = Contents(RecordsOf(entries, written), "clean")
    /\ step \in {"sync directory", "rename"} =>
        /\ Directory.tmp # NoFile /\ Directory.tmp \notin dirty
        /\ Load(cached[Directory.tmp]) = {Restorable(db)}
    /\ step = "sync replaced" =>
        Directory.path # NoFile /\ Load(cached[Directory.path]) = {Restorable(db)}

SnapshotInv ==
    /\ saves \in 0..MaxSaves /\ DOMAIN cached = Files /\ cached = [f \in Files |-> cached[f]]
    /\ \A d \in {db} \cup Recoverable : IsDatabase(d)
    /\ SoundStates(dirs, saves, cached, dirty, Recoverable)
    /\ SaveProgress

(* An empty file, like none, restores the empty database. *)
LEMMA NothingLoads == Load(NoContents) = {EmptyDb} /\ IsDatabase(EmptyDb)
<1>1. DOMAIN EmptyDb = {} /\ EmptyDb = [k \in {} |-> EmptyDb[k]]
  BY Zenon DEF EmptyDb
<1>2. IsDatabase(EmptyDb)
  <2> HIDE DEF EmptyDb
  <2> QED
    BY <1>1, Zenon DEF IsDatabase
<1>3. NoContents.records = <<>> /\ NoContents.end = "clean"
  BY Zenon DEF NoContents, Contents
<1>4. Accepted(<<>>)
  BY DEF Accepted
<1>5. Replayed(<<>>) = EmptyDb
  BY DEF Replayed, EmptyDb
<1> QED
  BY <1>2, <1>3, <1>4, <1>5, Zenon DEF Load

(* What clients make, and what a snapshot restores, are databases. *)
LEMMA ClientDatabases ==
    ASSUME NEW d \in Databases
    PROVE  IsDatabase(d)
<1>1. PICK K \in SUBSET Keys : d \in [K -> Entry]
  BY Zenon DEF Databases
<1>2. ASSUME NEW k \in DOMAIN d
      PROVE  d[k] = [value |-> d[k].value, life |-> d[k].life] /\ d[k].life \in Lifetimes
  <2>1. d[k] \in Entry
    BY <1>1, Zenon
  <2> QED
    BY <2>1, SnapshotAssumption, Zenon DEF Entry, Lifetimes
<1> QED
  BY <1>1, <1>2, Zenon DEF IsDatabase

(* So is what a snapshot of one restores. *)
LEMMA RestorableDatabases ==
    ASSUME NEW d, IsDatabase(d)
    PROVE  IsDatabase(Restorable(d))
<1> DEFINE r == Restorable(d)
<1>1. DOMAIN r = DOMAIN d /\ r = [k \in DOMAIN d |-> r[k]]
  BY Zenon DEF Restorable
<1>2. ASSUME NEW k \in DOMAIN d
      PROVE  r[k] = [value |-> r[k].value, life |-> r[k].life] /\ r[k].life \in Lifetimes
  <2> DEFINE life == d[k].life
  <2>1. /\ r[k] = [value |-> r[k].value, life |-> r[k].life]
        /\ r[k].life = IF life = None THEN None
                       ELSE Some(IF life[1] < 2 THEN 2 ELSE 2 * (life[1] \div 2))
    BY Zenon DEF Restorable
  <2>2. life \in Lifetimes
    BY Zenon DEF IsDatabase
  <2>3. CASE life = None
    BY <2>1, <2>3, Zenon DEF Lifetimes
  <2>4. CASE life # None
    <3>1. PICK l \in Nat \ {0} : life = Some(l)
      BY <2>2, <2>4, Zenon DEF Lifetimes
    <3>2. life[1] = l
      BY <3>1, SomeIsNotNone, Zenon
    <3>3. (IF l < 2 THEN 2 ELSE 2 * (l \div 2)) \in Nat \ {0}
      OBVIOUS
    <3> QED
      BY <2>1, <2>4, <3>2, <3>3, Zenon DEF Lifetimes
  <2> QED
    BY <2>1, <2>3, <2>4, Zenon
<1> HIDE DEF r
<1>3. DOMAIN r \subseteq Keys
  BY <1>1, Zenon DEF IsDatabase
<1> QED
  BY <1>1, <1>2, <1>3, Zenon DEF IsDatabase, r

(* There is no snapshot at first. *)
LEMMA SnapshotStarts == SnapshotInit => SnapshotInv
<1> SUFFICES ASSUME SnapshotInit PROVE SnapshotInv
  BY Zenon
<1> DEFINE dir == [path |-> NoFile, tmp |-> NoFile]
<1>1. /\ step = "none" /\ db = EmptyDb /\ dirs = <<dir>> /\ saves = 0
      /\ cached = [f \in Files |-> NoContents]
      /\ Recoverable = {EmptyDb}
  BY Zenon DEF SnapshotInit, Recoverable
<1>2. dir \in DirectoryStates(0)
  BY DEF DirectoryStates, NoFile
<1>3. Sound(dir, cached, dirty, {EmptyDb})
  BY NothingLoads, Zenon DEF Sound, Restores, At, NoFile
<1>4. SoundStates(dirs, saves, cached, dirty, Recoverable)
  <2> HIDE DEF dir
  <2> QED
    BY <1>1, <1>2, <1>3, StateAlone, Zenon
<1>5. saves \in 0..MaxSaves
  BY <1>1, SnapshotAssumption
<1>6. SaveProgress
  BY <1>1, Zenon DEF SaveProgress
<1> QED
  BY <1>1, <1>4, <1>5, <1>6, NothingLoads DEF SnapshotInv

(* Any state of the directory that a loss of power leaves. *)
LEMMA StatesAreSound ==
    ASSUME SnapshotInv, NEW i \in DOMAIN dirs
    PROVE  dirs[i] \in DirectoryStates(saves) /\ Sound(dirs[i], cached, dirty, Recoverable)
<1>1. SoundStates(dirs, saves, cached, dirty, Recoverable)
  BY Zenon DEF SnapshotInv
<1>2. dirs \in Seq(DirectoryStates(saves))
  BY <1>1, Zenon DEF SoundStates
<1>3. i \in 1..Len(dirs)
  BY <1>2
<1> QED
  BY <1>1, <1>2, <1>3 DEF SoundStates

(* The directory as processes see it is one of its states. *)
LEMMA DirectoryIsSound ==
    ASSUME SnapshotInv
    PROVE  /\ dirs \in Seq(DirectoryStates(saves)) /\ Len(dirs) \in 1..Len(dirs)
           /\ Directory \in DirectoryStates(saves)
           /\ Directory.path \in 0..saves /\ Directory.tmp \in 0..saves
           /\ Sound(Directory, cached, dirty, Recoverable)
<1>1. dirs \in Seq(DirectoryStates(saves)) /\ Len(dirs) \in 1..Len(dirs)
  BY DEF SnapshotInv, SoundStates
<1>2. Directory \in DirectoryStates(saves)
  BY <1>1 DEF Directory
<1>3. Sound(Directory, cached, dirty, Recoverable)
  BY <1>1, Zenon DEF Directory, SnapshotInv, SoundStates
<1> QED
  BY <1>1, <1>2, <1>3, Zenon DEF DirectoryStates

(* A step that leaves the file system, the save and its history alone. *)
LEMMA StartStep == SnapshotInv /\ Start => SnapshotInv'
<1> SUFFICES ASSUME SnapshotInv, Start PROVE SnapshotInv'
  BY Zenon
<1> USE DEF SnapshotInv
<1>1. UNCHANGED <<step, entries, written, dirs, cached, dirty, saved, attempts, saves>> /\ mode = "down"
  BY Zenon DEF Start, saveVars, fileVars, history, bounds
<1>2. step = "none"
  BY <1>1, Zenon DEF SaveProgress
<1>3. IsDatabase(db')
  <2> DEFINE found == Load(At(Directory, cached))
  <2>1. Restores(At(Directory, cached), Recoverable)
    BY DirectoryIsSound, Zenon DEF Sound
  <2>2. PICK d \in Recoverable : found = {d}
    BY <2>1, Zenon DEF Restores
  <2>3. db' \in found
    BY <2>2, Zenon DEF Start
  <2> QED
    BY <2>2, <2>3
<1>4. SaveProgress'
  BY <1>1, <1>2, Zenon DEF SaveProgress
<1>5. Recoverable' = Recoverable
  BY <1>1, Zenon DEF Recoverable
<1> QED
  BY <1>1, <1>3, <1>4, <1>5, Zenon

(* Clients change the database in memory alone. *)
LEMMA ServeStep == SnapshotInv /\ Serve => SnapshotInv'
<1> SUFFICES ASSUME SnapshotInv, Serve PROVE SnapshotInv'
  BY Zenon
<1> USE DEF SnapshotInv
<1>1. UNCHANGED <<step, entries, written, dirs, cached, dirty, saved, attempts, saves>> /\ mode = "up"
  BY Zenon DEF Serve, saveVars, fileVars, history, bounds
<1>2. step = "none"
  BY <1>1, Zenon DEF SaveProgress
<1>3. IsDatabase(db')
  BY ClientDatabases, Zenon DEF Serve
<1>4. SaveProgress'
  BY <1>1, <1>2, Zenon DEF SaveProgress
<1>5. Recoverable' = Recoverable
  BY <1>1, Zenon DEF Recoverable
<1> QED
  BY <1>1, <1>3, <1>4, <1>5, Zenon

(* The argument of Save: all of the database, in the order of the table. *)
LEMMA EntriesGiven ==
    ASSUME IsDatabase(db), NEW order \in Orders(DOMAIN db)
    PROVE  EntriesOf([i \in 1..Cardinality(DOMAIN db) |-> SnapshotEntry(order[i])], db)
<1> DEFINE n == Cardinality(DOMAIN db)
<1>1. n \in Nat
  <2>1. IsFiniteSet(Keys) /\ DOMAIN db \subseteq Keys
    BY SnapshotAssumption, Zenon DEF IsDatabase
  <2>2. IsFiniteSet(DOMAIN db)
    BY <2>1, FS_Subset, Zenon
  <2> QED
    BY <2>2, FS_CardinalityType, Zenon
<1>2. order \in [1..n -> DOMAIN db]
  BY Zenon DEF Orders
<1>3. \A k \in DOMAIN db : \E i \in 1..n : \A j \in 1..n : order[j] = k <=> j = i
  <2>1. DOMAIN order = 1..n
    BY <1>2, Zenon
  <2>2. \A k \in DOMAIN db : \E i \in DOMAIN order : \A j \in DOMAIN order : order[j] = k <=> j = i
    BY Zenon DEF Orders
  <2> HIDE DEF n
  <2> QED
    BY <2>1, <2>2
<1> HIDE DEF n
<1>4. [i \in 1..n |-> SnapshotEntry(order[i])]
        = [i \in 1..n |->
             [key |-> order[i], value |-> db[order[i]].value,
              ttl |-> IF db[order[i]].life = None THEN None ELSE Some(db[order[i]].life[1] \div 2)]]
  BY Zenon DEF SnapshotEntry
<1>5. EntriesOf([i \in 1..n |-> SnapshotEntry(order[i])], db)
  BY <1>1, <1>2, <1>3, <1>4, ZenonT(40) DEF EntriesOf
<1> QED
  BY <1>5, Zenon DEF n

(* From here on the snapshot of db may be what is restored. *)
LEMMA BeginSaveStep == SnapshotInv /\ BeginSave => SnapshotInv'
<1> SUFFICES ASSUME SnapshotInv, BeginSave PROVE SnapshotInv'
  BY Zenon
<1> USE DEF SnapshotInv
<1>1. /\ UNCHANGED <<db, dirs, cached, dirty, saved>> /\ saves' = saves + 1 /\ saves < MaxSaves
      /\ attempts' = attempts \cup {Restorable(db)} /\ written' = 0
      /\ mode' = "saving" /\ step' = "open"
  BY Zenon DEF BeginSave, fileVars
<1>2. saves \in Nat /\ saves' \in 0..MaxSaves
  BY <1>1, SnapshotAssumption
<1>3. EntriesOf(entries', db)
  BY EntriesGiven, Zenon DEF BeginSave
<1>4. \A d \in {db'} \cup Recoverable' : IsDatabase(d)
  BY <1>1, RestorableDatabases, Zenon DEF Recoverable
<1>5. SoundStates(dirs, saves + 1, cached, dirty, Recoverable')
  <2>1. Recoverable \subseteq Recoverable'
    BY <1>1, Zenon DEF Recoverable
  <2>2. SoundStates(dirs, saves, cached, dirty, Recoverable)
    BY Zenon
  <2> HIDE DEF SnapshotInv
  <2> QED
    BY <1>2, <2>1, <2>2, MoreToRestore, Zenon
<1>6. \A i \in 1..Len(dirs) : saves + 1 \notin {dirs[i].path, dirs[i].tmp}
  <2> TAKE i \in 1..Len(dirs)
  <2>1. dirs[i] \in DirectoryStates(saves)
    BY DEF SoundStates
  <2> QED
    BY <1>2, <2>1 DEF DirectoryStates
<1>7. SaveProgress'
  <2>1. Restorable(db') \in attempts' /\ EntriesOf(entries', db')
    BY <1>1, <1>3, Zenon
  <2>2. saves' # 0 /\ \A i \in 1..Len(dirs') : saves' \notin {dirs'[i].path, dirs'[i].tmp}
    BY <1>1, <1>2, <1>6
  <2> HIDE DEF SnapshotInv
  <2> QED
    BY <1>1, <2>1, <2>2, Zenon DEF SaveProgress
<1> QED
  BY <1>1, <1>2, <1>4, <1>5, <1>7, Zenon

(* The file that is opened is at the path in no state of the directory. *)
LEMMA OpenStep == SnapshotInv /\ Open => SnapshotInv'
<1> SUFFICES ASSUME SnapshotInv, Open PROVE SnapshotInv'
  BY Zenon
<1> USE DEF SnapshotInv
<1> DEFINE f == IF Directory.tmp # NoFile THEN Directory.tmp ELSE saves
<1>1. /\ UNCHANGED <<mode, db, entries, written, saved, attempts, saves>>
      /\ step = "open" /\ step' = "write"
      /\ dirs' = IF Directory.tmp # NoFile THEN dirs ELSE Append(dirs, [Directory EXCEPT !.tmp = f])
      /\ cached' = [cached EXCEPT ![f] = NoContents] /\ dirty' = dirty \cup {f}
  BY Zenon DEF Open, history, bounds
<1>2. /\ EntriesOf(entries, db) /\ Restorable(db) \in attempts /\ mode = "saving"
      /\ saves # 0 /\ written = 0
      /\ \A i \in 1..Len(dirs) : saves \notin {dirs[i].path, dirs[i].tmp}
  BY <1>1, Zenon DEF SaveProgress
<1>3. f \in Files /\ f # NoFile /\ f \in 0..saves
  BY <1>2, DirectoryIsSound, SnapshotAssumption DEF Files, NoFile
<1>4. \A i \in 1..Len(dirs) : dirs[i].path # f
  BY <1>2, Zenon DEF SoundStates, Directory
<1>5. cached'[f] = NoContents /\ DOMAIN cached' = Files /\ cached' = [g \in Files |-> cached'[g]]
  BY <1>1, <1>3, Zenon
<1>6. Recoverable' = Recoverable
  BY <1>1, Zenon DEF Recoverable
<1>7. saves \in Nat /\ saves <= MaxSaves /\ MaxSaves \in Nat
  BY SnapshotAssumption
<1>8. SoundStates(dirs, saves, cached', dirty', Recoverable)
  <2>1. \A g \in 1..saves : g # f => cached'[g] = cached[g]
    BY <1>1, <1>7 DEF Files
  <2>2. SoundStates(dirs, saves, cached, dirty, Recoverable) /\ dirty' \subseteq dirty \cup {f}
    BY <1>1, Zenon
  <2>3. NeverAtPath(dirs, f)
    BY <1>4, <1>7, Zenon DEF NeverAtPath
  <2>4. ChangesOnly(f, saves, cached, cached', dirty, dirty')
    BY <2>1, <2>2, Zenon DEF ChangesOnly
  <2> HIDE DEF f, SnapshotInv
  <2> QED
    BY <1>7, <2>2, <2>3, <2>4, StatesKept, Zenon
<1>9. SoundStates(dirs', saves, cached', dirty', Recoverable) /\ dirs'[Len(dirs')].tmp = f
  <2>1. CASE Directory.tmp # NoFile
    BY <1>1, <1>8, <2>1, Zenon DEF Directory
  <2>2. CASE Directory.tmp = NoFile
    <3> DEFINE dir == [Directory EXCEPT !.tmp = f]
    <3>1. dir \in DirectoryStates(saves) /\ dir.path = Directory.path /\ dir.tmp = f
      BY <1>3, DirectoryIsSound, Zenon DEF DirectoryStates
    <3>2. Directory = dirs[Len(dirs)] /\ Len(dirs) \in 1..Len(dirs) /\ dirs \in Seq(DirectoryStates(saves))
      BY DirectoryIsSound, Zenon DEF Directory
    <3> HIDE DEF dir
    <3>3. Sound(dir, cached', dirty', Recoverable)
      <4>1. Sound(Directory, cached', dirty', Recoverable)
        BY <1>8, <3>2, Zenon DEF SoundStates
      <4>2. At(dir, cached') = At(Directory, cached')
        BY <3>1, Zenon DEF At
      <4>3. dir.tmp # dir.path
        BY <1>4, <3>1, <3>2, Zenon
      <4> HIDE DEF f, SnapshotInv
      <4> QED
        BY <3>1, <4>1, <4>2, <4>3, Zenon DEF Sound
    <3>4. dirs' = Append(dirs, dir)
      BY <1>1, <2>2, Zenon DEF dir
    <3>5. SoundStates(dirs', saves, cached', dirty', Recoverable)
      <4> HIDE DEF f, SnapshotInv
      <4> QED
        BY <1>4, <1>7, <1>8, <3>1, <3>3, <3>4, StateAdded
    <3> QED
      BY <3>1, <3>2, <3>4, <3>5
  <2> QED
    BY <2>1, <2>2, Zenon
<1>10. NoContents = Contents(RecordsOf(entries, 0), "clean")
  <2>1. RecordsOf(entries, 0) = <<>>
    BY DEF RecordsOf
  <2> QED
    BY <2>1, Zenon DEF NoContents
<1>11. Len(entries) \in Nat
  BY <1>2, RecordOfKey, ZenonT(40)
<1> HIDE DEF f
<1>12. SaveProgress'
  BY <1>1, <1>2, <1>3, <1>5, <1>9, <1>10, <1>11 DEF SaveProgress, Directory
<1> QED
  BY <1>1, <1>5, <1>6, <1>9, <1>12, Zenon

(* A write to the temporary file, or a sync of it, leaves every state of   *)
(* the directory sound.                                                    *)
LEMMA TemporaryStep ==
    SnapshotInv /\ UNCHANGED <<dirs, saves, saved, attempts>> /\ dirty' \subseteq dirty
      /\ (\A g \in Files : g # Directory.tmp => cached'[g] = cached[g])
    => SoundStates(dirs, saves, cached, dirty, Recoverable)'
<1>1. SUFFICES ASSUME SnapshotInv, UNCHANGED <<dirs, saves, saved, attempts>>, dirty' \subseteq dirty,
                      \A g \in Files : g # Directory.tmp => cached'[g] = cached[g]
               PROVE  SoundStates(dirs, saves, cached, dirty, Recoverable)'
  BY Zenon
<1> DEFINE f == Directory.tmp
<1>2. saves \in Nat /\ SoundStates(dirs, saves, cached, dirty, Recoverable)
  BY <1>1 DEF SnapshotInv
<1>3. NeverAtPath(dirs, f)
  BY <1>2, Zenon DEF SoundStates, Directory, NeverAtPath
<1>4. 1..saves \subseteq Files
  BY <1>1, SnapshotAssumption DEF SnapshotInv, Files
<1>5. ChangesOnly(f, saves, cached, cached', dirty, dirty')
  BY <1>1, <1>4, Zenon DEF ChangesOnly
<1>6. SoundStates(dirs, saves, cached', dirty', Recoverable)
  <2> HIDE DEF f
  <2> QED
    BY <1>2, <1>3, <1>5, StatesKept, Zenon
<1> QED
  BY <1>1, <1>6, Zenon DEF Recoverable

(* One more record is in the temporary file. *)
LEMMA WriteEntryStep == SnapshotInv /\ WriteEntry => SnapshotInv'
<1> SUFFICES ASSUME SnapshotInv, WriteEntry PROVE SnapshotInv'
  BY Zenon
<1> DEFINE f == Directory.tmp
           record == Encoded(entries[written + 1])
<1>1. /\ UNCHANGED <<mode, db, step, entries, dirs, dirty, saved, attempts, saves>>
      /\ step = "write" /\ written < Len(entries) /\ written' = written + 1
      /\ cached' = [cached EXCEPT ![f].records = Append(cached[f].records, record)]
  BY Zenon DEF WriteEntry, history, bounds
<1>2. /\ EntriesOf(entries, db) /\ Restorable(db) \in attempts /\ mode = "saving"
      /\ f # NoFile /\ written \in 0..Len(entries)
      /\ cached[f] = Contents(RecordsOf(entries, written), "clean")
  BY <1>1, Zenon DEF SaveProgress, SnapshotInv
<1>3. f \in Files /\ DOMAIN cached = Files /\ IsDatabase(db)
  BY <1>2, DirectoryIsSound, SnapshotAssumption DEF Files, NoFile, SnapshotInv
<1>4. Len(entries) \in Nat
  BY <1>2, <1>3, RecordOfKey, Zenon
<1>5. DOMAIN cached' = Files /\ cached' = [g \in Files |-> cached'[g]]
  BY <1>1, <1>3, Zenon
<1>6. \A g \in Files : g # f => cached'[g] = cached[g]
  BY <1>1, <1>3, Zenon
<1>7. Append(RecordsOf(entries, written), record) = RecordsOf(entries, written + 1)
  <2>1. written \in Nat /\ written + 1 \in Nat
    <3> HIDE DEF f, record
    <3> QED
      BY <1>2, <1>4
  <2> DEFINE R == {Encoded(entries[i]) : i \in 1..(written + 1)}
             short == RecordsOf(entries, written)
  <2>2. short \in Seq(R) /\ Len(short) = written /\ record \in R
    <3>1. short \in [1..written -> R] /\ record \in R
      BY <2>1 DEF RecordsOf
    <3> HIDE DEF R, short
    <3> QED
      BY <2>1, <3>1, SeqDef
  <2>3. \A i \in 1..written : short[i] = Encoded(entries[i])
    BY Zenon DEF RecordsOf
  <2> HIDE DEF R, short
  <2>4. /\ Append(short, record) \in Seq(R) /\ Len(Append(short, record)) = written + 1
        /\ \A i \in 1..(written + 1) : Append(short, record)[i] = Encoded(entries[i])
    BY <2>1, <2>2, <2>3
  <2>5. Append(short, record) = [i \in 1..(written + 1) |-> Encoded(entries[i])]
    BY <2>1, <2>4
  <2> QED
    BY <2>5, Zenon DEF RecordsOf, short
<1>8. cached'[f] = Contents(RecordsOf(entries, written + 1), "clean")
  <2>1. cached'[f] = [cached[f] EXCEPT !.records = Append(cached[f].records, record)]
    BY <1>1, <1>3, Zenon
  <2>2. cached[f].records = RecordsOf(entries, written)
    BY <1>2 DEF Contents
  <2> HIDE DEF f, record
  <2> QED
    BY <1>2, <1>7, <2>1, <2>2, SMTT(25) DEF Contents
<1>9. SaveProgress'
  <2>1. written + 1 \in 0..Len(entries)
    BY <1>1, <1>2, <1>4
  <2>2. Directory' = Directory
    BY <1>1, Zenon DEF Directory
  <2> HIDE DEF record
  <2> QED
    BY <1>1, <1>2, <1>8, <2>1, <2>2, Zenon DEF SaveProgress
<1>10. SoundStates(dirs, saves, cached, dirty, Recoverable)'
  BY <1>1, <1>6, TemporaryStep, Zenon
<1> QED
  BY <1>1, <1>5, <1>9, <1>10, Zenon DEF SnapshotInv, Recoverable

(* All of the records are on the disk. *)
LEMMA SyncFileStep == SnapshotInv /\ SyncFile => SnapshotInv'
<1> SUFFICES ASSUME SnapshotInv, SyncFile PROVE SnapshotInv'
  BY Zenon
<1>1. /\ UNCHANGED <<mode, db, entries, written, dirs, cached, saved, attempts, saves>>
      /\ step = "write" /\ written = Len(entries) /\ step' = "sync directory"
      /\ dirty' = dirty \ {Directory.tmp}
  BY Zenon DEF SyncFile, SyncedBy, history, bounds
<1>2. /\ EntriesOf(entries, db) /\ Restorable(db) \in attempts /\ mode = "saving"
      /\ Directory.tmp # NoFile
      /\ cached[Directory.tmp] = Contents(RecordsOf(entries, Len(entries)), "clean")
  BY <1>1, Zenon DEF SaveProgress, SnapshotInv
<1>3. Load(cached[Directory.tmp]) = {Restorable(db)}
  BY <1>2, WholeFileLoads, Zenon DEF SnapshotInv
<1>4. Directory' = Directory
  BY <1>1, Zenon DEF Directory
<1>5. SaveProgress'
  BY <1>1, <1>2, <1>3, <1>4, Zenon DEF SaveProgress
<1>6. SoundStates(dirs, saves, cached, dirty, Recoverable)'
  BY <1>1, TemporaryStep, Zenon
<1> QED
  BY <1>1, <1>5, <1>6, Zenon DEF SnapshotInv, Recoverable

(* The temporary file is in every state of the directory. *)
LEMMA SyncDirectoryStep == SnapshotInv /\ SyncDirectory => SnapshotInv'
<1> SUFFICES ASSUME SnapshotInv, SyncDirectory PROVE SnapshotInv'
  BY Zenon
<1>1. /\ UNCHANGED <<mode, db, entries, written, cached, dirty, saved, attempts, saves>>
      /\ step = "sync directory" /\ step' = "rename" /\ dirs' = <<Directory>>
  BY Zenon DEF SyncDirectory, history, bounds
<1>2. Directory' = Directory
  BY <1>1, Zenon DEF Directory
<1>3. SaveProgress'
  BY <1>1, <1>2, Zenon DEF SaveProgress, SnapshotInv
<1>4. SoundStates(dirs, saves, cached, dirty, Recoverable)'
  <2>1. saves \in Nat
    BY DEF SnapshotInv
  <2>2. SoundStates(<<Directory>>, saves, cached, dirty, Recoverable)
    BY <2>1, DirectoryIsSound, StateAlone, Zenon
  <2> QED
    BY <1>1, <2>2, Zenon DEF Recoverable
<1> QED
  BY <1>1, <1>3, <1>4, Zenon DEF SnapshotInv, Recoverable

(* The synced file gets the name of the snapshot. *)
LEMMA RenameStep == SnapshotInv /\ Rename => SnapshotInv'
<1> SUFFICES ASSUME SnapshotInv, Rename PROVE SnapshotInv'
  BY Zenon
<1> DEFINE dir == [path |-> Directory.tmp, tmp |-> NoFile]
<1>1. /\ UNCHANGED <<mode, db, entries, written, cached, dirty, saved, attempts, saves>>
      /\ step = "rename" /\ step' = "sync replaced" /\ dirs' = Append(dirs, dir)
  BY Zenon DEF Rename, history, bounds
<1>2. /\ EntriesOf(entries, db) /\ Restorable(db) \in attempts /\ mode = "saving"
      /\ Directory.tmp # NoFile /\ Directory.tmp \notin dirty
      /\ Load(cached[Directory.tmp]) = {Restorable(db)}
  BY <1>1, Zenon DEF SaveProgress, SnapshotInv
<1>3. dir \in DirectoryStates(saves) /\ saves \in Nat
  BY DirectoryIsSound DEF DirectoryStates, NoFile, SnapshotInv
<1>4. Sound(dir, cached, dirty, Recoverable)
  BY <1>2, Zenon DEF Sound, Restores, At, Recoverable
<1>5. Directory' = dir
  <2>1. dirs \in Seq(DirectoryStates(saves))
    BY DirectoryIsSound, Zenon
  <2> HIDE DEF dir
  <2>2. Append(dirs, dir)[Len(Append(dirs, dir))] = dir
    BY <1>3, <2>1
  <2> QED
    BY <1>1, <2>2, Zenon DEF Directory
<1>6. SaveProgress'
  BY <1>1, <1>2, <1>5, Zenon DEF SaveProgress
<1>7. SoundStates(dirs, saves, cached, dirty, Recoverable)'
  <2>1. SoundStates(dirs, saves, cached, dirty, Recoverable)
    BY Zenon DEF SnapshotInv
  <2>2. \A i \in 1..Len(dirs) : dir.tmp # NoFile => dir.tmp # dirs[i].path
    BY ZenonT(40)
  <2> HIDE DEF dir
  <2>3. SoundStates(Append(dirs, dir), saves, cached, dirty, Recoverable)
    BY <1>3, <1>4, <2>1, <2>2, StateAdded
  <2> QED
    BY <1>1, <2>3, Zenon DEF Recoverable
<1> QED
  BY <1>1, <1>6, <1>7, Zenon DEF SnapshotInv, Recoverable

(* No state of the directory has the old snapshot any more. *)
LEMMA SyncReplacedStep == SnapshotInv /\ SyncReplaced => SnapshotInv'
<1> SUFFICES ASSUME SnapshotInv, SyncReplaced PROVE SnapshotInv'
  BY Zenon
<1>1. /\ UNCHANGED <<cached, dirty, saves>> /\ dirs' = <<Directory>>
      /\ step = "sync replaced" /\ step' = "none" /\ db' = EmptyDb
      /\ saved' = Restorable(db) /\ attempts' = {}
  BY Zenon DEF SyncReplaced, Ends, bounds
<1>2. Directory.path # NoFile /\ Load(cached[Directory.path]) = {Restorable(db)}
  BY <1>1, Zenon DEF SaveProgress, SnapshotInv
<1>3. Recoverable' = {Restorable(db)}
  BY <1>1, Zenon DEF Recoverable
<1>4. \A d \in {db'} \cup Recoverable' : IsDatabase(d)
  BY <1>1, <1>3, NothingLoads, RestorableDatabases, Zenon DEF SnapshotInv
<1>5. Sound(Directory, cached, dirty, {Restorable(db)})
  BY <1>2, DirectoryIsSound, Zenon DEF Sound, Restores, At
<1>6. SoundStates(dirs, saves, cached, dirty, Recoverable)'
  <2>1. saves \in Nat
    BY DEF SnapshotInv
  <2>2. SoundStates(<<Directory>>, saves, cached, dirty, {Restorable(db)})
    BY <1>5, <2>1, DirectoryIsSound, StateAlone, Zenon
  <2> QED
    BY <1>1, <1>3, <2>2, Zenon
<1>7. SaveProgress'
  BY <1>1, Zenon DEF SaveProgress
<1> QED
  BY <1>1, <1>4, <1>6, <1>7, Zenon DEF SnapshotInv

(* A write that is cut short leaves a part in the temporary file alone. *)
LEMMA CutShortKeeps ==
    ASSUME SnapshotInv, cached' \in CutShort
    PROVE  /\ DOMAIN cached' = Files /\ cached' = [f \in Files |-> cached'[f]]
           /\ \A g \in Files : g # Directory.tmp => cached'[g] = cached[g]
<1>1. DOMAIN cached = Files /\ cached = [f \in Files |-> cached[f]]
  BY Zenon DEF SnapshotInv
<1>2. CASE cached' = cached
  BY <1>1, <1>2, Zenon
<1>3. CASE cached' = [cached EXCEPT ![Directory.tmp].end = "torn"]
  BY <1>1, <1>3, Zenon
<1> QED
  BY <1>2, <1>3, Zenon DEF CutShort

(* A call that fails leaves the path alone. *)
LEMMA FailStep == SnapshotInv /\ Fail => SnapshotInv'
<1> SUFFICES ASSUME SnapshotInv, Fail PROVE SnapshotInv'
  BY Zenon
<1>1. /\ UNCHANGED <<mode, db, dirs, dirty, saved, attempts, saves>>
      /\ step # "none" /\ step' = "remove" /\ cached' \in CutShort
  BY Zenon DEF Fail, history
<1>2. SaveProgress'
  BY <1>1, Zenon DEF SaveProgress, SnapshotInv
<1>3. SoundStates(dirs, saves, cached, dirty, Recoverable)'
  BY <1>1, CutShortKeeps, TemporaryStep, Zenon
<1> QED
  BY <1>1, <1>2, <1>3, CutShortKeeps, Zenon DEF SnapshotInv, Recoverable

(* So does the end of the process. *)
LEMMA KillStep == SnapshotInv /\ Kill => SnapshotInv'
<1> SUFFICES ASSUME SnapshotInv, Kill PROVE SnapshotInv'
  BY Zenon
<1>1. /\ UNCHANGED <<dirs, dirty, saved, attempts, saves>>
      /\ db' = EmptyDb /\ step' = "none" /\ cached' \in CutShort
  BY Zenon DEF Kill, Ends, history, bounds
<1>2. SaveProgress'
  BY <1>1, Zenon DEF SaveProgress
<1>3. SoundStates(dirs, saves, cached, dirty, Recoverable)'
  BY <1>1, CutShortKeeps, TemporaryStep, Zenon
<1> QED
  BY <1>1, <1>2, <1>3, CutShortKeeps, NothingLoads DEF SnapshotInv, Recoverable

(* So does the removal of the temporary file. *)
LEMMA RemoveTemporaryStep == SnapshotInv /\ RemoveTemporary => SnapshotInv'
<1> SUFFICES ASSUME SnapshotInv, RemoveTemporary PROVE SnapshotInv'
  BY Zenon
<1> DEFINE dir == [Directory EXCEPT !.tmp = NoFile]
<1>1. /\ UNCHANGED <<cached, dirty, saved, attempts, saves>> /\ db' = EmptyDb /\ step' = "none"
      /\ dirs' = Append(dirs, dir) \/ dirs' = dirs
  BY Zenon DEF RemoveTemporary, Ends, history, bounds
<1>2. SoundStates(dirs, saves, cached, dirty, Recoverable) /\ saves \in Nat
  BY DEF SnapshotInv
<1>3. SoundStates(Append(dirs, dir), saves, cached, dirty, Recoverable)
  <2>1. dir \in DirectoryStates(saves) /\ dir.path = Directory.path /\ dir.tmp = NoFile
    BY <1>2, DirectoryIsSound DEF DirectoryStates, NoFile
  <2> HIDE DEF dir
  <2>2. Sound(dir, cached, dirty, Recoverable)
    BY <2>1, DirectoryIsSound, Zenon DEF Sound, At
  <2> QED
    BY <1>2, <2>1, <2>2, StateAdded, Zenon
<1>4. SoundStates(dirs, saves, cached, dirty, Recoverable)'
  <2> HIDE DEF dir
  <2> QED
    BY <1>1, <1>2, <1>3, Zenon DEF Recoverable
<1>5. SaveProgress'
  BY <1>1, Zenon DEF SaveProgress
<1> QED
  BY <1>1, <1>4, <1>5, NothingLoads, Zenon DEF SnapshotInv, Recoverable

(* After a loss of power one of the states is left. *)
LEMMA PowerLossStep == SnapshotInv /\ PowerLoss => SnapshotInv'
<1> SUFFICES ASSUME SnapshotInv, PowerLoss PROVE SnapshotInv'
  BY Zenon
<1>1. /\ saves' = saves /\ dirty' = {} /\ attempts' = {} /\ db' = EmptyDb /\ step' = "none"
      /\ saved' \in Recoverable /\ Load(At(dirs'[1], cached')) = {saved'}
  BY DEF PowerLoss, Ends, Recoverable
<1>2. PICK i \in DOMAIN dirs :
        /\ dirs' = <<dirs[i]>>
        /\ \E p, t : cached' = [f \in Files |-> IF f = dirs[i].path THEN p
                                                ELSE IF f = dirs[i].tmp THEN t ELSE NoContents]
  BY DEF PowerLoss
<1>3. DOMAIN cached' = Files /\ cached' = [f \in Files |-> cached'[f]]
  BY <1>2, Zenon
<1>4. Recoverable' = {saved'}
  BY <1>1, Zenon DEF Recoverable
<1> DEFINE dir == dirs[i]
<1>5. dir \in DirectoryStates(saves) /\ Sound(dir, cached, dirty, Recoverable)
  BY StatesAreSound, Zenon
<1>6. dirs' = <<dir>> /\ dirs'[1] = dir
  BY <1>2, Zenon
<1> HIDE DEF dir
<1>7. Sound(dir, cached', {}, {saved'})
  BY <1>1, <1>5, <1>6, Zenon DEF Sound, Restores
<1>8. SoundStates(dirs, saves, cached, dirty, Recoverable)'
  <2>1. SoundStates(<<dir>>, saves, cached', {}, {saved'})
    BY <1>5, <1>7, StateAlone DEF SnapshotInv
  <2> QED
    BY <1>1, <1>4, <1>6, <2>1, Zenon
<1>9. SaveProgress'
  BY <1>1, Zenon DEF SaveProgress
<1> QED
  BY <1>1, <1>3, <1>4, <1>8, <1>9, NothingLoads, ZenonT(40) DEF SnapshotInv

(* Every step keeps every state of the directory sound. *)
LEMMA SnapshotStep == SnapshotInv /\ [SnapshotNext]_snapshotVars => SnapshotInv'
<1> SUFFICES ASSUME SnapshotInv, [SnapshotNext]_snapshotVars PROVE SnapshotInv'
  BY Zenon
<1>1. CASE UNCHANGED snapshotVars
  BY <1>1, Zenon DEF snapshotVars, saveVars, fileVars, history, bounds, SnapshotInv, SaveProgress,
     Recoverable, Directory
<1>2. CASE SnapshotNext
  BY <1>2, StartStep, ServeStep, BeginSaveStep, OpenStep, WriteEntryStep, SyncFileStep,
     SyncDirectoryStep, RenameStep, SyncReplacedStep, FailStep, RemoveTemporaryStep, KillStep,
     PowerLossStep DEF SnapshotNext
<1> QED
  BY <1>1, <1>2, Zenon

(* Sound states are what atomic replacement asks for. *)
LEMMA SoundIsAtomic == SnapshotInv => AtomicReplacement
<1> SUFFICES ASSUME SnapshotInv, NEW contents \in Outcomes
             PROVE  \E d \in {saved} \cup attempts : Load(contents) = {d}
  BY Zenon DEF AtomicReplacement
<1>1. ASSUME NEW i \in DOMAIN dirs
      PROVE  Sound(dirs[i], cached, dirty, Recoverable)
  BY StatesAreSound, Zenon
<1>2. \E i \in DOMAIN dirs : contents = At(dirs[i], cached)
  <2>1. CASE contents = At(Directory, cached)
    <3>1. Len(dirs) \in DOMAIN dirs
      BY DirectoryIsSound
    <3> QED
      BY <2>1, <3>1, Zenon DEF Directory
  <2>2. CASE \E i \in DOMAIN dirs :
               contents \in IF dirs[i].path = NoFile THEN {NoContents} ELSE Left(dirs[i].path)
    <3>1. PICK i \in DOMAIN dirs :
               contents \in IF dirs[i].path = NoFile THEN {NoContents} ELSE Left(dirs[i].path)
      BY <2>2, Zenon
    <3>2. dirs[i].path # NoFile => dirs[i].path \notin dirty
      BY <1>1, Zenon DEF Sound
    <3>3. contents = At(dirs[i], cached)
      BY <3>1, <3>2 DEF At, Left
    <3> QED
      BY <3>3, Zenon
  <2> QED
    BY <2>1, <2>2, Zenon DEF Outcomes
<1>3. Restores(contents, Recoverable)
  BY <1>1, <1>2 DEF Sound
<1> QED
  BY <1>3, Zenon DEF Restores, Recoverable

(* Whenever the process is killed or the power lost, and however often,    *)
(* the next start restores the last snapshot that was saved, or a later    *)
(* one that Snapshot::Save was writing: all of it.                         *)
THEOREM SnapshotsReplaceAtomically == SnapshotSpec => []AtomicReplacement
<1>1. SnapshotInit => SnapshotInv
  BY SnapshotStarts, Zenon
<1>2. SnapshotInv /\ [SnapshotNext]_snapshotVars => SnapshotInv'
  BY SnapshotStep, Zenon
<1>3. SnapshotInv => AtomicReplacement
  BY SoundIsAtomic, Zenon
<1> QED
  BY <1>1, <1>2, <1>3, PTL DEF SnapshotSpec
=============================================================================
