------------------------------- MODULE Server -------------------------------
(***************************************************************************)
(* The whole server as main.cpp puts it together: TcpServer with its       *)
(* connections, their channels in the epoll set, the sessions of the       *)
(* dispatcher, the command workers, and the stop; on top of EventLoop,     *)
(* of which every step here is a step or a stutter.                        *)
(*                                                                         *)
(* A connection is the number of its arrival.  It lives as long as there   *)
(* are references to it: in connections_, in a task of the loop, in a      *)
(* worker that sends.  Its destructor closes the descriptor, which the     *)
(* kernel may then give to the next client.  A worker keeps only a weak    *)
(* reference while it executes a command.  Sockets and replies themselves  *)
(* are in TcpConnection; here a connection reads a command, is closed for  *)
(* whatever reason, or does nothing.                                       *)
(***************************************************************************)
EXTENDS EventLoop, FiniteSets, Functions

CONSTANTS
    Listen,             \* the listening channel
    Limits,             \* values of max_clients in the configuration
    MaxConnections      \* bound: connections made

Workers == Threads
Connections == 1..MaxConnections

ASSUME ServerAssumption ==
    /\ Limits \subseteq Nat /\ MaxConnections \in Nat
    /\ Listen \notin Connections

VARIABLES
    max_clients,        \* fixed when the server is made
    fd_, state_,        \* of every connection that was made
    connections_,       \* descriptor -> connection
    added_to_loop_,     \* connections whose channel is in the epoll set
    active_connections_,
    sessions_,          \* descriptor -> the connection that opened the session
    commands,           \* connections with a command queued in their session
    submitted,          \* commands so far
    worker,             \* where each worker is, and for which connection
    events,             \* what epoll_wait returned and Loop has not come to
    event,              \* the one whose HandleEvent runs, and how far it is
    task_of,            \* task -> the connection it refers to
    ran_in_batch,       \* connections of the tasks that were run and not yet destroyed
    main                \* where main is after the loop

serverVars == <<max_clients, fd_, state_, connections_, added_to_loop_, active_connections_,
                sessions_, commands, submitted, worker, events, event, task_of, ran_in_batch, main>>
tableVars == <<max_clients, fd_, state_, connections_, added_to_loop_, active_connections_,
               sessions_>>

Idle == [at |-> "idle", connection |-> 0]
NoEvent == [at |-> "none", channel |-> Listen]

InitServer ==
    /\ Init
    /\ max_clients \in Limits
    /\ fd_ = <<>> /\ state_ = <<>>
    /\ connections_ = <<>> /\ sessions_ = <<>>
    /\ added_to_loop_ = {} /\ active_connections_ = 0
    /\ commands = {} /\ submitted = 0
    /\ worker = [w \in Workers |-> Idle]
    /\ events = {} /\ event = NoEvent
    /\ task_of = <<>> /\ ran_in_batch = {}
    /\ main = "serving"

Made == DOMAIN state_

HoldsReference(w) == worker[w].at \in {"sending", "queueing"}

TaskReferences ==
    IF main = "returned" THEN {}
    ELSE ran_in_batch \cup {task_of[n] : n \in Range(tasks) \cup Range(pending_tasks_)}

Alive(c) ==
    \/ c \in Range(connections_)
    \/ c \in TaskReferences
    \/ \E w \in Workers : HoldsReference(w) /\ worker[w].connection = c

(* The kernel gives the lowest descriptor that is not open. *)
FreeFds == (1..MaxConnections) \ {fd_[c] : c \in {m \in Made : Alive(m)}}
IsLowest(f) == \A g \in FreeFds : f <= g

----------------------------------------------------------------------------
(***************************************************************************)
(* What the handlers do to the tables.                                     *)
(***************************************************************************)
(* Faults: a channel stays in the epoll set; a session stays open.         *)
Unregistered_Not(gone) == added_to_loop_
ClosedSessions_None(gone) == {}

Unregistered(gone) == added_to_loop_ \ gone
ClosedSessions(gone) == {fd_[c] : c \in gone}

(* HandleClose, with the callbacks of main and TcpServer::RemoveConnection, *)
(* for the connections in C that are not closed yet.  RemoveConnection goes *)
(* by the descriptor, whatever connection it finds there.                  *)
HandleClose(C) ==
    LET named == {fd_[c] : c \in {m \in C : state_[m] # "kDisconnected"}}
        found == {connections_[f] : f \in named \cap DOMAIN connections_}
        gone == {c \in C \cup found : state_[c] # "kDisconnected"}
        closed == ClosedSessions(gone) \cap DOMAIN sessions_
    IN
    /\ state_' = [c \in Made |-> IF c \in gone THEN "kDisconnected" ELSE state_[c]]
    /\ added_to_loop_' = Unregistered(gone)
    /\ active_connections_' = active_connections_ - Cardinality(gone)
    /\ sessions_' = Restrict(sessions_, DOMAIN sessions_ \ closed)
    /\ commands' = commands \ {sessions_[f] : f \in closed}
    /\ connections_' = Restrict(connections_, DOMAIN connections_ \ named)
    /\ UNCHANGED <<max_clients, fd_>>

----------------------------------------------------------------------------
(***************************************************************************)
(* The reactor: the handlers run while EventLoop is "handling" or running  *)
(* its tasks.                                                              *)
(***************************************************************************)
(* A step of the loop alone. *)
Alone(A) == A /\ UNCHANGED serverVars

(* Loop goes on to the next event of the round, in any order: HandleEvent  *)
(* begins with the callbacks that close, or read.                          *)
NextEvent(left) ==
    IF left = {} THEN events' = {} /\ event' = NoEvent
    ELSE \E c \in left :
        events' = left \ {c} /\ event' = [at |-> "reading", channel |-> c]

PollServer ==
    /\ Poll
    /\ \E ready_channels \in SUBSET (added_to_loop_ \cup {Listen}) : NextEvent(ready_channels)
    /\ UNCHANGED <<tableVars, commands, submitted, worker, task_of, ran_in_batch, main>>

(* Fault: off by one at the limit. *)
AtLimit_OneMore == Cardinality(DOMAIN connections_) > max_clients

AtLimit == Cardinality(DOMAIN connections_) >= max_clients

(* emplace does nothing if the key is there, insert_or_assign replaces. *)
Emplaced(table, key, value) ==
    [k \in DOMAIN table \cup {key} |-> IF k \in DOMAIN table THEN table[k] ELSE value]
Assigned(table, key, value) ==
    [k \in DOMAIN table \cup {key} |-> IF k = key THEN value ELSE table[k]]

Reading(c) == event = [at |-> "reading", channel |-> c]

(* HandleRead returns into HandleEvent, and its reference is dropped. *)
ReadReturns(c) == event' = [at |-> "writing", channel |-> c]

(* One round of HandleAccept: a client is turned away, or gets a           *)
(* connection and a session.                                               *)
Accept ==
    /\ Reading(Listen)
    /\ IF AtLimit THEN UNCHANGED tableVars
       ELSE \E f \in FreeFds :
            LET c == Len(state_) + 1 IN
            /\ c <= MaxConnections /\ IsLowest(f)
            /\ fd_' = Append(fd_, f) /\ state_' = Append(state_, "kConnected")
            /\ connections_' = Emplaced(connections_, f, c)
            /\ added_to_loop_' = added_to_loop_ \cup {c}
            /\ active_connections_' = active_connections_ + 1
            /\ sessions_' = Assigned(sessions_, f, c)
            /\ UNCHANGED max_clients
    /\ UNCHANGED <<vars, commands, submitted, worker, events, event, task_of, ran_in_batch, main>>

(* accept4 has nothing more. *)
AcceptNoMore ==
    /\ Reading(Listen)
    /\ NextEvent(events)
    /\ UNCHANGED <<vars, tableVars, commands, submitted, worker, task_of, ran_in_batch, main>>

(* HandleRead finds a command, which is submitted to the session the       *)
(* descriptor has, and goes on.  Bound: one command waits in a session.    *)
ReadCommand(c) ==
    /\ Reading(c)
    /\ submitted < MaxTasks
    /\ fd_[c] \in DOMAIN sessions_ /\ sessions_[fd_[c]] \notin commands
    /\ submitted' = submitted + 1
    /\ commands' = commands \cup {sessions_[fd_[c]]}
    /\ UNCHANGED <<vars, tableVars, worker, events, event, task_of, ran_in_batch, main>>

(* The rest is less than a command, or there was nothing to read. *)
ReadNothing(c) ==
    /\ Reading(c) /\ ReadReturns(c)
    /\ UNCHANGED <<vars, tableVars, commands, submitted, worker, events, task_of, ran_in_batch, main>>

(* A protocol error: the connection is shut down, and stays until the peer *)
(* closes it.                                                              *)
ReadError(c) ==
    /\ Reading(c) /\ state_[c] = "kConnected"
    /\ state_' = [state_ EXCEPT ![c] = "kDisconnecting"]
    /\ ReadReturns(c)
    /\ UNCHANGED <<vars, max_clients, fd_, connections_, added_to_loop_, active_connections_,
                   sessions_, commands, submitted, worker, events, task_of, ran_in_batch, main>>

(* The peer has closed, or there is an error or a limit.  If no worker and *)
(* no task has a reference the connection is destroyed here, with its      *)
(* channel, whose HandleEvent goes on.                                     *)
ReadClose(c) ==
    /\ Reading(c)
    /\ HandleClose({c})
    /\ ReadReturns(c)
    /\ UNCHANGED <<vars, submitted, worker, events, task_of, ran_in_batch, main>>

(* HandleEvent looks for EPOLLOUT; HandleWrite may fail and close.  Of a   *)
(* channel that is destroyed it is assumed to find nothing to write, as of *)
(* one that is closed: what it reads there is undefined.                   *)
WriteEvent(c) ==
    /\ event = [at |-> "writing", channel |-> c]
    /\ \E C \in {{}, {c}} : HandleClose(C)
    /\ NextEvent(events)
    /\ UNCHANGED <<vars, submitted, worker, task_of, ran_in_batch, main>>

HandledAll == event = NoEvent /\ Alone(HandleEvents)

(* The task is SendInLoop, which may fail and close, or ForceClose. *)
RunServerTask ==
    /\ RunTask
    /\ \E C \in {{}, {task_of[NextTask]}} : HandleClose(C)
    /\ ran_in_batch' = ran_in_batch \cup {task_of[NextTask]}
    /\ UNCHANGED <<submitted, worker, events, event, task_of, main>>

(* Fault: the batch outlives RunPendingTasks. *)
ReferencesKept_All == ran_in_batch

ReferencesKept == {}

(* The batch is destroyed, and the references of its tasks with it. *)
ServerBatchDone ==
    /\ BatchDone
    /\ ran_in_batch' = ReferencesKept
    /\ UNCHANGED <<tableVars, commands, submitted, worker, events, event, task_of, main>>

----------------------------------------------------------------------------
(***************************************************************************)
(* A command worker.                                                       *)
(***************************************************************************)
WorkerIs(w, place) == worker[w].at = place

WorkerGoes(w, place, c) ==
    worker' = [worker EXCEPT ![w] = [at |-> place, connection |-> c]]

WorkerIsDone(w) == worker' = [worker EXCEPT ![w] = Idle]

(* RunSession takes a command of a session that nobody else runs. *)
Take(w) ==
    /\ WorkerIs(w, "idle")
    /\ \E c \in commands :
        /\ \A v \in Workers : worker[v].connection # c
        /\ commands' = commands \ {c}
        /\ WorkerGoes(w, "executing", c)
    /\ UNCHANGED <<vars, tableVars, submitted, events, event, task_of, ran_in_batch, main>>

(* Execute returns, and the session is looked at once more. *)
Execute(w) ==
    /\ WorkerIs(w, "executing")
    /\ LET c == worker[w].connection IN
       IF c \in Range(sessions_) THEN WorkerGoes(w, "replying", c) ELSE WorkerIsDone(w)
    /\ UNCHANGED <<vars, tableVars, commands, submitted, events, event, task_of, ran_in_batch, main>>

(* weak_connection.lock *)
Lock(w) ==
    /\ WorkerIs(w, "replying")
    /\ LET c == worker[w].connection IN
       IF Alive(c) THEN WorkerGoes(w, "sending", c) ELSE WorkerIsDone(w)
    /\ UNCHANGED <<vars, tableVars, commands, submitted, events, event, task_of, ran_in_batch, main>>

(* Send looks at the state, *)
SendDropped(w) ==
    /\ WorkerIs(w, "sending") /\ state_[worker[w].connection] # "kConnected"
    /\ WorkerIsDone(w)
    /\ UNCHANGED <<vars, tableVars, commands, submitted, events, event, task_of, ran_in_batch, main>>

(* and queues a task to the loop. *)
Send(w) ==
    /\ WorkerIs(w, "sending") /\ state_[worker[w].connection] = "kConnected"
    /\ QueueInLoop(w)
    /\ task_of' = Append(task_of, worker[w].connection)
    /\ WorkerGoes(w, "queueing", worker[w].connection)
    /\ UNCHANGED <<tableVars, commands, submitted, events, event, ran_in_batch, main>>

(* The reference is dropped when Send returns. *)
WakeLoop(w) ==
    /\ Wakeup(w)
    /\ WorkerIsDone(w)
    /\ UNCHANGED <<tableVars, commands, submitted, events, event, task_of, ran_in_batch, main>>

----------------------------------------------------------------------------
(***************************************************************************)
(* main after Loop has returned.                                           *)
(***************************************************************************)
WorkersDone == commands = {} /\ \A w \in Workers : WorkerIs(w, "idle")

(* dispatcher.Stop: the workers drain the sessions, then they are joined. *)
StopDispatcher ==
    /\ main = "serving" /\ at = "ended"
    /\ WorkersDone
    /\ main' = "stopped"
    /\ sessions_' = <<>>
    /\ UNCHANGED <<vars, max_clients, fd_, state_, connections_, added_to_loop_,
                   active_connections_, commands, submitted, worker, events, event, task_of, ran_in_batch>>

(* The destructors of TcpServer and, with the tasks left in it, EventLoop. *)
Return ==
    /\ main = "stopped"
    /\ main' = "returned"
    /\ HandleClose(Range(connections_))
    /\ UNCHANGED <<vars, submitted, worker, events, event, task_of, ran_in_batch>>

Ended == main = "returned" /\ UNCHANGED <<vars, serverVars>>

----------------------------------------------------------------------------
ReactorStep ==
    \/ Alone(Test) \/ HandledAll \/ Alone(Swap) \/ RunServerTask \/ ServerBatchDone
    \/ Accept \/ AcceptNoMore
    \/ \E c \in Connections :
        ReadCommand(c) \/ ReadNothing(c) \/ ReadError(c) \/ ReadClose(c) \/ WriteEvent(c)

WorkerStep(w) == Take(w) \/ Execute(w) \/ Lock(w) \/ SendDropped(w) \/ Send(w) \/ WakeLoop(w)

MainStep == StopDispatcher \/ Return

NextServer ==
    \/ ReactorStep \/ PollServer \/ Alone(Interrupted)
    \/ \E w \in Workers : WorkerStep(w)
    \/ Alone(Quit) \/ Alone(QuitWakeup)
    \/ MainStep \/ Ended

allVars == <<vars, serverVars>>

SpecServer == InitServer /\ [][NextServer]_allVars

(* Every thread runs.  epoll_wait has to return only when the eventfd is   *)
(* readable, and a call that is not interrupted for ever; nothing depends  *)
(* on its timeout, on sockets or on clients.                               *)
FairnessServer ==
    /\ WF_allVars(ReactorStep)
    /\ SF_allVars(PollServer /\ wakeup_fd_)
    /\ \A w \in Workers : WF_allVars(WorkerStep(w))
    /\ WF_allVars(Alone(QuitWakeup))
    /\ WF_allVars(MainStep)

FairSpecServer == SpecServer /\ FairnessServer

----------------------------------------------------------------------------
(* The tables agree whatever order clients, closes and late replies come   *)
(* in: a descriptor has a connection, a session and an open channel, all   *)
(* of the same client, or none of the three, also after it was reused; the *)
(* gauge of /status counts them, and there are at most max_clients.        *)
TablesAgree ==
    LET live == Range(connections_) IN
    /\ \A f \in DOMAIN connections_ :
        fd_[connections_[f]] = f /\ state_[connections_[f]] # "kDisconnected"
    /\ \A c \in Made : state_[c] # "kDisconnected" => c \in live
    /\ added_to_loop_ = live
    /\ main = "serving" => sessions_ = connections_
    /\ active_connections_ = Cardinality(DOMAIN connections_)
    /\ active_connections_ <= max_clients

(* The loop comes to no channel that is gone: neither the epoll set nor    *)
(* the events of the round still to be handled nor the one being read      *)
(* refer to it, while handlers close connections and workers drop the last *)
(* reference.  Not so the event of the connection that HandleRead itself   *)
(* has closed: HandleEvent then looks at its own channel once more, which  *)
(* may be destroyed.                                                       *)
EventsAreLive ==
    LET awaited == added_to_loop_ \cup events
        read == IF event.at = "reading" THEN {event.channel} ELSE {}
    IN \A c \in (awaited \cup read) \ {Listen} : Alive(c)

(* A connection that is closed is destroyed, and its descriptor returned   *)
(* to the kernel: no reference to it is kept for ever.                     *)
ClosedIsDestroyed ==
    \A c \in Connections :
        (c \in Made /\ state_[c] = "kDisconnected") ~> (c \in Made /\ ~Alive(c))

(* A signal ends the server: the loop, then the workers with all that was  *)
(* submitted, then every connection, also when replies are queued to the   *)
(* loop after it was left.                                                 *)
QuitEndsServer == quit_ ~> (main = "returned" /\ \A c \in Made : ~Alive(c))
=============================================================================
