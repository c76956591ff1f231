-------------------------- MODULE AsyncDispatcher --------------------------
(***************************************************************************)
(* The command dispatcher of cachefly: src/command/async_dispatcher.cpp.   *)
(*                                                                         *)
(* The reactor thread opens and closes sessions and submits parsed         *)
(* commands; a pool of worker threads runs sessions.  A session is run by  *)
(* at most one worker at a time, so the commands of one connection are     *)
(* executed and answered in the order in which they were parsed.           *)
(*                                                                         *)
(* A step is one critical section, or one call made outside any lock.  The *)
(* map sessions_ is only touched by the reactor, so finding a session and  *)
(* then locking it is one step here.  A condition-variable wait with a     *)
(* predicate is the predicate as a guard.                                  *)
(***************************************************************************)
EXTENDS Naturals, Sequences

CONSTANTS
    SessionIds,     \* session ids: main.cpp uses the socket's descriptor
    Sessions,       \* identities of Session objects, one per OpenSession
    Workers,        \* threads of the pool
    MaxCommands,    \* bound: commands submitted to one session
    NoSession       \* the null shared_ptr

ASSUME DispatcherAssumption ==
    /\ NoSession \notin Sessions
    /\ MaxCommands \in Nat
ASSUME PoolAssumption == Workers # {}   \* ThreadPool refuses to be empty

VARIABLES
    sessions_,      \* id -> live Session object
    opened,         \* Session objects created so far
    commands,       \* Session::commands, as numbers in order of submission
    running,        \* Session::running
    closed,         \* Session::closed
    tasks_,         \* ThreadPool::tasks_: the session each task runs
    stopping_,      \* ThreadPool::stopping_
    at,             \* where each worker is in Run and RunSession
    session,        \* the session each worker runs
    command,        \* the command each worker holds, 0 for none
    reactor,        \* where the reactor is in Submit or Stop
    posting,        \* the session Submit is about to Post
    submitted,      \* history: commands accepted per session
    executed,       \* history: commands given to the executor, in order
    replied         \* history: reply callbacks called, in order

sessionVars == <<commands, running, closed>>
poolVars == <<tasks_, stopping_>>
worker == <<at, session, command>>
reactorVars == <<reactor, posting>>
history == <<submitted, executed, replied>>
vars == <<sessions_, opened, sessionVars, poolVars, worker, reactorVars, history>>

(* Worker w goes to a, running session s and holding command c. *)
Go(w, a, s, c) ==
    /\ at' = [at EXCEPT ![w] = a]
    /\ session' = [session EXCEPT ![w] = s]
    /\ command' = [command EXCEPT ![w] = c]

TypeOK ==
    /\ sessions_ \in [SessionIds -> Sessions \cup {NoSession}]
    /\ opened \subseteq Sessions
    /\ commands \in [Sessions -> Seq(1..MaxCommands)]
    /\ running \in [Sessions -> BOOLEAN]
    /\ closed \in [Sessions -> BOOLEAN]
    /\ tasks_ \in Seq(Sessions)
    /\ stopping_ \in BOOLEAN
    /\ at \in [Workers -> {"waiting", "exited", "popping",
                           "executing", "checking", "replying"}]
    /\ session \in [Workers -> Sessions \cup {NoSession}]
    /\ command \in [Workers -> 0..MaxCommands]
    /\ \A w \in Workers :
        /\ session[w] = NoSession <=> at[w] \in {"waiting", "exited"}
        /\ command[w] # 0 <=> at[w] \in {"executing", "checking", "replying"}
    /\ reactor \in {"serving", "posting", "joining", "stopped"}
    /\ posting \in Sessions \cup {NoSession}
    /\ posting # NoSession <=> reactor = "posting"
    /\ submitted \in [Sessions -> 0..MaxCommands]
    /\ executed \in [Sessions -> Seq(1..MaxCommands)]
    /\ replied \in [Sessions -> Seq(1..MaxCommands)]

Init ==
    /\ sessions_ = [id \in SessionIds |-> NoSession]
    /\ opened = {}
    /\ commands = [s \in Sessions |-> <<>>]
    /\ running = [s \in Sessions |-> FALSE]
    /\ closed = [s \in Sessions |-> FALSE]
    /\ tasks_ = <<>>
    /\ stopping_ = FALSE
    /\ at = [w \in Workers |-> "waiting"]
    /\ session = [w \in Workers |-> NoSession]
    /\ command = [w \in Workers |-> 0]
    /\ reactor = "serving"
    /\ posting = NoSession
    /\ submitted = [s \in Sessions |-> 0]
    /\ executed = [s \in Sessions |-> <<>>]
    /\ replied = [s \in Sessions |-> <<>>]

----------------------------------------------------------------------------
(***************************************************************************)
(* The reactor.  A descriptor is not given to a new connection before its  *)
(* previous connection has been closed, hence the guard on sessions_[id].  *)
(***************************************************************************)
OpenSession(id, s) ==
    /\ reactor = "serving"
    /\ sessions_[id] = NoSession
    /\ s \notin opened
    /\ sessions_' = [sessions_ EXCEPT ![id] = s]
    /\ opened' = opened \cup {s}
    /\ UNCHANGED <<sessionVars, poolVars, worker, reactorVars, history>>

CloseSession(id) ==
    LET s == sessions_[id] IN
    /\ reactor = "serving"
    /\ s # NoSession
    /\ sessions_' = [sessions_ EXCEPT ![id] = NoSession]
    /\ closed' = [closed EXCEPT ![s] = TRUE]
    /\ commands' = [commands EXCEPT ![s] = <<>>]
    /\ UNCHANGED <<opened, running, poolVars, worker, reactorVars, history>>

(* Fault: schedule the session whether or not a worker already runs it. *)
MustSchedule_Always(s) == TRUE

MustSchedule(s) == ~running[s]

(* Both critical sections of Submit; the pool is told in Post, below. *)
Submit(id) ==
    LET s == sessions_[id] IN
    /\ reactor = "serving"
    /\ s # NoSession
    /\ ~closed[s]
    /\ submitted[s] < MaxCommands
    /\ submitted' = [submitted EXCEPT ![s] = @ + 1]
    /\ commands' = [commands EXCEPT ![s] = Append(@, submitted[s] + 1)]
    /\ running' = [running EXCEPT ![s] = TRUE]
    /\ reactor' = IF MustSchedule(s) THEN "posting" ELSE "serving"
    /\ posting' = IF MustSchedule(s) THEN s ELSE NoSession
    /\ UNCHANGED <<sessions_, opened, closed, poolVars, worker, executed, replied>>

Post ==
    /\ reactor = "posting"
    /\ ~stopping_
    /\ tasks_' = Append(tasks_, posting)
    /\ reactor' = "serving"
    /\ posting' = NoSession
    /\ UNCHANGED <<sessions_, opened, sessionVars, stopping_, worker, history>>

Stop ==
    /\ reactor = "serving"
    /\ stopping_' = TRUE
    /\ reactor' = "joining"
    /\ UNCHANGED <<sessions_, opened, sessionVars, tasks_, worker, posting, history>>

(* Stop returns: every thread has been joined. *)
Joined ==
    /\ reactor = "joining"
    /\ \A w \in Workers : at[w] = "exited"
    /\ reactor' = "stopped"
    /\ sessions_' = [id \in SessionIds |-> NoSession]
    /\ UNCHANGED <<opened, sessionVars, poolVars, worker, posting, history>>

----------------------------------------------------------------------------
(***************************************************************************)
(* The workers: ThreadPool::Run around RunSession.                         *)
(***************************************************************************)
Leave(w, a) == Go(w, a, NoSession, 0)

TakeTask(w) ==
    /\ at[w] = "waiting"
    /\ tasks_ # <<>>
    /\ Go(w, "popping", Head(tasks_), 0)
    /\ tasks_' = Tail(tasks_)
    /\ UNCHANGED <<sessions_, opened, sessionVars, stopping_, reactorVars, history>>

(* Faults: leave as soon as the pool is stopping; test the queue the wrong *)
(* way round.                                                              *)
MayExit_LeavesTasks == stopping_
MayExit_Inverted == stopping_ /\ tasks_ # <<>>

MayExit == stopping_ /\ tasks_ = <<>>

Exit(w) ==
    /\ at[w] = "waiting"
    /\ MayExit
    /\ Leave(w, "exited")
    /\ UNCHANGED <<sessions_, opened, sessionVars, poolVars, reactorVars, history>>

(* Fault: running stays set when the session has nothing left to do. *)
Release_StaysRunning(s) == UNCHANGED running

Release(s) == running' = [running EXCEPT ![s] = FALSE]

FinishSession(w) ==
    LET s == session[w] IN
    /\ at[w] = "popping"
    /\ closed[s] \/ commands[s] = <<>>
    /\ Release(s)
    /\ Leave(w, "waiting")
    /\ UNCHANGED <<sessions_, opened, commands, closed, poolVars, reactorVars, history>>

(* Fault: take the newest command instead of the oldest. *)
NextCommand_Newest(s) == commands[s][Len(commands[s])]

NextCommand(s) == Head(commands[s])

PopCommand(w) ==
    LET s == session[w] IN
    /\ at[w] = "popping"
    /\ ~closed[s] /\ commands[s] # <<>>
    /\ Go(w, "executing", s, NextCommand(s))
    /\ commands' = [commands EXCEPT ![s] = Tail(@)]
    /\ UNCHANGED <<sessions_, opened, running, closed, poolVars, reactorVars, history>>

(* executor_->Execute; a reply or an exception both become a response. *)
Execute(w) ==
    LET s == session[w] IN
    /\ at[w] = "executing"
    /\ executed' = [executed EXCEPT ![s] = Append(@, command[w])]
    /\ Go(w, "checking", s, command[w])
    /\ UNCHANGED <<sessions_, opened, sessionVars, poolVars, reactorVars, submitted, replied>>

(* The closed session keeps running = TRUE: nothing will schedule it again. *)
DropReply(w) ==
    /\ at[w] = "checking"
    /\ closed[session[w]]
    /\ Leave(w, "waiting")
    /\ UNCHANGED <<sessions_, opened, sessionVars, poolVars, reactorVars, history>>

KeepReply(w) ==
    LET s == session[w] IN
    /\ at[w] = "checking"
    /\ ~closed[s]
    /\ Go(w, "replying", s, command[w])
    /\ UNCHANGED <<sessions_, opened, sessionVars, poolVars, reactorVars, history>>

(* The callback is called outside the session's lock. *)
Reply(w) ==
    LET s == session[w] IN
    /\ at[w] = "replying"
    /\ replied' = [replied EXCEPT ![s] = Append(@, command[w])]
    /\ Go(w, "popping", s, 0)
    /\ UNCHANGED <<sessions_, opened, sessionVars, poolVars, reactorVars, submitted, executed>>

RunSession(w) ==
    \/ FinishSession(w) \/ PopCommand(w) \/ Execute(w)
    \/ DropReply(w) \/ KeepReply(w) \/ Reply(w)

WorkerStep(w) == TakeTask(w) \/ Exit(w) \/ RunSession(w)

----------------------------------------------------------------------------
(* The process ends some time after Stop has returned. *)
Terminated == reactor = "stopped" /\ UNCHANGED vars

Next ==
    \/ \E id \in SessionIds, s \in Sessions : OpenSession(id, s)
    \/ \E id \in SessionIds : CloseSession(id) \/ Submit(id)
    \/ Post \/ Stop \/ Joined \/ Terminated
    \/ \E w \in Workers : WorkerStep(w)

(***************************************************************************)
(* Threads are scheduled, the executor returns, and the reactor finishes   *)
(* the call it is in.  Nothing obliges clients to connect, submit or close *)
(* or the operator to stop the server.                                     *)
(***************************************************************************)
Fairness ==
    /\ \A w \in Workers : WF_vars(WorkerStep(w))
    /\ WF_vars(Post \/ Joined)

Spec == Init /\ [][Next]_vars
FairSpec == Spec /\ Fairness

----------------------------------------------------------------------------
(* w is inside RunSession(s). *)
Runs(w, s) == session[w] = s

(* The one permission to run s: held by a worker, by a queued task or by   *)
(* the reactor on its way to Post.                                         *)
Scheduled(s) ==
    \/ \E w \in Workers : Runs(w, s)
    \/ \E i \in DOMAIN tasks_ : tasks_[i] = s
    \/ posting = s

(* Two workers never run the same session (the flag Session::running).     *)
SerialExecution ==
    \A s \in Sessions, v, w \in Workers : Runs(v, s) /\ Runs(w, s) => v = w

(* No lost wake-up: an open session with queued commands is being run or   *)
(* is about to be, in whatever way Submit's test of running meets          *)
(* RunSession's test for an empty queue.                                   *)
NoStrandedCommand ==
    \A s \in Sessions : commands[s] # <<>> => running[s] /\ Scheduled(s)

(* Commands are executed, and their reply callbacks called, in the order   *)
(* of submission, without a gap and at most once, also when a session is   *)
(* closed under a running worker and its id is opened again.               *)
PipelineOrder ==
    \A s \in Sessions :
        /\ \A i \in DOMAIN executed[s] : executed[s][i] = i
        /\ \A i \in DOMAIN replied[s] : replied[s][i] = i
        /\ Len(replied[s]) <= Len(executed[s])
        /\ Len(executed[s]) <= Len(replied[s]) + 1

(* When Stop has returned, every command of a session that was not closed  *)
(* has been executed and answered: Stop drains what Submit accepted.       *)
StopDrains ==
    reactor = "stopped" =>
        \A s \in Sessions : ~closed[s] => Len(replied[s]) = submitted[s]

----------------------------------------------------------------------------
(***************************************************************************)
(* The inductive invariant behind SerialExecution, NoStrandedCommand,      *)
(* PipelineOrder and StopDrains.                                           *)
(***************************************************************************)
(* At most one permission per session exists ...                           *)
Exclusive ==
    /\ SerialExecution
    /\ \A i, j \in DOMAIN tasks_ : tasks_[i] = tasks_[j] => i = j
    /\ \A w \in Workers : \A i \in DOMAIN tasks_ : session[w] # tasks_[i]
    /\ \A w \in Workers : posting # NoSession => session[w] # posting
    /\ \A i \in DOMAIN tasks_ : posting # tasks_[i]

(* ... and running records it, except for a closed session whose last      *)
(* reply was dropped.                                                      *)
Flagged(s) ==
    /\ Scheduled(s) => running[s]
    /\ running[s] /\ ~closed[s] => Scheduled(s)
    /\ commands[s] # <<>> => running[s] /\ ~closed[s]

OnePermission == Exclusive /\ \A s \in Sessions : Flagged(s)

(* Where the commands of s are: replied, executed, held by the worker that *)
(* runs s, or queued.                                                      *)
Accounted(s, held) ==
    ~closed[s] => submitted[s] = Len(executed[s]) + held + Len(commands[s])

(* Every command executed has been answered. *)
Settled(s) == Len(executed[s]) = Len(replied[s]) /\ Accounted(s, 0)

(* What w, which runs s, has still to do for the command it holds. *)
Holding(w, s) ==
    /\ at[w] = "popping" => Settled(s)
    /\ at[w] = "executing" =>
          /\ Len(executed[s]) = Len(replied[s]) /\ Accounted(s, 1)
          /\ command[w] = Len(executed[s]) + 1
    /\ at[w] \in {"checking", "replying"} =>
          /\ Len(executed[s]) = Len(replied[s]) + 1 /\ Accounted(s, 0)
          /\ command[w] = Len(executed[s])

(* Histories and queue count the commands of s without a gap. *)
Counted(s) ==
    /\ \A i \in 1..Len(executed[s]) : executed[s][i] = i
    /\ \A i \in 1..Len(replied[s]) : replied[s][i] = i
    /\ Len(replied[s]) <= Len(executed[s])
    /\ Len(executed[s]) <= Len(replied[s]) + 1
    /\ \A i \in 1..Len(commands[s]) :
          commands[s][i] = submitted[s] - Len(commands[s]) + i

OrderOf(s) ==
    /\ Counted(s)
    /\ \A w \in Workers : Runs(w, s) => Holding(w, s)
    /\ (\A w \in Workers : ~Runs(w, s)) /\ (~closed[s] \/ ~running[s] \/ Scheduled(s)) =>
          Settled(s)

(* How far Stop has come. *)
Draining ==
    /\ stopping_ <=> reactor \in {"joining", "stopped"}
    /\ \A w \in Workers : at[w] = "exited" => stopping_ /\ tasks_ = <<>>
    /\ reactor = "stopped" => \A w \in Workers : at[w] = "exited"

(* The inductive strengthening the proofs use.                             *)
IInv == TypeOK /\ OnePermission /\ (\A s \in Sessions : OrderOf(s)) /\ Draining

----------------------------------------------------------------------------
(* Every accepted command is answered unless its session is closed first.  *)
EveryCommandAnswered ==
    \A s \in Sessions : \A n \in 1..MaxCommands :
        submitted[s] >= n ~> (Len(replied[s]) >= n \/ closed[s])

(* Stop returns: the workers finish the queue and leave.                   *)
StopReturns == (reactor = "joining") ~> (reactor = "stopped")
=============================================================================
