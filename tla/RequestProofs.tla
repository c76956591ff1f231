--------------------------- MODULE RequestProofs ----------------------------
(***************************************************************************)
(* The way of a request, for any sets of ids, sessions and workers and any *)
(* number of commands: AsyncDispatcher executes it and TcpConnection sends *)
(* the reply.  For the dispatcher, first the lemmas: every step keeps the  *)
(* types and the one permission of a session, and what Submit, a pop,      *)
(* Execute and Reply do to the order of a session; then the theorems.      *)
(***************************************************************************)
EXTENDS AsyncDispatcher, TcpConnection, SequenceTheorems, FiniteSetTheorems, TLAPS

Places == {"waiting", "exited", "popping", "executing", "checking", "replying"}

(* The part of TypeOK that a worker's own step changes.                    *)
WorkerTypes ==
    /\ at \in [Workers -> Places]
    /\ session \in [Workers -> Sessions \cup {NoSession}]
    /\ command \in [Workers -> 0..MaxCommands]
    /\ \A w \in Workers :
        /\ session[w] = NoSession <=> at[w] \in {"waiting", "exited"}
        /\ command[w] # 0 <=> at[w] \in {"executing", "checking", "replying"}

(* A worker goes to a well-typed place with what it has to hold there.     *)
LEMMA GoTyped ==
    ASSUME TypeOK, NEW w \in Workers, NEW a \in Places,
           NEW s \in Sessions \cup {NoSession}, NEW c \in 0..MaxCommands, Go(w, a, s, c),
           s = NoSession <=> a \in {"waiting", "exited"},
           c # 0 <=> a \in {"executing", "checking", "replying"}
    PROVE  WorkerTypes'
<1>1. WorkerTypes
    BY Zenon DEF TypeOK, WorkerTypes, Places
<1>2. /\ at' = [at EXCEPT ![w] = a]
      /\ session' = [session EXCEPT ![w] = s]
      /\ command' = [command EXCEPT ![w] = c]
    BY Zenon DEF Go
<1>3. /\ at' \in [Workers -> Places]
      /\ session' \in [Workers -> Sessions \cup {NoSession}]
      /\ command' \in [Workers -> 0..MaxCommands]
    BY <1>1, <1>2, Zenon DEF WorkerTypes
<1>4. ASSUME NEW v \in Workers
      PROVE  /\ session'[v] = NoSession <=> at'[v] \in {"waiting", "exited"}
             /\ command'[v] # 0 <=> at'[v] \in {"executing", "checking", "replying"}
  <2>1. CASE v = w
    <3>1. at'[v] = a /\ session'[v] = s /\ command'[v] = c
      BY <1>1, <1>2, <2>1, Zenon DEF WorkerTypes
    <3> QED
      BY <3>1, Zenon
  <2>2. CASE v # w
    <3>1. at'[v] = at[v] /\ session'[v] = session[v] /\ command'[v] = command[v]
      BY <1>1, <1>2, <2>2, Zenon DEF WorkerTypes
    <3> QED
      BY <1>1, <3>1, Zenon DEF WorkerTypes
  <2> QED
    BY <2>1, <2>2, Zenon
<1> QED
    BY <1>3, <1>4, Zenon DEF WorkerTypes

(* Every step of the reactor and of the workers keeps the types.           *)
LEMMA TypeStep == TypeOK /\ [Next]_vars => TypeOK'
<1> SUFFICES ASSUME TypeOK, [Next]_vars
             PROVE  TypeOK'
    BY Zenon
<1> USE DispatcherAssumption DEF TypeOK, sessionVars, poolVars, worker,
                                reactorVars, history, Go, Leave
<1>1. ASSUME NEW id \in SessionIds, NEW s \in Sessions, OpenSession(id, s)
      PROVE  TypeOK'
    BY <1>1, Zenon DEF OpenSession
<1>2. ASSUME NEW id \in SessionIds, CloseSession(id)
      PROVE  TypeOK'
    BY <1>2 DEF CloseSession
<1>3. ASSUME NEW id \in SessionIds, Submit(id)
      PROVE  TypeOK'
    BY <1>3 DEF Submit, MustSchedule
<1>4. CASE Post
    BY <1>4 DEF Post
<1>5. CASE Stop
    BY <1>5, Zenon DEF Stop
<1>6. CASE Joined
    BY <1>6, Zenon DEF Joined
<1>7. ASSUME NEW w \in Workers, WorkerStep(w)
      PROVE  TypeOK'
  <2> HIDE DEF TypeOK, Go
  <2>a. /\ 0 \in 0..MaxCommands /\ NoSession \in Sessions \cup {NoSession}
        /\ \A v \in Workers : at[v] \notin {"waiting", "exited"} => session[v] \in Sessions
        /\ \A v \in Workers : at[v] \in {"executing", "checking", "replying"} =>
              command[v] # 0 /\ command[v] \in 0..MaxCommands /\ command[v] \in 1..MaxCommands
    BY DEF TypeOK
  <2>1. CASE TakeTask(w)
    <3>1. Head(tasks_) \in Sessions /\ Tail(tasks_) \in Seq(Sessions)
      BY <2>1, HeadTailProperties, Zenon DEF TakeTask, TypeOK
    <3>2. WorkerTypes'
      BY <2>1, <2>a, <3>1, GoTyped, Zenon DEF TakeTask, Places
    <3>3. /\ tasks_' \in Seq(Sessions)
          /\ UNCHANGED <<sessions_, opened, commands, running, closed, stopping_, reactor, posting,
                         submitted, executed, replied>>
      BY <2>1, <3>1, Zenon DEF TakeTask, sessionVars, reactorVars, history
    <3> QED
      BY <3>2, <3>3, Zenon DEF TypeOK, WorkerTypes, Places
  <2>2. CASE Exit(w)
    <3>1. WorkerTypes'
      BY <2>2, <2>a, GoTyped, Zenon DEF Exit, Places
    <3> QED
      BY <2>2, <3>1, Zenon DEF Exit, TypeOK, WorkerTypes, Places
  <2>3. CASE FinishSession(w)
    <3>1. WorkerTypes'
      BY <2>3, <2>a, GoTyped, Zenon DEF FinishSession, Places
    <3>2. running' \in [Sessions -> BOOLEAN]
      BY <2>3, Zenon DEF FinishSession, Release, TypeOK
    <3> QED
      BY <2>3, <3>1, <3>2, Zenon DEF FinishSession, TypeOK, WorkerTypes, Places
  <2>4. CASE PopCommand(w)
    <3>1. session[w] \in Sessions
      BY <2>4, <2>a, Zenon DEF PopCommand
    <3>2. /\ Head(commands[session[w]]) \in 1..MaxCommands
          /\ Tail(commands[session[w]]) \in Seq(1..MaxCommands)
      <4>1. commands[session[w]] \in Seq(1..MaxCommands) /\ commands[session[w]] # <<>>
        BY <2>4, <3>1, Zenon DEF PopCommand, TypeOK
      <4> QED
        BY <4>1, HeadTailProperties, Zenon
    <3>3. Head(commands[session[w]]) # 0 /\ Head(commands[session[w]]) \in 0..MaxCommands
      BY <3>2
    <3>4. WorkerTypes'
      BY <2>4, <3>1, <3>3, GoTyped, Zenon DEF PopCommand, NextCommand, Places
    <3>5. commands' \in [Sessions -> Seq(1..MaxCommands)]
      BY <2>4, <3>1, <3>2, Zenon DEF PopCommand, TypeOK
    <3>6. UNCHANGED <<sessions_, opened, running, closed, tasks_, stopping_, reactor, posting,
                      submitted, executed, replied>>
      BY <2>4, Zenon DEF PopCommand, poolVars, reactorVars, history
    <3> QED
      BY <3>4, <3>5, <3>6, Zenon DEF TypeOK, WorkerTypes, Places
  <2>5. CASE Execute(w)
    <3>1. /\ session[w] \in Sessions /\ command[w] \in 1..MaxCommands
          /\ command[w] # 0 /\ command[w] \in 0..MaxCommands
      BY <2>5, <2>a, Zenon DEF Execute
    <3>2. Append(executed[session[w]], command[w]) \in Seq(1..MaxCommands)
      BY <3>1, AppendProperties, Zenon DEF TypeOK
    <3>3. WorkerTypes'
      BY <2>5, <3>1, GoTyped, Zenon DEF Execute, Places
    <3>4. executed' \in [Sessions -> Seq(1..MaxCommands)]
      BY <2>5, <3>1, <3>2, Zenon DEF Execute, TypeOK
    <3>5. UNCHANGED <<sessions_, opened, commands, running, closed, tasks_, stopping_, reactor, posting,
                      submitted, replied>>
      BY <2>5, Zenon DEF Execute, sessionVars, poolVars, reactorVars
    <3> QED
      BY <3>3, <3>4, <3>5, Zenon DEF TypeOK, WorkerTypes, Places
  <2>6. CASE DropReply(w)
    <3>1. WorkerTypes'
      BY <2>6, <2>a, GoTyped, Zenon DEF DropReply, Places
    <3> QED
      BY <2>6, <3>1, Zenon DEF DropReply, TypeOK, WorkerTypes, Places
  <2>7. CASE KeepReply(w)
    <3>1. session[w] \in Sessions /\ command[w] # 0 /\ command[w] \in 0..MaxCommands
      BY <2>7, <2>a, Zenon DEF KeepReply
    <3>2. WorkerTypes'
      BY <2>7, <3>1, GoTyped, Zenon DEF KeepReply, Places
    <3> QED
      BY <2>7, <3>2, Zenon DEF KeepReply, TypeOK, WorkerTypes, Places
  <2>8. CASE Reply(w)
    <3>1. /\ session[w] \in Sessions /\ command[w] \in 1..MaxCommands
          /\ command[w] # 0 /\ command[w] \in 0..MaxCommands
      BY <2>8, <2>a, Zenon DEF Reply
    <3>2. Append(replied[session[w]], command[w]) \in Seq(1..MaxCommands)
      BY <3>1, AppendProperties, Zenon DEF TypeOK
    <3>3. WorkerTypes'
      BY <2>8, <2>a, <3>1, GoTyped, Zenon DEF Reply, Places
    <3>4. replied' \in [Sessions -> Seq(1..MaxCommands)]
      BY <2>8, <3>1, <3>2, Zenon DEF Reply, TypeOK
    <3>5. UNCHANGED <<sessions_, opened, commands, running, closed, tasks_, stopping_, reactor, posting,
                      submitted, executed>>
      BY <2>8, Zenon DEF Reply, sessionVars, poolVars, reactorVars
    <3> QED
      BY <3>3, <3>4, <3>5, Zenon DEF TypeOK, WorkerTypes, Places
  <2> QED
    BY <1>7, <2>1, <2>2, <2>3, <2>4, <2>5, <2>6, <2>7, <2>8, Zenon DEF WorkerStep, RunSession
<1>8. CASE Terminated \/ UNCHANGED vars
    BY <1>8, Zenon DEF Terminated, vars
<1> HIDE DEF TypeOK
<1> QED
    BY <1>1, <1>2, <1>3, <1>4, <1>5, <1>6, <1>7, <1>8, Zenon DEF Next

LEMMA InitType == Init => TypeOK
<1> SUFFICES ASSUME Init PROVE TypeOK
    BY Zenon
<1>1. <<>> \in Seq(1..MaxCommands) /\ <<>> \in Seq(Sessions) /\ 0 \in 0..MaxCommands
    BY DispatcherAssumption
<1> QED
    BY <1>1, DispatcherAssumption, Zenon DEF Init, TypeOK

----------------------------------------------------------------------------
(* What the workers' session is typed as; all that most steps below need.  *)
LEMMA TypeFacts ==
    ASSUME TypeOK
    PROVE  /\ session \in [Workers -> Sessions \cup {NoSession}]
           /\ tasks_ \in Seq(Sessions)
           /\ running \in [Sessions -> BOOLEAN]
           /\ closed \in [Sessions -> BOOLEAN]
           /\ commands \in [Sessions -> Seq(1..MaxCommands)]
           /\ \A w \in Workers : at[w] \notin {"waiting", "exited"} => session[w] \in Sessions
           /\ \A w \in Workers : at[w] \in {"waiting", "exited"} => session[w] = NoSession
           /\ posting # NoSession => posting \in Sessions
           /\ posting # NoSession <=> reactor = "posting"
BY Zenon DEF TypeOK

permissionVars == <<session, tasks_, posting>>

(* Exclusive and Scheduled speak of these variables only.                  *)
LEMMA PermissionStable ==
    UNCHANGED permissionVars =>
        /\ Exclusive => Exclusive'
        /\ \A s \in Sessions : Scheduled(s)' <=> Scheduled(s)
BY Zenon DEF permissionVars, Exclusive, SerialExecution, Runs, Scheduled

(* Post turns the reactor's permission into that of a queued task.         *)
LEMMA PostKeepsScheduled ==
    ASSUME TypeOK, Post
    PROVE  \A x \in Sessions : Scheduled(x)' <=> Scheduled(x)
<1>1. /\ posting \in Sessions /\ posting' = NoSession /\ session' = session
      /\ tasks_ \in Seq(Sessions) /\ tasks_' = Append(tasks_, posting)
    BY TypeFacts, Zenon DEF Post, worker
<1>2. /\ Len(tasks_) \in Nat /\ DOMAIN tasks_ = 1..Len(tasks_)
      /\ tasks_' \in Seq(Sessions) /\ Len(tasks_') = Len(tasks_) + 1
      /\ \A i \in 1..Len(tasks_) : tasks_'[i] = tasks_[i]
      /\ tasks_'[Len(tasks_) + 1] = posting
    BY <1>1, AppendProperties, LenProperties
<1>3. DOMAIN tasks_' = 1..(Len(tasks_) + 1)
    BY <1>2, LenProperties, Zenon
<1>4. /\ Len(tasks_) + 1 \in DOMAIN tasks_'
      /\ \A i \in DOMAIN tasks_' : i \in DOMAIN tasks_ \/ i = Len(tasks_) + 1
      /\ \A i \in DOMAIN tasks_ : i \in DOMAIN tasks_'
    BY <1>2, <1>3
<1> TAKE x \in Sessions
<1>5. (\E i \in DOMAIN tasks_' : tasks_'[i] = x)
        <=> (\E i \in DOMAIN tasks_ : tasks_[i] = x) \/ posting = x
    BY <1>2, <1>4, Zenon
<1> QED
    BY <1>1, <1>5, DispatcherAssumption, Zenon DEF Scheduled, Runs

(* TakeTask turns the permission of the first task into the worker's.      *)
LEMMA TakeKeepsScheduled ==
    ASSUME TypeOK, NEW w \in Workers, TakeTask(w)
    PROVE  \A x \in Sessions : Scheduled(x)' <=> Scheduled(x)
<1>1. /\ tasks_ \in Seq(Sessions) /\ tasks_ # <<>> /\ tasks_' = Tail(tasks_)
      /\ session \in [Workers -> Sessions \cup {NoSession}]
      /\ session' = [session EXCEPT ![w] = Head(tasks_)]
      /\ session[w] = NoSession
      /\ posting' = posting
    BY TypeFacts, Zenon DEF TakeTask, Go, reactorVars
<1>2. /\ 1 \in DOMAIN tasks_ /\ Head(tasks_) = tasks_[1]
      /\ \A i \in DOMAIN tasks_' : i + 1 \in DOMAIN tasks_ /\ tasks_'[i] = tasks_[i + 1]
      /\ \A i \in DOMAIN tasks_ : i # 1 => i - 1 \in DOMAIN tasks_' /\ tasks_'[i - 1] = tasks_[i]
    BY <1>1, HeadTailProperties, LenProperties
<1> TAKE x \in Sessions
<1>3. (\E i \in DOMAIN tasks_ : tasks_[i] = x)
        <=> (\E i \in DOMAIN tasks_' : tasks_'[i] = x) \/ Head(tasks_) = x
    BY <1>2
<1>4. (\E v \in Workers : session'[v] = x)
        <=> (\E v \in Workers : session[v] = x) \/ Head(tasks_) = x
    BY <1>1, DispatcherAssumption, Zenon
<1> QED
    BY <1>1, <1>3, <1>4, Zenon DEF Scheduled, Runs

(* Every step keeps at most one permission to run a session.               *)
LEMMA PermissionStep == TypeOK /\ OnePermission /\ [Next]_vars => OnePermission'
<1> SUFFICES ASSUME TypeOK, OnePermission, [Next]_vars
             PROVE  Exclusive' /\ \A x \in Sessions : Flagged(x)'
    BY Zenon DEF OnePermission
<1> USE TypeFacts, PermissionStable
    DEF OnePermission, sessionVars, poolVars, worker, reactorVars, history, Go, Leave
<1>0. ASSUME UNCHANGED <<sessionVars, permissionVars>>
      PROVE  OnePermission'
    BY <1>0, Zenon DEF Flagged
<1>1. ASSUME NEW id \in SessionIds, NEW s \in Sessions, OpenSession(id, s)
      PROVE  OnePermission'
    BY <1>0, <1>1, Zenon DEF OpenSession, permissionVars
<1>2. ASSUME NEW id \in SessionIds, CloseSession(id)
      PROVE  OnePermission'
  <2>1. UNCHANGED permissionVars /\ UNCHANGED running
    BY <1>2, Zenon DEF CloseSession, permissionVars
  <2>2. ASSUME NEW x \in Sessions
        PROVE  Flagged(x)'
    BY <1>2, <2>1, Zenon DEF CloseSession, Flagged
  <2> QED
    BY <2>1, <2>2, Zenon
<1>3. ASSUME NEW id \in SessionIds, Submit(id)
      PROVE  OnePermission'
  <2> DEFINE s == sessions_[id]
  <2>1. s \in Sessions /\ ~closed[s] /\ posting = NoSession
    BY <1>3, Zenon DEF Submit, TypeOK
  <2>2. CASE running[s]
    <3>1. UNCHANGED permissionVars /\ UNCHANGED <<running, closed>>
      BY <1>3, <2>1, <2>2, Zenon DEF Submit, MustSchedule, permissionVars
    <3>2. \A x \in Sessions : x # s => commands'[x] = commands[x]
      BY <1>3, Zenon DEF Submit
    <3> QED
      BY <2>1, <2>2, <3>1, <3>2 DEF Flagged
  <2>3. CASE ~running[s]
    <3>1. /\ posting' = s /\ UNCHANGED <<session, tasks_, closed>>
          /\ running' = [running EXCEPT ![s] = TRUE]
          /\ \A x \in Sessions : x # s => commands'[x] = commands[x]
      BY <1>3, <2>1, <2>3, Zenon DEF Submit, MustSchedule
    <3>2. ~Scheduled(s)
      BY <2>1, <2>3, Zenon DEF Flagged
    <3>3. Exclusive'
      BY <2>1, <3>1, <3>2, Zenon DEF Exclusive, SerialExecution, Runs, Scheduled
    <3>4. \A x \in Sessions : Scheduled(x)' <=> Scheduled(x) \/ x = s
      BY <2>1, <3>1, DispatcherAssumption, Zenon DEF Scheduled, Runs
    <3> QED
      BY <2>1, <3>1, <3>3, <3>4, Zenon DEF Flagged
  <2> QED
    BY <2>2, <2>3, Zenon
<1>4. CASE Post
  <2>1. /\ posting \in Sessions /\ posting' = NoSession
        /\ UNCHANGED <<sessionVars, session>>
        /\ tasks_' = Append(tasks_, posting)
    BY <1>4, Zenon DEF Post
  <2>2. Exclusive'
    BY <2>1, DispatcherAssumption, SMTT(20) DEF Exclusive, SerialExecution, Runs
  <2>3. \A x \in Sessions : Scheduled(x)' <=> Scheduled(x)
    BY <1>4, PostKeepsScheduled, Zenon
  <2> QED
    BY <2>1, <2>2, <2>3, Zenon DEF Flagged
<1>5. CASE Stop
    BY <1>0, <1>5, Zenon DEF Stop, permissionVars
<1>6. CASE Joined
    BY <1>0, <1>6, Zenon DEF Joined, permissionVars
<1>7. ASSUME NEW w \in Workers, WorkerStep(w)
      PROVE  OnePermission'
  <2>1. CASE TakeTask(w)
    <3>1. /\ tasks_ # <<>> /\ tasks_' = Tail(tasks_)
          /\ session' = [session EXCEPT ![w] = Head(tasks_)]
          /\ session[w] = NoSession
          /\ UNCHANGED <<sessionVars, posting>>
      BY <2>1, Zenon DEF TakeTask
    <3>a. /\ 1 \in DOMAIN tasks_ /\ Head(tasks_) = tasks_[1] /\ tasks_[1] \in Sessions
          /\ \A i \in DOMAIN tasks_' : i + 1 \in DOMAIN tasks_ /\ tasks_'[i] = tasks_[i + 1]
          /\ \A i \in DOMAIN tasks_ : i # 1 => i - 1 \in DOMAIN tasks_' /\ tasks_'[i - 1] = tasks_[i]
          /\ \A i \in DOMAIN tasks_' : i \in Nat /\ i # 0
      BY <3>1, HeadTailProperties, LenProperties
    <3>2. Exclusive'
      <4>1. SerialExecution'
        BY <3>1, <3>a, SMTT(30) DEF Exclusive, SerialExecution, Runs
      <4>2. \A i, j \in DOMAIN tasks_' : tasks_'[i] = tasks_'[j] => i = j
        BY <3>a DEF Exclusive
      <4>3. \A v \in Workers : \A i \in DOMAIN tasks_' : session'[v] # tasks_'[i]
        BY <3>1, <3>a DEF Exclusive
      <4>4. \A v \in Workers : posting # NoSession => session'[v] # posting
        BY <3>1, <3>a, Zenon DEF Exclusive
      <4>5. \A i \in DOMAIN tasks_' : posting # tasks_'[i]
        BY <3>a DEF Exclusive
      <4> QED
        BY <3>1, <4>1, <4>2, <4>3, <4>4, <4>5, Zenon DEF Exclusive
    <3>3. \A x \in Sessions : Scheduled(x)' <=> Scheduled(x)
      BY <2>1, TakeKeepsScheduled, Zenon
    <3> QED
      BY <3>1, <3>2, <3>3, Zenon DEF Flagged
  <2>2. CASE Exit(w)
    BY <1>0, <2>2, Zenon DEF Exit, permissionVars
  <2>3. CASE FinishSession(w)
    <3> DEFINE s == session[w]
    <3>1. /\ s \in Sessions /\ (closed[s] \/ commands[s] = <<>>)
          /\ session' = [session EXCEPT ![w] = NoSession]
          /\ running' = [running EXCEPT ![s] = FALSE]
          /\ UNCHANGED <<tasks_, posting, commands, closed>>
      BY <2>3, Zenon DEF FinishSession, Release
    <3>2. Exclusive'
      BY <3>1, DispatcherAssumption DEF Exclusive, SerialExecution, Runs
    <3>3. \A x \in Sessions : Scheduled(x)' <=> Scheduled(x) /\ x # s
      BY <3>1, DispatcherAssumption DEF Scheduled, Runs, Exclusive, SerialExecution
    <3> QED
      BY <3>1, <3>2, <3>3, Zenon DEF Flagged
  <2>4. CASE PopCommand(w)
    <3>1. UNCHANGED permissionVars /\ UNCHANGED <<running, closed>>
      BY <2>4, Zenon DEF PopCommand, permissionVars
    <3>2. \A x \in Sessions : commands'[x] # <<>> => commands[x] # <<>>
      BY <2>4, Zenon DEF PopCommand
    <3> QED
      BY <3>1, <3>2, Zenon DEF Flagged
  <2>5. CASE Execute(w)
    BY <1>0, <2>5, Zenon DEF Execute, permissionVars
  <2>6. CASE DropReply(w)
    <3> DEFINE s == session[w]
    <3>1. /\ s \in Sessions /\ closed[s]
          /\ session' = [session EXCEPT ![w] = NoSession]
          /\ UNCHANGED <<tasks_, posting, sessionVars>>
      BY <2>6, Zenon DEF DropReply
    <3>2. Exclusive'
      BY <3>1, DispatcherAssumption DEF Exclusive, SerialExecution, Runs
    <3>3. \A x \in Sessions : Scheduled(x)' <=> Scheduled(x) /\ x # s
      BY <3>1, DispatcherAssumption DEF Scheduled, Runs, Exclusive, SerialExecution
    <3> QED
      BY <3>1, <3>2, <3>3, Zenon DEF Flagged
  <2>7. CASE KeepReply(w)
    BY <1>0, <2>7, Zenon DEF KeepReply, permissionVars
  <2>8. CASE Reply(w)
    BY <1>0, <2>8, Zenon DEF Reply, permissionVars
  <2> QED
    BY <1>7, <2>1, <2>2, <2>3, <2>4, <2>5, <2>6, <2>7, <2>8, Zenon DEF WorkerStep, RunSession
<1>8. CASE Terminated \/ UNCHANGED vars
    BY <1>0, <1>8, Zenon DEF Terminated, vars, permissionVars
<1> QED
    BY <1>1, <1>2, <1>3, <1>4, <1>5, <1>6, <1>7, <1>8, Zenon DEF Next
----------------------------------------------------------------------------
(* The step leaves the worker that runs x, if any, where it is.            *)
SameRunner(x) ==
    \A w \in Workers :
        /\ session'[w] = x <=> session[w] = x
        /\ session[w] = x => at'[w] = at[w] /\ command'[w] = command[w]

(* The step leaves the commands and the histories of x alone.              *)
SameCommands(x) ==
    /\ commands'[x] = commands[x] /\ submitted'[x] = submitted[x]
    /\ executed'[x] = executed[x] /\ replied'[x] = replied[x]

LEMMA SameCommandsStable ==
    ASSUME NEW x, SameCommands(x), closed[x] => closed'[x]
    PROVE  /\ Counted(x) => Counted(x)'
           /\ Settled(x) => Settled(x)'
           /\ \A h \in {0, 1} : Accounted(x, h) => Accounted(x, h)'
BY Zenon DEF SameCommands, Counted, Settled, Accounted

(* A session that a step neither runs, closes nor submits to keeps its     *)
(* order.                                                                  *)
LEMMA OrderStable ==
    ASSUME NEW x \in Sessions, OrderOf(x), SameCommands(x),
           closed'[x] = closed[x] /\ running'[x] = running[x],
           SameRunner(x), Scheduled(x)' => Scheduled(x)
    PROVE  OrderOf(x)'
<1>1. Counted(x)' /\ (Settled(x) => Settled(x)')
    BY SameCommandsStable, Zenon DEF OrderOf
<1>2. ASSUME NEW w \in Workers, Runs(w, x)'
      PROVE  Holding(w, x)'
  <2>1. session[w] = x /\ at'[w] = at[w] /\ command'[w] = command[w]
    BY <1>2, Zenon DEF SameRunner, Runs
  <2>2. Holding(w, x)
    BY <2>1, Zenon DEF OrderOf, Runs
  <2> QED
    BY <1>1, <2>1, <2>2, SameCommandsStable, Zenon DEF Holding, SameCommands
<1>3. (\A w \in Workers : ~Runs(w, x)') => \A w \in Workers : ~Runs(w, x)
    BY Zenon DEF SameRunner, Runs
<1> QED
    BY <1>1, <1>2, <1>3, Zenon DEF OrderOf

(* A session that worker w, and no other, runs after the step.             *)
LEMMA OrderOfRunner ==
    ASSUME NEW x \in Sessions, NEW w \in Workers, session'[w] = x,
           \A v \in Workers : session'[v] = x => v = w,
           Counted(x)', Holding(w, x)'
    PROVE  OrderOf(x)'
BY Zenon DEF OrderOf, Runs

(* A worker that goes from one session to another does not touch a third.  *)
LEMMA GoElsewhere ==
    ASSUME TypeOK, NEW w \in Workers, NEW a, NEW s, NEW c, Go(w, a, s, c),
           NEW x \in Sessions, session[w] # x, s # x
    PROVE  SameRunner(x)
<1>1. /\ at \in [Workers -> Places]
      /\ session \in [Workers -> Sessions \cup {NoSession}]
      /\ command \in [Workers -> 0..MaxCommands]
    BY Zenon DEF TypeOK, Places
<1> QED
    BY <1>1, Zenon DEF Go, SameRunner

(* A sequence that counts 1, 2, 3... still does with its next number.      *)
LEMMA Counting ==
    ASSUME NEW q \in Seq(1..MaxCommands), NEW e \in 1..MaxCommands,
           \A i \in 1..Len(q) : q[i] = i, e = Len(q) + 1,
           NEW r, r = Append(q, e)
    PROVE  \A i \in 1..Len(r) : r[i] = i
<1>1. /\ Len(r) = Len(q) + 1 /\ Len(q) \in Nat
      /\ \A i \in 1..Len(q) : r[i] = q[i]
      /\ r[Len(q) + 1] = e
    BY AppendProperties, LenProperties
<1> DEFINE n == Len(q)
<1>2. /\ n \in Nat /\ \A i \in 1..n : r[i] = i
      /\ r[n + 1] = n + 1
    BY <1>1, Zenon
<1> HIDE DEF n
<1>3. ASSUME NEW i \in 1..(n + 1)
      PROVE  r[i] = i
  <2>1. i \in 1..n \/ i = n + 1
    BY <1>2
  <2> QED
    BY <1>2, <2>1, Zenon
<1> QED
    BY <1>1, <1>3, Zenon DEF n

(* Types and bounds of what OrderOf(x) speaks of.                          *)
LEMMA OrderTypes ==
    ASSUME TypeOK, NEW x \in Sessions
    PROVE  /\ commands[x] \in Seq(1..MaxCommands) /\ Len(commands[x]) \in Nat
           /\ executed[x] \in Seq(1..MaxCommands) /\ Len(executed[x]) \in Nat
           /\ replied[x] \in Seq(1..MaxCommands) /\ Len(replied[x]) \in Nat
           /\ submitted[x] \in Nat /\ submitted[x] \in 0..MaxCommands
<1>1. /\ commands[x] \in Seq(1..MaxCommands) /\ executed[x] \in Seq(1..MaxCommands)
      /\ replied[x] \in Seq(1..MaxCommands) /\ submitted[x] \in 0..MaxCommands
    BY Zenon DEF TypeOK
<1>2. submitted[x] \in Nat
    BY <1>1, DispatcherAssumption
<1> QED
    BY <1>1, <1>2, LenProperties, Zenon

(* Submit puts the next number at the end of the queue.                    *)
LEMMA OrderOfSubmit ==
    ASSUME TypeOK, NEW x \in Sessions, OrderOf(x), NEW id \in SessionIds, Submit(id),
           x = sessions_[id]
    PROVE  OrderOf(x)'
<1>t. /\ commands[x] \in Seq(1..MaxCommands) /\ Len(commands[x]) \in Nat
      /\ executed[x] \in Seq(1..MaxCommands) /\ Len(executed[x]) \in Nat
      /\ replied[x] \in Seq(1..MaxCommands) /\ Len(replied[x]) \in Nat
      /\ submitted[x] \in 0..MaxCommands
    BY OrderTypes, Zenon
<1>n. /\ Len(commands[x]) \in Nat /\ Len(executed[x]) \in Nat
      /\ Len(replied[x]) \in Nat /\ submitted[x] \in Nat
    BY OrderTypes, Zenon
<1> DEFINE n == Len(commands[x])
           e == Len(executed[x])
           s == submitted[x]
<1>i. n \in Nat /\ e \in Nat /\ s \in Nat
    BY <1>n, Zenon
<1> HIDE DEF n, e, s
<1>1. /\ executed' = executed /\ replied' = replied /\ closed' = closed
      /\ at' = at /\ session' = session /\ command' = command
      /\ ~closed[x] /\ submitted'[x] = submitted[x] + 1
      /\ submitted[x] + 1 \in 1..MaxCommands
      /\ commands'[x] = Append(commands[x], submitted[x] + 1)
    BY DispatcherAssumption DEF Submit, TypeOK, worker
<1>2. /\ Len(commands'[x]) = Len(commands[x]) + 1
      /\ \A i \in 1..Len(commands[x]) : commands'[x][i] = commands[x][i]
      /\ commands'[x][Len(commands[x]) + 1] = submitted[x] + 1
    BY <1>1, <1>t, AppendProperties
<1>3. \A i \in 1..Len(commands[x]) : commands[x][i] = submitted[x] - Len(commands[x]) + i
    BY Zenon DEF OrderOf, Counted
<1>4. ASSUME NEW i \in 1..Len(commands'[x])
      PROVE  commands'[x][i] = submitted'[x] - Len(commands'[x]) + i
  <2>1. CASE i \in 1..Len(commands[x])
    <3>1. commands'[x][i] = s - n + i
      BY <1>2, <1>3, <2>1, Zenon DEF s, n
    <3>2. i \in Nat
      BY <2>1
    <3>3. s - n + i = (s + 1) - (n + 1) + i
      BY <1>i, <3>2
    <3> QED
      BY <1>1, <1>2, <3>1, <3>3, Zenon DEF s, n
  <2>2. CASE i = Len(commands[x]) + 1
    BY <1>1, <1>2, <1>n, <2>2
  <2>3. i \in 1..Len(commands[x]) \/ i = Len(commands[x]) + 1
    BY <1>2, <1>t
  <2> QED
    BY <2>1, <2>2, <2>3, Zenon
<1>5. Counted(x)'
    BY <1>1, <1>4, Zenon DEF OrderOf, Counted
<1>6. ASSUME NEW held \in {0, 1}, Accounted(x, held)
      PROVE  Accounted(x, held)'
  <2>1. Len(executed'[x]) = Len(executed[x])
    BY <1>1, Zenon
  <2>2. s = e + held + n
    BY <1>1, <1>6, Zenon DEF Accounted, s, e, n
  <2>3. s + 1 = e + held + (n + 1)
    BY <1>i, <2>2
  <2> QED
    BY <1>1, <1>2, <2>1, <2>3, Zenon DEF Accounted, s, e, n
<1>7. /\ Accounted(x, 0) => Accounted(x, 0)'
      /\ Accounted(x, 1) => Accounted(x, 1)'
    BY <1>6, Zenon
<1>8. Settled(x) => Settled(x)'
    BY <1>1, <1>7, SMTT(20) DEF Settled
<1>9. \A w \in Workers : Holding(w, x) => Holding(w, x)'
    BY <1>1, <1>7, <1>8, Zenon DEF Holding
<1> QED
    BY <1>1, <1>5, <1>8, <1>9, Zenon DEF OrderOf, Runs

(* PopCommand hands the oldest queued command to the worker.               *)
LEMMA OrderOfPop ==
    ASSUME TypeOK, NEW x \in Sessions, OrderOf(x), NEW w \in Workers, PopCommand(w),
           x = session[w], \A v \in Workers : session[v] = x => v = w
    PROVE  OrderOf(x)'
<1>t. /\ commands[x] \in Seq(1..MaxCommands) /\ Len(commands[x]) \in Nat
      /\ executed[x] \in Seq(1..MaxCommands) /\ Len(executed[x]) \in Nat
      /\ replied[x] \in Seq(1..MaxCommands) /\ Len(replied[x]) \in Nat
      /\ submitted[x] \in 0..MaxCommands
    BY OrderTypes, Zenon
<1>n. /\ Len(commands[x]) \in Nat /\ Len(executed[x]) \in Nat
      /\ Len(replied[x]) \in Nat /\ submitted[x] \in Nat
    BY OrderTypes, Zenon
<1> DEFINE n == Len(commands[x])
           e == Len(executed[x])
           s == submitted[x]
<1>i. n \in Nat /\ e \in Nat /\ s \in Nat
    BY <1>n, Zenon
<1> HIDE DEF n, e, s
<1>1. /\ commands[x] # <<>> /\ commands'[x] = Tail(commands[x])
      /\ at[w] = "popping" /\ at'[w] = "executing"
      /\ session' = session /\ command'[w] = Head(commands[x])
      /\ executed' = executed /\ replied' = replied
      /\ closed' = closed /\ submitted' = submitted
    BY Zenon DEF PopCommand, NextCommand, Go, TypeOK, history
<1>2. /\ Head(commands[x]) = commands[x][1] /\ Len(commands[x]) > 0
      /\ Len(commands'[x]) = Len(commands[x]) - 1
      /\ \A i \in 1..Len(commands'[x]) : commands'[x][i] = commands[x][i + 1]
    BY <1>1, <1>t, HeadTailProperties
<1>3. \A i \in 1..Len(commands[x]) : commands[x][i] = submitted[x] - Len(commands[x]) + i
    BY Zenon DEF OrderOf, Counted
<1>4. ASSUME NEW i \in 1..Len(commands'[x])
      PROVE  commands'[x][i] = submitted[x] - Len(commands'[x]) + i
  <2>1. i + 1 \in 1..Len(commands[x])
    BY <1>2, <1>t
  <2>2. commands[x][i + 1] = s - n + (i + 1)
    BY <1>3, <2>1, Zenon DEF s, n
  <2>3. i \in Nat
    OBVIOUS
  <2>4. s - n + (i + 1) = s - (n - 1) + i
    BY <1>i, <2>3
  <2> QED
    BY <1>2, <2>2, <2>4, Zenon DEF s, n
<1>5. Counted(x)'
    BY <1>1, <1>4, Zenon DEF OrderOf, Counted
<1>6. Len(executed[x]) = Len(replied[x]) /\ Accounted(x, 0)
    BY <1>1, Zenon DEF OrderOf, Holding, Settled, Runs
<1>7. Accounted(x, 1)'
  <2>1. Len(executed'[x]) = Len(executed[x]) /\ closed'[x] = closed[x]
        /\ submitted'[x] = submitted[x]
    BY <1>1, Zenon
  <2>2. ASSUME ~closed[x]
        PROVE  s = e + 1 + (n - 1)
    <3>1. s = e + 0 + n
      BY <1>6, <2>2, Zenon DEF Accounted, s, e, n
    <3> QED
      BY <1>i, <3>1
  <2> QED
    BY <1>2, <2>1, <2>2, Zenon DEF Accounted, s, e, n
<1>8. command'[w] = Len(executed'[x]) + 1
  <2>1. 1 \in 1..Len(commands[x]) /\ ~closed[x]
    BY <1>2, <1>t DEF PopCommand
  <2>2. commands[x][1] = submitted[x] - Len(commands[x]) + 1
    BY <1>3, <2>1, Zenon
  <2>3. submitted[x] = Len(executed[x]) + 0 + Len(commands[x])
    BY <1>6, <2>1, Zenon DEF Accounted
  <2>4. commands[x][1] = Len(executed[x]) + 1
    BY <1>n, <2>2, <2>3
  <2> QED
    BY <1>1, <1>2, <2>4, Zenon
<1>9. Holding(w, x)'
    BY <1>1, <1>6, <1>7, <1>8, Zenon DEF Holding
<1> QED
    BY <1>1, <1>5, <1>9, OrderOfRunner, Zenon

(* Execute adds the worker's command to the executed ones.                 *)
LEMMA OrderOfExecute ==
    ASSUME TypeOK, NEW x \in Sessions, OrderOf(x), NEW w \in Workers, Execute(w),
           x = session[w], \A v \in Workers : session[v] = x => v = w
    PROVE  OrderOf(x)'
<1>t. /\ commands[x] \in Seq(1..MaxCommands) /\ Len(commands[x]) \in Nat
      /\ executed[x] \in Seq(1..MaxCommands) /\ Len(executed[x]) \in Nat
      /\ replied[x] \in Seq(1..MaxCommands) /\ Len(replied[x]) \in Nat
      /\ submitted[x] \in 0..MaxCommands
    BY OrderTypes, Zenon
<1>n. /\ Len(commands[x]) \in Nat /\ Len(executed[x]) \in Nat
      /\ Len(replied[x]) \in Nat /\ submitted[x] \in Nat
    BY OrderTypes, Zenon
<1> DEFINE n == Len(commands[x])
           e == Len(executed[x])
           s == submitted[x]
<1>i. n \in Nat /\ e \in Nat /\ s \in Nat
    BY <1>n, Zenon
<1> HIDE DEF n, e, s
<1>1. /\ at[w] = "executing" /\ at'[w] = "checking"
      /\ session' = session /\ command'[w] = command[w]
      /\ commands' = commands /\ closed' = closed
      /\ submitted' = submitted /\ replied' = replied
      /\ executed'[x] = Append(executed[x], command[w])
      /\ command[w] \in 0..MaxCommands
  <2>1. /\ at \in [Workers -> Places] /\ command \in [Workers -> 0..MaxCommands]
        /\ session \in [Workers -> Sessions \cup {NoSession}]
        /\ executed \in [Sessions -> Seq(1..MaxCommands)]
    BY Zenon DEF TypeOK, Places
  <2> QED
    BY <2>1, Zenon DEF Execute, Go, sessionVars
<1>2. /\ command[w] = Len(executed[x]) + 1 /\ Len(executed[x]) = Len(replied[x])
      /\ Accounted(x, 1)
  <2>1. Holding(w, x)
    BY <1>1, Zenon DEF OrderOf, Runs
  <2> QED
    BY <1>1, <2>1, Zenon DEF Holding
<1>3. command[w] \in 1..MaxCommands
    BY <1>1, <1>2, <1>t
<1>4. Len(executed'[x]) = Len(executed[x]) + 1
    BY <1>1, <1>3, <1>t, AppendProperties
<1>5. \A i \in 1..Len(executed'[x]) : executed'[x][i] = i
  <2>1. \A i \in 1..Len(executed[x]) : executed[x][i] = i
    BY Zenon DEF OrderOf, Counted
  <2> QED
    BY <1>1, <1>2, <1>3, <2>1, <1>t, Counting, Zenon
<1>6. /\ Len(replied'[x]) <= Len(executed'[x]) /\ Len(executed'[x]) <= Len(replied'[x]) + 1
      /\ Len(executed'[x]) = Len(replied'[x]) + 1
    BY <1>1, <1>2, <1>4, <1>t
<1>7. Counted(x)'
  <2>1. Counted(x)
    BY Zenon DEF OrderOf
  <2> QED
    BY <1>1, <1>5, <1>6, <2>1, Zenon DEF Counted
<1>8. Accounted(x, 0)'
  <2>1. /\ closed'[x] = closed[x] /\ submitted'[x] = submitted[x]
        /\ Len(commands'[x]) = Len(commands[x])
    BY <1>1, Zenon
  <2>2. ASSUME ~closed[x]
        PROVE  s = (e + 1) + 0 + n
    <3>1. s = e + 1 + n
      BY <1>2, <2>2, Zenon DEF Accounted, s, e, n
    <3> QED
      BY <1>i, <3>1
  <2> QED
    BY <1>4, <2>1, <2>2, Zenon DEF Accounted, s, e, n
<1>9. Holding(w, x)'
    BY <1>1, <1>2, <1>4, <1>6, <1>8, Zenon DEF Holding
<1> QED
    BY <1>1, <1>7, <1>9, OrderOfRunner, Zenon

(* Reply adds it to the answered ones.                                     *)
LEMMA OrderOfReply ==
    ASSUME TypeOK, NEW x \in Sessions, OrderOf(x), NEW w \in Workers, Reply(w),
           x = session[w], \A v \in Workers : session[v] = x => v = w
    PROVE  OrderOf(x)'
<1>t. /\ commands[x] \in Seq(1..MaxCommands) /\ Len(commands[x]) \in Nat
      /\ executed[x] \in Seq(1..MaxCommands) /\ Len(executed[x]) \in Nat
      /\ replied[x] \in Seq(1..MaxCommands) /\ Len(replied[x]) \in Nat
      /\ submitted[x] \in 0..MaxCommands
    BY OrderTypes, Zenon
<1>n. /\ Len(commands[x]) \in Nat /\ Len(executed[x]) \in Nat
      /\ Len(replied[x]) \in Nat /\ submitted[x] \in Nat
    BY OrderTypes, Zenon
<1>1. /\ at[w] = "replying" /\ at'[w] = "popping" /\ session' = session
      /\ commands' = commands /\ closed' = closed
      /\ submitted' = submitted /\ executed' = executed
      /\ replied'[x] = Append(replied[x], command[w])
      /\ command[w] \in 0..MaxCommands
  <2>1. /\ at \in [Workers -> Places] /\ command \in [Workers -> 0..MaxCommands]
        /\ session \in [Workers -> Sessions \cup {NoSession}]
        /\ replied \in [Sessions -> Seq(1..MaxCommands)]
    BY Zenon DEF TypeOK, Places
  <2> QED
    BY <2>1, Zenon DEF Reply, Go, sessionVars
<1>2. /\ command[w] = Len(executed[x]) /\ Len(executed[x]) = Len(replied[x]) + 1
      /\ Accounted(x, 0)
  <2>1. Holding(w, x)
    BY <1>1, Zenon DEF OrderOf, Runs
  <2> QED
    BY <1>1, <2>1, Zenon DEF Holding
<1>3. command[w] \in 1..MaxCommands /\ command[w] = Len(replied[x]) + 1
    BY <1>1, <1>2, <1>t
<1>4. Len(replied'[x]) = Len(replied[x]) + 1
    BY <1>1, <1>3, <1>t, AppendProperties
<1>5. \A i \in 1..Len(replied'[x]) : replied'[x][i] = i
  <2>1. \A i \in 1..Len(replied[x]) : replied[x][i] = i
    BY Zenon DEF OrderOf, Counted
  <2> QED
    BY <1>1, <1>3, <2>1, <1>t, Counting, Zenon
<1>6. /\ Len(replied'[x]) <= Len(executed'[x]) /\ Len(executed'[x]) <= Len(replied'[x]) + 1
      /\ Len(executed'[x]) = Len(replied'[x])
    BY <1>1, <1>2, <1>4, <1>t
<1>7. Counted(x)'
  <2>1. Counted(x)
    BY Zenon DEF OrderOf
  <2> QED
    BY <1>1, <1>5, <1>6, <2>1, Zenon DEF Counted
<1>8. Settled(x)'
    BY <1>1, <1>2, <1>6, Zenon DEF Settled, Accounted
<1>9. Holding(w, x)'
    BY <1>1, <1>8, Zenon DEF Holding
<1> QED
    BY <1>1, <1>7, <1>9, OrderOfRunner, Zenon


(* The variables of the dispatcher keep their types.                       *)
THEOREM TypeCorrect == Spec => []TypeOK
BY InitType, TypeStep, PTL DEF Spec

(* Every step keeps the order of every session.                            *)
LEMMA OrderStep ==
    ASSUME TypeOK, OnePermission, NEW x \in Sessions, OrderOf(x), Next
    PROVE  OrderOf(x)'
<1> USE DEF sessionVars, poolVars, worker, reactorVars, history
<1>t. /\ commands \in [Sessions -> Seq(1..MaxCommands)]
      /\ executed \in [Sessions -> Seq(1..MaxCommands)]
      /\ replied \in [Sessions -> Seq(1..MaxCommands)]
      /\ submitted \in [Sessions -> 0..MaxCommands]
    BY Zenon DEF TypeOK
<1>f. /\ session \in [Workers -> Sessions \cup {NoSession}]
      /\ at \in [Workers -> Places] /\ command \in [Workers -> 0..MaxCommands]
    BY Zenon DEF TypeOK, Places
<1>g. running \in [Sessions -> BOOLEAN] /\ closed \in [Sessions -> BOOLEAN]
    BY Zenon DEF TypeOK
<1>p. session' = session /\ tasks_' = tasks_ /\ posting' = posting =>
        (Scheduled(x)' <=> Scheduled(x))
    BY PermissionStable, Zenon DEF permissionVars
<1>q. UNCHANGED worker => SameRunner(x)
    BY Zenon DEF SameRunner
<1>h. UNCHANGED <<commands, history>> => SameCommands(x)
    BY SMTT(20) DEF SameCommands
<1>1. ASSUME NEW id \in SessionIds, NEW s \in Sessions, OpenSession(id, s)
      PROVE  OrderOf(x)'
    BY <1>p, <1>q, <1>h, <1>1, OrderStable, Zenon DEF OpenSession
<1>2. ASSUME NEW id \in SessionIds, CloseSession(id)
      PROVE  OrderOf(x)'
  <2>1. UNCHANGED <<worker, reactorVars, poolVars, running, history>>
    BY <1>2, Zenon DEF CloseSession
  <2>2. Scheduled(x)' <=> Scheduled(x)
    BY <1>p, <2>1, Zenon
  <2>3. CASE x # sessions_[id]
    <3>1. commands'[x] = commands[x] /\ closed'[x] = closed[x]
      BY <1>2, <1>t, <1>g, <2>3, Zenon DEF CloseSession
    <3>2. SameCommands(x)
      BY <2>1, <3>1, Zenon DEF SameCommands
    <3> QED
      BY <1>q, <2>1, <2>2, <3>1, <3>2, OrderStable, Zenon
  <2>4. CASE x = sessions_[id]
    <3>1. commands'[x] = <<>> /\ closed'[x]
      BY <1>2, <1>t, <1>g, <2>4, Zenon DEF CloseSession
    <3>2. Len(commands'[x]) = 0 /\ \A i \in 1..0 : FALSE
      BY <3>1
    <3>3. Counted(x)'
      BY <2>1, <3>2, Zenon DEF OrderOf, Counted
    <3>4. /\ Accounted(x, 0)' /\ Accounted(x, 1)' /\ (Settled(x) => Settled(x)')
      BY <2>1, <3>1, Zenon DEF Accounted, Settled
    <3>5. \A w \in Workers : Holding(w, x) => Holding(w, x)'
      BY <2>1, <3>4, Zenon DEF Holding
    <3>6. \A w \in Workers : Runs(w, x)' <=> Runs(w, x)
      BY <2>1, Zenon DEF Runs
    <3> QED
      BY <2>1, <2>2, <3>1, <3>3, <3>4, <3>5, <3>6, Zenon DEF OrderOf
  <2> QED
    BY <2>3, <2>4, Zenon
<1>3. ASSUME NEW id \in SessionIds, Submit(id)
      PROVE  OrderOf(x)'
  <2>1. CASE x # sessions_[id]
    <3>1. /\ UNCHANGED <<worker, tasks_, closed, executed, replied>>
          /\ posting' \in {NoSession, sessions_[id]}
      BY <1>3, Zenon DEF Submit
    <3>2. Scheduled(x)' => Scheduled(x)
      BY <2>1, <3>1, DispatcherAssumption, Zenon DEF Scheduled, Runs
    <3>3. /\ commands'[x] = commands[x] /\ submitted'[x] = submitted[x]
          /\ running'[x] = running[x]
      BY <1>3, <1>t, <1>g, <2>1, Zenon DEF Submit
    <3>4. SameCommands(x)
      BY <3>1, <3>3, Zenon DEF SameCommands
    <3> QED
      BY <1>q, <3>1, <3>2, <3>3, <3>4, OrderStable, Zenon
  <2> QED
    BY <1>3, <2>1, OrderOfSubmit, Zenon
<1>4. CASE Post
  <2>1. UNCHANGED <<sessionVars, worker, history>>
    BY <1>4, Zenon DEF Post
  <2>2. Scheduled(x)' => Scheduled(x)
    BY <1>4, PostKeepsScheduled, Zenon
  <2> QED
    BY <1>q, <1>h, <2>1, <2>2, OrderStable, Zenon
<1>5. CASE Stop
    BY <1>p, <1>q, <1>h, <1>5, OrderStable, Zenon DEF Stop
<1>6. CASE Joined
    BY <1>p, <1>q, <1>h, <1>6, OrderStable, Zenon DEF Joined
<1>7. ASSUME NEW w \in Workers, WorkerStep(w)
      PROVE  OrderOf(x)'
  <2>a. session[w] = x => \A v \in Workers : session[v] = x => v = w
    BY Zenon DEF OnePermission, Exclusive, SerialExecution, Runs
  <2>b. at[w] \notin {"waiting", "exited"} => session[w] \in Sessions
    BY TypeFacts, Zenon
  <2>1. CASE TakeTask(w)
    <3>1. /\ UNCHANGED <<sessionVars, history>> /\ (Scheduled(x)' <=> Scheduled(x))
      BY <2>1, TakeKeepsScheduled, Zenon DEF TakeTask
    <3>2. Head(tasks_) = tasks_[1] /\ 1 \in DOMAIN tasks_
      BY <2>1, TypeFacts, HeadTailProperties, LenProperties DEF TakeTask
    <3>3. session[w] = NoSession /\ Go(w, "popping", tasks_[1], 0)
      BY <2>1, <3>2, TypeFacts, Zenon DEF TakeTask
    <3>4. CASE x # tasks_[1]
      <4>1. SameRunner(x)
        BY <3>3, <3>4, GoElsewhere, DispatcherAssumption, Zenon
      <4> QED
        BY <1>h, <3>1, <4>1, OrderStable, Zenon
    <3>5. CASE x = tasks_[1]
      <4>1. \A v \in Workers : ~Runs(v, x)
        BY <3>2, <3>5, Zenon DEF OnePermission, Exclusive, Runs
      <4>2. Scheduled(x)
        BY <3>2, <3>5, Zenon DEF Scheduled
      <4>3. Counted(x) /\ Settled(x)
        BY <4>1, <4>2, Zenon DEF OrderOf
      <4>4. Counted(x)' /\ Settled(x)'
        BY <1>h, <3>1, <4>3, SameCommandsStable, Zenon
      <4>5. /\ session'[w] = x /\ at'[w] = "popping"
            /\ \A v \in Workers : session'[v] = x => v = w
        BY <1>f, <3>3, <3>5, <4>1, Zenon DEF Go, Runs
      <4>6. Holding(w, x)'
        BY <4>4, <4>5, SMTT(20) DEF Holding
      <4> QED
        BY <4>4, <4>5, <4>6, OrderOfRunner, Zenon
    <3> QED
      BY <3>4, <3>5, Zenon
  <2>2. CASE Exit(w)
    <3>1. session[w] = NoSession /\ Go(w, "exited", NoSession, 0)
      BY <2>2, TypeFacts, Zenon DEF Exit, Leave
    <3>2. SameRunner(x)
      BY <3>1, GoElsewhere, DispatcherAssumption, Zenon
    <3>3. session' = session
      BY <1>f, <3>1, Zenon DEF Go
    <3> QED
      BY <1>h, <1>p, <2>2, <3>2, <3>3, OrderStable, Zenon DEF Exit
  <2>3. CASE FinishSession(w)
    <3>1. /\ Go(w, "waiting", NoSession, 0)
          /\ running' = [running EXCEPT ![session[w]] = FALSE]
          /\ UNCHANGED <<commands, closed, poolVars, reactorVars, history>>
          /\ at[w] = "popping" /\ session[w] \in Sessions
      BY <2>3, <2>b, Zenon DEF FinishSession, Leave, Release
    <3>2. CASE x # session[w]
      <4>1. SameRunner(x)
        BY <3>1, <3>2, GoElsewhere, DispatcherAssumption, Zenon
      <4>2. running'[x] = running[x]
        BY <1>g, <3>1, <3>2, Zenon
      <4>3. Scheduled(x)' => Scheduled(x)
        BY <3>1, <4>1, SMTT(20) DEF Scheduled, Runs, SameRunner
      <4> QED
        BY <1>h, <3>1, <4>1, <4>2, <4>3, OrderStable, Zenon
    <3>3. CASE x = session[w]
      <4>1. \A v \in Workers : ~Runs(v, x)'
        BY <1>f, <2>a, <3>1, <3>3, DispatcherAssumption, Zenon DEF Runs, Go
      <4>2. Counted(x) /\ Settled(x)
        BY <3>1, <3>3, Zenon DEF OrderOf, Holding, Runs
      <4>3. Counted(x)' /\ Settled(x)'
        BY <1>h, <3>1, <4>2, SameCommandsStable, Zenon
      <4> QED
        BY <4>1, <4>3, Zenon DEF OrderOf
    <3> QED
      BY <3>2, <3>3, Zenon
  <2>4. CASE PopCommand(w)
    <3>1. CASE x # session[w]
      <4>1. SameRunner(x)
        BY <2>4, <3>1, GoElsewhere, Zenon DEF PopCommand
      <4>2. commands'[x] = commands[x] /\ session' = session
        BY <1>t, <1>f, <2>4, <3>1, Zenon DEF PopCommand, Go
      <4>3. SameCommands(x)
        BY <2>4, <4>2, Zenon DEF PopCommand, SameCommands
      <4> QED
        BY <1>p, <2>4, <4>1, <4>2, <4>3, OrderStable, SMTT(20) DEF PopCommand
    <3> QED
      BY <2>4, <2>a, <3>1, OrderOfPop, Zenon
  <2>5. CASE Execute(w)
    <3>1. CASE x # session[w]
      <4>1. SameRunner(x)
        BY <2>5, <3>1, GoElsewhere, Zenon DEF Execute
      <4>2. executed'[x] = executed[x] /\ session' = session
        BY <1>t, <1>f, <2>5, <3>1, Zenon DEF Execute, Go
      <4>3. SameCommands(x)
        BY <2>5, <4>2, SMTT(20) DEF Execute, SameCommands
      <4> QED
        BY <1>p, <2>5, <4>1, <4>2, <4>3, OrderStable, Zenon DEF Execute
    <3> QED
      BY <2>5, <2>a, <3>1, OrderOfExecute, Zenon
  <2>6. CASE DropReply(w)
    <3>1. /\ Go(w, "waiting", NoSession, 0)
          /\ UNCHANGED <<sessionVars, poolVars, reactorVars, history>>
          /\ session[w] \in Sessions /\ closed[session[w]]
      BY <2>6, <2>b, SMTT(20) DEF DropReply, Leave
    <3>2. CASE x # session[w]
      <4>1. SameRunner(x)
        BY <3>1, <3>2, GoElsewhere, DispatcherAssumption, Zenon
      <4>2. Scheduled(x)' => Scheduled(x)
        BY <3>1, <4>1, SMTT(20) DEF Scheduled, Runs, SameRunner
      <4> QED
        BY <1>h, <3>1, <4>1, <4>2, OrderStable, Zenon
    <3>3. CASE x = session[w]
      <4>1. \A v \in Workers : ~Runs(v, x)'
        BY <1>f, <2>a, <3>1, <3>3, DispatcherAssumption, Zenon DEF Runs, Go
      <4>2. running[x]
        BY <3>3, Zenon DEF OnePermission, Flagged, Scheduled, Runs
      <4>3. (\A i \in DOMAIN tasks_ : tasks_[i] # x) /\ posting # x
        BY <3>1, <3>3, DispatcherAssumption, Zenon DEF OnePermission, Exclusive
      <4>4. ~Scheduled(x)'
        BY <3>1, <4>1, <4>3, SMTT(20) DEF Scheduled
      <4>5. Counted(x)'
        BY <1>h, <3>1, SameCommandsStable, Zenon DEF OrderOf
      <4> QED
        BY <3>1, <3>3, <4>1, <4>2, <4>4, <4>5, Zenon DEF OrderOf
    <3> QED
      BY <3>2, <3>3, Zenon
  <2>7. CASE KeepReply(w)
    <3>1. CASE x # session[w]
      <4>1. SameRunner(x) /\ session' = session
        BY <1>f, <2>7, <3>1, GoElsewhere, Zenon DEF KeepReply, Go
      <4> QED
        BY <1>h, <1>p, <2>7, <4>1, OrderStable, Zenon DEF KeepReply
    <3>2. CASE x = session[w]
      <4>1. /\ session' = session /\ at[w] = "checking" /\ at'[w] = "replying"
            /\ command'[w] = command[w]
            /\ UNCHANGED <<sessionVars, history>>
        BY <1>f, <2>7, Zenon DEF KeepReply, Go
      <4>2. Counted(x) /\ Holding(w, x)
        BY <3>2, Zenon DEF OrderOf, Runs
      <4>3. Counted(x)' /\ Holding(w, x)'
        BY <4>1, <4>2, Zenon DEF Counted, Holding, Settled, Accounted
      <4> QED
        BY <2>a, <3>2, <4>1, <4>3, OrderOfRunner, Zenon
    <3> QED
      BY <3>1, <3>2, Zenon
  <2>8. CASE Reply(w)
    <3>1. CASE x # session[w]
      <4>1. SameRunner(x)
        BY <2>8, <3>1, GoElsewhere, Zenon DEF Reply
      <4>2. replied'[x] = replied[x] /\ session' = session
        BY <1>t, <1>f, <2>8, <3>1, Zenon DEF Reply, Go
      <4>3. SameCommands(x)
        BY <2>8, <4>2, SMTT(20) DEF Reply, SameCommands
      <4> QED
        BY <1>p, <2>8, <4>1, <4>2, <4>3, OrderStable, Zenon DEF Reply
    <3> QED
      BY <2>8, <2>a, <3>1, OrderOfReply, Zenon
  <2> QED
    BY <1>7, <2>1, <2>2, <2>3, <2>4, <2>5, <2>6, <2>7, <2>8, Zenon DEF WorkerStep, RunSession
<1>8. CASE Terminated
    BY <1>p, <1>q, <1>h, <1>8, OrderStable, Zenon DEF Terminated, vars
<1> QED
    BY <1>1, <1>2, <1>3, <1>4, <1>5, <1>6, <1>7, <1>8, Zenon DEF Next

----------------------------------------------------------------------------
(* Stop only goes forward, and nothing is queued once a worker has left.   *)
LEMMA DrainStep == TypeOK /\ Draining /\ [Next]_vars => Draining'
<1> SUFFICES ASSUME TypeOK, Draining, [Next]_vars
             PROVE  Draining'
    BY Zenon
<1> USE DEF Draining, sessionVars, poolVars, worker, reactorVars, history
<1>0. /\ at \in [Workers -> {"waiting", "exited", "popping",
                             "executing", "checking", "replying"}]
      /\ stopping_ \in BOOLEAN
    BY Zenon DEF TypeOK
<1>1. ASSUME NEW id \in SessionIds, NEW s \in Sessions, OpenSession(id, s)
      PROVE  Draining'
    BY <1>0, <1>1, Zenon DEF OpenSession
<1>2. ASSUME NEW id \in SessionIds, CloseSession(id)
      PROVE  Draining'
    BY <1>0, <1>2, Zenon DEF CloseSession
<1>3. ASSUME NEW id \in SessionIds, Submit(id)
      PROVE  Draining'
    BY <1>0, <1>3, Zenon DEF Submit
<1>4. CASE Post
    BY <1>0, <1>4, Zenon DEF Post
<1>5. CASE Stop
    BY <1>0, <1>5, Zenon DEF Stop
<1>6. CASE Joined
    BY <1>0, <1>6, Zenon DEF Joined
<1>7. ASSUME NEW w \in Workers, WorkerStep(w)
      PROVE  Draining'
  <2>1. CASE TakeTask(w)
    BY <1>0, <2>1, Zenon DEF TakeTask, Go
  <2>2. CASE Exit(w)
    BY <1>0, <2>2, Zenon DEF Exit, MayExit, Leave, Go
  <2>3. CASE RunSession(w)
    <3>1. /\ UNCHANGED <<poolVars, reactor>>
          /\ at[w] # "exited"
          /\ \E a \in {"waiting", "popping", "executing", "checking", "replying"} :
                at' = [at EXCEPT ![w] = a]
      BY <2>3, Zenon DEF RunSession, FinishSession, PopCommand, Execute, DropReply, KeepReply,
                  Reply, Leave, Go
    <3> QED
      BY <1>0, <3>1, Zenon
  <2> QED
    BY <1>7, <2>1, <2>2, <2>3, Zenon DEF WorkerStep
<1>8. CASE UNCHANGED vars
    BY <1>8, Zenon DEF vars
<1> HIDE DEF Draining
<1> QED
    BY <1>1, <1>2, <1>3, <1>4, <1>5, <1>6, <1>7, <1>8, Zenon DEF Next, Terminated

(* The strengthening is inductive.                                         *)
THEOREM Invariance == Spec => []IInv
<1>1. Init => IInv
  <2> SUFFICES ASSUME Init PROVE IInv
    BY Zenon
  <2>1. TypeOK
    BY InitType, Zenon
  <2>2. /\ \A w \in Workers : session[w] = NoSession
        /\ tasks_ = <<>> /\ posting = NoSession
        /\ \A s \in Sessions : commands[s] = <<>> /\ ~running[s] /\ submitted[s] = 0
                              /\ executed[s] = <<>> /\ replied[s] = <<>>
    BY Zenon DEF Init
  <2>3. DOMAIN tasks_ = {} /\ \A s \in Sessions : ~Scheduled(s)
    BY <2>2, DispatcherAssumption DEF Scheduled, Runs
  <2>4. OnePermission
    BY <2>2, <2>3, DispatcherAssumption, Zenon
    DEF OnePermission, Exclusive, SerialExecution, Flagged, Runs
  <2>5. ASSUME NEW s \in Sessions
        PROVE  OrderOf(s)
    <3>1. /\ Len(executed[s]) = 0 /\ Len(replied[s]) = 0 /\ Len(commands[s]) = 0
          /\ submitted[s] = 0 /\ \A w \in Workers : ~Runs(w, s)
      BY <2>2, DispatcherAssumption DEF Runs
    <3>2. \A n \in 1..0 : FALSE
      OBVIOUS
    <3>3. Counted(s) /\ Settled(s)
      BY <3>1, <3>2 DEF Counted, Settled, Accounted
    <3> QED
      BY <3>1, <3>3, Zenon DEF OrderOf
  <2>6. Draining
    BY Zenon DEF Init, Draining
  <2> QED
    BY <2>1, <2>4, <2>5, <2>6, Zenon DEF IInv
<1>2. IInv /\ [Next]_vars => IInv'
  <2>1. ASSUME TypeOK, OnePermission, \A s \in Sessions : OrderOf(s), [Next]_vars
        PROVE  \A s \in Sessions : OrderOf(s)'
    <3>1. CASE Next
      BY <2>1, <3>1, OrderStep, Zenon
    <3>2. CASE UNCHANGED vars
      <4> SUFFICES ASSUME NEW s \in Sessions
                   PROVE  OrderOf(s)'
        BY Zenon
      <4>1. UNCHANGED <<sessionVars, worker, history, permissionVars>>
        BY <3>2, Zenon DEF vars, permissionVars, poolVars, worker, reactorVars
      <4>2. SameCommands(s) /\ SameRunner(s)
        BY <4>1, Zenon DEF sessionVars, worker, history, SameCommands, SameRunner
      <4>3. Scheduled(s)' => Scheduled(s)
        BY <4>1, PermissionStable, Zenon
      <4> QED
        BY <2>1, <4>1, <4>2, <4>3, OrderStable, Zenon DEF sessionVars
    <3> QED
      BY <2>1, <3>1, <3>2, Zenon
  <2> QED
    BY <2>1, TypeStep, PermissionStep, DrainStep, Zenon DEF IInv
<1> QED
    BY <1>1, <1>2, PTL DEF Spec

(* Two workers never run the same session.                                 *)
THEOREM Serial == Spec => []SerialExecution
<1>1. IInv => SerialExecution
    BY Zenon DEF IInv, OnePermission, Exclusive
<1> QED
    BY <1>1, Invariance, PTL

(* A queued command always has somebody coming for it.                     *)
THEOREM NoLostWakeUp == Spec => []NoStrandedCommand
<1>1. IInv => NoStrandedCommand
    BY Zenon DEF IInv, OnePermission, Flagged, NoStrandedCommand
<1> QED
    BY <1>1, Invariance, PTL

(* Commands are executed and answered in the order of submission.          *)
THEOREM InOrder == Spec => []PipelineOrder
<1>1. IInv => PipelineOrder
  <2> SUFFICES ASSUME IInv, NEW s \in Sessions
               PROVE  /\ \A i \in DOMAIN executed[s] : executed[s][i] = i
                      /\ \A i \in DOMAIN replied[s] : replied[s][i] = i
                      /\ Len(replied[s]) <= Len(executed[s])
                      /\ Len(executed[s]) <= Len(replied[s]) + 1
    BY Zenon DEF PipelineOrder
  <2>1. executed[s] \in Seq(1..MaxCommands) /\ replied[s] \in Seq(1..MaxCommands)
    BY Zenon DEF IInv, TypeOK
  <2>2. DOMAIN executed[s] = 1..Len(executed[s]) /\ DOMAIN replied[s] = 1..Len(replied[s])
    BY <2>1, LenProperties, Zenon
  <2> QED
    BY <2>2, Zenon DEF IInv, OrderOf, Counted
<1> QED
    BY <1>1, Invariance, PTL

(* Stop returns only when every command it found has been answered.        *)
THEOREM StopIsClean == Spec => []StopDrains
<1>1. IInv => StopDrains
  <2> SUFFICES ASSUME IInv, reactor = "stopped", NEW s \in Sessions, ~closed[s]
               PROVE  Len(replied[s]) = submitted[s]
    BY Zenon DEF StopDrains
  <2>1. /\ \A w \in Workers : at[w] = "exited"
        /\ tasks_ = <<>>
    BY PoolAssumption, Zenon DEF IInv, Draining
  <2>2. /\ \A w \in Workers : session[w] = NoSession
        /\ posting = NoSession
    BY <2>1, TypeFacts, Zenon DEF IInv
  <2>3. ~Scheduled(s) /\ \A w \in Workers : ~Runs(w, s)
    BY <2>1, <2>2, DispatcherAssumption DEF Scheduled, Runs
  <2>4. commands[s] = <<>>
    BY <2>3, Zenon DEF IInv, OnePermission, Flagged
  <2>5. Len(executed[s]) = Len(replied[s]) /\ Accounted(s, 0)
    BY <2>3, Zenon DEF IInv, OrderOf, Settled
  <2>6. executed \in [Sessions -> Seq(1..MaxCommands)] /\ Len(commands[s]) = 0
    BY <2>4, Zenon DEF IInv, TypeOK
  <2> QED
    BY <2>5, <2>6 DEF Accounted
<1> QED
    BY <1>1, Invariance, PTL

-----------------------------------------------------------------------------
(***************************************************************************)
(* TcpConnection: the counters of its output, and the replies in it.       *)
(***************************************************************************)

Tasks == [op : {"send"}, reply : Requests] \cup [op : {"close"}, reply : {0}]

(* A task of the loop has a number of bytes. *)
LEMMA TaskBytesType ==
    ASSUME NEW task \in Tasks
    PROVE  TaskBytes(task) \in Nat
BY ConnectionAssumption DEF Tasks, TaskBytes, Requests

(* The bytes of the queued tasks, one by one. *)
LEMMA QueuedIs ==
    ASSUME NEW tasks, NEW p
    PROVE  p \in Queued(tasks) <=>
               \E i \in DOMAIN tasks : \E j \in 1..TaskBytes(tasks[i]) : p = <<i, j>>
BY DEF Queued

(* The bytes of one task. *)
LEMMA BytesOfTask ==
    ASSUME NEW n \in Nat, NEW i
    PROVE  /\ IsFiniteSet({i} \X (1..n))
           /\ Cardinality({i} \X (1..n)) = n
<1>1. IsFiniteSet({i}) /\ Cardinality({i}) = 1
  BY FS_Singleton, Zenon
<1>2. IsFiniteSet(1..n) /\ Cardinality(1..n) = n
  BY FS_Interval
<1>3. /\ IsFiniteSet({i} \X (1..n))
      /\ Cardinality({i} \X (1..n)) = Cardinality({i}) * Cardinality(1..n)
  BY <1>1, <1>2, FS_Product, Zenon
<1>4. 1 * n = n
  OBVIOUS
<1> QED
  BY <1>1, <1>2, <1>3, <1>4, Zenon

(* Two disjoint parts are counted apart. *)
LEMMA CountedApart ==
    ASSUME NEW S, IsFiniteSet(S), NEW T, IsFiniteSet(T), S \cap T = {}
    PROVE  /\ IsFiniteSet(S \cup T)
           /\ Cardinality(S \cup T) = Cardinality(S) + Cardinality(T)
<1>1. Cardinality(S) \in Nat /\ Cardinality(T) \in Nat
  BY FS_CardinalityType, Zenon
<1>2. Cardinality(S \cap T) = 0
  BY FS_EmptySet, Zenon
<1>3. /\ IsFiniteSet(S \cup T)
      /\ Cardinality(S \cup T) = Cardinality(S) + Cardinality(T) - Cardinality(S \cap T)
  BY FS_Union, Zenon
<1> QED
  BY <1>1, <1>2, <1>3

(* A task that is queued adds its bytes. *)
LEMMA QueueOne ==
    ASSUME NEW tasks \in Seq(Tasks), IsFiniteSet(Queued(tasks)), NEW task \in Tasks
    PROVE  /\ IsFiniteSet(Queued(Append(tasks, task)))
           /\ Cardinality(Queued(Append(tasks, task)))
                = Cardinality(Queued(tasks)) + TaskBytes(task)
<1> DEFINE n == Len(tasks) + 1
           last == {n} \X (1..TaskBytes(task))
           more == Append(tasks, task)
<1>1. /\ Len(tasks) \in Nat /\ DOMAIN tasks = 1..Len(tasks) /\ DOMAIN more = 1..n
      /\ more[n] = task /\ \A i \in 1..Len(tasks) : more[i] = tasks[i]
  OBVIOUS
<1> HIDE DEF more
<1>2. \A p : p \in Queued(more) <=> p \in Queued(tasks) \/ p \in last
  <2>1. TAKE p
  <2>2. p \in last <=> \E j \in 1..TaskBytes(task) : p = <<n, j>>
    OBVIOUS
  <2>3. ASSUME p \in Queued(more)
        PROVE  p \in Queued(tasks) \/ p \in last
    <3>1. PICK i \in DOMAIN more : \E j \in 1..TaskBytes(more[i]) : p = <<i, j>>
      BY <2>3, QueuedIs
    <3>2. CASE i = n
      BY <1>1, <2>2, <3>1, <3>2, Zenon
    <3>3. CASE i # n
      <4>1. i \in DOMAIN tasks /\ more[i] = tasks[i]
        BY <1>1, <3>3
      <4> QED
        BY <3>1, <4>1, QueuedIs, Zenon
    <3> QED
      BY <3>2, <3>3, Zenon
  <2>4. ASSUME p \in Queued(tasks)
        PROVE  p \in Queued(more)
    <3>1. PICK i \in DOMAIN tasks : \E j \in 1..TaskBytes(tasks[i]) : p = <<i, j>>
      BY <2>4, QueuedIs
    <3>2. i \in DOMAIN more /\ more[i] = tasks[i]
      BY <1>1
    <3> QED
      BY <3>1, <3>2, QueuedIs, Zenon
  <2>5. ASSUME p \in last
        PROVE  p \in Queued(more)
    <3>1. n \in DOMAIN more
      BY <1>1
    <3> QED
      BY <1>1, <2>2, <2>5, <3>1, QueuedIs, Zenon
  <2> QED
    BY <2>3, <2>4, <2>5, Zenon
<1>3. Queued(more) = Queued(tasks) \cup last
  BY <1>2, Zenon
<1>4. Queued(tasks) \cap last = {}
  <2>1. SUFFICES ASSUME NEW p \in Queued(tasks), p \in last
                 PROVE  FALSE
    BY Zenon
  <2>2. PICK i \in DOMAIN tasks : \E j \in 1..TaskBytes(tasks[i]) : p = <<i, j>>
    BY <2>1, QueuedIs
  <2> QED
    BY <1>1, <2>1, <2>2
<1>5. IsFiniteSet(last) /\ Cardinality(last) = TaskBytes(task)
  BY <1>1, TaskBytesType, BytesOfTask, Zenon
<1> HIDE DEF last
<1> QED
  BY <1>3, <1>4, <1>5, CountedApart, Zenon DEF more

(* A task that is run takes its bytes away. *)
LEMMA DequeueOne ==
    ASSUME NEW tasks \in Seq(Tasks), tasks # <<>>, IsFiniteSet(Queued(tasks))
    PROVE  /\ IsFiniteSet(Queued(Tail(tasks)))
           /\ Cardinality(Queued(tasks))
                = Cardinality(Queued(Tail(tasks))) + TaskBytes(Head(tasks))
<1> DEFINE first == {1} \X (1..TaskBytes(Head(tasks)))
           others == {p \in Queued(tasks) : p[1] # 1}
           rest == Tail(tasks)
           f == [p \in others |-> <<p[1] - 1, p[2]>>]
<1>1. /\ Len(tasks) \in Nat \ {0} /\ DOMAIN tasks = 1..Len(tasks)
      /\ Head(tasks) = tasks[1] /\ Head(tasks) \in Tasks
      /\ DOMAIN rest = 1..(Len(tasks) - 1)
      /\ \A i \in 1..(Len(tasks) - 1) : rest[i] = tasks[i + 1]
  OBVIOUS
<1> HIDE DEF rest
<1>2. IsFiniteSet(others)
  BY FS_Subset, Zenon
<1>3. Queued(tasks) = others \cup first /\ others \cap first = {}
  <2>1. ASSUME NEW p \in first
        PROVE  p \in Queued(tasks) /\ p[1] = 1
    <3>1. PICK j \in 1..TaskBytes(tasks[1]) : p = <<1, j>>
      BY <1>1
    <3>2. 1 \in DOMAIN tasks
      BY <1>1
    <3> QED
      BY <3>1, <3>2, QueuedIs, Zenon
  <2>2. ASSUME NEW p \in Queued(tasks), p[1] = 1
        PROVE  p \in first
    <3>1. PICK i \in DOMAIN tasks : \E j \in 1..TaskBytes(tasks[i]) : p = <<i, j>>
      BY QueuedIs
    <3> QED
      BY <1>1, <2>2, <3>1
  <2> HIDE DEF first
  <2> QED
    BY <2>1, <2>2, Zenon
<1>4. f \in [others -> Queued(rest)]
  <2>1. SUFFICES ASSUME NEW p \in others
                 PROVE  <<p[1] - 1, p[2]>> \in Queued(rest)
    BY Zenon
  <2>2. PICK i \in DOMAIN tasks : \E j \in 1..TaskBytes(tasks[i]) : p = <<i, j>>
    BY QueuedIs
  <2>3. PICK j \in 1..TaskBytes(tasks[i]) : p = <<i, j>>
    BY <2>2, Zenon
  <2>4. i # 1 /\ p[1] - 1 = i - 1 /\ p[2] = j
    BY <2>3, Zenon
  <2>5. i - 1 \in DOMAIN rest /\ rest[i - 1] = tasks[i]
    BY <1>1, <2>4
  <2> QED
    BY <2>3, <2>4, <2>5, QueuedIs, Zenon
<1>5. \A p, q \in others : f[p] = f[q] => p = q
  <2>1. SUFFICES ASSUME NEW p \in others, NEW q \in others, f[p] = f[q]
                 PROVE  p = q
    BY Zenon
  <2>2. PICK i \in DOMAIN tasks : \E j \in 1..TaskBytes(tasks[i]) : p = <<i, j>>
    BY QueuedIs
  <2>3. PICK k \in DOMAIN tasks : \E l \in 1..TaskBytes(tasks[k]) : q = <<k, l>>
    BY QueuedIs
  <2>4. f[p] = <<p[1] - 1, p[2]>> /\ f[q] = <<q[1] - 1, q[2]>>
    BY Zenon
  <2> QED
    BY <1>1, <2>1, <2>2, <2>3, <2>4
<1>6. \A r \in Queued(rest) : \E p \in others : f[p] = r
  <2>1. SUFFICES ASSUME NEW r \in Queued(rest)
                 PROVE  \E p \in others : f[p] = r
    BY Zenon
  <2>2. PICK i \in DOMAIN rest : \E j \in 1..TaskBytes(rest[i]) : r = <<i, j>>
    BY QueuedIs
  <2>3. PICK j \in 1..TaskBytes(rest[i]) : r = <<i, j>>
    BY <2>2, Zenon
  <2>4. i \in Nat \ {0} /\ i + 1 \in DOMAIN tasks /\ rest[i] = tasks[i + 1]
    BY <1>1
  <2>5. <<i + 1, j>> \in Queued(tasks)
    BY <2>3, <2>4, QueuedIs, Zenon
  <2>6. <<i + 1, j>> \in others
    BY <2>4, <2>5
  <2>7. f[<<i + 1, j>>] = <<i, j>>
    BY <2>4, <2>6
  <2> QED
    BY <2>3, <2>6, <2>7, Zenon
<1>7. ExistsBijection(others, Queued(rest))
  <2>1. f \in Bijection(others, Queued(rest))
    <3> HIDE DEF f, others
    <3> QED
      BY <1>4, <1>5, <1>6, Zenon DEF Bijection, Injection, Surjection, IsInjective
  <2> QED
    BY <2>1, Zenon DEF ExistsBijection
<1>8. IsFiniteSet(Queued(rest)) /\ Cardinality(Queued(rest)) = Cardinality(others)
  BY <1>2, <1>7, FS_Bijection, Zenon
<1>9. IsFiniteSet(first) /\ Cardinality(first) = TaskBytes(Head(tasks))
  BY <1>1, TaskBytesType, BytesOfTask, Zenon
<1> HIDE DEF first, others
<1> QED
  BY <1>2, <1>3, <1>8, <1>9, CountedApart DEF rest

(* The types, and which reply a thread has in hand. *)
ConnectionTypes ==
    /\ state_ \in {"kConnected", "kDisconnecting", "kDisconnected"}
    /\ pending_output_bytes_ \in Nat
    /\ output_buffer_ \in Seq(Requests) /\ received \in Seq(Requests)
    /\ writing \in BOOLEAN /\ write_shut \in BOOLEAN
    /\ loop_tasks \in Seq(Tasks) /\ IsFiniteSet(Queued(loop_tasks))
    /\ parsed \in 0..Len(Size) /\ answered \in 0..parsed /\ malformed \subseteq 1..parsed
    /\ handler \in {"idle", "sending", "shutting"}
    /\ sender \in {"idle", "reserving", "queueing"}
    /\ handler = "sending" => parsed \in malformed
    /\ sender # "idle" => answered \in (1..parsed) \ malformed

AccountingInv == ConnectionTypes /\ OutputAccounting /\ OutputBounded

(* Replies and error messages have positive sizes. *)
LEMMA Sizes ==
    /\ Len(Size) \in Nat /\ Requests = 1..Len(Size)
    /\ \A m \in Requests : Size[m] \in Nat \ {0} /\ Bytes(m) \in Seq(Requests)
                           /\ Len(Bytes(m)) = Size[m]
                           /\ \A j \in 1..Size[m] : Bytes(m)[j] = m
<1>1. Len(Size) \in Nat /\ Requests = 1..Len(Size) /\ \A m \in Requests : Size[m] \in Nat \ {0}
  BY ConnectionAssumption DEF Requests
<1>2. ASSUME NEW m \in Requests
      PROVE  Bytes(m) \in Seq(Requests) /\ Len(Bytes(m)) = Size[m]
             /\ \A j \in 1..Size[m] : Bytes(m)[j] = m
  <2>1. Bytes(m) \in [1..Size[m] -> Requests] /\ \A j \in 1..Size[m] : Bytes(m)[j] = m
    BY Zenon DEF Bytes
  <2> QED
    BY <1>1, <2>1, SeqDef
<1> QED
  BY <1>1, <1>2, Zenon

(* The parts of a reply that are sent and buffered. *)
LEMMA ReplyParts ==
    ASSUME NEW m \in Requests, NEW n \in 0..Size[m]
    PROVE  /\ SubSeq(Bytes(m), 1, n) \in Seq(Requests) /\ Len(SubSeq(Bytes(m), 1, n)) = n
           /\ SubSeq(Bytes(m), n + 1, Size[m]) \in Seq(Requests)
           /\ Len(SubSeq(Bytes(m), n + 1, Size[m])) = Size[m] - n
<1>1. Bytes(m) \in Seq(Requests) /\ Len(Bytes(m)) = Size[m] /\ Size[m] \in Nat
  BY Sizes, Zenon
<1>2. \A i \in 1..Size[m] : Bytes(m)[i] \in Requests
  BY <1>1
<1> QED
  BY <1>1, <1>2, SubSeqProperties

(* What a send and a close leave of the count of a connection's bytes. *)
Released(bytes) ==
    /\ pending_output_bytes_' \in Nat
    /\ pending_output_bytes_' = pending_output_bytes_ - bytes - Len(output_buffer_)
                                + Len(output_buffer_')
    /\ pending_output_bytes_' <= pending_output_bytes_
    /\ state_' \in {"kConnected", "kDisconnecting", "kDisconnected"}
    /\ output_buffer_' \in Seq(Requests) /\ received' \in Seq(Requests)
    /\ writing' \in BOOLEAN /\ write_shut' \in BOOLEAN

(* HandleClose gives back what the output buffer held. *)
LEMMA HandleCloseReleases ==
    ASSUME ConnectionTypes, NEW bytes \in Nat,
           bytes + Len(output_buffer_) <= pending_output_bytes_, HandleClose(bytes)
    PROVE  Released(bytes)
<1>1. output_buffer_ \in Seq(Requests) /\ received \in Seq(Requests)
      /\ Len(output_buffer_) \in Nat /\ pending_output_bytes_ \in Nat
      /\ writing \in BOOLEAN /\ write_shut \in BOOLEAN
  BY DEF ConnectionTypes
<1>2. <<>> \in Seq(Requests) /\ Len(<<>>) = 0
  OBVIOUS
<1>3. writing' \in BOOLEAN /\ write_shut' \in BOOLEAN
  BY <1>1, Zenon DEF HandleClose
<1>4. state_' = "kDisconnected" /\ output_buffer_' \in Seq(Requests) /\ received' = received
  BY <1>1, <1>2, Zenon DEF HandleClose
<1>5. CASE state_ = "kDisconnected"
  BY <1>1, <1>3, <1>4, <1>5 DEF HandleClose, Released
<1>6. CASE state_ # "kDisconnected"
  <2>1. pending_output_bytes_' = pending_output_bytes_ - bytes - Len(output_buffer_)
        /\ Len(output_buffer_') = 0
    BY <1>2, <1>6, Zenon DEF HandleClose, BufferedBytes
  <2> QED
    BY <1>1, <1>3, <1>4, <2>1 DEF Released
<1> QED
  BY <1>5, <1>6, Zenon

(* SendInLoop counts what stays in the buffer, and releases the rest. *)
LEMMA SendInLoopReleases ==
    ASSUME ConnectionTypes, NEW m \in Requests,
           Size[m] + Len(output_buffer_) <= pending_output_bytes_, SendInLoop(m)
    PROVE  Released(Size[m])
<1>1. /\ output_buffer_ \in Seq(Requests) /\ received \in Seq(Requests)
      /\ Len(output_buffer_) \in Nat /\ pending_output_bytes_ \in Nat /\ Size[m] \in Nat \ {0}
      /\ state_ \in {"kConnected", "kDisconnecting", "kDisconnected"}
      /\ writing \in BOOLEAN /\ write_shut \in BOOLEAN
  BY Sizes DEF ConnectionTypes
<1>2. CASE /\ state_ = "kDisconnected"
           /\ pending_output_bytes_' = pending_output_bytes_ - ReleasedAfterClose(m)
           /\ UNCHANGED <<state_, outputVars>>
  BY <1>1, <1>2 DEF Released, ReleasedAfterClose, outputVars
<1>3. CASE HandleClose(Size[m])
  BY <1>1, <1>3, HandleCloseReleases, Zenon
<1>4. CASE /\ \E n \in 0..(IF MaySendNow THEN Size[m] ELSE 0) :
                 /\ received' = received \o SubSeq(Bytes(m), 1, n)
                 /\ pending_output_bytes_' = pending_output_bytes_ - n
                 /\ output_buffer_' = output_buffer_ \o SubSeq(Bytes(m), n + 1, Size[m])
                 /\ writing' = WantsWrite(n, m)
           /\ UNCHANGED <<state_, write_shut>>
  <2>1. PICK n \in 0..(IF MaySendNow THEN Size[m] ELSE 0) :
                 /\ received' = received \o SubSeq(Bytes(m), 1, n)
                 /\ pending_output_bytes_' = pending_output_bytes_ - n
                 /\ output_buffer_' = output_buffer_ \o SubSeq(Bytes(m), n + 1, Size[m])
                 /\ writing' = WantsWrite(n, m)
    BY <1>4, Zenon
  <2>2. n \in 0..Size[m]
    BY <1>1
  <2>3. /\ received' \in Seq(Requests) /\ output_buffer_' \in Seq(Requests)
        /\ Len(output_buffer_') = Len(output_buffer_) + Size[m] - n
    BY <1>1, <2>1, <2>2, ReplyParts, ConcatProperties, SMTT(25)
  <2>4. writing' \in BOOLEAN
    BY <2>1, Zenon DEF WantsWrite
  <2>5. state_' \in {"kConnected", "kDisconnecting", "kDisconnected"} /\ write_shut' \in BOOLEAN
    BY <1>1, <1>4, Zenon
  <2>6. /\ pending_output_bytes_' \in Nat /\ pending_output_bytes_' <= pending_output_bytes_
        /\ pending_output_bytes_' = pending_output_bytes_ - Size[m] - Len(output_buffer_)
                                    + Len(output_buffer_')
    BY <1>1, <2>1, <2>2, <2>3, SMTT(25)
  <2> QED
    BY <2>3, <2>4, <2>5, <2>6, Zenon DEF Released
<1> QED
  BY <1>2, <1>3, <1>4, Zenon DEF SendInLoop

(* The parts of the count are numbers. *)
LEMMA CountsAreNumbers ==
    ASSUME ConnectionTypes
    PROVE  /\ Len(output_buffer_) \in Nat /\ QueuedBytes \in Nat
           /\ parsed \in Nat /\ answered \in Nat
           /\ \A m \in 1..parsed : m \in Requests /\ Size[m] \in Nat \ {0}
<1>1. Len(output_buffer_) \in Nat /\ parsed \in Nat /\ answered \in Nat
  BY Sizes DEF ConnectionTypes
<1>2. QueuedBytes \in Nat
  BY FS_CardinalityType, Zenon DEF ConnectionTypes, QueuedBytes
<1>3. \A m \in 1..parsed : m \in Requests /\ Size[m] \in Nat \ {0}
  BY Sizes DEF ConnectionTypes
<1> QED
  BY <1>1, <1>2, <1>3, Zenon

(* A new connection accounts for its output. *)
LEMMA AccountingInit == ConnectionInit => AccountingInv
<1> SUFFICES ASSUME ConnectionInit PROVE AccountingInv
  BY Zenon
<1>1. Queued(<<>>) = {}
  BY DEF Queued
<1>2. IsFiniteSet(Queued(loop_tasks)) /\ QueuedBytes = 0
  BY <1>1, FS_EmptySet, Zenon DEF ConnectionInit, QueuedBytes
<1>3. 0 \in 0..Len(Size) /\ 0 \in 0..0 /\ <<>> \in Seq(Requests) /\ <<>> \in Seq(Tasks)
  BY Sizes
<1>4. ConnectionTypes
  BY <1>2, <1>3, Zenon DEF ConnectionInit, ConnectionTypes
<1>5. OutputAccounting
  BY <1>2 DEF ConnectionInit, OutputAccounting
<1>6. OutputBounded
  BY ConnectionAssumption DEF ConnectionInit, OutputBounded
<1> QED
  BY <1>4, <1>5, <1>6, Zenon DEF AccountingInv

(* A malformed request is answered by the reactor itself. *)
LEMMA ReadMalformedAccounts ==
    ASSUME AccountingInv, ReadMalformed
    PROVE  AccountingInv'
<1>1. ConnectionTypes /\ OutputAccounting /\ OutputBounded
  BY Zenon DEF AccountingInv
<1>2. /\ Len(output_buffer_) \in Nat /\ QueuedBytes \in Nat /\ parsed \in Nat /\ answered \in Nat
      /\ pending_output_bytes_ \in Nat /\ max_output_bytes_ \in Nat
  BY <1>1, CountsAreNumbers, ConnectionAssumption, Zenon DEF ConnectionTypes
<1>3. handler = "idle" /\ parsed + 1 \in Requests /\ Size[parsed + 1] \in Nat \ {0}
  BY <1>1, <1>2, Sizes DEF ReadMalformed, Readable, ConnectionTypes
<1>4. QueuedBytes' = QueuedBytes /\ UNCHANGED <<loop_tasks, sender, answered>>
  BY Zenon DEF ReadMalformed, workerVars, QueuedBytes
<1>5. /\ parsed' \in 0..Len(Size) /\ answered' \in 0..parsed' /\ malformed' \subseteq 1..parsed'
      /\ (sender' # "idle" => answered' \in (1..parsed') \ malformed')
      /\ parsed' \in malformed' /\ parsed' = parsed + 1
  <2>1. /\ parsed' = parsed + 1 /\ malformed' = malformed \cup {parsed + 1}
        /\ parsed < Len(Size) /\ Len(Size) \in Nat
    BY Sizes, Zenon DEF ReadMalformed, Readable
  <2>2. /\ answered \in 0..parsed /\ malformed \subseteq 1..parsed
        /\ (sender # "idle" => answered \in (1..parsed) \ malformed)
    BY <1>1, Zenon DEF ConnectionTypes
  <2> QED
    BY <1>2, <1>4, <2>1, <2>2
<1>6. (IF sender = "queueing" THEN Size[answered] ELSE 0) \in Nat
  BY <1>1, CountsAreNumbers, Zenon DEF ConnectionTypes
<1>7. CASE state_ = "kConnected" /\ Fits(parsed + 1)
  <2>1. /\ pending_output_bytes_' = pending_output_bytes_ + Size[parsed + 1]
        /\ handler' = "sending" /\ UNCHANGED <<state_, outputVars>>
    BY <1>7, Zenon DEF ReadMalformed
  <2>2. ConnectionTypes'
    BY <1>1, <1>2, <1>3, <1>4, <1>5, <2>1 DEF ConnectionTypes, outputVars
  <2>3. OutputBounded'
    BY <1>7, <2>1, Zenon DEF Fits, OutputBounded
  <2>4. OutputAccounting'
    BY <1>1, <1>2, <1>3, <1>4, <1>5, <1>6, <2>1 DEF OutputAccounting, outputVars
  <2> QED
    BY <2>2, <2>3, <2>4, Zenon DEF AccountingInv
<1>8. CASE ~(state_ = "kConnected" /\ Fits(parsed + 1))
  <2>1. Len(output_buffer_) <= pending_output_bytes_
    BY <1>1, <1>2, <1>3, <1>6 DEF OutputAccounting
  <2>2. handler' = "idle" /\ Released(0)
    <3>1. handler' = "idle" /\ (HandleClose(0)
            \/ UNCHANGED <<state_, pending_output_bytes_, outputVars>>)
      BY <1>8, Zenon DEF ReadMalformed
    <3>2. CASE HandleClose(0)
      BY <1>1, <1>2, <2>1, <3>1, <3>2, HandleCloseReleases
    <3>3. CASE UNCHANGED <<state_, pending_output_bytes_, outputVars>>
      BY <1>1, <1>2, <3>1, <3>3 DEF Released, ConnectionTypes, outputVars
    <3> QED
      BY <3>1, <3>2, <3>3, Zenon
  <2>3. ConnectionTypes'
    BY <1>1, <1>4, <1>5, <2>2, Zenon DEF ConnectionTypes, Released
  <2>4. OutputBounded'
    BY <1>1, <1>2, <2>2 DEF Released, OutputBounded
  <2>5. Len(output_buffer_') \in Nat
    BY <2>2 DEF Released
  <2>6. OutputAccounting'
    BY <1>1, <1>2, <1>3, <1>4, <1>6, <2>2, <2>5, SMTT(25) DEF OutputAccounting, Released
  <2> QED
    BY <2>3, <2>4, <2>6, Zenon DEF AccountingInv
<1> QED
  BY <1>7, <1>8, Zenon

(* The reactor sends the answer to a malformed request. *)
LEMMA SendErrorAccounts ==
    ASSUME AccountingInv, SendError
    PROVE  AccountingInv'
<1>1. ConnectionTypes /\ OutputAccounting /\ OutputBounded
  BY Zenon DEF AccountingInv
<1>2. /\ Len(output_buffer_) \in Nat /\ QueuedBytes \in Nat
      /\ pending_output_bytes_ \in Nat /\ max_output_bytes_ \in Nat
  BY <1>1, CountsAreNumbers, ConnectionAssumption, Zenon DEF ConnectionTypes
<1>3. handler = "sending" /\ parsed \in Requests /\ Size[parsed] \in Nat
  BY <1>1, CountsAreNumbers, Zenon DEF SendError, ConnectionTypes
<1>4. (IF sender = "queueing" THEN Size[answered] ELSE 0) \in Nat
  BY <1>1, CountsAreNumbers, Zenon DEF ConnectionTypes
<1>5. QueuedBytes' = QueuedBytes /\ UNCHANGED <<loop_tasks, sender, answered, parsed, malformed>>
      /\ handler' = "shutting"
  BY Zenon DEF SendError, workerVars, QueuedBytes
<1>6. Released(Size[parsed])
  <2>1. Size[parsed] + Len(output_buffer_) <= pending_output_bytes_
    BY <1>1, <1>2, <1>3, <1>4 DEF OutputAccounting
  <2> QED
    BY <1>1, <1>3, <2>1, SendInLoopReleases, Zenon DEF SendError
<1>7. ConnectionTypes'
  BY <1>1, <1>5, <1>6, Zenon DEF ConnectionTypes, Released
<1>8. OutputBounded'
  BY <1>1, <1>2, <1>6 DEF Released, OutputBounded
<1>9. Len(output_buffer_') \in Nat
  BY <1>6 DEF Released
<1>10. OutputAccounting'
  BY <1>1, <1>2, <1>3, <1>4, <1>5, <1>6, <1>9, SMTT(25) DEF OutputAccounting, Released
<1> QED
  BY <1>7, <1>8, <1>10, Zenon DEF AccountingInv

(* The client closes, or the socket fails. *)
LEMMA CloseAccounts ==
    ASSUME AccountingInv, Close
    PROVE  AccountingInv'
<1>1. ConnectionTypes /\ OutputAccounting /\ OutputBounded
  BY Zenon DEF AccountingInv
<1>2. /\ Len(output_buffer_) \in Nat /\ QueuedBytes \in Nat
      /\ pending_output_bytes_ \in Nat /\ max_output_bytes_ \in Nat
  BY <1>1, CountsAreNumbers, ConnectionAssumption, Zenon DEF ConnectionTypes
<1>3. (IF sender = "queueing" THEN Size[answered] ELSE 0) \in Nat
  BY <1>1, CountsAreNumbers, Zenon DEF ConnectionTypes
<1>4. QueuedBytes' = QueuedBytes /\ handler = "idle"
      /\ UNCHANGED <<loop_tasks, sender, answered, parsed, malformed, handler>>
  BY Zenon DEF Close, workerVars, inputVars, QueuedBytes
<1>5. Released(0)
  <2>1. Len(output_buffer_) <= pending_output_bytes_
    BY <1>1, <1>2, <1>3, <1>4 DEF OutputAccounting
  <2> QED
    BY <1>1, <1>2, <2>1, HandleCloseReleases DEF Close
<1>6. ConnectionTypes'
  BY <1>1, <1>4, <1>5, Zenon DEF ConnectionTypes, Released
<1>7. OutputBounded'
  BY <1>1, <1>2, <1>5 DEF Released, OutputBounded
<1>8. Len(output_buffer_') \in Nat
  BY <1>5 DEF Released
<1>9. OutputAccounting'
  BY <1>1, <1>2, <1>3, <1>4, <1>5, <1>8, SMTT(25) DEF OutputAccounting, Released
<1> QED
  BY <1>6, <1>7, <1>9, Zenon DEF AccountingInv

(* A writable socket takes the first bytes of the buffer. *)
LEMMA HandleWriteAccounts ==
    ASSUME AccountingInv, HandleWrite
    PROVE  AccountingInv'
<1>1. ConnectionTypes /\ OutputAccounting /\ OutputBounded
  BY Zenon DEF AccountingInv
<1>2. /\ Len(output_buffer_) \in Nat /\ QueuedBytes \in Nat
      /\ pending_output_bytes_ \in Nat /\ max_output_bytes_ \in Nat
      /\ output_buffer_ \in Seq(Requests) /\ received \in Seq(Requests)
  BY <1>1, CountsAreNumbers, ConnectionAssumption, Zenon DEF ConnectionTypes
<1>3. (IF sender = "queueing" THEN Size[answered] ELSE 0) \in Nat
  BY <1>1, CountsAreNumbers, Zenon DEF ConnectionTypes
<1>4. QueuedBytes' = QueuedBytes /\ handler = "idle"
      /\ UNCHANGED <<state_, loop_tasks, sender, answered, parsed, malformed, handler>>
  BY Zenon DEF HandleWrite, workerVars, inputVars, QueuedBytes
<1>5. PICK n \in 1..Len(output_buffer_) :
        /\ received' = received \o SubSeq(output_buffer_, 1, n)
        /\ output_buffer_' = SubSeq(output_buffer_, n + 1, Len(output_buffer_))
        /\ pending_output_bytes_' = pending_output_bytes_ - n
  BY Zenon DEF HandleWrite
<1>6. /\ received' \in Seq(Requests) /\ output_buffer_' \in Seq(Requests)
      /\ Len(output_buffer_') = Len(output_buffer_) - n
  <2>1. \A i \in 1..Len(output_buffer_) : output_buffer_[i] \in Requests
    BY <1>2
  <2>2. SubSeq(output_buffer_, 1, n) \in Seq(Requests)
    BY <1>2, <2>1, SubSeqProperties
  <2>3. /\ SubSeq(output_buffer_, n + 1, Len(output_buffer_)) \in Seq(Requests)
        /\ Len(SubSeq(output_buffer_, n + 1, Len(output_buffer_))) = Len(output_buffer_) - n
    BY <1>2, <2>1, SubSeqProperties
  <2> QED
    BY <1>2, <1>5, <2>2, <2>3, ConcatProperties, Zenon
<1>7. writing' \in BOOLEAN /\ write_shut' \in BOOLEAN
  BY Zenon DEF HandleWrite
<1>8. Len(output_buffer_) <= pending_output_bytes_
  BY <1>1, <1>2, <1>3, <1>4 DEF OutputAccounting
<1>9. pending_output_bytes_' \in Nat /\ pending_output_bytes_' <= pending_output_bytes_
  BY <1>2, <1>5, <1>8
<1>10. ConnectionTypes'
  BY <1>1, <1>4, <1>6, <1>7, <1>9, Zenon DEF ConnectionTypes
<1>11. OutputBounded'
  BY <1>1, <1>2, <1>9 DEF OutputBounded
<1>12. OutputAccounting'
  <2> DEFINE q == IF sender = "queueing" THEN Size[answered] ELSE 0
             h == IF handler = "sending" THEN Size[parsed] ELSE 0
             p == Len(output_buffer_)
  <2>1. pending_output_bytes_ = p + QueuedBytes + q + h
    BY <1>1, Zenon DEF OutputAccounting
  <2>2. q' = q /\ h' = h /\ h = 0
    BY <1>4, Zenon
  <2>3. q \in Nat /\ p \in Nat
    BY <1>2, <1>3, Zenon
  <2> HIDE DEF q, h, p
  <2>4. pending_output_bytes_ - n = (p - n) + QueuedBytes + q + h
    BY <1>2, <2>1, <2>2, <2>3
  <2>5. Len(output_buffer_') = p - n
    BY <1>6, Zenon DEF p
  <2>6. pending_output_bytes_' = Len(output_buffer_') + QueuedBytes' + q' + h'
    BY <1>4, <1>5, <2>2, <2>4, <2>5, Zenon
  <2> QED
    BY <2>6, Zenon DEF OutputAccounting, q, h
<1> QED
  BY <1>10, <1>11, <1>12, Zenon DEF AccountingInv

(* The loop runs a task, which takes its bytes off the queue. *)
LEMMA RunLoopTaskAccounts ==
    ASSUME AccountingInv, RunLoopTask
    PROVE  AccountingInv'
<1> DEFINE task == Head(loop_tasks)
<1>1. ConnectionTypes /\ OutputAccounting /\ OutputBounded
  BY Zenon DEF AccountingInv
<1>2. /\ Len(output_buffer_) \in Nat /\ QueuedBytes \in Nat
      /\ pending_output_bytes_ \in Nat /\ max_output_bytes_ \in Nat
  BY <1>1, CountsAreNumbers, ConnectionAssumption, Zenon DEF ConnectionTypes
<1>3. (IF sender = "queueing" THEN Size[answered] ELSE 0) \in Nat
  BY <1>1, CountsAreNumbers, Zenon DEF ConnectionTypes
<1>4. /\ handler = "idle" /\ loop_tasks # <<>> /\ loop_tasks' = Tail(loop_tasks)
      /\ UNCHANGED <<sender, answered, parsed, malformed, handler>>
  BY Zenon DEF RunLoopTask, workerVars, inputVars
<1>5. loop_tasks' \in Seq(Tasks) /\ task \in Tasks
  BY <1>1, <1>4 DEF ConnectionTypes
<1>6. /\ IsFiniteSet(Queued(loop_tasks'))
      /\ QueuedBytes = QueuedBytes' + TaskBytes(task)
  BY <1>1, <1>4, DequeueOne, Zenon DEF ConnectionTypes, QueuedBytes
<1>7. QueuedBytes' \in Nat /\ TaskBytes(task) \in Nat
  BY <1>5, <1>6, FS_CardinalityType, TaskBytesType, Zenon DEF QueuedBytes
<1>8. Released(TaskBytes(task))
  <2>1. TaskBytes(task) + Len(output_buffer_) <= pending_output_bytes_
    BY <1>1, <1>2, <1>3, <1>4, <1>6, <1>7 DEF OutputAccounting
  <2>2. CASE task.op = "send" /\ SendInLoop(task.reply)
    <3>1. task.reply \in Requests /\ TaskBytes(task) = Size[task.reply]
      BY <1>5, <2>2, Zenon DEF Tasks, TaskBytes
    <3> QED
      BY <1>1, <2>1, <2>2, <3>1, SendInLoopReleases, Zenon
  <2>3. CASE task.op = "close" /\ HandleClose(0)
    <3>1. TaskBytes(task) = 0
      BY <2>3, Zenon DEF TaskBytes
    <3> QED
      BY <1>1, <1>2, <2>1, <2>3, <3>1, HandleCloseReleases
  <2> QED
    BY <2>2, <2>3, Zenon DEF RunLoopTask
<1> HIDE DEF task
<1>9. ConnectionTypes'
  BY <1>1, <1>4, <1>5, <1>6, <1>8, Zenon DEF ConnectionTypes, Released
<1>10. OutputBounded'
  BY <1>1, <1>2, <1>8 DEF Released, OutputBounded
<1>11. Len(output_buffer_') \in Nat
  BY <1>8 DEF Released
<1>12. OutputAccounting'
  <2> DEFINE reserved == IF sender = "queueing" THEN Size[answered] ELSE 0
  <2>1. pending_output_bytes_ = Len(output_buffer_) + QueuedBytes + reserved
    BY <1>1, <1>2, <1>3, <1>4 DEF OutputAccounting
  <2>2. pending_output_bytes_'
          = pending_output_bytes_ - TaskBytes(task) - Len(output_buffer_) + Len(output_buffer_')
    BY <1>8, Zenon DEF Released
  <2>3. reserved \in Nat
    BY <1>3, Zenon
  <2> HIDE DEF reserved
  <2>4. QueuedBytes = QueuedBytes' + TaskBytes(task)
    BY <1>6, Zenon
  <2>5. pending_output_bytes_' = Len(output_buffer_') + QueuedBytes' + reserved
    <3>1. pending_output_bytes_ = Len(output_buffer_) + (QueuedBytes' + TaskBytes(task)) + reserved
      BY <2>1, <2>4, Zenon
    <3>2. QueuedBytes' \in Nat
      BY <1>7, Zenon
    <3>3. TaskBytes(task) \in Nat
      BY <1>7, Zenon
    <3>4. pending_output_bytes_ - TaskBytes(task) = Len(output_buffer_) + QueuedBytes' + reserved
      BY <1>2, <3>1, <3>2, <3>3, <2>3
    <3>5. pending_output_bytes_ - TaskBytes(task) - Len(output_buffer_) = QueuedBytes' + reserved
      BY <1>2, <3>4, <3>2, <3>3, <2>3
    <3> QED
      BY <1>2, <1>7, <1>11, <2>2, <2>3, <3>5
  <2> QED
    BY <1>4, <1>7, <1>11, <2>3, <2>5 DEF OutputAccounting, reserved
<1> QED
  BY <1>9, <1>10, <1>12, Zenon DEF AccountingInv

(* The worker reserves room for a reply, or asks for the close. *)
LEMMA ReserveOutputAccounts ==
    ASSUME AccountingInv, ReserveOutput
    PROVE  AccountingInv'
<1> DEFINE close == [op |-> "close", reply |-> 0]
<1>1. ConnectionTypes /\ OutputAccounting /\ OutputBounded
  BY Zenon DEF AccountingInv
<1>2. /\ Len(output_buffer_) \in Nat /\ QueuedBytes \in Nat /\ Size[answered] \in Nat
      /\ pending_output_bytes_ \in Nat /\ max_output_bytes_ \in Nat
  BY <1>1, CountsAreNumbers, ConnectionAssumption, Zenon DEF ConnectionTypes, ReserveOutput
<1>3. (IF handler = "sending" THEN Size[parsed] ELSE 0) \in Nat
  BY <1>1, CountsAreNumbers, Zenon DEF ConnectionTypes
<1>4. sender = "reserving" /\ UNCHANGED <<state_, outputVars, inputVars, answered>>
  BY Zenon DEF ReserveOutput
<1>5. CASE Fits(answered)
  <2>1. /\ pending_output_bytes_' = pending_output_bytes_ + Size[answered]
        /\ sender' = "queueing" /\ loop_tasks' = loop_tasks
    BY <1>5, Zenon DEF ReserveOutput
  <2>2. QueuedBytes' = QueuedBytes
    BY <2>1, Zenon DEF QueuedBytes
  <2>3. ConnectionTypes'
    BY <1>1, <1>2, <1>4, <2>1 DEF ConnectionTypes, outputVars, inputVars
  <2>4. OutputBounded'
    BY <1>5, <2>1, Zenon DEF Fits, OutputBounded
  <2>5. OutputAccounting'
    BY <1>1, <1>2, <1>3, <1>4, <2>1, <2>2 DEF OutputAccounting, outputVars, inputVars
  <2> QED
    BY <2>3, <2>4, <2>5, Zenon DEF AccountingInv
<1>6. CASE ~Fits(answered)
  <2>1. /\ loop_tasks' = Append(loop_tasks, close) /\ sender' = "idle"
        /\ pending_output_bytes_' = pending_output_bytes_
    BY <1>6, Zenon DEF ReserveOutput
  <2>2. close \in Tasks /\ TaskBytes(close) = 0
    BY Zenon DEF Tasks, TaskBytes
  <2> HIDE DEF close
  <2>3. loop_tasks' \in Seq(Tasks) /\ IsFiniteSet(Queued(loop_tasks')) /\ QueuedBytes' = QueuedBytes
    BY <1>1, <1>2, <2>1, <2>2, QueueOne DEF ConnectionTypes, QueuedBytes
  <2>4. ConnectionTypes'
    BY <1>1, <1>4, <2>1, <2>3, Zenon DEF ConnectionTypes, outputVars, inputVars
  <2>5. OutputBounded'
    BY <1>1, <2>1, Zenon DEF OutputBounded
  <2>6. OutputAccounting'
    BY <1>1, <1>2, <1>3, <1>4, <2>1, <2>3, Zenon DEF OutputAccounting, outputVars, inputVars
  <2> QED
    BY <2>4, <2>5, <2>6, Zenon DEF AccountingInv
<1> QED
  BY <1>5, <1>6, Zenon

(* The worker hands a reply to the loop, with what it has reserved. *)
LEMMA QueueInLoopAccounts ==
    ASSUME AccountingInv, QueueInLoop
    PROVE  AccountingInv'
<1> DEFINE task == [op |-> "send", reply |-> answered]
<1>1. ConnectionTypes /\ OutputAccounting /\ OutputBounded
  BY Zenon DEF AccountingInv
<1>2. /\ Len(output_buffer_) \in Nat /\ QueuedBytes \in Nat
      /\ answered \in Requests /\ Size[answered] \in Nat /\ pending_output_bytes_ \in Nat
  BY <1>1, CountsAreNumbers, Zenon DEF ConnectionTypes, QueueInLoop
<1>3. (IF handler = "sending" THEN Size[parsed] ELSE 0) \in Nat
  BY <1>1, CountsAreNumbers, Zenon DEF ConnectionTypes
<1>4. /\ sender = "queueing" /\ sender' = "idle" /\ loop_tasks' = Append(loop_tasks, task)
      /\ UNCHANGED <<state_, pending_output_bytes_, outputVars, inputVars, answered>>
  BY Zenon DEF QueueInLoop
<1>5. task \in Tasks /\ TaskBytes(task) = Size[answered]
  BY <1>2, Zenon DEF Tasks, TaskBytes
<1> HIDE DEF task
<1>6. /\ loop_tasks' \in Seq(Tasks) /\ IsFiniteSet(Queued(loop_tasks'))
      /\ QueuedBytes' = QueuedBytes + Size[answered]
  BY <1>1, <1>2, <1>4, <1>5, QueueOne DEF ConnectionTypes, QueuedBytes
<1>7. ConnectionTypes'
  BY <1>1, <1>4, <1>6, Zenon DEF ConnectionTypes, outputVars, inputVars
<1>8. OutputBounded'
  BY <1>1, <1>4, Zenon DEF OutputBounded
<1>9. OutputAccounting'
  BY <1>1, <1>2, <1>3, <1>4, <1>6 DEF OutputAccounting, outputVars, inputVars
<1> QED
  BY <1>7, <1>8, <1>9, Zenon DEF AccountingInv

(* The steps that send, reserve and release nothing. *)
LEMMA OtherStepsAccount ==
    ASSUME AccountingInv, ReadRequest \/ Shutdown \/ Send \/ UNCHANGED connectionVars
    PROVE  AccountingInv'
<1>1. ConnectionTypes /\ OutputAccounting /\ OutputBounded
  BY Zenon DEF AccountingInv
<1>2. parsed \in Nat /\ answered \in Nat /\ Len(Size) \in Nat
  BY <1>1, CountsAreNumbers, Sizes, Zenon
<1>3. CASE ReadRequest
  <2>1. /\ parsed' = parsed + 1 /\ parsed < Len(Size) /\ handler = "idle"
        /\ UNCHANGED <<state_, pending_output_bytes_, outputVars, loop_tasks, malformed, handler,
                       workerVars>>
    BY <1>3, Zenon DEF ReadRequest, Readable
  <2>2. parsed' \in 0..Len(Size) /\ answered \in 0..parsed' /\ malformed \subseteq 1..parsed'
        /\ (sender # "idle" => answered \in (1..parsed') \ malformed)
    BY <1>1, <1>2, <2>1 DEF ConnectionTypes
  <2>3. ConnectionTypes'
    BY <1>1, <2>1, <2>2, Zenon DEF ConnectionTypes, outputVars, workerVars
  <2>4. OutputAccounting' /\ OutputBounded'
    BY <1>1, <2>1, Zenon DEF OutputAccounting, OutputBounded, QueuedBytes, outputVars, workerVars
  <2> QED
    BY <2>3, <2>4, Zenon DEF AccountingInv
<1>4. CASE Shutdown
  <2>1. /\ handler = "shutting" /\ handler' = "idle"
        /\ UNCHANGED <<pending_output_bytes_, output_buffer_, writing, received, loop_tasks, parsed,
                       malformed, workerVars>>
    BY <1>4, Zenon DEF Shutdown
  <2>2. state_' \in {"kConnected", "kDisconnecting", "kDisconnected"}
    BY <1>1, <1>4, Zenon DEF Shutdown, ConnectionTypes
  <2>3. write_shut' \in BOOLEAN
    BY <1>1, <1>4, Zenon DEF Shutdown, ConnectionTypes
  <2>4. ConnectionTypes'
    BY <1>1, <2>1, <2>2, <2>3, Zenon DEF ConnectionTypes, workerVars
  <2>5. OutputAccounting' /\ OutputBounded'
    BY <1>1, <2>1, Zenon DEF OutputAccounting, OutputBounded, QueuedBytes, workerVars
  <2> QED
    BY <2>4, <2>5, Zenon DEF AccountingInv
<1>5. CASE Send
  <2>1. PICK m \in (answered + 1)..parsed : m \notin malformed /\ answered' = m
    BY <1>5, Zenon DEF Send
  <2>2. sender = "idle" /\ sender' \in {"reserving", "idle"}
        /\ UNCHANGED <<state_, pending_output_bytes_, outputVars, loop_tasks, inputVars>>
    BY <1>5, Zenon DEF Send
  <2>3. answered' \in 0..parsed /\ answered' \in (1..parsed) \ malformed
    BY <1>2, <2>1
  <2>4. ConnectionTypes'
    BY <1>1, <2>2, <2>3, Zenon DEF ConnectionTypes, outputVars, inputVars
  <2>5. OutputAccounting' /\ OutputBounded'
    BY <1>1, <2>2, Zenon DEF OutputAccounting, OutputBounded, QueuedBytes, outputVars, inputVars
  <2> QED
    BY <2>4, <2>5, Zenon DEF AccountingInv
<1>6. CASE UNCHANGED connectionVars
  <2>1. ConnectionTypes'
    BY <1>1, <1>6, Zenon DEF ConnectionTypes, connectionVars, outputVars, inputVars, workerVars
  <2>2. OutputAccounting' /\ OutputBounded'
    BY <1>1, <1>6, Zenon
       DEF OutputAccounting, OutputBounded, QueuedBytes, connectionVars, outputVars, inputVars,
                      workerVars
  <2> QED
    BY <2>1, <2>2, Zenon DEF AccountingInv
<1> QED
  BY <1>3, <1>4, <1>5, <1>6, Zenon

(* Every step accounts for the output. *)
LEMMA AccountingStep == AccountingInv /\ [ConnectionNext]_connectionVars => AccountingInv'
BY ReadMalformedAccounts, SendErrorAccounts, CloseAccounts, HandleWriteAccounts,
   RunLoopTaskAccounts, ReserveOutputAccounts, QueueInLoopAccounts, OtherStepsAccount, Zenon
   DEF ConnectionNext, ReactorStep, SendStep

(* So the counters are right in every state. *)
LEMMA AccountingHolds == ConnectionSpec => []AccountingInv
BY AccountingInit, AccountingStep, PTL DEF ConnectionSpec

(* Whatever the sizes of the replies and the limit, and however sending    *)
(* meets closing: pending_output_bytes_ is exactly the bytes that are      *)
(* reserved, queued or buffered.                                           *)
THEOREM EveryByteIsCountedOnce == ConnectionSpec => []OutputAccounting
<1>1. AccountingInv => OutputAccounting
  BY Zenon DEF AccountingInv
<1> QED
  BY <1>1, AccountingHolds, PTL

(* No connection ever holds more output than max_output_bytes_. *)
THEOREM OutputStaysBounded == ConnectionSpec => []OutputBounded
<1>1. AccountingInv => OutputBounded
  BY Zenon DEF AccountingInv
<1> QED
  BY <1>1, AccountingHolds, PTL

-----------------------------------------------------------------------------
(***************************************************************************)
(* Replies are whole.  While the connection is open every reply that has a *)
(* byte on its way is there to the last byte, in one piece; the close cuts *)
(* the end off.  For this to last, no reply may be sent twice.             *)
(***************************************************************************)
Complete(o) ==
    \A j \in 1..Len(o) : \E a \in Nat :
        /\ a + Size[o[j]] <= Len(o)
        /\ \A k \in 1..Len(o) : o[k] = o[j] <=> k \in (a + 1)..(a + Size[o[j]])

Whole(o) ==
    \A i \in 1..(Len(o) - 1) : o[i + 1] # o[i] =>
        /\ i >= Size[o[i]]
        /\ \A j \in 1..Len(o) : o[j] = o[i] <=> j \in (i - Size[o[i]] + 1)..i

(* RepliesAreWhole, position by position. *)
LEMMA WholeIs ==
    ASSUME Outgoing \in Seq(Requests)
    PROVE  RepliesAreWhole <=> Whole(Outgoing)
<1> DEFINE o == Outgoing
<1>1. DOMAIN o = 1..Len(o) /\ Len(o) \in Nat /\ \A i \in 1..Len(o) : Size[o[i]] \in Nat \ {0}
  BY Sizes
<1> SUFFICES ASSUME NEW i \in 1..(Len(o) - 1), i >= Size[o[i]]
             PROVE  ({j \in DOMAIN o : o[j] = o[i]} = (i - Size[o[i]] + 1)..i)
                      <=> \A j \in 1..Len(o) : o[j] = o[i] <=> j \in (i - Size[o[i]] + 1)..i
  BY Zenon DEF RepliesAreWhole, Whole
<1>2. (i - Size[o[i]] + 1)..i \subseteq 1..Len(o)
  BY <1>1
<1> HIDE DEF o
<1> QED
  BY <1>1, <1>2, Zenon

(* Output that ends with a whole reply is whole. *)
LEMMA CompleteIsWhole ==
    ASSUME NEW o \in Seq(Requests), Complete(o)
    PROVE  Whole(o)
<1> SUFFICES ASSUME NEW i \in 1..(Len(o) - 1), o[i + 1] # o[i]
             PROVE  /\ i >= Size[o[i]]
                    /\ \A j \in 1..Len(o) : o[j] = o[i] <=> j \in (i - Size[o[i]] + 1)..i
  BY Zenon DEF Whole
<1>1. i \in 1..Len(o) /\ i + 1 \in 1..Len(o) /\ Len(o) \in Nat /\ Size[o[i]] \in Nat \ {0}
  BY Sizes
<1>2. PICK a \in Nat : \A k \in 1..Len(o) : o[k] = o[i] <=> k \in (a + 1)..(a + Size[o[i]])
  BY <1>1, Zenon DEF Complete
<1>3. i = a + Size[o[i]]
  BY <1>1, <1>2
<1> QED
  BY <1>1, <1>2, <1>3

(* So is a part of it from the front. *)
LEMMA PrefixIsWhole ==
    ASSUME NEW o \in Seq(Requests), Whole(o), NEW n \in 0..Len(o)
    PROVE  Whole(SubSeq(o, 1, n))
<1> DEFINE p == SubSeq(o, 1, n)
<1>1. Len(p) = n /\ \A i \in 1..n : p[i] = o[i]
  BY SubSeqProperties
<1> HIDE DEF p
<1>2. ASSUME NEW i \in 1..(n - 1), p[i + 1] # p[i]
      PROVE  /\ i >= Size[p[i]]
             /\ \A j \in 1..n : p[j] = p[i] <=> j \in (i - Size[p[i]] + 1)..i
  <2>1. i \in 1..(Len(o) - 1) /\ p[i] = o[i] /\ p[i + 1] = o[i + 1]
    BY <1>1
  <2> QED
    BY <1>1, <1>2, <2>1 DEF Whole
<1>3. Whole(p)
  BY <1>1, <1>2, Zenon DEF Whole
<1> QED
  BY <1>3, Zenon DEF p

(* A reply put behind complete output leaves it complete. *)
LEMMA ReplyBehind ==
    ASSUME NEW o \in Seq(Requests), NEW m \in Requests
    PROVE  /\ Len(o) \in Nat /\ Len(o \o Bytes(m)) = Len(o) + Size[m]
           /\ \A i \in 1..Len(o) : (o \o Bytes(m))[i] = o[i]
           /\ \A i \in (Len(o) + 1)..Len(o \o Bytes(m)) : (o \o Bytes(m))[i] = m
<1> DEFINE p == o \o Bytes(m)
<1>1. Bytes(m) \in Seq(Requests) /\ Len(Bytes(m)) = Size[m] /\ Size[m] \in Nat \ {0}
      /\ \A j \in 1..Size[m] : Bytes(m)[j] = m
  BY Sizes, Zenon
<1>2. /\ Len(o) \in Nat /\ Len(p) = Len(o) + Len(Bytes(m))
      /\ \A i \in 1..Len(p) : p[i] = IF i <= Len(o) THEN o[i] ELSE Bytes(m)[i - Len(o)]
  BY <1>1, ConcatProperties
<1> HIDE DEF p
<1>3. Len(p) = Len(o) + Size[m]
  BY <1>1, <1>2, Zenon
<1>4. ASSUME NEW i \in (Len(o) + 1)..Len(p)
      PROVE  p[i] = m
  <2>1. i - Len(o) \in 1..Size[m] /\ i \in 1..Len(p) /\ ~(i <= Len(o))
    BY <1>1, <1>2, <1>3
  <2> QED
    BY <1>1, <1>2, <2>1, Zenon
<1>5. \A i \in 1..Len(o) : p[i] = o[i]
  BY <1>1, <1>2, <1>3
<1> QED
  BY <1>2, <1>3, <1>4, <1>5, Zenon DEF p

(* A reply alone is complete. *)
LEMMA ReplyIsComplete ==
    ASSUME NEW o \in Seq(Requests), Complete(o), NEW m \in Requests,
           \A i \in 1..Len(o) : o[i] # m
    PROVE  Complete(o \o Bytes(m))
<1> DEFINE p == o \o Bytes(m)
<1>1. Size[m] \in Nat \ {0}
  BY Sizes, Zenon
<1>2. /\ Len(o) \in Nat /\ Len(p) = Len(o) + Size[m]
      /\ \A i \in 1..Len(o) : p[i] = o[i]
      /\ \A i \in (Len(o) + 1)..Len(p) : p[i] = m
  BY ReplyBehind, Zenon
<1>3. \A i \in 1..Len(o) : Size[o[i]] \in Nat
  BY Sizes
<1> HIDE DEF p
<1>4. ASSUME NEW j \in 1..Len(p)
      PROVE  \E a \in Nat : /\ a + Size[p[j]] <= Len(p)
                            /\ \A k \in 1..Len(p) : p[k] = p[j] <=> k \in (a + 1)..(a + Size[p[j]])
  <2>1. CASE j \in 1..Len(o)
    <3>1. PICK a \in Nat : /\ a + Size[o[j]] <= Len(o)
                           /\ \A k \in 1..Len(o) : o[k] = o[j] <=> k \in (a + 1)..(a + Size[o[j]])
      BY <2>1, Zenon DEF Complete
    <3>2. p[j] = o[j] /\ o[j] # m /\ Size[o[j]] \in Nat
      BY <1>2, <1>3, <2>1, Zenon
    <3>3. a + Size[p[j]] <= Len(p)
      <4>1. Len(o) <= Len(p)
        BY <1>1, <1>2
      <4> QED
        BY <1>2, <3>1, <3>2, <4>1
    <3>4. ASSUME NEW k \in 1..Len(p)
          PROVE  p[k] = p[j] <=> k \in (a + 1)..(a + Size[p[j]])
      <4>1. CASE k \in 1..Len(o)
        BY <1>2, <3>1, <3>2, <4>1, Zenon
      <4>2. CASE k \in (Len(o) + 1)..Len(p)
        BY <1>2, <3>1, <3>2, <4>2
      <4> QED
        BY <1>1, <1>2, <4>1, <4>2
    <3> QED
      BY <3>3, <3>4, Zenon
  <2>2. CASE j \in (Len(o) + 1)..Len(p)
    <3>1. p[j] = m
      BY <1>2, <2>2, Zenon
    <3>2. ASSUME NEW k \in 1..Len(p)
          PROVE  p[k] = m <=> k \in (Len(o) + 1)..(Len(o) + Size[m])
      <4>1. CASE k <= Len(o)
        BY <1>1, <1>2, <4>1
      <4>2. CASE ~(k <= Len(o))
        BY <1>1, <1>2, <4>2
      <4> QED
        BY <4>1, <4>2, Zenon
    <3> QED
      BY <1>1, <1>2, <3>1, <3>2
  <2> QED
    BY <1>1, <1>2, <2>1, <2>2
<1>5. Complete(p)
  BY <1>4, Zenon DEF Complete
<1> QED
  BY <1>5, Zenon DEF p

(* The close: what was buffered is lost, what was sent stays. *)
Cut ==
    /\ state_' = "kDisconnected"
    /\ \E n \in 0..Len(Outgoing) : Outgoing' = SubSeq(Outgoing, 1, n)

(* The reply to m goes behind everything before it. *)
Adds(m) ==
    /\ state_ # "kDisconnected" /\ state_' = state_
    /\ Outgoing' = Outgoing \o Bytes(m)

(* What went out and what waits are sequences of bytes of replies. *)
LEMMA OutgoingType ==
    ASSUME ConnectionTypes
    PROVE  Outgoing \in Seq(Requests) /\ Len(Outgoing) = Len(received) + Len(output_buffer_)
BY ConcatProperties, Zenon DEF ConnectionTypes, Outgoing

(* A close only takes from the end of the output. *)
LEMMA HandleCloseCuts ==
    ASSUME ConnectionTypes, NEW bytes, HandleClose(bytes)
    PROVE  Cut
<1>1. /\ received \in Seq(Requests) /\ output_buffer_ \in Seq(Requests)
      /\ Outgoing \in Seq(Requests) /\ Len(Outgoing) = Len(received) + Len(output_buffer_)
  BY OutgoingType, Zenon DEF ConnectionTypes
<1>2. received' = received /\ state_' = "kDisconnected"
      /\ (output_buffer_' = output_buffer_ \/ output_buffer_' = <<>>)
  BY Zenon DEF HandleClose
<1>3. CASE output_buffer_' = output_buffer_
  <2>1. Outgoing' = Outgoing
    BY <1>2, <1>3, Zenon DEF Outgoing
  <2>2. Outgoing = SubSeq(Outgoing, 1, Len(Outgoing)) /\ Len(Outgoing) \in 0..Len(Outgoing)
    BY <1>1, SubSeqFull
  <2> QED
    BY <1>2, <2>1, <2>2, Zenon DEF Cut
<1>4. CASE output_buffer_' = <<>>
  <2>1. Outgoing' = received
    BY <1>1, <1>2, <1>4, ConcatEmptySeq, Zenon DEF Outgoing
  <2>2. received = SubSeq(Outgoing, 1, Len(received)) /\ Len(received) \in 0..Len(Outgoing)
    <3>1. Len(received) \in Nat /\ Len(output_buffer_) \in Nat
      BY <1>1
    <3>2. \A i \in 1..Len(received) : Outgoing[i] = received[i]
      BY <1>1, <3>1, ConcatProperties DEF Outgoing
    <3>3. /\ SubSeq(Outgoing, 1, Len(received)) \in Seq(Requests)
          /\ Len(SubSeq(Outgoing, 1, Len(received))) = Len(received)
          /\ \A i \in 1..Len(received) : SubSeq(Outgoing, 1, Len(received))[i] = Outgoing[i]
      BY <1>1, <3>1, SubSeqProperties
    <3> QED
      BY <1>1, <3>1, <3>2, <3>3, SeqEqual
  <2> QED
    BY <1>2, <2>1, <2>2, Zenon DEF Cut
<1> QED
  BY <1>2, <1>3, <1>4, Zenon

(* Splitting a sequence and putting the parts behind others. *)
LEMMA SplitConcat ==
    ASSUME NEW s \in Seq(Requests), NEW t \in Seq(Requests), NEW n \in 0..Len(t)
    PROVE  (s \o SubSeq(t, 1, n)) \o SubSeq(t, n + 1, Len(t)) = s \o t
<1> DEFINE a == SubSeq(t, 1, n)
           b == SubSeq(t, n + 1, Len(t))
<1>1. /\ a \in Seq(Requests)
      /\ b \in Seq(Requests)
  <2>1. Len(t) \in Nat /\ \A i \in 1..Len(t) : t[i] \in Requests
    OBVIOUS
  <2>2. (\A i \in 1..n : t[i] \in Requests) /\ \A i \in (n + 1)..Len(t) : t[i] \in Requests
    BY <2>1
  <2> QED
    BY <2>1, <2>2, SubSeqProperties
<1>2. a \o b = SubSeq(t, 1, Len(t))
  <2>1. 1 \in 1..(Len(t) + 1) /\ n \in (1 - 1)..Len(t) /\ Len(t) \in n..Len(t)
    OBVIOUS
  <2> QED
    BY <2>1, ConcatAdjacentSubSeq, Zenon
<1>3. SubSeq(t, 1, Len(t)) = t
  BY SubSeqFull, Zenon
<1> HIDE DEF a, b
<1>4. (s \o a) \o b = s \o (a \o b)
  BY <1>1, ConcatAssociative, SMTT(25)
<1> QED
  BY <1>2, <1>3, <1>4, Zenon DEF a, b

(* A send adds one reply behind it, or closes. *)
LEMMA SendInLoopAdds ==
    ASSUME ConnectionTypes, NEW m \in Requests, SendInLoop(m)
    PROVE  Cut \/ Adds(m)
<1>1. /\ received \in Seq(Requests) /\ output_buffer_ \in Seq(Requests)
      /\ Outgoing \in Seq(Requests) /\ Len(Outgoing) \in Nat
  BY OutgoingType DEF ConnectionTypes
<1>2. Bytes(m) \in Seq(Requests) /\ Len(Bytes(m)) = Size[m] /\ Size[m] \in Nat \ {0}
  BY Sizes, Zenon
<1>3. CASE state_ = "kDisconnected" /\ UNCHANGED <<state_, outputVars>>
  <2>1. Outgoing' = Outgoing
    BY <1>3, Zenon DEF Outgoing, outputVars
  <2>2. Outgoing = SubSeq(Outgoing, 1, Len(Outgoing)) /\ Len(Outgoing) \in 0..Len(Outgoing)
    BY <1>1, SubSeqFull
  <2> QED
    BY <1>3, <2>1, <2>2, Zenon DEF Cut
<1>4. CASE HandleClose(Size[m])
  BY <1>4, HandleCloseCuts, Zenon
<1>5. CASE /\ state_ # "kDisconnected" /\ UNCHANGED <<state_, write_shut>>
           /\ \E n \in 0..(IF MaySendNow THEN Size[m] ELSE 0) :
                 /\ received' = received \o SubSeq(Bytes(m), 1, n)
                 /\ output_buffer_' = output_buffer_ \o SubSeq(Bytes(m), n + 1, Size[m])
  <2>1. PICK n \in 0..(IF MaySendNow THEN Size[m] ELSE 0) :
                 /\ received' = received \o SubSeq(Bytes(m), 1, n)
                 /\ output_buffer_' = output_buffer_ \o SubSeq(Bytes(m), n + 1, Size[m])
    BY <1>5, Zenon
  <2> DEFINE a == SubSeq(Bytes(m), 1, n)
             b == SubSeq(Bytes(m), n + 1, Size[m])
  <2>2. n \in 0..Size[m]
    BY <1>2
  <2>3. a \in Seq(Requests) /\ b \in Seq(Requests)
    BY <2>2, ReplyParts, Zenon
  <2>4. (received \o a) \o b = received \o Bytes(m)
    <3>1. n \in 0..Len(Bytes(m)) /\ b = SubSeq(Bytes(m), n + 1, Len(Bytes(m)))
      BY <1>2, <2>2, Zenon
    <3>2. (received \o a) \o SubSeq(Bytes(m), n + 1, Len(Bytes(m))) = received \o Bytes(m)
      BY <1>1, <1>2, <3>1, SplitConcat, Zenon
    <3> QED
      BY <3>1, <3>2, Zenon
  <2>5. CASE output_buffer_ = <<>>
    <3>1. Outgoing = received
      BY <1>1, <2>5, ConcatEmptySeq, Zenon DEF Outgoing
    <3>2. output_buffer_' = b
      <4> HIDE DEF b
      <4> QED
        BY <2>1, <2>3, <2>5, ConcatEmptySeq, Zenon DEF b
    <3>3. Outgoing' = (received \o a) \o b
      BY <2>1, <3>2, Zenon DEF Outgoing
    <3> QED
      BY <1>5, <2>4, <3>1, <3>3, Zenon DEF Adds
  <2>6. CASE output_buffer_ # <<>>
    <3>1. n = 0
      BY <2>6 DEF MaySendNow
    <3>2. a = <<>>
      BY <3>1, SubSeqEmpty
    <3>3. b = Bytes(m)
      BY <1>2, <3>1, SubSeqFull
    <3> HIDE DEF a, b
    <3>4. received' = received
      BY <1>1, <2>1, <3>2, ConcatEmptySeq, Zenon DEF a
    <3>5. Outgoing' = received \o (output_buffer_ \o Bytes(m))
      BY <2>1, <3>3, <3>4, Zenon DEF Outgoing, b
    <3>6. (received \o output_buffer_) \o Bytes(m) = received \o (output_buffer_ \o Bytes(m))
      <4> DEFINE c == Bytes(m)
      <4>1. received \in Seq(Requests) /\ output_buffer_ \in Seq(Requests) /\ c \in Seq(Requests)
        BY <1>1, <1>2, Zenon
      <4> HIDE DEF c
      <4>2. (received \o output_buffer_) \o c = received \o (output_buffer_ \o c)
        BY <4>1, ConcatAssociative, SMTT(25)
      <4> QED
        BY <4>2, Zenon DEF c
    <3> QED
      BY <1>5, <3>5, <3>6, Zenon DEF Adds, Outgoing
  <2> QED
    BY <2>5, <2>6, Zenon
<1> QED
  BY <1>3, <1>4, <1>5, Zenon DEF SendInLoop

(* A writable socket moves bytes on, and no more. *)
LEMMA HandleWriteMoves ==
    ASSUME ConnectionTypes, HandleWrite
    PROVE  Outgoing' = Outgoing /\ state_' = state_
<1>1. received \in Seq(Requests) /\ output_buffer_ \in Seq(Requests)
  BY Zenon DEF ConnectionTypes
<1>2. PICK n \in 1..Len(output_buffer_) :
        /\ received' = received \o SubSeq(output_buffer_, 1, n)
        /\ output_buffer_' = SubSeq(output_buffer_, n + 1, Len(output_buffer_))
  BY Zenon DEF HandleWrite
<1>3. n \in 0..Len(output_buffer_)
  BY <1>1
<1>4. (received \o SubSeq(output_buffer_, 1, n)) \o SubSeq(output_buffer_, n + 1, Len(output_buffer_))
        = received \o output_buffer_
  BY <1>1, <1>3, SplitConcat, Zenon
<1> QED
  BY <1>2, <1>4, Zenon DEF HandleWrite, Outgoing

(* The replies that have a byte on its way. *)
Gone == {Outgoing[i] : i \in 1..Len(Outgoing)}

(* No reply is in two places. *)
SentOnce ==
    /\ \A r \in Gone : r \in malformed \/ r <= answered
    /\ sender # "idle" => answered \notin Gone
    /\ handler = "sending" => parsed \notin Gone
    /\ \A i \in 1..Len(loop_tasks) : loop_tasks[i].op = "send" =>
         /\ loop_tasks[i].reply <= answered /\ loop_tasks[i].reply \notin malformed \cup Gone
         /\ sender # "idle" => loop_tasks[i].reply # answered
         /\ \A j \in 1..Len(loop_tasks) :
              loop_tasks[j].op = "send" /\ i # j => loop_tasks[j].reply # loop_tasks[i].reply

OrderlyOutput == IF state_ = "kDisconnected" THEN Whole(Outgoing) ELSE Complete(Outgoing)

ReplyInv == ConnectionTypes /\ OrderlyOutput /\ SentOnce

(* A new connection has sent nothing. *)
LEMMA ReplyInit == ConnectionInit => ReplyInv
<1> SUFFICES ASSUME ConnectionInit PROVE ReplyInv
  BY Zenon
<1>1. ConnectionTypes
  BY AccountingInit, Zenon DEF AccountingInv
<1>2. Outgoing = <<>> /\ Len(Outgoing) = 0 /\ Len(loop_tasks) = 0
  BY DEF ConnectionInit, Outgoing
<1>3. Gone = {}
  BY <1>2 DEF Gone
<1>4. SentOnce
  BY <1>2, <1>3 DEF SentOnce, ConnectionInit
<1>5. OrderlyOutput
  BY <1>2 DEF OrderlyOutput, Complete, ConnectionInit
<1> QED
  BY <1>1, <1>4, <1>5, Zenon DEF ReplyInv

(* The output after a close, after a reply, and when it stays. *)
LEMMA CutKeeps ==
    ASSUME ConnectionTypes, OrderlyOutput, Cut
    PROVE  OrderlyOutput' /\ Gone' \subseteq Gone
<1>1. Outgoing \in Seq(Requests) /\ Whole(Outgoing)
  BY OutgoingType, CompleteIsWhole, Zenon DEF OrderlyOutput
<1>2. PICK n \in 0..Len(Outgoing) : Outgoing' = SubSeq(Outgoing, 1, n)
  BY Zenon DEF Cut
<1>3. Whole(SubSeq(Outgoing, 1, n))
  BY <1>1, PrefixIsWhole, Zenon
<1>4. Whole(Outgoing)'
  BY <1>2, <1>3, Zenon DEF Whole
<1>5. OrderlyOutput'
  BY <1>4, Zenon DEF OrderlyOutput, Cut
<1>6. Len(Outgoing') = n /\ \A i \in 1..n : Outgoing'[i] = Outgoing[i]
  BY <1>1, <1>2, SubSeqProperties
<1>7. Gone' \subseteq Gone
  BY <1>1, <1>6 DEF Gone
<1> QED
  BY <1>5, <1>7, Zenon

(* A reply that was not sent yet may be added. *)
LEMMA AddsKeeps ==
    ASSUME ConnectionTypes, OrderlyOutput, NEW m \in Requests, m \notin Gone, Adds(m)
    PROVE  OrderlyOutput' /\ Gone' \subseteq Gone \cup {m}
<1>1. Outgoing \in Seq(Requests) /\ Complete(Outgoing) /\ Outgoing' = Outgoing \o Bytes(m)
  BY OutgoingType, Zenon DEF OrderlyOutput, Adds
<1>2. \A i \in 1..Len(Outgoing) : Outgoing[i] # m
  BY Zenon DEF Gone
<1>3. Complete(Outgoing \o Bytes(m))
  BY <1>1, <1>2, ReplyIsComplete, Zenon
<1>4. Complete(Outgoing)'
  BY <1>1, <1>3, ZenonT(40) DEF Complete
<1>5. OrderlyOutput'
  BY <1>4, Zenon DEF OrderlyOutput, Adds
<1>7. /\ Len(Outgoing) \in Nat
      /\ \A i \in 1..Len(Outgoing) : Outgoing'[i] = Outgoing[i]
      /\ \A i \in (Len(Outgoing) + 1)..Len(Outgoing') : Outgoing'[i] = m
  BY <1>1, ReplyBehind, Zenon
<1>8. ASSUME NEW i \in 1..Len(Outgoing')
      PROVE  Outgoing'[i] \in Gone \cup {m}
  <2>1. CASE i <= Len(Outgoing)
    BY <1>7, <2>1 DEF Gone
  <2>2. CASE ~(i <= Len(Outgoing))
    BY <1>7, <2>2
  <2> QED
    BY <2>1, <2>2, Zenon
<1> QED
  BY <1>5, <1>8, Zenon DEF Gone

(* A step that leaves the output alone. *)
LEMMA SameOutput ==
    ASSUME OrderlyOutput, Outgoing' = Outgoing,
           state_' = "kDisconnected" <=> state_ = "kDisconnected"
    PROVE  OrderlyOutput' /\ Gone' = Gone
<1>1. Whole(Outgoing)' <=> Whole(Outgoing)
  BY Zenon DEF Whole
<1>2. Complete(Outgoing)' <=> Complete(Outgoing)
  BY DEF Complete
<1> QED
  BY <1>1, <1>2, Zenon DEF OrderlyOutput, Gone

(* The reactor's own steps.  In each the output is cut, gets a reply, or   *)
(* stays.                                                                  *)
LEMMA ReadMalformedSendsOnce ==
    ASSUME ReplyInv, ReadMalformed
    PROVE  OrderlyOutput' /\ SentOnce'
<1>1. ConnectionTypes /\ OrderlyOutput /\ SentOnce
  BY Zenon DEF ReplyInv
<1>2. /\ parsed \in Nat /\ answered \in 0..parsed /\ malformed \subseteq 1..parsed
      /\ parsed' = parsed + 1 /\ malformed' = malformed \cup {parsed + 1}
      /\ handler' \in {"sending", "idle"} /\ UNCHANGED <<loop_tasks, sender, answered>>
  BY <1>1, CountsAreNumbers, Zenon DEF ReadMalformed, ConnectionTypes, workerVars
<1>3. OrderlyOutput' /\ Gone' \subseteq Gone
  <2>1. CASE HandleClose(0)
    BY <1>1, <2>1, HandleCloseCuts, CutKeeps, Zenon
  <2>2. CASE UNCHANGED <<state_, outputVars>>
    BY <1>1, <2>2, SameOutput, Zenon DEF outputVars, Outgoing
  <2> QED
    BY <2>1, <2>2, Zenon DEF ReadMalformed
<1>4. \A r \in Gone : r # parsed + 1
  BY <1>1, <1>2 DEF SentOnce
<1>5. \A i \in 1..Len(loop_tasks) : loop_tasks[i].op = "send" => loop_tasks[i].reply # parsed + 1
  BY <1>1, <1>2 DEF SentOnce
<1>6. SentOnce'
  BY <1>1, <1>2, <1>3, <1>4, <1>5 DEF SentOnce
<1> QED
  BY <1>3, <1>6, Zenon

(* The error answer is sent once. *)
LEMMA SendErrorSendsOnce ==
    ASSUME ReplyInv, SendError
    PROVE  OrderlyOutput' /\ SentOnce'
<1>1. ConnectionTypes /\ OrderlyOutput /\ SentOnce
  BY Zenon DEF ReplyInv
<1>2. /\ parsed \in Requests /\ parsed \in malformed /\ parsed \notin Gone
      /\ (sender # "idle" => answered \notin malformed)
      /\ handler' = "shutting" /\ UNCHANGED <<loop_tasks, sender, answered, malformed>>
  BY <1>1, CountsAreNumbers, Zenon DEF SendError, ConnectionTypes, SentOnce, workerVars
<1>3. OrderlyOutput' /\ Gone' \subseteq Gone \cup {parsed}
  BY <1>1, <1>2, SendInLoopAdds, CutKeeps, AddsKeeps, Zenon DEF SendError
<1>4. SentOnce'
  BY <1>1, <1>2, <1>3 DEF SentOnce
<1> QED
  BY <1>3, <1>4, Zenon

(* A queued reply is sent once. *)
LEMMA RunLoopTaskSendsOnce ==
    ASSUME ReplyInv, RunLoopTask
    PROVE  OrderlyOutput' /\ SentOnce'
<1> DEFINE task == Head(loop_tasks)
<1>1. ConnectionTypes /\ OrderlyOutput /\ SentOnce
  BY Zenon DEF ReplyInv
<1>2. /\ loop_tasks \in Seq(Tasks) /\ loop_tasks # <<>> /\ loop_tasks' = Tail(loop_tasks)
      /\ handler' = "idle" /\ UNCHANGED <<sender, answered, parsed, malformed>>
  BY <1>1, Zenon DEF RunLoopTask, ConnectionTypes, workerVars, inputVars
<1>3. /\ Len(loop_tasks) \in Nat \ {0} /\ task = loop_tasks[1] /\ task \in Tasks
      /\ Len(loop_tasks') = Len(loop_tasks) - 1
      /\ \A i \in 1..(Len(loop_tasks) - 1) : loop_tasks'[i] = loop_tasks[i + 1]
  BY <1>2
<1>4. 1 \in 1..Len(loop_tasks) /\ \A i \in 1..(Len(loop_tasks) - 1) : i + 1 \in 1..Len(loop_tasks) /\ i + 1 # 1
  BY <1>3
<1> HIDE DEF task
<1>5. CASE task.op = "close" /\ HandleClose(0)
  <2>1. OrderlyOutput' /\ Gone' \subseteq Gone
    BY <1>1, <1>5, HandleCloseCuts, CutKeeps, Zenon
  <2>2. SentOnce'
    BY <1>1, <1>2, <1>3, <1>4, <2>1 DEF SentOnce
  <2> QED
    BY <2>1, <2>2, Zenon
<1>6. CASE task.op = "send" /\ SendInLoop(task.reply)
  <2>1. task.reply \in Requests
    BY <1>3, <1>6, Zenon DEF Tasks
  <2>2. /\ task.reply \notin Gone /\ task.reply <= answered
        /\ (sender # "idle" => task.reply # answered)
        /\ \A j \in 1..Len(loop_tasks) :
             loop_tasks[j].op = "send" /\ j # 1 => loop_tasks[j].reply # task.reply
    BY <1>1, <1>3, <1>4, <1>6, Zenon DEF SentOnce
  <2>3. OrderlyOutput' /\ Gone' \subseteq Gone \cup {task.reply}
    <3>1. Cut \/ Adds(task.reply)
      BY <1>1, <1>6, <2>1, SendInLoopAdds, Zenon
    <3>2. CASE Cut
      BY <1>1, <3>2, CutKeeps, Zenon
    <3>3. CASE Adds(task.reply)
      BY <1>1, <2>1, <2>2, <3>3, AddsKeeps, Zenon
    <3> QED
      BY <3>1, <3>2, <3>3, Zenon
  <2>4. SentOnce'
    BY <1>1, <1>2, <1>3, <1>4, <2>2, <2>3 DEF SentOnce
  <2> QED
    BY <2>3, <2>4, Zenon
<1> QED
  BY <1>5, <1>6, Zenon DEF RunLoopTask, task

(* The other steps of the reactor. *)
LEMMA ReactorSendsOnce ==
    ASSUME ReplyInv, ReadRequest \/ Shutdown \/ Close \/ HandleWrite
    PROVE  OrderlyOutput' /\ SentOnce'
<1>1. ConnectionTypes /\ OrderlyOutput /\ SentOnce
  BY Zenon DEF ReplyInv
<1>2. UNCHANGED <<loop_tasks, sender, answered, malformed>> /\ handler' # "sending"
  BY <1>1, Zenon DEF ReadRequest, Readable, Shutdown, Close, HandleWrite, inputVars, workerVars
<1>3. OrderlyOutput' /\ Gone' \subseteq Gone
  <2>1. CASE ReadRequest
    BY <1>1, <2>1, SameOutput, Zenon DEF ReadRequest, outputVars, Outgoing
  <2>2. CASE Shutdown
    BY <1>1, <2>2, SameOutput, Zenon DEF Shutdown, Outgoing
  <2>3. CASE Close
    BY <1>1, <2>3, HandleCloseCuts, CutKeeps, Zenon DEF Close
  <2>4. CASE HandleWrite
    BY <1>1, <2>4, HandleWriteMoves, SameOutput, Zenon
  <2> QED
    BY <2>1, <2>2, <2>3, <2>4, Zenon
<1>4. SentOnce'
  BY <1>1, <1>2, <1>3, Zenon DEF SentOnce
<1> QED
  BY <1>3, <1>4, Zenon

(* The worker's steps. *)
LEMMA WorkerSendsOnce ==
    ASSUME ReplyInv, Send \/ ReserveOutput \/ QueueInLoop \/ UNCHANGED connectionVars
    PROVE  OrderlyOutput' /\ SentOnce'
<1>1. ConnectionTypes /\ OrderlyOutput /\ SentOnce
  BY Zenon DEF ReplyInv
<1>2. /\ UNCHANGED <<state_, output_buffer_, received, parsed, malformed, handler>>
      /\ answered \in Nat /\ parsed \in Nat /\ loop_tasks \in Seq(Tasks) /\ Len(loop_tasks) \in Nat
  BY <1>1, CountsAreNumbers
     DEF Send, ReserveOutput, QueueInLoop, connectionVars, outputVars, inputVars, ConnectionTypes
<1>3. OrderlyOutput' /\ Gone' = Gone
  BY <1>1, <1>2, SameOutput, Zenon DEF Outgoing
<1>4. CASE Send
  <2>1. PICK m \in (answered + 1)..parsed : m \notin malformed /\ answered' = m
    BY <1>4, Zenon DEF Send
  <2>2. loop_tasks' = loop_tasks /\ answered' \in Nat /\ answered < answered' /\ answered' \notin malformed
    BY <1>2, <1>4, <2>1 DEF Send
  <2>3. \A r \in Gone : r \in malformed \/ (r <= answered' /\ r # answered')
    <3>1. \A r \in Gone : r \in Requests /\ r \in Nat
      BY <1>1, OutgoingType, Sizes DEF Gone
    <3> QED
      BY <1>1, <1>2, <2>2, <3>1 DEF SentOnce
  <2>4. \A i \in 1..Len(loop_tasks) : loop_tasks[i].op = "send" =>
          loop_tasks[i].reply <= answered' /\ loop_tasks[i].reply # answered'
    <3>1. \A i \in 1..Len(loop_tasks) : loop_tasks[i].op = "send" => loop_tasks[i].reply \in Nat
      <4>1. \A i \in 1..Len(loop_tasks) : loop_tasks[i] \in Tasks
        BY <1>2
      <4> QED
        BY <4>1, Sizes DEF Tasks
    <3> QED
      BY <1>1, <1>2, <2>2, <3>1 DEF SentOnce
  <2>5. SentOnce'
    BY <1>1, <1>2, <1>3, <2>2, <2>3, <2>4, Zenon DEF SentOnce
  <2> QED
    BY <1>3, <2>5, Zenon
<1>5. CASE ReserveOutput
  <2>1. CASE loop_tasks' = loop_tasks
    BY <1>1, <1>2, <1>3, <1>5, <2>1 DEF SentOnce, ReserveOutput
  <2>2. CASE loop_tasks' = Append(loop_tasks, [op |-> "close", reply |-> 0]) /\ sender' = "idle"
    <3>1. /\ Len(loop_tasks') = Len(loop_tasks) + 1
          /\ \A i \in 1..Len(loop_tasks) : loop_tasks'[i] = loop_tasks[i]
          /\ loop_tasks'[Len(loop_tasks) + 1].op = "close"
      BY <1>2, <2>2
    <3>2. \A i \in 1..Len(loop_tasks') : loop_tasks'[i].op = "send" =>
            i \in 1..Len(loop_tasks) /\ loop_tasks'[i] = loop_tasks[i]
      BY <1>2, <3>1
    <3>3. answered' = answered
      BY <1>5, Zenon DEF ReserveOutput
    <3>4. SentOnce'
      BY <1>1, <1>2, <1>3, <2>2, <3>2, <3>3 DEF SentOnce
    <3> QED
      BY <1>3, <3>4, Zenon
  <2> QED
    BY <1>3, <1>5, <2>1, <2>2, ZenonT(40) DEF ReserveOutput
<1>6. CASE QueueInLoop
  <2> DEFINE n == Len(loop_tasks) + 1
  <2>1. /\ sender = "queueing" /\ sender' = "idle" /\ answered' = answered
        /\ loop_tasks' = Append(loop_tasks, [op |-> "send", reply |-> answered])
    BY <1>6, Zenon DEF QueueInLoop
  <2>2. /\ Len(loop_tasks') = n /\ loop_tasks'[n].reply = answered
        /\ \A i \in 1..Len(loop_tasks) : loop_tasks'[i] = loop_tasks[i]
    BY <1>2, <2>1
  <2>3. answered \notin malformed \cup Gone
    BY <1>1, <2>1, Zenon DEF SentOnce, ConnectionTypes
  <2>4. \A i \in 1..n : i = n \/ (i \in 1..Len(loop_tasks) /\ i # n)
    BY <1>2
  <2> HIDE DEF n
  <2>5. ASSUME NEW i \in 1..n, loop_tasks'[i].op = "send"
        PROVE  /\ loop_tasks'[i].reply <= answered /\ loop_tasks'[i].reply \notin malformed \cup Gone
               /\ \A j \in 1..n : loop_tasks'[j].op = "send" /\ i # j
                    => loop_tasks'[j].reply # loop_tasks'[i].reply
    BY <1>1, <1>2, <2>1, <2>2, <2>3, <2>4, <2>5 DEF SentOnce
  <2>6. SentOnce'
    BY <1>1, <1>2, <1>3, <2>1, <2>2, <2>5, Zenon DEF SentOnce
  <2> QED
    BY <1>3, <2>6, Zenon
<1>7. CASE UNCHANGED connectionVars
  BY <1>1, <1>2, <1>3, <1>7, Zenon DEF SentOnce, connectionVars, workerVars
<1> QED
  BY <1>4, <1>5, <1>6, <1>7, Zenon

(* Every step sends whole replies, each of them once. *)
LEMMA ReplyStep == ReplyInv /\ ConnectionTypes' /\ [ConnectionNext]_connectionVars => ReplyInv'
BY ReadMalformedSendsOnce, SendErrorSendsOnce, RunLoopTaskSendsOnce, ReactorSendsOnce,
   WorkerSendsOnce, Zenon DEF ReplyInv, ConnectionNext, ReactorStep, SendStep

(* What the client receives are whole replies, one after the other, but    *)
(* for the end, however its reads, the worker's sends and a close meet.    *)
THEOREM ClientsReceiveWholeReplies == ConnectionSpec => []RepliesAreWhole
<1>1. AccountingInv /\ ReplyInv /\ [ConnectionNext]_connectionVars => (AccountingInv /\ ReplyInv)'
  BY AccountingStep, ReplyStep, Zenon DEF AccountingInv
<1>2. ReplyInv => RepliesAreWhole
  BY OutgoingType, CompleteIsWhole, WholeIs, Zenon DEF ReplyInv, OrderlyOutput
<1> QED
  BY <1>1, <1>2, AccountingInit, ReplyInit, PTL DEF ConnectionSpec
=============================================================================
