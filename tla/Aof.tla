-------------------------------- MODULE Aof --------------------------------
(***************************************************************************)
(* The append-only file: src/persist/aof.cpp, the part of CommandExecutor  *)
(* that feeds it, and recovery at the next start (aof_impl.h, main.cpp).   *)
(*                                                                         *)
(* Command workers execute mutations: guard, handler, append, reply.  One  *)
(* writer thread takes records from queue_ and writes them.  A crash       *)
(* leaves on disk what was synced and any part of what was written after.  *)
(*                                                                         *)
(* Mutations are numbered and all of them write the same key, so the state *)
(* of the database is the sequence of mutations applied to it.             *)
(***************************************************************************)
EXTENDS Naturals, Sequences

CONSTANTS
    Workers,        \* command workers
    Policies,       \* the settings of appendfsync considered
    MaxMutations,   \* bound: mutations requested
    MaxFaults,      \* bound: writes and syncs that fail
    MaxRestarts     \* bound: times the server is started again

ASSUME AofAssumption ==
    /\ Policies \subseteq {"always", "everysec", "no"}
    /\ {MaxMutations, MaxFaults, MaxRestarts} \subseteq Nat

VARIABLES
    mode,           \* "up", "stopping" or "down"
    applied,        \* the database: mutations in the order of their handlers
    \* the workers
    pc, mutation, requested,
    promise,        \* mutation -> the state of Record::durable
    acked,          \* history: mutations answered with success
    prior,          \* history: mutation -> those acked when it was requested
    \* AofWriter
    policy_,        \* set by the constructor and never changed
    queue_, failure_,
    at, record,     \* where the writer thread is, and the record it holds
    dirty,
    due,            \* next_sync has been reached
    \* the file
    file,           \* records written: [id, whole]
    synced,         \* how many of them are on the disk for certain
    faults, restarts

workerVars == <<pc, mutation, requested, prior>>
writerVars == <<at, record, dirty, due>>
fileVars == <<file, synced>>
bounds == <<faults, restarts>>
vars == <<policy_, mode, applied, workerVars, promise, acked, queue_, failure_, writerVars, fileVars, bounds>>

Mutations == 1..MaxMutations
Whole(id) == [id |-> id, whole |-> TRUE]
Torn(id) == [id |-> id, whole |-> FALSE]

Init ==
    /\ mode = "up"
    /\ applied = <<>>
    /\ pc = [w \in Workers |-> "idle"]
    /\ mutation = [w \in Workers |-> 0]
    /\ promise = [m \in Mutations |-> "none"]
    /\ policy_ \in Policies
    /\ queue_ = <<>> /\ failure_ = FALSE
    /\ at = "waiting" /\ record = 0 /\ dirty = FALSE /\ due = FALSE
    /\ requested = 0 /\ acked = {} /\ prior = [m \in Mutations |-> {}]
    /\ file = <<>> /\ synced = 0
    /\ faults = 0 /\ restarts = 0

----------------------------------------------------------------------------
(***************************************************************************)
(* CommandExecutor::Execute for a mutating command.                        *)
(***************************************************************************)
Moves(w, to) == pc' = [pc EXCEPT ![w] = to]

Guard(w) ==
    /\ mode = "up" /\ pc[w] = "idle" /\ requested < MaxMutations
    /\ requested' = requested + 1
    /\ prior' = [prior EXCEPT ![requested + 1] = acked]
    /\ IF failure_ THEN UNCHANGED <<pc, mutation>>      \* MISCONF
       ELSE Moves(w, "guarded") /\ mutation' = [mutation EXCEPT ![w] = requested + 1]
    /\ UNCHANGED <<policy_, mode, applied, promise, acked, queue_, failure_, writerVars, fileVars, bounds>>

(* The handler changes the database, or replies with an error or null. *)
Handle(w) ==
    /\ pc[w] = "guarded"
    /\ \/ applied' = Append(applied, mutation[w]) /\ Moves(w, "appending")
       \/ applied' = applied /\ Moves(w, "idle")
    /\ UNCHANGED <<policy_, mode, mutation, requested, prior, promise, acked, queue_, failure_, writerVars, fileVars,
                   bounds>>

(* Fault: success is reported as soon as the record is queued. *)
AppendWaits_Never == FALSE

AppendWaits == policy_ = "always"

(* AofWriter::Append up to the wait; a failed append is an error reply. *)
AppendRecord(w) ==
    LET m == mutation[w] IN
    /\ pc[w] = "appending"
    /\ IF failure_
       THEN Moves(w, "idle") /\ UNCHANGED <<queue_, promise, acked>>
       ELSE /\ queue_' = Append(queue_, m)
            /\ promise' = [promise EXCEPT ![m] = IF AppendWaits THEN "pending" ELSE "none"]
            /\ acked' = IF AppendWaits THEN acked ELSE acked \cup {m}
            /\ Moves(w, IF AppendWaits THEN "waiting" ELSE "idle")
    /\ UNCHANGED <<policy_, mode, applied, mutation, requested, prior, failure_, writerVars, fileVars, bounds>>

Durable(w) ==
    LET m == mutation[w] IN
    /\ pc[w] = "waiting" /\ promise[m] \in {"value", "exception"}
    /\ acked' = IF promise[m] = "value" THEN acked \cup {m} ELSE acked
    /\ Moves(w, "idle")
    /\ UNCHANGED <<policy_, mode, applied, mutation, requested, prior, promise, queue_, failure_, writerVars,
                   fileVars, bounds>>

----------------------------------------------------------------------------
(***************************************************************************)
(* The writer thread: AofWriter::Run.                                      *)
(***************************************************************************)
Elapse ==
    /\ mode \in {"up", "stopping"} /\ ~due
    /\ due' = TRUE
    /\ UNCHANGED <<policy_, mode, applied, workerVars, promise, acked, queue_, failure_, at, record, dirty,
                   fileVars, bounds>>

(* Fault: the newest record first. *)
Pop_Newest == record' = queue_[Len(queue_)] /\ queue_' = SubSeq(queue_, 1, Len(queue_) - 1)

Pop == record' = Head(queue_) /\ queue_' = Tail(queue_)

TakeRecord ==
    /\ at = "waiting" /\ queue_ # <<>>
    /\ Pop
    /\ at' = "writing"
    /\ UNCHANGED <<policy_, mode, applied, workerVars, promise, acked, failure_, dirty, due, fileVars, bounds>>

(* Fault: wait in place of wait_until. *)
MayTimeOut_Never == FALSE

MayTimeOut == queue_ = <<>> /\ mode = "up" /\ due

TimeOut ==
    /\ at = "waiting" /\ MayTimeOut
    /\ at' = "checking"
    /\ UNCHANGED <<policy_, mode, applied, workerVars, promise, acked, queue_, failure_, record, dirty, due,
                   fileVars, bounds>>

Resolve(value) == promise' = IF promise[record] = "pending"
                             THEN [promise EXCEPT ![record] = value] ELSE promise

(* WriteRecord; it succeeds when every byte has been taken. *)
Write ==
    /\ at = "writing"
    /\ file' = Append(file, Whole(record))
    /\ dirty' = TRUE
    /\ at' = IF policy_ = "always" THEN "syncing" ELSE "checking"
    /\ UNCHANGED <<policy_, mode, applied, workerVars, promise, acked, queue_, failure_, record, due, synced,
                   bounds>>

SyncRecord ==
    /\ at = "syncing"
    /\ synced' = Len(file) /\ dirty' = FALSE
    /\ Resolve("value")
    /\ at' = "checking"
    /\ UNCHANGED <<policy_, mode, applied, workerVars, acked, queue_, failure_, record, due, file, bounds>>

(* write, perhaps after some bytes, or fdatasync fails.  Only the waiter   *)
(* of this record learns of it yet.                                        *)
WriteFails ==
    /\ at \in {"writing", "syncing"} /\ faults < MaxFaults
    /\ file' \in (IF at = "writing" THEN {file, Append(file, Torn(record))} ELSE {file})
    /\ Resolve("exception")
    /\ at' = "failing" /\ faults' = faults + 1
    /\ UNCHANGED <<policy_, mode, applied, workerVars, acked, queue_, failure_, record, dirty, due, synced,
                   restarts>>

(* Fault: those who queued meanwhile are not told. *)
Rejected_None == {}

Rejected == {queue_[i] : i \in DOMAIN queue_}

SetFailure ==
    /\ failure_' = TRUE
    /\ queue_' = <<>>
    /\ promise' = [m \in Mutations |->
                      IF m \in Rejected /\ promise[m] = "pending" THEN "exception" ELSE promise[m]]

EnterFailure ==
    /\ at = "failing"
    /\ SetFailure
    /\ at' = "checking"
    /\ UNCHANGED <<policy_, mode, applied, workerVars, acked, record, dirty, due, fileVars, bounds>>

(* The end of an iteration: the sync of every second, and next_sync. *)
SyncDue == policy_ = "everysec" /\ dirty /\ due

EndIteration ==
    /\ at = "checking"
    /\ at' = "waiting" /\ due' = FALSE
    /\ \/ /\ ~SyncDue
          /\ UNCHANGED <<dirty, synced, failure_, queue_, promise, faults>>
       \/ /\ SyncDue /\ dirty' = FALSE
          /\ synced' = Len(file)
          /\ UNCHANGED <<failure_, queue_, promise, faults>>
       \/ /\ SyncDue /\ dirty' = FALSE
          /\ faults < MaxFaults /\ faults' = faults + 1
          /\ SetFailure
          /\ UNCHANGED synced
    /\ UNCHANGED <<policy_, mode, applied, workerVars, acked, record, file, restarts>>

----------------------------------------------------------------------------
(***************************************************************************)
(* The process.                                                            *)
(***************************************************************************)
(* SIGTERM: the dispatcher has been stopped before the writer is.          *)
Stop ==
    /\ mode = "up" /\ \A w \in Workers : pc[w] = "idle"
    /\ mode' = "stopping"
    /\ UNCHANGED <<policy_, applied, workerVars, promise, acked, queue_, failure_, writerVars, fileVars, bounds>>

(* Fault: leave without looking at the queue. *)
MayLeave_Queued == mode = "stopping"

MayLeave == mode = "stopping" /\ queue_ = <<>>

(* The result of the last fdatasync is not looked at; nor does one that    *)
(* succeeds vouch for what an earlier one failed to write.                 *)
Leave ==
    /\ at = "waiting" /\ MayLeave
    /\ \/ ~(dirty /\ policy_ # "no") /\ UNCHANGED <<synced, faults>>
       \/ dirty /\ policy_ # "no" /\ ~failure_ /\ synced' = Len(file) /\ UNCHANGED faults
       \/ /\ dirty /\ policy_ # "no" /\ UNCHANGED synced
          /\ IF failure_ THEN UNCHANGED faults ELSE faults < MaxFaults /\ faults' = faults + 1
    /\ at' = "left" /\ mode' = "down"
    /\ UNCHANGED <<policy_, applied, workerVars, promise, acked, queue_, failure_, record, dirty, due, file,
                   restarts>>

(* What was written when the process ends, perhaps with a part of the      *)
(* record being written; and what the disk has of it when the machine      *)
(* stops: n whole records, and perhaps a part of the next one.             *)
Written == {file} \cup (IF at = "writing" THEN {Append(file, Torn(record))} ELSE {})

Remains ==
    UNION {{SubSeq(f, 1, n) : n \in synced..Len(f)} \cup
           {Append(SubSeq(f, 1, n), Torn(f[n + 1].id)) : n \in synced..(Len(f) - 1)}
              : f \in Written}

(* After a crash of the process alone the page cache still has all that    *)
(* was written, and no more of it is on the disk than before.              *)
Crash ==
    /\ mode \in {"up", "stopping"}
    /\ \/ file' \in Written /\ UNCHANGED synced
       \/ file' \in Remains /\ synced' = Len(file')
    /\ mode' = "down" /\ at' = "crashed" /\ pc' = [w \in Workers |-> "idle"]
    /\ UNCHANGED <<policy_, applied, mutation, requested, prior, promise, acked, queue_, failure_, record,
                   dirty, due, bounds>>

(* Replay: a torn last record is cut off.  With one in the middle the      *)
(* parser loses its place, and the server does not start.                  *)
TornAt == {i \in DOMAIN file : ~file[i].whole}

Intact == IF TornAt = {} THEN file ELSE SubSeq(file, 1, Len(file) - 1)

(* Fault: the torn tail is skipped and stays in the file. *)
Truncated_Not == file

Truncated == Intact

(* Nothing is synced at a start: what was only in the page cache still is. *)
Restart ==
    /\ mode = "down" /\ restarts < MaxRestarts
    /\ TornAt \subseteq {Len(file)}
    /\ restarts' = restarts + 1
    /\ file' = Truncated
    /\ synced' = IF synced < Len(Truncated) THEN synced ELSE Len(Truncated)
    /\ applied' = [i \in DOMAIN Intact |-> Intact[i].id]
    /\ mode' = "up"
    /\ pc' = [w \in Workers |-> "idle"]
    /\ mutation' = [w \in Workers |-> 0]
    /\ promise' = [m \in Mutations |-> "none"]
    /\ queue_' = <<>> /\ failure_' = FALSE
    /\ at' = "waiting" /\ record' = 0 /\ dirty' = FALSE /\ due' = FALSE
    /\ UNCHANGED <<policy_, requested, prior, acked, faults>>

WorkerStep(w) == Handle(w) \/ AppendRecord(w) \/ Durable(w)
WriterStep ==
    \/ TakeRecord \/ TimeOut \/ Write \/ SyncRecord \/ WriteFails \/ EnterFailure
    \/ EndIteration \/ Leave
Terminated == mode = "down" /\ UNCHANGED vars

Next ==
    \/ \E w \in Workers : Guard(w) \/ WorkerStep(w)
    \/ WriterStep \/ Elapse
    \/ Stop \/ Crash \/ Restart \/ Terminated

Spec == Init /\ [][Next]_vars

(* Threads are scheduled and time passes.  Nobody has to send a command,   *)
(* and no fault, stop or start has to happen.                              *)
Fairness ==
    /\ \A w \in Workers : WF_vars(WorkerStep(w))
    /\ WF_vars(WriterStep) /\ WF_vars(Elapse)

FairSpec == Spec /\ Fairness

----------------------------------------------------------------------------
Logged == {file[i].id : i \in {j \in DOMAIN file : file[j].whole}}

(* With appendfsync always, a mutation answered with success is in the     *)
(* database of every later process, whenever the crashes come and whatever *)
(* writes failed.                                                          *)
AckedSurvives ==
    policy_ = "always" /\ mode \in {"up", "stopping"} =>
        \A m \in acked : \E i \in DOMAIN applied : applied[i] = m

(* Only the last record of the file can be torn: nothing is written after  *)
(* a write that failed, and recovery cuts the tail off before the file is  *)
(* appended to again.  So a start never finds its own log corrupt.         *)
OnlyTailTorn == TornAt \subseteq {Len(file)}

(* Mutations that one client did one after the other are replayed in that  *)
(* order.                                                                  *)
AckedOrderKept ==
    \A i, j \in DOMAIN file : file[i].id \in prior[file[j].id] => i < j

(* After a stop without failures the file holds exactly the mutations of   *)
(* the database: the writer leaves only when its queue is empty.  If this  *)
(* process wrote a record, all of the file is on the disk, unless the      *)
(* policy is to leave that to the system.                                  *)
StopLosesNothing ==
    at = "left" /\ ~failure_ =>
        /\ Logged = {applied[i] : i \in DOMAIN applied}
        /\ policy_ # "no" /\ faults = 0 /\ record # 0 => synced = Len(file)

(* Every Append returns: no failure leaves a command worker waiting for    *)
(* a promise that nobody will keep.                                        *)
EveryAppendReturns ==
    \A w \in Workers : pc[w] = "waiting" ~> (pc[w] = "idle" \/ mode = "down")

(* With appendfsync everysec, what this process has written reaches the    *)
(* disk also when no further command comes, unless the writer fails.       *)
WrittenIsSynced ==
    policy_ = "everysec" =>
        \A n \in Mutations : (mode = "up" /\ dirty /\ Len(file) = n) ~> (synced >= n \/ failure_ \/ mode # "up")
=============================================================================
