--------------------------- MODULE TcpConnection ---------------------------
(***************************************************************************)
(* One client connection: src/net/tcp_connection.cpp with the message      *)
(* callback of main.cpp.                                                   *)
(*                                                                         *)
(* The reactor reads requests, and answers a malformed one itself; a       *)
(* command worker answers the others, in order, and hands the replies to   *)
(* the reactor as tasks of its EventLoop, which are run in order.  The     *)
(* kernel takes as many bytes of a write as it likes.                      *)
(*                                                                         *)
(* The reply to request m is Size[m] bytes, each of them written m here.   *)
(***************************************************************************)
EXTENDS Naturals, FiniteSets, Sequences

CONSTANTS
    Size,               \* request -> bytes of its reply
    max_output_bytes_

Requests == DOMAIN Size

ASSUME ConnectionAssumption ==
    /\ Size \in Seq(Nat \ {0})
    /\ max_output_bytes_ \in Nat

VARIABLES
    state_,
    pending_output_bytes_,
    output_buffer_, writing,    \* the bytes, and whether EPOLLOUT is asked for
    write_shut,                 \* shutdown(fd_, SHUT_WR) has been called
    loop_tasks,                 \* the EventLoop's tasks for this connection
    parsed, malformed,          \* requests read, and those that were not RESP
    handler,                    \* where it is in the answer to a malformed one
    answered, sender,           \* the worker: replies given, and where it is in Send
    received                    \* the bytes the kernel has taken

outputVars == <<output_buffer_, writing, write_shut, received>>
inputVars == <<parsed, malformed, handler>>
workerVars == <<answered, sender>>
connectionVars ==
    <<state_, pending_output_bytes_, outputVars, loop_tasks, inputVars, workerVars>>

Bytes(m) == [i \in 1..Size[m] |-> m]

ConnectionInit ==
    /\ state_ = "kConnected"
    /\ pending_output_bytes_ = 0
    /\ output_buffer_ = <<>> /\ writing = FALSE
    /\ write_shut = FALSE /\ received = <<>>
    /\ loop_tasks = <<>>
    /\ parsed = 0 /\ malformed = {} /\ handler = "idle"
    /\ answered = 0 /\ sender = "idle"

----------------------------------------------------------------------------
(***************************************************************************)
(* What the reactor's handlers do to the connection: each operator below   *)
(* determines state_, the output and the socket.                           *)
(***************************************************************************)
(* Fault: the bytes that were buffered stay counted. *)
BufferedBytes_Forgotten == 0

BufferedBytes == Len(output_buffer_)

(* HandleClose, after released bytes have been taken off the count. *)
HandleClose(released) ==
    /\ state_' = "kDisconnected"
    /\ IF state_ = "kDisconnected"
       THEN /\ pending_output_bytes_' = pending_output_bytes_ - released
            /\ UNCHANGED <<output_buffer_, writing>>
       ELSE /\ pending_output_bytes_' = pending_output_bytes_ - released - BufferedBytes
            /\ output_buffer_' = <<>> /\ writing' = FALSE
    /\ UNCHANGED <<write_shut, received>>

(* Fault: send at once although older bytes are buffered. *)
MaySendNow_Always == TRUE

MaySendNow == ~writing /\ output_buffer_ = <<>>

(* Faults: a message that comes after the close is not released; the rest  *)
(* of one that was sent in part is left to itself.                         *)
ReleasedAfterClose_None(m) == 0
WantsWrite_Not(n, m) == writing

ReleasedAfterClose(m) == Size[m]
WantsWrite(n, m) == writing \/ n < Size[m]

(* SendInLoop; n bytes are taken by send, none if there are others before  *)
(* them or the socket would block.  After SHUT_WR send fails.              *)
SendInLoop(m) ==
    \/ /\ state_ = "kDisconnected"
       /\ pending_output_bytes_' = pending_output_bytes_ - ReleasedAfterClose(m)
       /\ UNCHANGED <<state_, outputVars>>
    \/ /\ state_ # "kDisconnected" /\ MaySendNow
       /\ HandleClose(Size[m])                                  \* send fails
    \/ /\ state_ # "kDisconnected"
       /\ MaySendNow => ~write_shut
       /\ \E n \in 0..(IF MaySendNow THEN Size[m] ELSE 0) :
            /\ received' = received \o SubSeq(Bytes(m), 1, n)
            /\ pending_output_bytes_' = pending_output_bytes_ - n
            /\ output_buffer_' = output_buffer_ \o SubSeq(Bytes(m), n + 1, Size[m])
            /\ writing' = WantsWrite(n, m)
       /\ UNCHANGED <<state_, write_shut>>

(* Fault: off by one at the limit. *)
Fits_OneMore(m) == pending_output_bytes_ + Size[m] <= max_output_bytes_ + 1

Fits(m) == pending_output_bytes_ + Size[m] <= max_output_bytes_

----------------------------------------------------------------------------
(***************************************************************************)
(* The reactor.                                                            *)
(***************************************************************************)
Readable == handler = "idle" /\ state_ # "kDisconnected" /\ parsed < Len(Size)

(* A command, which goes to the dispatcher. *)
ReadRequest ==
    /\ Readable
    /\ parsed' = parsed + 1
    /\ UNCHANGED <<state_, pending_output_bytes_, outputVars, loop_tasks, malformed, handler,
                   workerVars>>

(* A malformed request is answered by Send and Shutdown in the loop's own  *)
(* thread; here is Send up to ReserveOutput.                               *)
ReadMalformed ==
    /\ Readable
    /\ parsed' = parsed + 1 /\ malformed' = malformed \cup {parsed + 1}
    /\ IF state_ = "kConnected" /\ Fits(parsed + 1)
       THEN /\ pending_output_bytes_' = pending_output_bytes_ + Size[parsed + 1]
            /\ handler' = "sending"
            /\ UNCHANGED <<state_, outputVars>>
       ELSE /\ handler' = "idle"
            /\ IF state_ = "kConnected" THEN HandleClose(0)
               ELSE UNCHANGED <<state_, pending_output_bytes_, outputVars>>
    /\ UNCHANGED <<loop_tasks, workerVars>>

SendError ==
    /\ handler = "sending"
    /\ SendInLoop(parsed)
    /\ handler' = "shutting"
    /\ UNCHANGED <<loop_tasks, parsed, malformed, workerVars>>

Shutdown ==
    /\ handler = "shutting"
    /\ handler' = "idle"
    /\ IF state_ = "kConnected"
       THEN state_' = "kDisconnecting" /\ write_shut' = (write_shut \/ ~writing)
       ELSE UNCHANGED <<state_, write_shut>>
    /\ UNCHANGED <<pending_output_bytes_, output_buffer_, writing, received, loop_tasks, parsed,
                   malformed, workerVars>>

(* The client closes, the socket fails, or max_request_bytes is exceeded. *)
Close ==
    /\ handler = "idle" /\ state_ # "kDisconnected"
    /\ HandleClose(0)
    /\ UNCHANGED <<loop_tasks, inputVars, workerVars>>

(* HandleWrite, where write takes n bytes; its failure is Close. *)
HandleWrite ==
    /\ handler = "idle" /\ writing
    /\ \E n \in 1..Len(output_buffer_) :
        /\ received' = received \o SubSeq(output_buffer_, 1, n)
        /\ output_buffer_' = SubSeq(output_buffer_, n + 1, Len(output_buffer_))
        /\ pending_output_bytes_' = pending_output_bytes_ - n
    /\ writing' = (output_buffer_' # <<>>)
    /\ write_shut' = (write_shut \/ (~writing' /\ state_ = "kDisconnecting"))
    /\ UNCHANGED <<state_, loop_tasks, inputVars, workerVars>>

RunLoopTask ==
    /\ handler = "idle" /\ loop_tasks # <<>>
    /\ loop_tasks' = Tail(loop_tasks)
    /\ LET task == Head(loop_tasks) IN
       \/ task.op = "send" /\ SendInLoop(task.reply)
       \/ task.op = "close" /\ HandleClose(0)
    /\ UNCHANGED <<inputVars, workerVars>>

----------------------------------------------------------------------------
(***************************************************************************)
(* The worker: Send from another thread.                                   *)
(***************************************************************************)
(* The next request that was submitted; its reply is dropped by Send if    *)
(* the connection is no longer connected.                                  *)
Send ==
    /\ sender = "idle"
    /\ \E m \in (answered + 1)..parsed :
        /\ m \notin malformed /\ (answered + 1)..(m - 1) \subseteq malformed
        /\ answered' = m
    /\ sender' = IF state_ = "kConnected" THEN "reserving" ELSE "idle"
    /\ UNCHANGED <<state_, pending_output_bytes_, outputVars, loop_tasks, inputVars>>

(* ReserveOutput, a loop around compare_exchange; ForceClose if it fails. *)
ReserveOutput ==
    /\ sender = "reserving"
    /\ IF Fits(answered)
       THEN /\ pending_output_bytes_' = pending_output_bytes_ + Size[answered]
            /\ sender' = "queueing"
            /\ UNCHANGED loop_tasks
       ELSE /\ loop_tasks' = Append(loop_tasks, [op |-> "close", reply |-> 0])
            /\ sender' = "idle"
            /\ UNCHANGED pending_output_bytes_
    /\ UNCHANGED <<state_, outputVars, inputVars, answered>>

QueueInLoop ==
    /\ sender = "queueing"
    /\ loop_tasks' = Append(loop_tasks, [op |-> "send", reply |-> answered])
    /\ sender' = "idle"
    /\ UNCHANGED <<state_, pending_output_bytes_, outputVars, inputVars, answered>>

ReactorStep == SendError \/ Shutdown \/ HandleWrite \/ RunLoopTask
SendStep == Send \/ ReserveOutput \/ QueueInLoop

ConnectionNext == ReadRequest \/ ReadMalformed \/ Close \/ ReactorStep \/ SendStep

ConnectionSpec == ConnectionInit /\ [][ConnectionNext]_connectionVars

(* The threads run, and the client reads what it is sent. *)
ConnectionFairness ==
    /\ WF_connectionVars(ReactorStep) /\ WF_connectionVars(SendStep)
    /\ SF_connectionVars(HandleWrite)

FairConnectionSpec == ConnectionSpec /\ ConnectionFairness

----------------------------------------------------------------------------
(* The bytes that tasks of the loop hold, as <<task, byte>>. *)
TaskBytes(task) == IF task.op = "send" THEN Size[task.reply] ELSE 0

Queued(tasks) == UNION {{i} \X (1..TaskBytes(tasks[i])) : i \in DOMAIN tasks}

QueuedBytes == Cardinality(Queued(loop_tasks))

(* pending_output_bytes_ counts the bytes on their way to the socket, each *)
(* once: reserved by a thread, in a task of the loop, or buffered.  Nothing *)
(* is leaked or released twice, however sending meets closing.             *)
OutputAccounting ==
    pending_output_bytes_ =
        Len(output_buffer_) + QueuedBytes
        + (IF sender = "queueing" THEN Size[answered] ELSE 0)
        + (IF handler = "sending" THEN Size[parsed] ELSE 0)

(* A client that does not read costs no more than max_output_bytes. *)
OutputBounded == pending_output_bytes_ <= max_output_bytes_

(* What the client receives are whole replies, one after the other, but    *)
(* for the end: bytes of two replies are never mixed and none is missing   *)
(* in the middle, with partial writes and direct sends in any order.       *)
Outgoing == received \o output_buffer_

RepliesAreWhole ==
    \A i \in 1..(Len(Outgoing) - 1) : Outgoing[i + 1] # Outgoing[i] =>
        LET m == Outgoing[i] IN
        i >= Size[m] /\ {j \in DOMAIN Outgoing : Outgoing[j] = m} = (i - Size[m] + 1)..i

(* Replies are sent in the order of the requests. *)
RepliesInOrder == \A i \in 1..(Len(Outgoing) - 1) : Outgoing[i] <= Outgoing[i + 1]

(* Buffered output is written, or the connection is closed: the loop is    *)
(* always asked to watch for a writable socket when it has to be.          *)
OutputDrains == (output_buffer_ # <<>>) ~> (output_buffer_ = <<>>)

(* A connection that has been closed gives back all it had reserved.       *)
ClosedReleasesAll == (state_ = "kDisconnected") ~> (pending_output_bytes_ = 0)
=============================================================================
