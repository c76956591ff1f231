--------------------------- MODULE RequestReader ---------------------------
(***************************************************************************)
(* The input side of a connection: TcpConnection::HandleRead, the Buffer   *)
(* it reads into, and the message callback of main.cpp, which takes        *)
(* commands out of the buffer and gives them to the dispatcher.            *)
(*                                                                         *)
(* A client sends the encodings of some commands and then other bytes; the *)
(* network cuts them up as it likes.                                       *)
(***************************************************************************)
EXTENDS RespParser, Buffer

CONSTANTS
    Scripts,            \* the sequences of commands a client may send
    Tails,              \* the bytes it may send after them, without a whole command
    initial_size, max_request_bytes_

ASSUME ReaderAssumption == initial_size \in Nat /\ max_request_bytes_ \in Nat

VARIABLES
    sent, tail,         \* what this client sends
    taken,              \* how many of the bytes have been read
    input_buffer_, state_,
    delivered,          \* the commands given to the dispatcher
    errors              \* for every protocol error, the commands delivered before

vars == <<sent, tail, taken, input_buffer_, state_, delivered, errors>>

Input == FlattenSeq([i \in DOMAIN sent |-> EncodeCommand(sent[i])]) \o tail

Init ==
    /\ sent \in Scripts /\ tail \in Tails
    /\ taken = 0
    /\ input_buffer_ = NewBuffer(initial_size) /\ state_ = "kConnected"
    /\ delivered = <<>> /\ errors = <<>>

(* Fault: one command is taken per read. *)
MoreIn_Once(b, commands) == ReadableBytes(b) > 0 /\ commands = <<>>

MoreIn(b, commands) == ReadableBytes(b) > 0

RECURSIVE MessageCallback(_, _)

(* The buffer, the commands and whether there was an error in the end. *)
MessageCallback(b, commands) ==
    LET parsed == ParseCommand(View(b))
        Done(buffer, failed) == [buffer |-> buffer, commands |-> commands, failed |-> failed]
    IN
    IF ~MoreIn(b, commands) THEN Done(b, FALSE)
    ELSE IF parsed.result = "kIncomplete" THEN Done(b, FALSE)
    ELSE IF parsed.result = "kError" THEN Done(RetrieveAll(b), TRUE)
    ELSE MessageCallback(Retrieve(b, parsed.cursor), Append(commands, parsed.value))

(* Fault: off by one at the limit. *)
TooMuch_OneMore(b) == ReadableBytes(b) > max_request_bytes_ + 1

TooMuch(b) == ReadableBytes(b) > max_request_bytes_

HandleClose(b) ==
    /\ input_buffer_' = RetrieveAll(b) /\ state_' = "kDisconnected"
    /\ UNCHANGED <<delivered, errors>>

(* HandleRead with bytes; the reading goes on after a protocol error. *)
HandleRead ==
    /\ state_ # "kDisconnected"
    /\ \E n \in 1..ReadCapacity(input_buffer_) :
        /\ taken + n <= Len(Input)
        /\ taken' = taken + n
        /\ LET b == ReadFd(input_buffer_, SubSeq(Input, taken + 1, taken + n))
               outcome == MessageCallback(b, <<>>)
           IN IF TooMuch(b) THEN HandleClose(b)
              ELSE /\ input_buffer_' = outcome.buffer
                   /\ delivered' = delivered \o outcome.commands
                   /\ errors' = IF outcome.failed THEN Append(errors, Len(delivered')) ELSE errors
                   /\ state_' = IF outcome.failed THEN "kDisconnecting" ELSE state_
    /\ UNCHANGED <<sent, tail>>

(* HandleRead without bytes, a failing socket, or a failing send. *)
Close ==
    /\ state_ # "kDisconnected"
    /\ HandleClose(input_buffer_)
    /\ UNCHANGED <<sent, tail, taken>>

Next == HandleRead \/ Close

Spec == Init /\ [][Next]_vars

----------------------------------------------------------------------------
BeforeError == IF errors = <<>> THEN delivered ELSE SubSeq(delivered, 1, errors[1])

(* However the bytes are cut, the dispatcher gets the commands the client  *)
(* encoded, whole and in order, and no command waits in the buffer for     *)
(* more input than its own; a protocol error comes only after them.        *)
CommandsArriveWhole ==
    /\ IsPrefix(BeforeError, sent)
    /\ errors # <<>> \/ (taken = Len(Input) /\ state_ # "kDisconnected") => BeforeError = sent

(* The buffer holds exactly the bytes that were read and not consumed,     *)
(* through every reuse of its front, every growth and the detour of long   *)
(* reads.                                                                  *)
UnreadIsKept ==
    View(input_buffer_) = SubSeq(Input, taken - ReadableBytes(input_buffer_) + 1, taken)

(* A client costs max_request_bytes_ of unread input, and the buffer for   *)
(* it never more than that and twice what ReadFd can take at once, however *)
(* long the client stays and however its requests are cut.                 *)
InputBounded ==
    LET bound == max_request_bytes_ + 2 * ExtraSize IN
    /\ ReadableBytes(input_buffer_) <= max_request_bytes_
    /\ Len(input_buffer_.storage) <= IF initial_size > bound THEN initial_size ELSE bound
=============================================================================
