------------------------------- MODULE Buffer -------------------------------
(***************************************************************************)
(* The byte buffer of a connection (src/net/buffer.cpp) as a value: a      *)
(* storage, and the two indices between which the readable bytes are.      *)
(* What it promises is a queue of bytes; TcpConnection takes it for one.   *)
(***************************************************************************)
EXTENDS Naturals, Sequences

CONSTANTS
    Zero,       \* what a vector is filled with when it grows
    ExtraSize   \* the bytes ReadFd can take beyond the storage, 65536 in the code

ASSUME BufferAssumption == ExtraSize \in Nat

NewBuffer(initial_size) ==
    [storage |-> [i \in 1..initial_size |-> Zero], reader_index |-> 0, writer_index |-> 0]

ReadableBytes(b) == b.writer_index - b.reader_index
WritableBytes(b) == Len(b.storage) - b.writer_index

View(b) == [i \in 1..ReadableBytes(b) |-> b.storage[b.reader_index + i]]

(* data copied into storage behind its first start bytes. *)
Overlay(storage, start, data) ==
    [i \in 1..Len(storage) |->
        IF i > start /\ i <= start + Len(data) THEN data[i - start] ELSE storage[i]]

Grown(storage, size) ==
    [i \in 1..size |-> IF i <= Len(storage) THEN storage[i] ELSE Zero]

(* Faults: the readable bytes are not moved with the indices; the room     *)
(* before them is never used again.                                        *)
Compacted_InPlace(b) ==
    [b EXCEPT !.reader_index = 0, !.writer_index = ReadableBytes(b)]
RoomInFront_Ignored(b, length) == FALSE

Compacted(b) ==
    [storage |-> Overlay(b.storage, 0, View(b)), reader_index |-> 0,
     writer_index |-> ReadableBytes(b)]
RoomInFront(b, length) == b.reader_index + WritableBytes(b) >= length

EnsureWritable(b, length) ==
    IF WritableBytes(b) >= length THEN b
    ELSE IF RoomInFront(b, length) THEN Compacted(b)
    ELSE [b EXCEPT !.storage = Grown(b.storage, b.writer_index + length)]

(* std::copy behind the readable bytes, where there is room for data. *)
CopyIn(b, data) ==
    [storage |-> Overlay(b.storage, b.writer_index, data), reader_index |-> b.reader_index,
     writer_index |-> b.writer_index + Len(data)]

AppendBytes(b, data) == CopyIn(EnsureWritable(b, Len(data)), data)

(* The most bytes one readv can take. *)
ReadCapacity(b) ==
    WritableBytes(b) + (IF WritableBytes(b) < ExtraSize THEN ExtraSize ELSE 0)

(* ReadFd, where readv takes data: what does not fit goes through extra. *)
ReadFd(b, data) ==
    LET writable == WritableBytes(b) IN
    IF Len(data) <= writable THEN CopyIn(b, data)
    ELSE AppendBytes(CopyIn(b, SubSeq(data, 1, writable)),
                     SubSeq(data, writable + 1, Len(data)))

RetrieveAll(b) == [b EXCEPT !.reader_index = 0, !.writer_index = 0]

(* Also WriteFd, where write takes length bytes. *)
Retrieve(b, length) ==
    IF length = ReadableBytes(b) THEN RetrieveAll(b)
    ELSE [b EXCEPT !.reader_index = b.reader_index + length]
=============================================================================
