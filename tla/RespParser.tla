----------------------------- MODULE RespParser -----------------------------
(***************************************************************************)
(* The RESP2 parser (src/resp/resp_parser.cpp) and EncodeCommand           *)
(* (src/resp/resp_value.cpp) as functions of byte sequences.               *)
(*                                                                         *)
(* A byte is a member of a small alphabet.  The decimal text of a number   *)
(* is one byte here: Number gives the integer it stands for, and a line    *)
(* that is anything else is not an integer.  A cursor counts the bytes     *)
(* before it.                                                              *)
(***************************************************************************)
EXTENDS Integers, Sequences, SequencesExt

CONSTANTS
    Number,             \* byte -> the integer it is the text of
    max_bulk_length_, max_array_length_, max_depth_

Incomplete == [result |-> "kIncomplete"]
Failed == [result |-> "kError"]
Complete(cursor, value) == [result |-> "kComplete", cursor |-> cursor, value |-> value]

Null == [type |-> "kNull"]

IsCrlf(input, i) == i < Len(input) /\ input[i] = "CR" /\ input[i + 1] = "LF"

(* The value of a line is its text. *)
ReadLine(input, cursor) ==
    LET ends == {i \in (cursor + 1)..Len(input) : IsCrlf(input, i)}
        end == CHOOSE i \in ends : \A j \in ends : i <= j
        line == SubSeq(input, cursor + 1, end - 1)
    IN
    IF ends = {} THEN Incomplete
    ELSE IF {"CR", "LF"} \cap ToSet(line) # {} THEN Failed
    ELSE Complete(end + 1, line)

ParsesAsInteger(line) == Len(line) = 1 /\ line[1] \in DOMAIN Number
Integer(line) == Number[line[1]]

(* Fault: only the bytes of the string are waited for, not its end. *)
BulkArrived_NoEnd(input, cursor, size) == Len(input) - cursor >= size

BulkArrived(input, cursor, size) == Len(input) - cursor >= size + 2

ParseBulk(input, cursor, size) ==
    IF size > max_bulk_length_ THEN Failed
    ELSE IF ~BulkArrived(input, cursor, size) THEN Incomplete
    ELSE IF ~IsCrlf(input, cursor + size + 1) THEN Failed
    ELSE Complete(cursor + size + 2,
                  [type |-> "kBulkString", string |-> SubSeq(input, cursor + 1, cursor + size)])

RECURSIVE ParseValue(_, _, _)
RECURSIVE ParseElements(_, _, _, _, _)

(* The loop over an array's elements; parsed are those before cursor. *)
ParseElements(input, cursor, depth, length, parsed) ==
    LET child == ParseValue(input, cursor, depth) IN
    IF Len(parsed) = length THEN Complete(cursor, [type |-> "kArray", array |-> parsed])
    ELSE IF child.result # "kComplete" THEN child
    ELSE ParseElements(input, child.cursor, depth, length, Append(parsed, child.value))

ParseValue(input, cursor, depth) ==
    LET prefix == input[cursor + 1]
        line == ReadLine(input, cursor + 1)
        length == Integer(line.value)
    IN
    IF depth > max_depth_ THEN Failed
    ELSE IF cursor >= Len(input) THEN Incomplete
    ELSE IF prefix \notin {"+", "-", ":", "$", "*"} THEN Failed
    ELSE IF line.result # "kComplete" THEN line
    ELSE IF prefix = "+" THEN Complete(line.cursor, [type |-> "kSimpleString", string |-> line.value])
    ELSE IF prefix = "-" THEN Complete(line.cursor, [type |-> "kError", string |-> line.value])
    ELSE IF ~ParsesAsInteger(line.value) THEN Failed
    ELSE IF prefix = ":" THEN Complete(line.cursor, [type |-> "kInteger", integer |-> length])
    ELSE IF length < -1 THEN Failed
    ELSE IF length = -1 THEN Complete(line.cursor, Null)
    ELSE IF prefix = "$" THEN ParseBulk(input, line.cursor, length)
    ELSE IF length > max_array_length_ THEN Failed
    ELSE ParseElements(input, line.cursor, depth + 1, length, <<>>)

(* The value of a command is the sequence of its arguments. *)
ParseCommand(input) ==
    LET parsed == ParseValue(input, 0, 0)
        value == parsed.value
    IN
    IF parsed.result # "kComplete" THEN parsed
    ELSE IF value.type # "kArray" THEN Failed
    ELSE IF value.array = <<>> THEN Failed
    ELSE IF \E child \in ToSet(value.array) : child.type \notin {"kBulkString", "kSimpleString"}
         THEN Failed
    ELSE Complete(parsed.cursor, [i \in DOMAIN value.array |-> value.array[i].string])

----------------------------------------------------------------------------
(* std::to_string. *)
NumberText(n) == CHOOSE byte \in DOMAIN Number : Number[byte] = n

EncodeBulk(string) ==
    <<"$", NumberText(Len(string)), "CR", "LF">> \o string \o <<"CR", "LF">>

EncodeArray(children) ==
    <<"*", NumberText(Len(children)), "CR", "LF">> \o FlattenSeq(children)

EncodeCommand(arguments) ==
    EncodeArray([i \in DOMAIN arguments |-> EncodeBulk(arguments[i])])
=============================================================================
