----------------------------- MODULE MCRecovery -----------------------------
(* An instance of Recovery for TLC: one key, a word and a number. *)
EXTENDS Recovery

CONSTANT k

MCKeySize == k :> 1
MCIntMin == -9

Word == [int |-> NotInteger, size |-> 3]
One == [int |-> 1, size |-> 1]
Option(word) == [word |-> word, int |-> NotInteger]
Amount(n) == [word |-> "other", int |-> n]

MCCommands ==
    [name : {"SET"}, key : {k}, value : {Word, One},
     options : {<<>>, <<Option("PX"), Amount(1)>>, <<Option("XX"), Option("EX"), Amount(2)>>,
                <<Option("EX"), Option("NX")>>}]
    \cup [name : {"DEL", "INCR", "DECR"}, key : {k}]
    \cup [name : {"EXPIRE"}, key : {k}, seconds : {0, 1}]
    \cup [name : {"MSET"}, updates : {k :> Word}]
=============================================================================
