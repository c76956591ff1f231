-------------------------- MODULE MCRequestReader --------------------------
(* An instance of RequestReader for TLC. *)
EXTENDS RequestReader, TLC

MCNumber == "0" :> 0 @@ "1" :> 1 @@ "2" :> 2 @@ "3" :> 3 @@ "4" :> 4 @@ "m1" :> -1 @@ "m2" :> -2

(* An empty argument, two arguments, and one like the end of a line. *)
MCCommands == {<<<<>>>>, <<<<>>, <<"x">>>>, <<<<"CR", "LF">>>>}

MCScripts == UNION {[1..n -> MCCommands] : n \in 0..2}

(* The start of a command, and one that is longer than the limit; then     *)
(* what the parser refuses: no RESP type, no array, an empty one, null,    *)
(* numbers out of range or missing, a wrong end of a line or a string, an  *)
(* argument that is no string, nesting.                                    *)
MCTails == {
    <<>>, <<"*", "2", "CR", "LF", "$", "1", "CR">>,
    <<"*", "3", "CR", "LF">> \o EncodeBulk(<<"x", "x">>) \o EncodeBulk(<<"x", "x">>) \o <<"$", "1">>,
    <<"x">>, <<"+", "x", "CR", "LF">>, <<"-", "x", "CR", "LF">>, <<"*", "0", "CR", "LF">>,
    <<"*", "m1", "CR", "LF", "x">>, <<"*", "m2", "CR", "LF">>, <<"*", "4", "CR", "LF">>,
    <<"*", "x", "CR", "LF">>, <<"*", "LF", "CR", "LF">>, <<"$", "1", "CR", "LF", "x", "x", "LF">>,
    <<"*", "1", "CR", "LF", "$", "3", "CR", "LF">>, <<"*", "1", "CR", "LF", ":", "x", "CR", "LF">>,
    <<"*", "1", "CR", "LF", ":", "1", "CR", "LF">>,
    <<"*", "1", "CR", "LF", "*", "1", "CR", "LF", "*", "1", "CR", "LF">>}
=============================================================================
