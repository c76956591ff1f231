-------------------------- MODULE MCKvStoreMachine -------------------------
(* Instances of KvStoreMachine for TLC. *)
EXTENDS KvStoreMachine

CONSTANTS a, b, c

MCIntMin == -1

MCKeySize2 == a :> 1 @@ b :> 2
MCKeySize3 == a :> 1 @@ b :> 1 @@ c :> 1

(* For MCKeySize3 only: there the keys differ in nothing but their names. *)
Symmetry == Permutations({a, b, c})

(* "1" and a word. *)
MCTexts == {[int |-> 1, size |-> 1], [int |-> NotInteger, size |-> 3]}

MCOptions == {[maxmemory |-> 11, policy |-> "noeviction"], [maxmemory |-> 9, policy |-> "lru"]}
MCExactOptions == {[maxmemory |-> 11, policy |-> "noeviction"]}
=============================================================================
