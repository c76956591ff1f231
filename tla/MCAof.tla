-------------------------------- MODULE MCAof -------------------------------
(* Instances of Aof for TLC: two workers, so that their appends race. *)
EXTENDS Aof
=============================================================================
