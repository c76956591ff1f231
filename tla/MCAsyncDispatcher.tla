------------------------- MODULE MCAsyncDispatcher -------------------------
(* Instances of AsyncDispatcher for TLC. *)
EXTENDS AsyncDispatcher
=============================================================================
