--------------------------- MODULE MCAsyncDispatch ---------------------------
(* Constants for model checking AsyncDispatch. *)
EXTENDS AsyncDispatch
=============================================================================
