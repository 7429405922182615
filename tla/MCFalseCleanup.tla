---- MODULE MCFalseCleanup ----
(* The cleanup of one helper by one runner.                                *)
EXTENDS FalseCleanup
==============================================================================
