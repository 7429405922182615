------------------------- MODULE MCProviderCapacity -------------------------
(* Instances of ProviderCapacity: which context belongs to which process. *)
EXTENDS ProviderCapacity, TLC

CONSTANTS c1, c2, d1, p, q

\* A planner process with an actor and a tool thread, and a worker process.
TwoProcesses == c1 :> p @@ c2 :> p @@ d1 :> q
=============================================================================
