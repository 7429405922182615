------------------------ MODULE MCProjectLeanAdmission ------------------------
(* Instances of ProjectLeanAdmission: which thread belongs to which process. *)
EXTENDS ProjectLeanAdmission, TLC

CONSTANTS f1, f2, f3, b1,   \* threads
          pf, pg, pb        \* processes

\* A prover of two threads, without workers.
OneProcess == f1 :> pf @@ f2 :> pf

\* A prover of two threads beside a worker of one.
Small == f1 :> pf @@ f2 :> pf @@ b1 :> pb

\* A prover of two threads, another prover, and a worker.
ThreeProcesses == f1 :> pf @@ f2 :> pf @@ f3 :> pg @@ b1 :> pb

\* The threads of the first prover are interchangeable.
ThreadSymmetry == Permutations({f1, f2})
=============================================================================
