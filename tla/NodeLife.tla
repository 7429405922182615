------------------------------ MODULE NodeLife ------------------------------
(***************************************************************************)
(* What the plan graph promises of its declarations, whoever writes it.    *)
(* Work on one moves freely until it is proved or refuted.  A proof comes  *)
(* down again only to be worked on anew, never to the questions that were  *)
(* open before it; and a refutation is not forgotten.                      *)
(***************************************************************************)
CONSTANT Nodes

VARIABLE status

Work == {"none", "conjectured", "stated", "audited", "proving", "blocked", "split", "parked"}

Init == status \in [Nodes -> Work \cup {"proved", "false"}]

Proceeds(n) == /\ status[n] \in Work
               /\ status'[n] \in Work \ {"none"}

\* The gate accepts a proof.  The gate of a job takes its verdict even over a
\* refutation: that of the queue does not (PlanState, SyncGrounded).
Proves(n) == /\ status[n] \in Work \cup {"false"}
             /\ status'[n] = "proved"

Reopens(n) == /\ status[n] = "proved"
              /\ status'[n] \in Work \ {"none", "parked"}

Refutes(n) == /\ status[n] # "false"
              /\ status'[n] = "false"

\* One commit may move several declarations.
Next == /\ DOMAIN status' = Nodes
        /\ \A n \in Nodes : \/ status'[n] = status[n]
                            \/ Proceeds(n) \/ Proves(n) \/ Reopens(n) \/ Refutes(n)

Spec == Init /\ [][Next]_status
=============================================================================
