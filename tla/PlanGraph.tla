----------------------------- MODULE PlanGraph -----------------------------
(***************************************************************************)
(* The plan graph (workflows/plan_state.py, blueprint.json): declarations  *)
(* with a status each, what they depend on and what they were split from,  *)
(* and the passes over it that every writer is built of.                   *)
(***************************************************************************)
EXTENDS Integers, Sequences

CONSTANTS Nodes,
          Order,      \* the nodes in the order in which files list them
          FileOf,     \* FileOf[n]: the file that declares n
          ParentOf,   \* ParentOf[n]: the target of n's last split_of edge
          Generated,  \* nodes of the planner, the decomposer or a prover edit
          Uncertain,  \* advisory candidates that still say they need validation
          None

ASSUME NodeAssumption ==
  /\ None \notin Nodes
  /\ Order \in Seq(Nodes)
  /\ ParentOf \in [Nodes -> Nodes \cup {None}]
  /\ Uncertain \subseteq Generated /\ Generated \subseteq Nodes

\* split is in the vocabulary, and is judged like the others: nothing writes it.
Open == {"conjectured", "stated", "audited", "proving", "blocked", "split", "parked"}
Statuses == Open \cup {"proved", "false"}

\* "none": the graph has no such node yet.  Notes carry the fidelity audit.
Graphs == [status : [Nodes -> Statuses \cup {"none"}],
           note : [Nodes -> {"", "audited", "suspect"}],
           depends : SUBSET (Nodes \X Nodes)]

\* What a scan of the sources says of a declaration: nothing, if its file is
\* gone or cannot be read.
Found == {"absent", "dirty", "clean"}
Truths == [Nodes -> Found \cup {"unread"}]

SetStatus(g, n, s) == [g EXCEPT !.status[n] = s]

-----------------------------------------------------------------------------
(* Blueprint *)

\* Whatever contains the dependencies of n and theirs contains a bad one.
HasInvalidDependency(g, n) ==
  \A S \in SUBSET Nodes :
    (\A e \in g.depends : e[1] \in S \cup {n} => e[2] \in S)
      => \E m \in S : g.status[m] \in {"false", "parked"}

\* The chain from n upward along the one parent each node is given.
Ancestors(n) ==
  {m \in Nodes : \A S \in SUBSET Nodes :
     (\A x \in S \cup {n} : ParentOf[x] \in S \cup {None}) => m \in S}

\* n is false: what it was split for is open again, and so is a proof among
\* its ancestors that was recorded as depending on the node below.
InvalidateFalseSubtree(g, n) ==
  LET viaChild(m) == \E x \in Ancestors(n) \cup {n} :
                       ParentOf[x] = m /\ <<m, x>> \in g.depends
      reopens(m) == /\ m \in Ancestors(n)
                    /\ g.status[m] \in Open \/ (g.status[m] = "proved" /\ viaChild(m))
  IN  [g EXCEPT !.status = [m \in Nodes |->
         IF m = n THEN "false" ELSE IF reopens(m) THEN "conjectured" ELSE g.status[m]]]

-----------------------------------------------------------------------------
(* Passes over the graph *)

\* Mutant: the audit note itself is taken for the status.
Restored_Note(g, n) == g.note[n]

Restored(g, n) == IF g.note[n] = "audited" THEN "audited" ELSE "stated"

\* Mutant: a proof is judged by its own declaration only.
Reconciled_OwnTruth(g, t, n) ==
  LET s == g.status[n]
  IN  IF t[n] = "unread" THEN s
      ELSE IF s = "proved" /\ t[n] # "clean"
        THEN IF t[n] = "absent" THEN "conjectured" ELSE "stated"
      ELSE IF t[n] = "absent" /\ n \in Generated /\ s \in {"stated", "audited", "proving", "blocked"}
        THEN "conjectured"
      ELSE IF s = "conjectured" /\ t[n] # "absent" /\ n \notin Uncertain THEN "stated"
      ELSE s

\* What reconcile makes of the status of n: it judges the files it has read.
Reconciled(g, t, n) ==
  LET s == g.status[n]
  IN  IF t[n] = "unread" THEN s
      ELSE IF s = "proved" /\ HasInvalidDependency(g, n) THEN "conjectured"
      ELSE IF s = "proved" /\ t[n] # "clean"
        THEN IF t[n] = "absent" THEN "conjectured" ELSE "stated"
      ELSE IF t[n] = "absent" /\ n \in Generated /\ s \in {"stated", "audited", "proving", "blocked"}
        THEN "conjectured"
      ELSE IF s = "conjectured" /\ t[n] # "absent" /\ n \notin Uncertain THEN "stated"
      ELSE s

Reconcile(g, t) == [g EXCEPT !.status = [n \in Nodes |-> Reconciled(g, t, n)]]

\* A park for a fidelity doubt that was none is open again.
Reopened(g, t, n) ==
  IF /\ g.status[n] = "parked" /\ g.note[n] = "suspect"
     /\ ~HasInvalidDependency(g, n) /\ t[n] \notin {"absent", "unread"}
  THEN [SetStatus(g, n, "audited") EXCEPT !.note[n] = "audited"] ELSE g

\* The graph after i of the nodes, one after the other.
ReopenFidelityParks(g, t) ==
  LET after[i \in 0..Len(Order)] ==
        IF i = 0 THEN g ELSE Reopened(after[i-1], t, Order[i])
  IN  after[Len(Order)]

\* proving marks the one assignment of the queue.
RetireInactiveProving(g, t, active) ==
  [g EXCEPT !.status = [n \in Nodes |->
     IF g.status[n] # "proving" \/ n = active THEN g.status[n]
     ELSE IF t[n] = "absent" THEN "conjectured" ELSE Restored(g, n)]]

UpsertNodeForAssignment(g, n) ==
  IF g.status[n] \in {"proved", "false"} THEN g ELSE SetStatus(g, n, "proving")

RevokeGateAcceptance(g, n) ==
  IF g.status[n] = "proved" THEN SetStatus(g, n, Restored(g, n)) ELSE g

=============================================================================
