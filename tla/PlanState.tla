----------------------------- MODULE PlanState -----------------------------
(***************************************************************************)
(* The writers of the plan graph.  Each loads it, computes a new one and   *)
(* saves it (plan_state.save_blueprint), which is refused if the revision  *)
(* moved on meanwhile.  The runner's writer is the synchronization of      *)
(* queue outcomes and scanned sources into the graph                       *)
(* (native_runner._maybe_sync_plan_state); the others make one change and  *)
(* some of them try once more when they are refused.                       *)
(*                                                                         *)
(* Revisions only grow, one per save: that the revision on disk is the one *)
(* a writer loaded means that nobody saved since, which is fresh here.     *)
(***************************************************************************)
EXTENDS PlanGraph

CONSTANTS Writers,        \* beside the runner
          Rewires,        \* dependencies the planners may add
          ExternalClaim,  \* the goal names a claim outside the sources
          MaxChanges      \* bound: edits, outcomes, restarts and changes by writers

ASSUME SettingAssumption ==
  /\ Rewires \subseteq Nodes \X Nodes
  /\ ExternalClaim \in BOOLEAN
  /\ MaxChanges \in Nat

VARIABLES graph,     \* blueprint.json
          truth,     \* what the sources hold now
          outcome,   \* outcome[n]: the queue's theorem outcome
          assigned,  \* the current queue assignment
          stage,     \* where the synchronization is
          plan,      \* the graph it is about to save
          planFresh, \* nobody saved since it loaded
          seen,      \* the truth it scanned
          proven,    \* the nodes it newly proves
          job,       \* job[w]: the change writer w is making, if any
          copy,      \* copy[w]: the graph it is about to save
          fresh,     \* fresh[w]: nobody saved since it loaded
          changes    \* bound: what happened so far

runner == <<stage, plan, planFresh, seen, proven>>
others == <<job, copy, fresh>>
vars == <<graph, truth, outcome, assigned, runner, others, changes>>

\* rejected: recorded as solved, but by a gate that is not accepted any more.
\* retired: reverted to sorry, skipped, or invalidated by a dependency.
Outcomes == {"none", "solved", "rejected", "unverified", "blocked", "deferred",
             "unresolved", "retired"}

Kinds == {"park", "block", "pass", "suspect", "state", "prove", "falsify"}
Jobs == [kind : Kinds, node : Nodes, retried : BOOLEAN]
          \cup [kind : {"rewire"}, edge : Rewires, retried : BOOLEAN]

Stages == {"idle", "scan", "save", "progress"}

TypeOK ==
  /\ graph \in Graphs /\ plan \in Graphs
  /\ {truth, seen} \subseteq Truths
  /\ outcome \in [Nodes -> Outcomes]
  /\ assigned \in Nodes \cup {None}
  /\ stage \in Stages
  /\ proven \subseteq Nodes
  /\ planFresh \in BOOLEAN /\ fresh \in [Writers -> BOOLEAN]
  /\ job \in [Writers -> Jobs \cup {None}] /\ copy \in [Writers -> Graphs \cup {None}]
  /\ \A w \in Writers : job[w] # None => copy[w] \in Graphs
  /\ changes \in 0..MaxChanges

\* A run begins with the declarations of its sources, and with what an earlier
\* one planned, proved and had no time to write into the graph.
Init ==
  /\ \E planned \in BOOLEAN :
       graph = [status |-> [n \in Nodes |-> IF n \in Generated /\ ~planned THEN "none" ELSE "stated"],
                note |-> [n \in Nodes |-> ""], depends |-> IF planned THEN Rewires ELSE {}]
  /\ \E solved \in BOOLEAN :
       /\ truth = [n \in Nodes |-> IF n \in Generated THEN "absent"
                                   ELSE IF solved THEN "clean" ELSE "dirty"]
       /\ outcome = [n \in Nodes |-> IF solved /\ n \notin Generated THEN "solved" ELSE "none"]
  /\ assigned = None
  /\ stage = "idle" /\ plan = graph /\ planFresh = FALSE /\ seen = truth /\ proven = {}
  /\ job = [w \in Writers |-> None]
  /\ copy = [w \in Writers |-> None]
  /\ fresh = [w \in Writers |-> FALSE]
  /\ changes = 0

Happens == changes < MaxChanges /\ changes' = changes + 1

-----------------------------------------------------------------------------
(* _maybe_sync_plan_state *)

Proved(g) == {n \in Nodes : g.status[n] = "proved"}

\* A proof that reconcile takes back takes the outcome with it.
RetireOutcomes(out, before, after) ==
  [n \in Nodes |-> IF /\ n \in Proved(before) \ Proved(after)
                      /\ out[n] \in {"solved", "rejected"}
                   THEN "retired" ELSE out[n]]

\* Mutant: the gate's outcome is replayed over a refutation.
Followed_OverFalse(g, t, n, o) ==
  LET s == g.status[n]
      to(x) == SetStatus(g, n, x)
  IN  IF o = "solved" /\ s # "proved" /\ t[n] = "clean" THEN to("proved")
      ELSE IF o = "blocked" /\ s \in Open \ {"blocked"} THEN to("blocked")
      ELSE IF o = "deferred" /\ s \in {"proving", "blocked"} THEN to("stated")
      ELSE IF o = "unresolved" /\ s = "blocked" /\ t[n] # "unread"
        THEN to(IF t[n] = "absent" THEN "conjectured" ELSE "stated")
      ELSE IF o \in {"retired", "unverified"} /\ s = "proving" THEN to("stated")
      ELSE g

\* Mutant: only the theorem that is being proved can become proved.
Followed_ProvingOnly(g, t, n, o) ==
  LET s == g.status[n]
      to(x) == SetStatus(g, n, x)
  IN  IF o = "solved" /\ s = "proving" /\ t[n] = "clean" THEN to("proved")
      ELSE IF o = "blocked" /\ s \in Open \ {"blocked"} THEN to("blocked")
      ELSE IF o = "deferred" /\ s \in {"proving", "blocked"} THEN to("stated")
      ELSE IF o = "unresolved" /\ s = "blocked" /\ t[n] # "unread"
        THEN to(IF t[n] = "absent" THEN "conjectured" ELSE "stated")
      ELSE IF o \in {"retired", "unverified"} /\ s = "proving" THEN to("stated")
      ELSE g

\* The status of n follows the outcome o, on current truth.
Followed(g, t, n, o) ==
  LET s == g.status[n]
      to(x) == SetStatus(g, n, x)
  IN  IF o = "solved" /\ s \in Open /\ t[n] = "clean" THEN to("proved")
      ELSE IF o = "blocked" /\ s \in Open \ {"blocked"} THEN to("blocked")
      ELSE IF o = "deferred" /\ s \in {"proving", "blocked"} THEN to("stated")
      ELSE IF o = "unresolved" /\ s = "blocked" /\ t[n] # "unread"
        THEN to(IF t[n] = "absent" THEN "conjectured" ELSE "stated")
      ELSE IF o \in {"retired", "unverified"} /\ s = "proving" THEN to("stated")
      ELSE g

\* One outcome: retired if its gate or a dependency is bad, then followed,
\* unless n is the live assignment.  live: the theorem of the current gate.
FollowOutcome(r, t, n, current, live) ==
  LET o == r.out[n]
      bad == HasInvalidDependency(r.g, n)
      now == IF o \in {"solved", "rejected"} /\ bad THEN "retired"
             ELSE IF o = "rejected" THEN "unverified" ELSE o
      revoked == ((o = "rejected" /\ ~bad) \/ o = "unverified") /\ n # live
      g == IF revoked THEN RevokeGateAcceptance(r.g, n) ELSE r.g
  IN  [g |-> IF n = current THEN g ELSE Followed(g, t, n, now),
       out |-> [r.out EXCEPT ![n] = now]]

\* One outcome after the other.
FollowOutcomes(r, t, current, live) ==
  LET after[i \in 0..Len(Order)] ==
        IF i = 0 THEN r ELSE FollowOutcome(after[i-1], t, Order[i], current, live)
  IN  after[Len(Order)]

\* The whole synchronization of g: the new graph and the new outcomes.
Synced(g, t, out, active, current, live) ==
  LET known == [g EXCEPT !.status = [n \in Nodes |->
                  IF g.status[n] = "none" /\ out[n] # "none" THEN "proving" ELSE g.status[n]]]
      grounded == Reconcile(known, t)
      opened == IF ExternalClaim THEN grounded ELSE ReopenFidelityParks(grounded, t)
      first == [g |-> opened, out |-> RetireOutcomes(out, known, grounded)]
      r == FollowOutcomes(first, t, current, live)
      idle == RetireInactiveProving(r.g, t, active)
  IN  [g |-> IF active = None THEN idle ELSE UpsertNodeForAssignment(idle, active),
       out |-> r.out]

SyncLoad ==
  /\ stage = "idle"
  /\ stage' = "scan"
  /\ plan' = graph
  /\ planFresh' = TRUE
  /\ UNCHANGED <<graph, truth, outcome, assigned, seen, proven, others, changes>>

\* The outcomes are stored at once, the graph is saved later, if it changed.
SyncScan ==
  /\ stage = "scan"
  /\ \E current \in {assigned, None}, live \in Nodes \cup {None} :
       \E r \in {Synced(plan, truth, outcome, assigned, current, live)} :
         /\ outcome' = r.out
         /\ plan' = r.g
         /\ proven' = Proved(r.g) \ Proved(plan)
         /\ stage' = IF r.g = plan THEN "idle" ELSE "save"
  /\ seen' = truth
  /\ UNCHANGED <<graph, truth, assigned, planFresh, others, changes>>

\* Mutant: a save that does not compare revisions.
Saves_Unchecked(isFresh) == TRUE

\* save_blueprint: the revision on disk must be the one that was loaded.
Saves(isFresh) == isFresh

SyncSave ==
  /\ stage = "save"
  /\ Saves(planFresh)
  /\ graph' = plan
  /\ fresh' = [w \in Writers |-> FALSE]
  /\ stage' = IF proven = {} THEN "idle" ELSE "progress"
  /\ UNCHANGED <<truth, outcome, assigned, plan, planFresh, seen, proven, job, copy, changes>>

\* PlanStateRevisionConflict: visible, never fatal; the next turn syncs again.
SyncRefused ==
  /\ stage = "save"
  /\ ~Saves(planFresh)
  /\ stage' = "idle"
  /\ UNCHANGED <<graph, truth, outcome, assigned, plan, planFresh, seen, proven, others, changes>>

\* A new proof that counts as progress reopens what was put aside.
SyncProgress ==
  /\ stage = "progress"
  /\ LET aside == {n \in Nodes : outcome[n] \in {"blocked", "deferred"}}
         g == [plan EXCEPT !.status = [n \in Nodes |->
                 IF n \in aside /\ plan.status[n] = "blocked" /\ seen[n] # "unread"
                 THEN IF seen[n] = "absent" THEN "conjectured" ELSE "stated"
                 ELSE plan.status[n]]]
     IN  /\ outcome' = [n \in Nodes |-> IF n \in aside THEN "unresolved" ELSE outcome[n]]
         /\ plan' = g
         /\ stage' = IF g = plan THEN "idle" ELSE "save"
  /\ proven' = {}
  /\ UNCHANGED <<graph, truth, assigned, planFresh, seen, others, changes>>

\* The proof is conditional, or known since before a restart: no progress.
SyncNoProgress ==
  /\ stage = "progress"
  /\ stage' = "idle"
  /\ proven' = {}
  /\ UNCHANGED <<graph, truth, outcome, assigned, plan, planFresh, seen, others, changes>>

-----------------------------------------------------------------------------
(* The other writers *)

\* What the change j makes of the graph g.
Applied(j, g) ==
  IF j.kind = "rewire" THEN [g EXCEPT !.depends = @ \cup {j.edge}]
  ELSE LET n == j.node
           s == g.status[n]
       IN  CASE j.kind = "park" /\ s \in Open \ {"parked"} -> SetStatus(g, n, "parked")
             [] j.kind = "block" /\ s \in (Open \ {"blocked"}) \cup {"none"} -> SetStatus(g, n, "blocked")
             [] j.kind = "pass" /\ s # "none" ->
                  [SetStatus(g, n, IF s = "stated" THEN "audited" ELSE s) EXCEPT !.note[n] = "audited"]
             [] j.kind = "suspect" /\ s # "none" -> [g EXCEPT !.note[n] = "suspect"]
             [] j.kind = "state" /\ s = "none" -> SetStatus(g, n, "stated")
             [] j.kind = "prove" /\ s \in Open \cup {"false"} -> SetStatus(g, n, "proved")
             [] j.kind = "falsify" /\ s # "none" -> InvalidateFalseSubtree(g, n)
             [] OTHER -> g

\* Planners, jobs and the end of a race of directions reload and reapply once;
\* the others give up.
Retries(j) == j.kind \in {"rewire", "state", "prove", "park"} /\ ~j.retried

\* A job was gated on the sources, and so was the proof of a negation.
Justified(j) ==
  /\ j.kind = "prove" => truth[j.node] = "clean"
  /\ j.kind = "falsify" => truth[j.node] # "clean"

Load(w) ==
  /\ job[w] = None
  /\ \E j \in Jobs :
       /\ ~j.retried /\ Justified(j)
       /\ Applied(j, graph) # graph
       /\ job' = [job EXCEPT ![w] = j]
       /\ copy' = [copy EXCEPT ![w] = Applied(j, graph)]
  /\ fresh' = [fresh EXCEPT ![w] = TRUE]
  /\ Happens
  /\ UNCHANGED <<graph, truth, outcome, assigned, runner>>

Save(w) ==
  /\ job[w] # None
  /\ Saves(fresh[w])
  /\ graph' = copy[w]
  /\ fresh' = [v \in Writers |-> FALSE]
  /\ planFresh' = FALSE
  /\ job' = [job EXCEPT ![w] = None] /\ copy' = [copy EXCEPT ![w] = None]
  /\ UNCHANGED <<truth, outcome, assigned, stage, plan, seen, proven, changes>>

Refused(w) ==
  /\ job[w] # None
  /\ ~Saves(fresh[w])
  /\ LET g == Applied(job[w], graph) IN
       IF Retries(job[w]) /\ g # graph
       THEN /\ job' = [job EXCEPT ![w].retried = TRUE]
            /\ copy' = [copy EXCEPT ![w] = g]
            /\ fresh' = [fresh EXCEPT ![w] = TRUE]
       ELSE /\ job' = [job EXCEPT ![w] = None]
            /\ copy' = [copy EXCEPT ![w] = None]
            /\ UNCHANGED fresh
  /\ UNCHANGED <<graph, truth, outcome, assigned, runner, changes>>

-----------------------------------------------------------------------------
(* The queue, the sources and the end of a process *)

Assign(n) ==
  /\ assigned = None
  /\ truth[n] = "dirty"
  /\ assigned' = n
  /\ UNCHANGED <<graph, truth, outcome, runner, others, changes>>

\* The queue leaves its theorem: as solved only past the gate.
Finish(o) ==
  /\ assigned # None
  /\ o = "solved" => truth[assigned] = "clean"
  /\ outcome' = [outcome EXCEPT ![assigned] = o]
  /\ assigned' = None
  /\ Happens
  /\ UNCHANGED <<graph, truth, runner, others>>

\* The gate's policy, or the axioms behind the proof, are no longer accepted.
Disqualify(n) ==
  /\ outcome[n] = "solved"
  /\ outcome' = [outcome EXCEPT ![n] = "rejected"]
  /\ Happens
  /\ UNCHANGED <<graph, truth, assigned, runner, others>>

Edit(n) ==
  /\ truth[n] # "unread"
  /\ \E v \in Found \ {truth[n]} : truth' = [truth EXCEPT ![n] = v]
  /\ Happens
  /\ UNCHANGED <<graph, outcome, assigned, runner, others>>

\* The file of n is deleted, moved away or cannot be read; or it is back, with
\* any contents.
Vanish(n) ==
  /\ truth[n] # "unread"
  /\ truth' = [m \in Nodes |-> IF FileOf[m] = FileOf[n] THEN "unread" ELSE truth[m]]
  /\ Happens
  /\ UNCHANGED <<graph, outcome, assigned, runner, others>>

Reappear(n) ==
  /\ truth[n] = "unread"
  /\ \E t \in [Nodes -> Found] :
       truth' = [m \in Nodes |-> IF FileOf[m] = FileOf[n] THEN t[m] ELSE truth[m]]
  /\ Happens
  /\ UNCHANGED <<graph, outcome, assigned, runner, others>>

\* The runner dies and is resumed: outcomes are in its checkpoint.
Restart ==
  /\ stage # "idle"
  /\ stage' = "idle"
  /\ assigned' = None
  /\ Happens
  /\ UNCHANGED <<graph, truth, outcome, plan, planFresh, seen, proven, others>>

Sync == SyncLoad \/ SyncScan \/ SyncSave \/ SyncRefused \/ SyncProgress \/ SyncNoProgress
Write(w) == Load(w) \/ Save(w) \/ Refused(w)
Queue == \/ \E n \in Nodes : Assign(n) \/ Disqualify(n)
         \/ \E o \in {"solved", "blocked", "deferred", "retired"} : Finish(o)

Sources == \E n \in Nodes : Edit(n) \/ Vanish(n) \/ Reappear(n)

Next == \/ Sync \/ Restart \/ Queue
        \/ \E w \in Writers : Write(w)
        \/ Sources

Spec == Init /\ [][Next]_vars

\* Every turn of the runner syncs: in each stage a step of Sync is enabled, and
\* all of them move the stage.
FairSpec == Spec /\ WF_stage(stage' \in Stages)

-----------------------------------------------------------------------------
(* What the graph promises *)

Life == INSTANCE NodeLife WITH status <- graph.status

\* Whatever the writers do at once, every declaration lives as NodeLife says:
\* no save writes an older state of work over a proof or a refutation.
ImplementsNodeLife == Life!Spec

\* What a synchronization commits is grounded: it proves nothing that it did
\* not see clean, or whose dependencies are false or parked; of a file that it
\* could not read it keeps the proofs there were and adds none; and it never
\* writes over a kernel-false node ("negation promotion wins").
SyncGrounded ==
  [][stage = "save" /\ stage' # "save" /\ graph' # graph =>
       /\ \A n \in Proved(graph') :
            \/ seen[n] = "clean" /\ ~HasInvalidDependency(graph', n)
            \/ seen[n] = "unread" /\ n \in Proved(graph)
       /\ \A n \in Nodes : graph.status[n] = "false" => graph'.status[n] = "false"]_vars

\* A proof whose declaration regressed, or that rests on a false or parked
\* one, does not stay in the graph while its file can be read: a refused save
\* is made up for.  The proofs of a lost file stay until the file is back.
StaleProofFalls ==
  \A n \in Nodes :
    (n \in Proved(graph) /\ truth[n] # "unread"
       /\ (truth[n] # "clean" \/ HasInvalidDependency(graph, n)))
      ~> \/ n \notin Proved(graph) \/ truth[n] = "unread"
         \/ truth[n] = "clean" /\ ~HasInvalidDependency(graph, n)

\* A theorem that the queue solved gets into the graph, unless its outcome is
\* retired or its declaration changed again, so that it is assigned anew.
SolvedIsProved ==
  \A n \in Nodes :
    (outcome[n] = "solved" /\ truth[n] = "clean" /\ graph.status[n] # "false")
      ~> \/ n \in Proved(graph) \/ graph.status[n] = "false"
         \/ outcome[n] # "solved" \/ truth[n] # "clean" \/ assigned = n
=============================================================================
