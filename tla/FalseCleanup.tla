----------------------------- MODULE FalseCleanup -----------------------------
(* The cleanup of one disproved helper lemma                               *)
(* (workflows/false_decomposition_cleanup.py): a plan is made durable in   *)
(* the summary, the helper is cut out of the Lean source by a compare and  *)
(* swap under the file's lease, the dependency graph is cleaned, and the   *)
(* plan is committed together with the promotion that allowed it.  A       *)
(* runner can stop between any two of these writes; the next one replays   *)
(* the pending plan.  The user's editor and the other writers of the graph *)
(* do not wait for the lease.                                              *)
EXTENDS Naturals, FiniteSets

CONSTANTS
  Runners,         \* processes that reconcile the project
  None,            \* nobody holds a lock
  MaxUserEdits,    \* bound on edits by the user
  MaxGraphEdits,   \* bound on graph saves by other writers
  MaxCrashes,      \* bound on runners that die
  MaxRetries       \* bound on authorised retries

ASSUME FC_Assumption ==
  /\ None \notin Runners
  /\ {MaxUserEdits, MaxGraphEdits, MaxCrashes, MaxRetries} \subseteq Nat

VARIABLES
  source,     \* the text of the Lean file
  graph,      \* the part of the blueprint around the helper
  plan,       \* the durable cleanup transaction
  authority,  \* the negation promotion and its transaction
  row,        \* whether a quarantine row for the promotion is live
  lease,      \* who holds the source lease of the file
  guard,      \* who holds the blueprint's writer lock
  pc, seen,   \* each runner's place, and the source bytes it goes by
  fresh,      \* whether the graph is still the revision the runner loaded
  job,        \* whether the runner replays a plan or tries a candidate
  spent       \* what the bounds have left the environment do

vars == <<source, graph, plan, authority, row, lease, guard,
          pc, seen, fresh, job, spent>>

------------------------------------------------------------------------------
(* Texts of the file, up to what the cleanup tells apart: the text it      *)
(* sealed, that text with the user's edits elsewhere, and a parent that    *)
(* was proved without the helper.                                          *)
Texts == {"split", "split+edit", "restored", "restored+edit", "reproved"}

HelperIn(t)       == t \in {"split", "split+edit"}
ParentRestored(t) == t \in {"restored", "restored+edit"}

\* The surgical edit: the helper's declaration out, the parent's old one in.
Cut(t) == IF t = "split" THEN "restored" ELSE "restored+edit"

\* Later user edits are compatible when the helper has not come back.
StillReflects(t) == ~HelperIn(t)

------------------------------------------------------------------------------
(* The graph: the helper's node, its owned edges to the parent, whether a  *)
(* node the cleanup does not own depends on it, whether the proved         *)
(* counterexample is attached to it, and the parent's state.               *)
Graphs == [helper : {"false", "other", "absent"}, edges : BOOLEAN,
           foreign : BOOLEAN, evidence : BOOLEAN,
           parent : {"decomposed", "stated", "claimed"}]

Owned(g) == g.helper = "false" /\ ~g.foreign

Retired(g) == g.helper = "absent" /\ ~g.edges /\ ~g.foreign /\ ~g.evidence

\* Mutant: the replay does not reopen a parent that was claimed meanwhile.
Cleaned_KeepsClaim(g, t) ==
  [g EXCEPT !.helper = IF g.evidence THEN @ ELSE "absent",
            !.edges  = FALSE,
            !.parent = IF ParentRestored(t) /\ @ # "claimed" THEN "stated" ELSE @]

Cleaned(g, t) ==
  [g EXCEPT !.helper = IF g.evidence THEN @ ELSE "absent",
            !.edges  = FALSE,
            !.parent = IF ParentRestored(t) THEN "stated" ELSE @]

GraphReflects(g, t) ==
  /\ Retired(g) \/ (Owned(g) /\ g.evidence /\ ~g.edges)
  /\ ParentRestored(t) => g.parent = "stated"

------------------------------------------------------------------------------
(* Durable states of the plan.  A record whose state contradicts the marks *)
(* of an earlier one is unauthenticated: no update will touch it again.    *)
Corrupt == {"corrupt-pending", "corrupt-quarantined"}

PlanStates == {"none", "pending", "quarantined", "committed"} \cup Corrupt

\* _retain_pending_transaction writes its state over whatever is durable ...
AfterRetain(s) == IF s = "pending" THEN "pending" ELSE "corrupt-pending"

\* ... and so does _mark_transaction_quarantined.
AfterMark(s) == IF s = "committed" THEN "corrupt-quarantined" ELSE "quarantined"

------------------------------------------------------------------------------
Init ==
  /\ source \in {"split", "split+edit"}
  /\ graph \in [helper : {"false"}, edges : {TRUE}, foreign : BOOLEAN,
                evidence : BOOLEAN, parent : {"decomposed"}]
  /\ plan = [state |-> "none", before |-> "split"]
  /\ authority = "active"
  /\ row = FALSE
  /\ lease = None
  /\ guard = None
  /\ pc = [r \in Runners |-> "idle"]
  /\ seen = [r \in Runners |-> "split"]
  /\ fresh = [r \in Runners |-> FALSE]
  /\ job = [r \in Runners |-> "replay"]
  /\ spent = [user |-> 0, graph |-> 0, crash |-> 0, retry |-> 0]

\* Where a runner goes when it is done with the plan or the candidate.
AfterJob(r) == IF job[r] = "replay" THEN "select" ELSE "idle"

Goto(r, place) == pc' = [pc EXCEPT ![r] = place]

\* Mutant: an early return skips the guard's exit.
Leave_KeepsGuard(r, place) ==
  /\ Goto(r, place)
  /\ lease' = IF lease = r THEN None ELSE lease
  /\ UNCHANGED guard

\* Leaving the critical sections: the lease, and the guard when it is held.
Leave(r, place) ==
  /\ Goto(r, place)
  /\ lease' = IF lease = r THEN None ELSE lease
  /\ guard' = IF guard = r THEN None ELSE guard

\* The plan stays pending, with a note, for a later replay.
Retain(r) ==
  /\ UNCHANGED <<authority, row>>
  /\ IF plan.state \in Corrupt \* RuntimeError: the runner's startup fails
       THEN UNCHANGED plan /\ Leave(r, "idle")
       ELSE plan' = [plan EXCEPT !.state = AfterRetain(@)] /\ Leave(r, AfterJob(r))

\* The plan is stopped, and a row asks a person to look at it.
Mark(r) ==
  /\ UNCHANGED authority
  /\ IF plan.state \in Corrupt
       THEN UNCHANGED <<plan, row>> /\ Leave(r, "idle")
       ELSE /\ plan' = [plan EXCEPT !.state = AfterMark(@)]
            /\ row' = TRUE
            /\ Leave(r, AfterJob(r))

\* The candidate is refused before any plan exists.
Refuse(r) ==
  /\ row' = TRUE
  /\ Leave(r, "idle")
  /\ UNCHANGED <<plan, authority>>

------------------------------------------------------------------------------
\* Mutant: startup replays every plan that is not committed.
Start_ReplaysStopped(r) ==
  /\ pc[r] = "idle"
  /\ Goto(r, IF plan.state \in {"pending", "quarantined"} THEN "replay" ELSE "select")
  /\ job' = [job EXCEPT ![r] = "replay"]
  /\ UNCHANGED <<source, graph, plan, authority, row, lease, guard, seen,
                 fresh, spent>>

(* reconcile_false_decompositions: first every pending plan, as listed     *)
(* now, then the promotion as a new candidate.                             *)
Start(r) ==
  /\ pc[r] = "idle"
  /\ Goto(r, IF plan.state = "pending" THEN "replay" ELSE "select")
  /\ job' = [job EXCEPT ![r] = "replay"]
  /\ UNCHANGED <<source, graph, plan, authority, row, lease, guard, seen,
                 fresh, spent>>

\* _execute_transaction takes the lease of the file the plan names.
Lease(r) ==
  /\ pc[r] = "replay"
  /\ lease = None
  /\ lease' = r
  /\ Goto(r, "read")
  /\ UNCHANGED <<source, graph, plan, authority, row, guard, seen, fresh,
                 job, spent>>

Select(r) ==
  /\ pc[r] = "select"
  /\ Goto(r, IF authority = "active" /\ ~row
                /\ plan.state \notin {"pending", "quarantined"}
               THEN "candidate" ELSE "idle")
  /\ UNCHANGED <<source, graph, plan, authority, row, lease, guard, seen,
                 fresh, job, spent>>

\* The candidate's source and graph are read under the lease.
Examine(r) ==
  /\ pc[r] = "candidate"
  /\ lease = None
  /\ job' = [job EXCEPT ![r] = "candidate"]
  /\ seen' = [seen EXCEPT ![r] = source]
  /\ IF Owned(graph) /\ HelperIn(source)
       THEN /\ lease' = r
            /\ Goto(r, "validate")
            /\ UNCHANGED <<plan, authority, row, guard>>
       ELSE /\ row' = TRUE
            /\ Goto(r, "idle")
            /\ UNCHANGED <<plan, authority, lease, guard>>
  /\ UNCHANGED <<source, graph, fresh, spent>>

\* Fresh kernel validation: good evidence, evidence that fails, or no answer
\* now (and a root of the campaign, which is never cleaned).
Validate(r) ==
  /\ pc[r] = "validate"
  /\ \E verdict \in {"ok", "failed", "later"} :
       \/ /\ verdict = "later"
          /\ Leave(r, "idle")
          /\ UNCHANGED <<plan, authority, row>>
       \/ /\ verdict = "failed" \/ (verdict = "ok" /\ source # seen[r])
          /\ Refuse(r)
       \/ /\ verdict = "ok" /\ source = seen[r]
          /\ Goto(r, "begin")
          /\ UNCHANGED <<plan, authority, row, lease, guard>>
  /\ UNCHANGED <<source, graph, seen, fresh, job, spent>>

\* _begin_transaction: the durable plan.  A plan for another text of the file,
\* or an unauthenticated one, is an error; one that is not pending is left.
Begin(r) ==
  /\ pc[r] = "begin"
  /\ IF plan.state = "none"
       THEN /\ plan' = [state |-> "pending", before |-> seen[r]]
            /\ Goto(r, "read")
            /\ UNCHANGED <<authority, row, lease, guard>>
       ELSE /\ UNCHANGED <<plan, authority, row>>
            /\ IF plan.state = "pending" /\ plan.before = seen[r]
                 THEN Goto(r, "read") /\ UNCHANGED <<lease, guard>>
                 ELSE Leave(r, "idle")
  /\ UNCHANGED <<source, graph, seen, fresh, job, spent>>

------------------------------------------------------------------------------
(* _execute_transaction_under_lease, for a replay and for a new plan.      *)

\* Source as it is now: still the sealed text, or already past the cut.  A plan
\* that is replayed may have lost its payload, or restore another statement of
\* the parent than the one there is (the plans of an older version): stopped.
Read(r) ==
  /\ pc[r] = "read"
  /\ seen' = [seen EXCEPT ![r] = source]
  /\ \/ /\ source = plan.before /\ Owned(graph)
        /\ Goto(r, "compare")
        /\ UNCHANGED <<plan, authority, row, lease, guard>>
     \/ /\ source # plan.before /\ StillReflects(source)
        /\ Goto(r, "recheck")
        /\ UNCHANGED <<plan, authority, row, lease, guard>>
     \/ /\ IF source = plan.before THEN ~Owned(graph) ELSE ~StillReflects(source)
        /\ Retain(r)
     \/ /\ source = plan.before /\ job[r] = "replay"
        /\ Mark(r)
  /\ UNCHANGED <<source, graph, fresh, job, spent>>

\* compare_and_swap_source, up to its last look at the file.
Compare(r) ==
  /\ pc[r] = "compare"
  /\ seen' = [seen EXCEPT ![r] = source]
  /\ \/ /\ source = seen[r]
        /\ Goto(r, "replace")
        /\ UNCHANGED <<plan, authority, row, lease, guard>>
     \/ /\ source # seen[r] /\ StillReflects(source)
        /\ Goto(r, "recheck")
        /\ UNCHANGED <<plan, authority, row, lease, guard>>
     \/ /\ source # seen[r] /\ ~StillReflects(source)
        /\ Retain(r)
  /\ UNCHANGED <<source, graph, fresh, job, spent>>

\* The rename is unconditional: an edit since the last look is overwritten.
Replace(r) ==
  /\ pc[r] = "replace"
  /\ source' = Cut(plan.before)
  /\ seen' = [seen EXCEPT ![r] = Cut(plan.before)]
  /\ Goto(r, "confirm")
  /\ UNCHANGED <<graph, plan, authority, row, lease, guard, fresh, job, spent>>

\* Source re-read where the code looks again: after the rename (where a
\* mismatch is an OSError), before the graph is cleaned, after it, and before
\* the commit.  Each mismatch stops the plan.
Recheck(r) ==
  /\ pc[r] \in {"confirm", "recheck", "recheck-graph", "recheck-commit"}
  /\ IF source = seen[r]
       THEN /\ Goto(r, CASE pc[r] = "confirm"       -> "recheck"
                         [] pc[r] = "recheck"       -> "load"
                         [] pc[r] = "recheck-graph" -> "guard"
                         [] OTHER                   -> "reflect")
            /\ UNCHANGED <<plan, authority, row, lease, guard>>
       ELSE Mark(r)
  /\ UNCHANGED <<source, graph, seen, fresh, job, spent>>

\* _apply_graph_cleanup: load and judge the graph ...
Load(r) ==
  /\ pc[r] = "load"
  /\ IF Owned(graph) \/ Retired(graph)
       THEN /\ Goto(r, "save")
            /\ fresh' = [fresh EXCEPT ![r] = TRUE]
            /\ UNCHANGED <<plan, authority, row, lease, guard>>
       ELSE Retain(r) /\ UNCHANGED fresh
  /\ UNCHANGED <<source, graph, seen, job, spent>>

\* ... and save it at the revision that was loaded.
Save(r) ==
  /\ pc[r] = "save"
  /\ guard = None
  /\ IF ~fresh[r]
       THEN Retain(r) /\ UNCHANGED <<graph, fresh>>
       ELSE /\ graph' = Cleaned(graph, seen[r])
            /\ fresh' = [s \in Runners |-> FALSE]
            /\ Goto(r, "recheck-graph")
            /\ UNCHANGED <<plan, authority, row, lease, guard>>
  /\ UNCHANGED <<source, seen, job, spent>>

\* blueprint_commit_guard
Guard(r) ==
  /\ pc[r] = "guard"
  /\ guard = None
  /\ guard' = r
  /\ Goto(r, "recheck-commit")
  /\ UNCHANGED <<source, graph, plan, authority, row, lease, seen, fresh, job,
                 spent>>

\* _graph_reflects_cleanup: the graph as it is under the guard.
Reflect(r) ==
  /\ pc[r] = "reflect"
  /\ IF GraphReflects(graph, seen[r])
       THEN Goto(r, "commit") /\ UNCHANGED <<plan, authority, row, lease, guard>>
       ELSE Retain(r)
  /\ UNCHANGED <<source, graph, seen, fresh, job, spent>>

\* _finalize_transaction: one update of the summary commits the plan and uses
\* up the promotion, or raises.
Commit(r) ==
  /\ pc[r] = "commit"
  /\ \/ /\ plan.state = "pending" /\ authority = "active"
        /\ plan' = [plan EXCEPT !.state = "committed"]
        /\ authority' = "consumed"
        /\ Leave(r, AfterJob(r))
     \/ /\ plan.state # "pending" \/ authority # "active"
        /\ Leave(r, "idle")
        /\ UNCHANGED <<plan, authority>>
  /\ UNCHANGED <<source, graph, row, seen, fresh, job, spent>>

------------------------------------------------------------------------------
(* The environment.                                                        *)

\* The process dies; its locks go with it, the durable state stays.
Crash(r) ==
  /\ spent.crash < MaxCrashes
  /\ pc[r] # "idle"
  /\ Leave(r, "idle")
  /\ spent' = [spent EXCEPT !.crash = @ + 1]
  /\ UNCHANGED <<source, graph, plan, authority, row, seen, fresh, job>>

\* The user's editor does not know about the lease.
UserEdit ==
  /\ spent.user < MaxUserEdits
  /\ \E t \in Texts \ {source} : source' = t
  /\ spent' = [spent EXCEPT !.user = @ + 1]
  /\ UNCHANGED <<graph, plan, authority, row, lease, guard, pc, seen, fresh, job>>

\* Mutant: a writer of the blueprint that does not take its lock.
GraphEdit_Unlocked ==
  /\ spent.graph < MaxGraphEdits
  /\ \/ graph.parent # "claimed" /\ graph' = [graph EXCEPT !.parent = "claimed"]
     \/ ~graph.edges /\ graph' = [graph EXCEPT !.edges = TRUE]
  /\ fresh' = [r \in Runners |-> FALSE]
  /\ spent' = [spent EXCEPT !.graph = @ + 1]
  /\ UNCHANGED <<source, plan, authority, row, lease, guard, pc, seen, job>>

\* Another writer of the blueprint: it claims the parent for a prover, changes
\* the helper's status or adds the node again, links it again, or attaches an
\* unrelated dependent.
GraphEdit ==
  /\ spent.graph < MaxGraphEdits
  /\ guard = None
  /\ \/ graph.parent # "claimed" /\ graph' = [graph EXCEPT !.parent = "claimed"]
     \/ graph' = [graph EXCEPT !.helper = IF @ = "other" THEN "false" ELSE "other"]
     \/ graph' = [graph EXCEPT !.foreign = ~@]
     \/ ~graph.edges /\ graph' = [graph EXCEPT !.edges = TRUE]
  /\ fresh' = [r \in Runners |-> FALSE]
  /\ spent' = [spent EXCEPT !.graph = @ + 1]
  /\ UNCHANGED <<source, plan, authority, row, lease, guard, pc, seen, job>>

\* Mutant: the retry restores the plan and leaves the row open.
AuthorizeRetry_KeepsRow ==
  /\ spent.retry < MaxRetries
  /\ row
  /\ plan.state = "quarantined"
  /\ plan' = [plan EXCEPT !.state = "pending"]
  /\ spent' = [spent EXCEPT !.retry = @ + 1]
  /\ UNCHANGED <<source, graph, authority, row, lease, guard, pc, seen, fresh, job>>

\* authorize_cleanup_quarantine_retry: the row is resolved and the plan it
\* stopped, if there is one, is pending again.
AuthorizeRetry ==
  /\ spent.retry < MaxRetries
  /\ row
  /\ plan.state # "corrupt-quarantined"
  /\ row' = FALSE
  /\ plan' = IF plan.state = "quarantined" THEN [plan EXCEPT !.state = "pending"]
             ELSE plan
  /\ spent' = [spent EXCEPT !.retry = @ + 1]
  /\ UNCHANGED <<source, graph, authority, lease, guard, pc, seen, fresh, job>>

Run(r) ==
  \/ Start(r) \/ Lease(r) \/ Select(r) \/ Examine(r) \/ Validate(r) \/ Begin(r)
  \/ Read(r) \/ Compare(r) \/ Replace(r) \/ Recheck(r)
  \/ Load(r) \/ Save(r) \/ Guard(r) \/ Reflect(r) \/ Commit(r)

Next ==
  \/ \E r \in Runners : Run(r) \/ Crash(r)
  \/ UserEdit
  \/ GraphEdit
  \/ AuthorizeRetry

Spec == Init /\ [][Next]_vars

\* A runner that is started takes its next step, and the campaign keeps
\* reconciling; users, other writers and crashes owe nothing.
FairSpec == Spec /\ \A r \in Runners : WF_vars(Run(r))

------------------------------------------------------------------------------
Places == {"idle", "replay", "select", "candidate", "validate", "begin", "read",
           "compare", "replace", "confirm", "recheck", "load", "save",
           "recheck-graph", "guard", "recheck-commit", "reflect", "commit"}

InLease  == Places \ {"idle", "replay", "select", "candidate"}
Guarded  == {"recheck-commit", "reflect", "commit"}

\* Types, and the locks: a runner inside the lease or the guard holds it.
\* (false_decomposition_cleanup.py, the with blocks of _execute_transaction)
TypeOK ==
  /\ source \in Texts
  /\ graph \in Graphs
  /\ plan \in [state : PlanStates, before : Texts]
  /\ authority \in {"active", "consumed"}
  /\ row \in BOOLEAN
  /\ lease \in Runners \cup {None}
  /\ guard \in Runners \cup {None}
  /\ pc \in [Runners -> Places]
  /\ seen \in [Runners -> Texts]
  /\ fresh \in [Runners -> BOOLEAN]
  /\ job \in [Runners -> {"replay", "candidate"}]
  /\ spent \in [user : 0 .. MaxUserEdits, graph : 0 .. MaxGraphEdits,
                crash : 0 .. MaxCrashes, retry : 0 .. MaxRetries]
  /\ \A r \in Runners : (pc[r] \in InLease) <=> (lease = r)
  /\ \A r \in Runners : (pc[r] \in Guarded) <=> (guard = r)

\* When a cleanup commits, the graph it leaves has no false helper except as
\* an audit tombstone, no edge to it, and the restored parent open for proof:
\* no writer slipped in between the last look and the commit of the summary.
\* (blueprint_commit_guard around _finalize_transaction)
CleanAtCommit ==
  [][(plan.state # "committed" /\ plan'.state = "committed") =>
       \E r \in Runners : /\ pc[r] = "commit"
                          /\ ~HelperIn(seen[r])
                          /\ GraphReflects(graph', seen[r])
                          /\ authority' = "consumed"]_vars

\* A stopped plan can be restarted by a person, and a plan that runs has no
\* open quarantine that would stop the runner from looking at the promotion.
\* (_mark_transaction_quarantined, authorize_cleanup_quarantine_retry)
StoppedHasRow ==
  /\ plan.state = "quarantined" => row
  /\ plan.state = "pending" => ~row

\* One runner implements the promise of CleanupLife.
Life == INSTANCE CleanupLife WITH
          plan <- plan.state, helper <- HelperIn(source), edits <- spent.user

ImplementsCleanupLife == Life!Spec

\* The state in which a pending plan can be finished: the file is the sealed
\* text or no longer has the helper, and the graph is the one the cleanup owns.
Finishable ==
  IF source = plan.before THEN Owned(graph)
  ELSE ~HelperIn(source) /\ (Owned(graph) \/ Retired(graph))

\* Whatever a crash, an edit or a conflict interrupted, the replay finishes or
\* stops a pending plan once the project lets it.
\* (recover_cleanup_transactions)
PendingSettles == <>[]Finishable => []<>(plan.state # "pending")
==============================================================================
