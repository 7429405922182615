-------------------------- MODULE NegationPromotion --------------------------
(* The promotion of a kernel-checked negation to graph falsity             *)
(* (workflows/negation_promotion.py): the evidence and the rollback plan   *)
(* are made durable, the node is saved as false and its ancestors as open, *)
(* and the transaction commits if the graph is at the very revision that   *)
(* save produced.  Otherwise the writes are rolled back and the evidence   *)
(* is quarantined.  A restart replays what is still pending.  The source   *)
(* lease keeps other promotions out; it does not keep out the user's       *)
(* editor or the other writers of the blueprint.                           *)
EXTENDS PlanGraph

CONSTANTS
  Ids,             \* the transactions there can be, in the order of the registry
  Written,         \* statuses the other writers of the blueprint save
  MaxUserEdits,    \* bound on edits of the source
  MaxGraphEdits,   \* bound on saves by the other writers
  MaxCrashes,      \* bound on processes that die
  MaxOutages       \* bound on reads of the source that fail

ASSUME NP_Assumption ==
  /\ Ids \subseteq Nat \ {0}
  /\ Written \subseteq Statuses \ {"false"}
  /\ {MaxUserEdits, MaxGraphEdits, MaxCrashes, MaxOutages} \subseteq Nat

VARIABLES
  source,   \* "probed", the revision the negation was checked for, or "edited"
  graph,    \* blueprint.json
  tx,       \* the durable transactions; undo: a quarantine is yet to be sealed
  target,   \* the refuted node
  pc,       \* where the process is
  job, pin, \* the promotion at hand and the source bytes it goes by
  fresh,    \* whether the graph is still the revision it loaded
  after,    \* where it goes on after this promotion
  todo,     \* what is left of the registry it loaded at startup
  spent     \* what the bounds have left the environment do

vars == <<source, graph, tx, target, pc, job, pin, fresh, after, todo, spent>>

------------------------------------------------------------------------------
(* A rollback plan: the statuses before and after the promotion, and how   *)
(* many saves the graph has seen since the revision the plan was made on,  *)
(* up to 2, for only 0 and 1 can be the expected revision.                 *)
Plans == [before : [Nodes -> Statuses], now : [Nodes -> Statuses], age : 0 .. 2]

Changed(p)  == {n \in Nodes : p.before[n] # p.now[n]}
Expected(p) == IF Changed(p) = {} THEN 0 ELSE 1

Aged(p) == [p EXCEPT !.age = IF @ = 2 THEN 2 ELSE @ + 1]

Promoted == InvalidateFalseSubtree(graph, target)

PlanNow == [before |-> graph.status, now |-> Promoted.status, age |-> 0]

my == tx[job].plan

In(states) == {i \in Ids : tx[i].state \in states}

\* The registry is gone through in its order.
Lowest(ids) == {i \in ids : \A j \in ids : i <= j}
Highest(ids) == {i \in ids : \A j \in ids : j <= i}

\* Mutant: any revision will do in which the node itself is false.
ReflectsWrite_NodeOnly(p) == graph.status[target] = p.now[target]

\* _graph_reflects_promotion_write
ReflectsWrite(p) ==
  /\ p.age = Expected(p)
  /\ \A n \in Changed(p) : graph.status[n] = p.now[n]

\* Mutant: the ancestors are never put back.
RolledBack_NodeOnly(p) ==
  IF target \in Changed(p) /\ graph.status[target] = p.now[target]
  THEN SetStatus(graph, target, p.before[target]) ELSE graph

\* _restore_transaction_graph: past the expected revision only the node itself
\* is put back, and nothing another writer has changed since.
RolledBack(p) ==
  LET reopened == IF p.age = Expected(p) THEN Changed(p)
                  ELSE Changed(p) \cap {target}
  IN  [graph EXCEPT !.status = [n \in Nodes |->
         IF n \in reopened /\ graph.status[n] = p.now[n] THEN p.before[n]
         ELSE graph.status[n]]]

\* Mutant: the ancestors are not looked at.
ReflectsRollback_NodeOnly(p) == graph.status[target] = p.before[target]

\* _graph_reflects_rollback
ReflectsRollback(p) == \A n \in Changed(p) : graph.status[n] = p.before[n]

Goto(place) == pc' = place

\* A save of the blueprint: its revision moves on for every plan.
SaveGraph(g) ==
  /\ graph' = g
  /\ tx' = [i \in Ids |-> [tx[i] EXCEPT !.plan = Aged(@)]]

------------------------------------------------------------------------------
Init ==
  /\ source = "probed"
  /\ target \in Nodes
  /\ graph \in [status : [Nodes -> Written], note : {[n \in Nodes |-> ""]},
                depends : {{e \in Nodes \X Nodes : ParentOf[e[2]] = e[1]}}]
  /\ tx = [i \in Ids |-> [state |-> "none", undo |-> FALSE,
             plan |-> [before |-> graph.status, now |-> graph.status, age |-> 0]]]
  /\ pc = "idle"
  /\ job \in Ids
  /\ pin = "probed"
  /\ fresh = FALSE
  /\ after = "idle"
  /\ todo = {}
  /\ spent = [user |-> 0, graph |-> 0, crash |-> 0, outage |-> 0]

------------------------------------------------------------------------------
(* _commit_promotion, after a fresh kernel check of the negation.          *)

\* The plan and its revision are part of the transaction's identity: only an
\* attempt on the same revision of the graph meets its own record again.
Probe ==
  /\ pc = "idle"
  /\ source = "probed"
  /\ job' \in LET same == {i \in Ids \ In({"none"}) : tx[i].plan = PlanNow}
              IN  IF same # {} THEN same ELSE Lowest(In({"none"}))
  /\ tx' = [tx EXCEPT ![job'].plan = PlanNow]
  /\ Goto("begin")
  /\ pin' = source
  /\ fresh' = TRUE
  /\ after' = "idle"
  /\ UNCHANGED <<source, graph, target, todo, spent>>

\* _begin_promotion_transaction
Begin ==
  /\ pc = "begin"
  /\ Goto(CASE source # pin \/ tx[job].state = "quarantined" -> "idle"
            [] source = pin /\ tx[job].state = "committed"   -> "agree"
            [] OTHER                                         -> "pended")
  /\ tx' = IF source = pin /\ tx[job].state = "none"
           THEN [tx EXCEPT ![job].state = "pending"] ELSE tx
  /\ UNCHANGED <<source, graph, target, job, pin, fresh, after, todo, spent>>

\* The first look at the source after that is outside the try statement.
Pended ==
  /\ pc = "pended"
  /\ \/ /\ source = pin
        /\ Goto(IF Changed(my) # {} THEN "save" ELSE "written")
        /\ UNCHANGED pin
     \/ source # pin /\ Goto("idle") /\ UNCHANGED pin
     \/ source # pin /\ Goto("restore") /\ pin' = source
  /\ UNCHANGED <<source, graph, tx, target, job, fresh, after, todo, spent>>

\* The promotion is active already, which at this revision means that the
\* graph agrees with it; only that is looked at, under blueprint_commit_guard.
Agree ==
  /\ pc = "agree"
  /\ Goto("idle")
  /\ tx' = [tx EXCEPT ![job].undo = @ \/ (source = pin /\ Promoted # graph)]
  /\ UNCHANGED <<source, graph, target, job, pin, fresh, after, todo, spent>>

------------------------------------------------------------------------------
(* From the save to the commit, in the first attempt and in a recovery.    *)

\* PlanStateRevisionConflict is caught by none of the callers.
Conflict ==
  /\ ~fresh
  /\ Goto(IF after = "idle" THEN "idle" ELSE "off")
  /\ UNCHANGED <<graph, tx>>

Save ==
  /\ pc = "save"
  /\ \/ fresh /\ Goto("written") /\ SaveGraph(Promoted)
     \/ Conflict
  /\ UNCHANGED <<source, target, job, pin, fresh, after, todo, spent>>

\* _SourceLeaseChanged: the quarantine goes by the text as it is now.
SourceChanged ==
  /\ source # pin
  /\ pin' = source
  /\ Goto("restore")

AfterSave ==
  /\ pc = "written"
  /\ SourceChanged \/ (source = pin /\ Goto("reflect") /\ UNCHANGED pin)
  /\ UNCHANGED <<source, graph, tx, target, job, fresh, after, todo, spent>>

\* Under blueprint_commit_guard.
Reflect ==
  /\ pc = "reflect"
  /\ \/ SourceChanged
     \/ /\ source = pin
        /\ Goto(IF ReflectsWrite(my) THEN "commit" ELSE "restore")
        /\ UNCHANGED pin
  /\ UNCHANGED <<source, graph, tx, target, job, fresh, after, todo, spent>>

\* _finalize_promotion_transaction.  The lease keeps the record of a pending
\* promotion from any other process.
Commit ==
  /\ pc = "commit"
  /\ tx' = [tx EXCEPT ![job].state = "committed", ![job].undo = FALSE]
  /\ Goto("posted")
  /\ UNCHANGED <<source, graph, target, job, pin, fresh, after, todo, spent>>

Posted ==
  /\ pc = "posted"
  /\ SourceChanged \/ (source = pin /\ Goto(after) /\ UNCHANGED pin)
  /\ UNCHANGED <<source, graph, tx, target, job, fresh, after, todo, spent>>

------------------------------------------------------------------------------
(* _quarantine_promotion: the graph is reopened first, the evidence is     *)
(* withdrawn when that is sealed.                                          *)

\* A second change of the source escapes from the handler, and from startup.
LeaseLost ==
  /\ source # pin
  /\ Goto(IF after \in {"idle", "undo"} THEN after ELSE "off")

\* Mutant: the evidence is withdrawn before the graph is reopened.
Restore_RecordFirst ==
  /\ pc = "restore"
  /\ \/ LeaseLost /\ UNCHANGED <<tx, fresh>>
     \/ /\ source = pin
        /\ fresh' = TRUE
        /\ tx' = [tx EXCEPT ![job].state = "quarantined"]
        /\ Goto(IF RolledBack(my) # graph THEN "rollback" ELSE "rolled-back")
  /\ UNCHANGED <<source, graph, target, job, pin, after, todo, spent>>

Restore ==
  /\ pc = "restore"
  /\ \/ LeaseLost /\ UNCHANGED fresh
     \/ /\ source = pin
        /\ fresh' = TRUE
        /\ Goto(IF RolledBack(my) # graph THEN "rollback" ELSE "rolled-back")
  /\ UNCHANGED <<source, graph, tx, target, job, pin, after, todo, spent>>

Rollback ==
  /\ pc = "rollback"
  /\ \/ fresh /\ Goto("rolled-back") /\ SaveGraph(RolledBack(my))
     \/ Conflict
  /\ UNCHANGED <<source, target, job, pin, fresh, after, todo, spent>>

\* The revision the rollback left is the one the seal has to find.
RollbackSaved ==
  /\ pc = "rolled-back"
  /\ \/ LeaseLost /\ UNCHANGED fresh
     \/ source = pin /\ fresh' = TRUE /\ Goto("seal")
  /\ UNCHANGED <<source, graph, tx, target, job, pin, after, todo, spent>>

\* Under the commit guard: sealed, or kept for a later start.
Seal ==
  /\ pc = "seal"
  /\ \/ LeaseLost /\ UNCHANGED tx
     \/ /\ source = pin
        /\ fresh /\ ReflectsRollback(my)
        /\ Goto("withdraw")
        /\ UNCHANGED tx
     \/ /\ source = pin
        /\ ~(fresh /\ ReflectsRollback(my))
        /\ Goto(after)
        /\ tx' = [tx EXCEPT ![job].undo = TRUE]
  /\ UNCHANGED <<source, graph, target, job, pin, fresh, after, todo, spent>>

Withdraw ==
  /\ pc = "withdraw"
  /\ tx' = [tx EXCEPT ![job].state = "quarantined", ![job].undo = FALSE]
  /\ Goto(after)
  /\ UNCHANGED <<source, graph, target, job, pin, fresh, after, todo, spent>>

------------------------------------------------------------------------------
(* reconcile_promotions_on_startup: three passes, each over what the       *)
(* registry held when the pass began.                                      *)
Pass(place, ids) ==
  /\ Goto(place)
  /\ after' = place
  /\ todo' = ids

\* The campaign is started, or started again.
Start ==
  /\ pc \in {"idle", "off", "paused"}
  /\ Pass("undo", {i \in Ids : tx[i].undo})
  /\ UNCHANGED <<source, graph, tx, target, job, pin, fresh, spent>>

NextPass ==
  /\ todo = {}
  /\ \/ pc = "undo" /\ Pass("recover", In({"pending"}))
     \/ /\ pc = "recover"
        /\ Pass("root", IF ParentOf[target] = None THEN In({"committed"}) ELSE {})
  /\ UNCHANGED <<source, graph, tx, target, job, pin, fresh, spent>>

Take(i) ==
  /\ todo' = todo \ {i}
  /\ job' = i
  /\ pin' = source

Outage ==
  /\ spent.outage < MaxOutages
  /\ spent' = [spent EXCEPT !.outage = @ + 1]

\* The source cannot be read: the graph is left as it is, the record kept.
OutageKept ==
  /\ Outage
  /\ UNCHANGED <<pc, fresh>>
  /\ tx' = [tx EXCEPT ![job'].undo = TRUE]

\* recover_promotion_quarantines
RecoverUndo ==
  /\ pc = "undo"
  /\ \E i \in todo : Take(i)
  /\ \/ Goto("restore") /\ UNCHANGED <<tx, fresh, spent>>
     \/ OutageKept
  /\ UNCHANGED <<source, graph, target, after>>

\* recover_promotion_transactions: the kernel checks the evidence again.
Recover ==
  /\ pc = "recover"
  /\ \E i \in Lowest(todo) : Take(i)
  /\ \/ source = "probed" /\ Goto("load") /\ UNCHANGED <<tx, fresh, spent>>
     \/ Goto("restore") /\ UNCHANGED <<tx, fresh, spent>>
     \/ OutageKept
  /\ UNCHANGED <<source, graph, target, after>>

Load ==
  /\ pc = "load"
  /\ \/ SourceChanged /\ UNCHANGED fresh
     \/ /\ source = pin
        /\ fresh' = TRUE
        /\ Goto(IF Promoted # graph THEN "save" ELSE "written")
        /\ UNCHANGED pin
  /\ UNCHANGED <<source, graph, tx, target, job, after, todo, spent>>

\* Committed refutations of the requested theorem itself, the last first:
\* one stands, or it is stale, or the kernel does not answer now.
Root ==
  /\ pc = "root"
  /\ \E i \in Highest(todo) : Take(i)
  /\ \/ /\ source = "probed"
        /\ fresh' = TRUE
        /\ Goto(IF Promoted # graph THEN "root-save" ELSE "root-final")
        /\ UNCHANGED <<tx, spent>>
     \/ Goto("restore") /\ UNCHANGED <<tx, fresh, spent>>
     \/ UNCHANGED <<pc, tx, fresh, spent>>
     \/ OutageKept
  /\ UNCHANGED <<source, graph, target, after>>

RootSave ==
  /\ pc = "root-save"
  /\ \/ fresh /\ Goto("root-final") /\ SaveGraph(Promoted)
     \/ Conflict
  /\ UNCHANGED <<source, target, job, pin, fresh, after, todo, spent>>

Unsettled == \E i \in Ids : tx[i].undo \/ tx[i].state = "pending"

\* The refutation that stands ends the campaign, unless something is pending.
RootFinal ==
  /\ pc = "root-final"
  /\ \/ SourceChanged
     \/ source = pin /\ Goto(IF Unsettled THEN "root" ELSE "idle") /\ UNCHANGED pin
  /\ UNCHANGED <<source, graph, tx, target, job, fresh, after, todo, spent>>

\* With anything pending the campaign pauses until it is started again.
End ==
  /\ pc = "root" /\ todo = {}
  /\ Goto(IF Unsettled THEN "paused" ELSE "idle")
  /\ UNCHANGED <<source, graph, tx, target, job, pin, fresh, after, todo, spent>>

------------------------------------------------------------------------------
(* The environment.                                                        *)
Guarded == {"agree", "reflect", "commit", "posted", "seal", "withdraw", "root-final"}

\* Another writer saves a status.  Prover jobs alone overwrite a refutation.
OtherSave ==
  /\ spent.graph < MaxGraphEdits
  /\ pc \notin Guarded
  /\ \E n \in Nodes, s \in Written :
       /\ graph.status[n] # s
       /\ graph.status[n] = "false" => s = "proved"
       /\ SaveGraph(SetStatus(graph, n, s))
  /\ fresh' = FALSE
  /\ spent' = [spent EXCEPT !.graph = @ + 1]
  /\ UNCHANGED <<source, target, pc, job, pin, after, todo>>

UserEdit ==
  /\ spent.user < MaxUserEdits
  /\ source' = IF source = "probed" THEN "edited" ELSE "probed"
  /\ spent' = [spent EXCEPT !.user = @ + 1]
  /\ UNCHANGED <<graph, tx, target, pc, job, pin, fresh, after, todo>>

Crash ==
  /\ spent.crash < MaxCrashes
  /\ pc # "off"
  /\ Goto("off")
  /\ spent' = [spent EXCEPT !.crash = @ + 1]
  /\ UNCHANGED <<source, graph, tx, target, job, pin, fresh, after, todo>>

Run ==
  \/ Begin \/ Pended \/ Agree \/ Save \/ AfterSave \/ Reflect \/ Commit \/ Posted
  \/ Restore \/ Rollback \/ RollbackSaved \/ Seal \/ Withdraw
  \/ Start \/ NextPass \/ RecoverUndo \/ Recover \/ Load
  \/ Root \/ RootSave \/ RootFinal \/ End

Next == Run \/ Probe \/ OtherSave \/ UserEdit \/ Crash

Spec == Init /\ [][Next]_vars

\* The process takes its next step, and a campaign is started again sooner or
\* later; nobody has to look for another refutation.
FairSpec == Spec /\ WF_vars(Run) /\ SF_vars(Start)

------------------------------------------------------------------------------
Places == {"idle", "off", "paused", "begin", "pended", "agree", "save", "written",
           "reflect", "commit", "posted", "restore", "rollback", "rolled-back",
           "seal", "withdraw", "undo", "recover", "load", "root", "root-save",
           "root-final"}

\* Types.  (negation_promotion.py, the records of summary.json)
TypeOK ==
  /\ source \in {"probed", "edited"} /\ pin \in {"probed", "edited"}
  /\ graph \in Graphs
  /\ tx \in [Ids -> [state : {"none", "pending", "committed", "quarantined"},
                     undo : BOOLEAN, plan : Plans]]
  /\ target \in Nodes
  /\ pc \in Places
  /\ job \in Ids
  /\ fresh \in BOOLEAN
  /\ after \in {"idle", "undo", "recover", "root"}
  /\ todo \subseteq Ids
  /\ spent \in [user : 0 .. MaxUserEdits, graph : 0 .. MaxGraphEdits,
                crash : 0 .. MaxCrashes, outage : 0 .. MaxOutages]

\* Every attempt set out from a node that was not false yet.
FirstHand == \A i \in Ids \ In({"none"}) : target \in Changed(tx[i].plan)

\* The graph then never calls the node false without a durable record from
\* which a restart can confirm or undo that, between whichever two writes the
\* process dies.
\* (_quarantine_promotion, which reopens the graph before it drops the record)
FalsityHasRecord ==
  FirstHand /\ graph.status[target] = "false" => In({"pending", "committed"}) # {}

\* "the unsafe inverse ordering could remove the only replay record while a
\* false graph node survived": no such node, whatever the attempts set out from.
\* (negation_promotion.py, _quarantine_promotion)
RecordSurvives ==
  graph.status[target] = "false" => In({"pending", "committed"}) # {}

\* A refutation commits over a graph that says exactly what it says: the node
\* is false and nothing that was split into it still counts on it.
\* (_graph_reflects_promotion_write under blueprint_commit_guard)
CommitsAgreedGraph ==
  [][\A i \in Ids : tx[i].state # "committed" /\ tx'[i].state = "committed"
                      => Promoted = graph]_vars

\* Evidence is withdrawn only when every status its promotion changed is back.
\* (_graph_reflects_rollback)
WithdrawalReopens ==
  [][\A i \in Ids : tx[i].state # "quarantined" /\ tx'[i].state = "quarantined"
        => \A n \in Changed(tx[i].plan) : graph.status[n] = tx[i].plan.before[n]]_vars

\* The graph is as the transaction found it, or as the transaction wrote it.
Aligned(p) ==
  \/ p.age = 0
  \/ p.age = Expected(p) /\ graph.status = p.now

\* A pending transaction over such a graph is committed or withdrawn, whatever
\* the kernel answers and however often the process dies before.
\* (recover_promotion_transactions, recover_promotion_quarantines)
AlignedSettles ==
  \A i \in Ids : <>[]Aligned(tx[i].plan) => []<>(tx[i].state # "pending")
==============================================================================
