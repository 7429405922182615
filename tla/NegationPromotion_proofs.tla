----------------------- MODULE NegationPromotion_proofs -----------------------
(* Proofs about NegationPromotion, for every plan graph, every registry of  *)
(* transactions and all the bounds: types, the order in which a withdrawal  *)
(* reopens the graph and drops the record, and the record behind a false    *)
(* node.                                                                    *)
EXTENDS NegationPromotion, TLAPS

TxStates == {"none", "pending", "committed", "quarantined"}
Txs == [state : TxStates, undo : BOOLEAN, plan : Plans]

\* The statuses of the nodes there are; the graph of a promotion has them all.
Full == graph.status \in [Nodes -> Statuses]

-----------------------------------------------------------------------------
(* The operators on graphs and plans *)

LEMMA InvalidateType ==
  ASSUME NEW g \in Graphs, NEW n \in Nodes
  PROVE  /\ InvalidateFalseSubtree(g, n) \in Graphs
         /\ g.status \in [Nodes -> Statuses]
              => InvalidateFalseSubtree(g, n).status \in [Nodes -> Statuses]
         /\ InvalidateFalseSubtree(g, n).status[n] = "false"
<1> DEFINE S == InvalidateFalseSubtree(g, n).status
<1>1. PICK reopens \in [Nodes -> BOOLEAN] :
        InvalidateFalseSubtree(g, n) =
          [g EXCEPT !.status = [m \in Nodes |->
             IF m = n THEN "false" ELSE IF reopens[m] THEN "conjectured" ELSE g.status[m]]]
  <2> DEFINE viaChild(m) == \E x \in Ancestors(n) \cup {n} :
                              ParentOf[x] = m /\ <<m, x>> \in g.depends
             r(m) == /\ m \in Ancestors(n)
                     /\ g.status[m] \in Open \/ (g.status[m] = "proved" /\ viaChild(m))
             reopens == [m \in Nodes |-> r(m)]
  <2>1. reopens \in [Nodes -> BOOLEAN]
    OBVIOUS
  <2>2. \A m \in Nodes : reopens[m] = r(m)
    OBVIOUS
  <2> HIDE DEF r
  <2>3. [m \in Nodes |-> IF m = n THEN "false" ELSE IF r(m) THEN "conjectured" ELSE g.status[m]]
        = [m \in Nodes |-> IF m = n THEN "false" ELSE IF reopens[m] THEN "conjectured" ELSE g.status[m]]
    BY <2>2
  <2>4. InvalidateFalseSubtree(g, n) =
          [g EXCEPT !.status = [m \in Nodes |->
             IF m = n THEN "false" ELSE IF r(m) THEN "conjectured" ELSE g.status[m]]]
    BY DEF InvalidateFalseSubtree, r
  <2> QED BY <2>1, <2>3, <2>4
<1> DEFINE f == [m \in Nodes |->
                   IF m = n THEN "false" ELSE IF reopens[m] THEN "conjectured" ELSE g.status[m]]
<1>2. g \in [status : [Nodes -> Statuses \cup {"none"}],
             note : [Nodes -> {"", "audited", "suspect"}],
             depends : SUBSET (Nodes \X Nodes)]
  BY DEF Graphs
<1>3. "false" \in Statuses /\ "conjectured" \in Statuses
  BY DEF Statuses, Open
<1>4. f \in [Nodes -> Statuses \cup {"none"}] /\ f[n] = "false"
  BY <1>2, <1>3
<1>5. g.status \in [Nodes -> Statuses] => f \in [Nodes -> Statuses]
  BY <1>3
<1> HIDE DEF f
<1>6. InvalidateFalseSubtree(g, n) = [g EXCEPT !.status = f]
  BY <1>1 DEF f
<1>7. InvalidateFalseSubtree(g, n).status = f
  BY <1>2, <1>6
<1> QED BY <1>2, <1>4, <1>5, <1>6, <1>7 DEF Graphs

LEMMA SetStatusType ==
  ASSUME NEW g \in Graphs, NEW n \in Nodes, NEW s \in Statuses
  PROVE  /\ SetStatus(g, n, s) \in Graphs
         /\ g.status \in [Nodes -> Statuses] => SetStatus(g, n, s).status \in [Nodes -> Statuses]
         /\ SetStatus(g, n, s).status[n] = s
         /\ \A m \in Nodes : m # n => SetStatus(g, n, s).status[m] = g.status[m]
BY DEF SetStatus, Graphs

LEMMA AgedType ==
  ASSUME NEW p \in Plans
  PROVE  /\ Aged(p) \in Plans /\ Aged(p).before = p.before /\ Aged(p).now = p.now
         /\ Changed(Aged(p)) = Changed(p)
BY DEF Aged, Plans, Changed

LEMMA RolledBackType ==
  ASSUME graph \in Graphs, Full, NEW p \in Plans
  PROVE  /\ RolledBack(p) \in Graphs
         /\ RolledBack(p).status \in [Nodes -> Statuses]
         /\ \A n \in Nodes : p.now[n] = "false" /\ RolledBack(p).status[n] = "false"
                               => graph.status[n] = "false"
<1>1. PICK reopened : RolledBack(p) =
        [graph EXCEPT !.status = [n \in Nodes |->
           IF n \in reopened /\ graph.status[n] = p.now[n] THEN p.before[n]
           ELSE graph.status[n]]]
  BY DEF RolledBack
<1> DEFINE f == [n \in Nodes |->
                   IF n \in reopened /\ graph.status[n] = p.now[n] THEN p.before[n]
                   ELSE graph.status[n]]
<1>2. graph \in [status : [Nodes -> Statuses \cup {"none"}],
                 note : [Nodes -> {"", "audited", "suspect"}],
                 depends : SUBSET (Nodes \X Nodes)]
  BY DEF Graphs
<1>3. f \in [Nodes -> Statuses]
  BY DEF Full, Plans
<1>4. \A n \in Nodes : p.now[n] = "false" /\ f[n] = "false" => graph.status[n] = "false"
  OBVIOUS
<1> HIDE DEF f
<1>5. RolledBack(p) = [graph EXCEPT !.status = f]
  BY <1>1 DEF f
<1>6. RolledBack(p).status = f
  BY <1>2, <1>5
<1> QED BY <1>2, <1>3, <1>4, <1>5, <1>6 DEF Graphs

-----------------------------------------------------------------------------
(* Types *)

\* Everything but the places: what a step can leave of the records.
Data ==
  /\ source \in {"probed", "edited"} /\ pin \in {"probed", "edited"}
  /\ graph \in Graphs /\ Full
  /\ tx \in [Ids -> Txs]
  /\ target \in Nodes
  /\ job \in Ids
  /\ fresh \in BOOLEAN
  /\ after \in {"idle", "undo", "recover", "root"}
  /\ todo \subseteq Ids
  /\ spent \in [user : 0 .. MaxUserEdits, graph : 0 .. MaxGraphEdits,
                crash : 0 .. MaxCrashes, outage : 0 .. MaxOutages]

TInv == Data /\ pc \in Places

LEMMA PlanNowType ==
  ASSUME Data
  PROVE  PlanNow \in Plans /\ PlanNow.now[target] = "false" /\ Promoted \in Graphs
         /\ Promoted.status \in [Nodes -> Statuses] /\ Promoted.status[target] = "false"
BY InvalidateType DEF Data, Full, PlanNow, Promoted, Plans

LEMMA SaveType ==
  ASSUME Data, NEW g \in Graphs, g.status \in [Nodes -> Statuses], SaveGraph(g)
  PROVE  /\ graph' \in Graphs /\ Full' /\ tx' \in [Ids -> Txs]
         /\ \A i \in Ids : /\ tx'[i].state = tx[i].state
                           /\ tx'[i].plan.now = tx[i].plan.now
                           /\ tx'[i].plan.before = tx[i].plan.before
                           /\ Changed(tx'[i].plan) = Changed(tx[i].plan)
<1>1. \A i \in Ids : tx[i] \in Txs /\ tx[i].plan \in Plans
  BY DEF Data, Txs
<1>2. tx' = [i \in Ids |-> [tx[i] EXCEPT !.plan = Aged(tx[i].plan)]] /\ graph' = g
  BY DEF SaveGraph
<1>3. \A i \in Ids : tx'[i] = [tx[i] EXCEPT !.plan = Aged(tx[i].plan)] /\ tx'[i] \in Txs
  BY <1>1, <1>2, AgedType DEF Txs
<1>4. tx' \in [Ids -> Txs]
  BY <1>2, <1>3
<1>5. \A i \in Ids : tx'[i].plan = Aged(tx[i].plan) /\ tx'[i].state = tx[i].state
  BY <1>1, <1>3 DEF Txs
<1> QED BY <1>1, <1>2, <1>4, <1>5, AgedType DEF Full

-----------------------------------------------------------------------------
(* The record behind a false node *)

\* Every attempt that left a record wrote, or was to write, its node false.
Refuted ==
  /\ \A i \in Ids : tx[i].state # "none" => tx[i].plan.now[target] = "false"
  /\ pc = "begin" => my.now[target] = "false"

\* The record of the promotion at hand, at the places that rely on it.
AtWork ==
  /\ pc \in {"pended", "save", "load", "written", "reflect", "commit"}
       => tx[job].state = "pending"
  /\ pc \in {"root-save", "root-final"} => tx[job].state = "committed"
  /\ pc \in {"agree", "posted", "restore", "rollback", "rolled-back", "seal", "withdraw"}
       => tx[job].state # "none"
  /\ pc = "withdraw" => ReflectsRollback(my)

Handling == {"load", "save", "written", "reflect", "commit", "posted", "restore",
             "rollback", "rolled-back", "seal", "withdraw", "root-save", "root-final"}

\* What a pass of the startup still has to go through is as it found it.
Passes ==
  /\ \A i \in Ids : tx[i].undo => tx[i].state # "none"
  /\ pc \in {"undo", "recover", "root"} => after = pc
  /\ pc \in {"root-save", "root-final"} => after = "root"
  /\ pc \in {"begin", "pended"} => after = "idle"
  /\ after = "undo" => \A i \in todo : tx[i].state # "none"
  /\ after = "recover" => todo \subseteq In({"pending"})
  /\ after = "root" => todo \subseteq In({"committed"})
  /\ after \in {"recover", "root"} /\ pc \in Handling => job \notin todo

IInv == TInv /\ Refuted /\ AtWork /\ Passes /\ FalsityHasRecord

\* Moving on with the same promotion, graph and records.
LEMMA MoveOn ==
  ASSUME IInv, UNCHANGED <<graph, tx, target, job, after, todo>>,
         pc' \in Places \ {"begin", "pended"},
         source' \in {"probed", "edited"}, pin' \in {"probed", "edited"}, fresh' \in BOOLEAN,
         spent' \in [user : 0 .. MaxUserEdits, graph : 0 .. MaxGraphEdits,
                     crash : 0 .. MaxCrashes, outage : 0 .. MaxOutages],
         AtWork',
         pc' \in Handling => pc \in Handling \cup {"pended"},
         pc' \in {"undo", "recover", "root"} => after = pc',
         pc' \in {"root-save", "root-final"} => after = "root"
  PROVE  IInv'
<1>1. TInv'
  BY DEF IInv, TInv, Data, Full
<1>2. Refuted'
  BY DEF IInv, Refuted
<1>3. Passes'
  BY DEF IInv, Passes, In
<1>4. FalsityHasRecord'
  BY DEF IInv, FalsityHasRecord, FirstHand, In
<1> QED BY <1>1, <1>2, <1>3, <1>4 DEF IInv

\* Steps that write neither the graph nor a record.
LEMMA QuietSteps ==
  ASSUME IInv,
         \/ Pended \/ AfterSave \/ Reflect \/ Posted \/ Restore \/ RollbackSaved
         \/ Load \/ RootFinal \/ End \/ UserEdit \/ Crash
  PROVE  IInv'
<1>0. Data /\ pc \in Places /\ AtWork /\ Passes
  BY DEF IInv, TInv
<1>1. spent' \in [user : 0 .. MaxUserEdits, graph : 0 .. MaxGraphEdits,
                  crash : 0 .. MaxCrashes, outage : 0 .. MaxOutages]
  <2>1. CASE UserEdit
    BY <1>0, <2>1, NP_Assumption DEF Data, UserEdit
  <2>2. CASE Crash
    BY <1>0, <2>2, NP_Assumption DEF Data, Crash
  <2>3. CASE ~(UserEdit \/ Crash)
    BY <1>0, <2>3 DEF Data, Pended, AfterSave, Reflect, Posted, Restore, RollbackSaved,
       Load, RootFinal, End
  <2> QED BY <2>1, <2>2, <2>3
<1>2. CASE Pended
  BY <1>0, <1>1, <1>2, MoveOn DEF Pended, Goto, Data, AtWork, Passes, Places, Handling, my
<1>3. CASE AfterSave \/ Reflect
  BY <1>0, <1>1, <1>3, MoveOn DEF AfterSave, Reflect, SourceChanged, Goto, Data, AtWork, Passes,
     Places, Handling, my
<1>4. CASE Posted
  BY <1>0, <1>1, <1>4, MoveOn DEF Posted, SourceChanged, Goto, Data, AtWork, Passes,
     Places, Handling, my
<1>5. CASE Restore \/ RollbackSaved
  BY <1>0, <1>1, <1>5, MoveOn DEF Restore, RollbackSaved, LeaseLost, Goto, Data, AtWork, Passes,
     Places, Handling, my
<1>6. CASE Load
  BY <1>0, <1>1, <1>6, MoveOn DEF Load, SourceChanged, Goto, Data, AtWork, Passes,
     Places, Handling, my
<1>7. CASE RootFinal \/ End
  BY <1>0, <1>1, <1>7, MoveOn DEF RootFinal, End, SourceChanged, Goto, Data, AtWork, Passes,
     Places, Handling, my
<1>8. CASE UserEdit
  <2>1. UNCHANGED <<graph, tx, target, pc, job, pin, fresh, after, todo>>
        /\ source' \in {"probed", "edited"}
    BY <1>8 DEF UserEdit
  <2> QED BY <1>0, <1>1, <2>1 DEF IInv, TInv, Data, Full, Refuted, AtWork, my, ReflectsRollback,
      Changed, Passes, In, FalsityHasRecord, FirstHand
<1>9. CASE Crash
  BY <1>0, <1>1, <1>9, MoveOn DEF Crash, Goto, Data, AtWork, Passes, Places, Handling, my
<1> QED BY <1>2, <1>3, <1>4, <1>5, <1>6, <1>7, <1>8, <1>9

\* A pass over the registry begins.
LEMMA PassSteps ==
  ASSUME IInv, Start \/ NextPass
  PROVE  IInv'
<1>1. Data /\ pc \in Places /\ AtWork /\ Passes
  BY DEF IInv, TInv
<1>2. /\ UNCHANGED <<source, graph, tx, target, job, pin, fresh, spent>>
      /\ pc' \in {"undo", "recover", "root"} /\ after' = pc'
      /\ pc' = "undo" => todo' = {i \in Ids : tx[i].undo}
      /\ pc' = "recover" => todo' = In({"pending"})
      /\ pc' = "root" => todo' \in {In({"committed"}), {}}
  BY DEF Start, NextPass, Pass, Goto
<1>3. In({"pending"}) \subseteq Ids /\ In({"committed"}) \subseteq Ids
  BY DEF In
<1>4. TInv'
  BY <1>1, <1>2, <1>3 DEF TInv, Data, Full, Places
<1>5. Refuted' /\ AtWork'
  BY <1>2 DEF IInv, Refuted, AtWork
<1>6. Passes'
  BY <1>1, <1>2 DEF Passes, In, Handling
<1>7. FalsityHasRecord'
  BY <1>2 DEF IInv, FalsityHasRecord, FirstHand, In
<1> QED BY <1>4, <1>5, <1>6, <1>7 DEF IInv

\* A promotion is taken up in a pass.
LEMMA TakeSteps ==
  ASSUME IInv, RecoverUndo \/ Recover \/ Root
  PROVE  IInv'
<1>1. Data /\ pc \in Places /\ Passes /\ Refuted /\ FalsityHasRecord
  BY DEF IInv, TInv
<1>2. PICK i \in todo : Take(i)
  BY DEF RecoverUndo, Recover, Root, Lowest, Highest
<1>3. i \in Ids /\ job' = i /\ todo' = todo \ {i} /\ pin' = source /\ UNCHANGED <<source, graph, target, after>>
  BY <1>1, <1>2 DEF Take, Data, RecoverUndo, Recover, Root
<1>4. /\ pc = "undo" => tx[i].state # "none"
      /\ pc = "recover" => tx[i].state = "pending"
      /\ pc = "root" => tx[i].state = "committed"
      /\ after = pc /\ pc \in {"undo", "recover", "root"}
  BY <1>1, <1>2 DEF Passes, In, RecoverUndo, Recover, Root
<1>5. /\ pc' \in {pc, "restore"} \/ (pc = "recover" /\ pc' = "load")
                \/ (pc = "root" /\ pc' \in {"root-save", "root-final"})
      /\ fresh' \in BOOLEAN
      /\ UNCHANGED <<tx, spent>> \/ (OutageKept /\ pc' = pc)
  BY <1>1 DEF RecoverUndo, Recover, Root, Goto, OutageKept, Data
<1>6. /\ tx' \in [Ids -> Txs]
      /\ \A j \in Ids : tx'[j].state = tx[j].state /\ tx'[j].plan = tx[j].plan
      /\ \A j \in Ids : tx'[j].undo => tx[j].undo \/ j = i
      /\ spent' \in [user : 0 .. MaxUserEdits, graph : 0 .. MaxGraphEdits,
                     crash : 0 .. MaxCrashes, outage : 0 .. MaxOutages]
  <2>1. CASE UNCHANGED <<tx, spent>>
    BY <1>1, <2>1 DEF Data
  <2>2. CASE OutageKept
    <3>1. tx' = [tx EXCEPT ![i].undo = TRUE] /\ spent' = [spent EXCEPT !.outage = @ + 1]
          /\ spent.outage < MaxOutages
      BY <1>3, <2>2 DEF OutageKept, Outage
    <3>2. tx \in [Ids -> Txs]
      BY <1>1 DEF Data
    <3>3. spent' \in [user : 0 .. MaxUserEdits, graph : 0 .. MaxGraphEdits,
                      crash : 0 .. MaxCrashes, outage : 0 .. MaxOutages]
      BY <1>1, <3>1, NP_Assumption DEF Data
    <3> QED BY <1>3, <3>1, <3>2, <3>3 DEF Txs
  <2> QED BY <1>5, <2>1, <2>2
<1>7. TInv'
  BY <1>1, <1>3, <1>4, <1>5, <1>6 DEF TInv, Data, Full, Places
<1>8. Refuted'
  BY <1>1, <1>3, <1>4, <1>5, <1>6 DEF Refuted
<1>9. AtWork'
  BY <1>3, <1>4, <1>5, <1>6 DEF AtWork
<1>10. Passes'
  BY <1>1, <1>3, <1>4, <1>5, <1>6 DEF Passes, In, Handling, Data
<1>11. FalsityHasRecord'
  BY <1>1, <1>3, <1>6 DEF FalsityHasRecord, FirstHand, In
<1> QED BY <1>7, <1>8, <1>9, <1>10, <1>11 DEF IInv

\* A save of the blueprint, by the promotion or by another writer.
LEMMA SaveSteps ==
  ASSUME IInv, Save \/ Rollback \/ RootSave \/ OtherSave
  PROVE  IInv'
<1>1. Data /\ pc \in Places /\ AtWork /\ Passes /\ Refuted /\ FalsityHasRecord
  BY DEF IInv, TInv
<1>2. tx \in [Ids -> Txs] /\ \A i \in Ids : tx[i].plan \in Plans
  BY <1>1 DEF Data, Txs
\* A save that was refused ends the attempt, or the start.
<1>3. ASSUME Conflict, UNCHANGED <<source, target, job, pin, fresh, after, todo, spent>>
      PROVE  IInv'
  <2>1. pc' \in {"idle", "off"} /\ UNCHANGED <<graph, tx>>
    BY <1>3 DEF Conflict, Goto
  <2> QED BY <1>1, <1>3, <2>1, MoveOn DEF Data, Places, Handling, AtWork
\* One that was not keeps the states and the plans of the records.
<1>4. ASSUME NEW g \in Graphs, g.status \in [Nodes -> Statuses], SaveGraph(g),
             UNCHANGED <<source, target, job, pin, after, todo>>, fresh' \in BOOLEAN,
             pc' \in Places \ {"begin", "withdraw"} \/ (pc' = pc /\ pc # "withdraw"),
             pc' = pc \/ (pc \in {"save", "root-save", "rollback"}
                            /\ pc' = (CASE pc = "save" -> "written"
                                        [] pc = "root-save" -> "root-final"
                                        [] pc = "rollback" -> "rolled-back")),
             g.status[target] = "false" =>
               graph.status[target] = "false" \/ pc \in {"save", "root-save"},
             spent' \in [user : 0 .. MaxUserEdits, graph : 0 .. MaxGraphEdits,
                         crash : 0 .. MaxCrashes, outage : 0 .. MaxOutages]
      PROVE  IInv'
  <2>1. /\ graph' \in Graphs /\ Full' /\ tx' \in [Ids -> Txs] /\ graph' = g
        /\ \A i \in Ids : /\ tx'[i].state = tx[i].state
                          /\ tx'[i].plan.now = tx[i].plan.now
                          /\ Changed(tx'[i].plan) = Changed(tx[i].plan)
    BY <1>1, <1>4, SaveType DEF SaveGraph
  <2>2. \A i \in Ids : tx'[i].undo = tx[i].undo
    BY <1>2, <1>4 DEF SaveGraph, Txs
  <2>3. pc' \in Places
    BY <1>1, <1>4
  <2>4. TInv'
    BY <1>1, <1>4, <2>1, <2>3 DEF TInv, Data
  <2>5. Refuted'
    BY <1>1, <1>4, <2>1 DEF Refuted, Data, my
  <2>6. AtWork'
    BY <1>1, <1>4, <2>1 DEF AtWork, Data
  <2>7. Passes'
    BY <1>1, <1>4, <2>1, <2>2 DEF Passes, In, Handling, Data
  <2>8. FalsityHasRecord'
    <3> SUFFICES ASSUME FirstHand', graph'.status[target'] = "false"
                 PROVE  In({"pending", "committed"})' # {}
      BY DEF FalsityHasRecord
    <3>1. FirstHand /\ In({"pending", "committed"})' = In({"pending", "committed"})
      BY <1>4, <2>1 DEF FirstHand, In
    <3>2. pc \in {"save", "root-save"} => job \in In({"pending", "committed"})
      BY <1>1 DEF AtWork, In, Data
    <3> QED BY <1>1, <1>4, <2>1, <3>1, <3>2 DEF FalsityHasRecord
  <2> QED BY <2>4, <2>5, <2>6, <2>7, <2>8 DEF IInv
<1>5. CASE Save
  <2>1. Promoted \in Graphs /\ Promoted.status \in [Nodes -> Statuses]
    BY <1>1, PlanNowType
  <2>2. pc = "save" /\ (Conflict \/ (pc' = "written" /\ SaveGraph(Promoted)))
        /\ UNCHANGED <<source, target, job, pin, fresh, after, todo, spent>>
    BY <1>5 DEF Save, Goto
  <2> QED BY <1>1, <1>3, <1>4, <2>1, <2>2 DEF Data, Places
<1>6. CASE RootSave
  <2>1. Promoted \in Graphs /\ Promoted.status \in [Nodes -> Statuses]
    BY <1>1, PlanNowType
  <2>2. pc = "root-save" /\ (Conflict \/ (pc' = "root-final" /\ SaveGraph(Promoted)))
        /\ UNCHANGED <<source, target, job, pin, fresh, after, todo, spent>>
    BY <1>6 DEF RootSave, Goto
  <2> QED BY <1>1, <1>3, <1>4, <2>1, <2>2 DEF Data, Places
<1>7. CASE Rollback
  <2>1. pc = "rollback" /\ (Conflict \/ (pc' = "rolled-back" /\ SaveGraph(RolledBack(my))))
        /\ UNCHANGED <<source, target, job, pin, fresh, after, todo, spent>>
    BY <1>7 DEF Rollback, Goto
  <2>2. my \in Plans /\ my.now[target] = "false"
    BY <1>1, <1>2, <2>1 DEF AtWork, Refuted, Data, my
  <2>3. /\ RolledBack(my) \in Graphs /\ RolledBack(my).status \in [Nodes -> Statuses]
        /\ RolledBack(my).status[target] = "false" => graph.status[target] = "false"
    BY <1>1, <2>2, RolledBackType DEF Data
  <2> QED BY <1>1, <1>3, <1>4, <2>1, <2>3 DEF Data, Places
<1>8. CASE OtherSave
  <2>1. PICK n \in Nodes, s \in Written : SaveGraph(SetStatus(graph, n, s))
    BY <1>8 DEF OtherSave
  <2>2. s \in Statuses /\ s # "false"
    BY NP_Assumption
  <2>3. /\ SetStatus(graph, n, s) \in Graphs
        /\ SetStatus(graph, n, s).status \in [Nodes -> Statuses]
        /\ SetStatus(graph, n, s).status[n] = s
        /\ \A m \in Nodes : m # n => SetStatus(graph, n, s).status[m] = graph.status[m]
    <3>1. graph \in Graphs /\ graph.status \in [Nodes -> Statuses]
      BY <1>1 DEF Data, Full
    <3>2. /\ SetStatus(graph, n, s) \in Graphs
          /\ SetStatus(graph, n, s).status \in [Nodes -> Statuses]
      BY ONLY <2>2, <3>1, SetStatusType
    <3>3. SetStatus(graph, n, s).status[n] = s
      BY ONLY <2>2, <3>1, SetStatusType
    <3> QED BY <2>2, <3>1, <3>2, <3>3, SetStatusType
  <2>4. SetStatus(graph, n, s).status[target] = "false" => graph.status[target] = "false"
    BY <1>1, <2>2, <2>3 DEF Data
  <2>5. spent' \in [user : 0 .. MaxUserEdits, graph : 0 .. MaxGraphEdits,
                    crash : 0 .. MaxCrashes, outage : 0 .. MaxOutages]
    BY <1>1, <1>8, NP_Assumption DEF Data, OtherSave
  <2>6. /\ pc' = pc /\ pc # "withdraw" /\ fresh' = FALSE
        /\ UNCHANGED <<source, target, job, pin, after, todo>>
    BY <1>8 DEF OtherSave, Guarded
  <2> QED BY <1>4, <2>1, <2>3, <2>4, <2>5, <2>6
<1> QED BY <1>5, <1>6, <1>7, <1>8

\* A record changes under the source lease.
LEMMA RecordSteps ==
  ASSUME IInv, Begin \/ Agree \/ Commit \/ Seal \/ Withdraw
  PROVE  IInv'
<1>1. Data /\ pc \in Places /\ AtWork /\ Passes /\ Refuted /\ FalsityHasRecord
  BY DEF IInv, TInv
<1>2. job \in Ids /\ tx \in [Ids -> Txs] /\ \A i \in Ids : tx[i] \in Txs
  BY <1>1 DEF Data
\* Only the record at hand changes, and it never goes back to "none".
<1>3. /\ UNCHANGED <<graph, target, job, todo, after, source, pin, fresh, spent>>
      /\ tx' \in [Ids -> Txs]
      /\ \A i \in Ids : i # job => tx'[i] = tx[i]
      /\ tx'[job].plan = tx[job].plan
  <2>1. ASSUME NEW t \in Txs, t.plan = tx[job].plan, tx' = [tx EXCEPT ![job] = t]
        PROVE  /\ tx' \in [Ids -> Txs]
               /\ \A i \in Ids : i # job => tx'[i] = tx[i]
               /\ tx'[job].plan = tx[job].plan
    BY <1>2, <2>1
  <2>2. tx[job] \in Txs
    BY <1>2
  <2>3. \E t \in Txs : t.plan = tx[job].plan /\ tx' = [tx EXCEPT ![job] = t]
    <3>1. CASE UNCHANGED tx
      BY <1>2, <3>1
    <3>2. CASE Begin
      BY <1>2, <2>2, <3>1, <3>2 DEF Begin, Txs, TxStates
    <3>3. CASE Agree
      BY <1>2, <2>2, <3>3 DEF Agree, Txs
    <3>4. CASE Commit
      <4>1. tx' = [tx EXCEPT ![job] = [tx[job] EXCEPT !.state = "committed", !.undo = FALSE]]
        BY <1>2, <3>4 DEF Commit
      <4> QED BY <2>2, <4>1 DEF Txs, TxStates
    <3>5. CASE Seal
      BY <1>2, <2>2, <3>1, <3>5 DEF Seal, Txs
    <3>6. CASE Withdraw
      <4>1. tx' = [tx EXCEPT ![job] = [tx[job] EXCEPT !.state = "quarantined", !.undo = FALSE]]
        BY <1>2, <3>6 DEF Withdraw
      <4> QED BY <2>2, <4>1 DEF Txs, TxStates
    <3> QED BY <3>2, <3>3, <3>4, <3>5, <3>6
  <2>4. UNCHANGED <<graph, target, job, todo, after, source, pin, fresh, spent>>
    BY DEF Begin, Agree, Commit, Seal, Withdraw
  <2> QED BY <2>1, <2>3, <2>4
<1>4. pc' \in Places \ {"begin"}
  BY <1>1 DEF Begin, Agree, Commit, Seal, Withdraw, LeaseLost, Goto, Places, Data
<1>5. TInv'
  BY <1>1, <1>3, <1>4 DEF TInv, Data, Full
<1>6. tx[job].state # "none" \/ pc = "begin"
  BY <1>1 DEF AtWork, Begin, Agree, Commit, Seal, Withdraw
<1>7. Refuted'
  BY <1>1, <1>3, <1>4, <1>6 DEF Refuted, my
<1>8. CASE Begin
  <2>1. /\ tx'[job].state = (IF source = pin /\ tx[job].state = "none" THEN "pending"
                             ELSE tx[job].state)
        /\ tx'[job].undo = tx[job].undo
        /\ pc = "begin"
        /\ pc' = (CASE source # pin \/ tx[job].state = "quarantined" -> "idle"
                    [] source = pin /\ tx[job].state = "committed"   -> "agree"
                    [] OTHER                                         -> "pended")
    BY <1>2, <1>8 DEF Begin, Goto, Txs
  <2>2. tx[job].state \in TxStates
    BY <1>2 DEF Txs
  <2>3. AtWork'
    BY <1>3, <2>1, <2>2 DEF AtWork, TxStates
  <2>4. Passes'
    BY <1>1, <1>3, <2>1, <2>2 DEF Passes, In, Handling, TxStates
  <2>5. FalsityHasRecord'
    <3>1. FirstHand' => FirstHand
      BY <1>1, <1>3, <2>1 DEF FirstHand, In
    <3>2. In({"pending", "committed"}) \subseteq In({"pending", "committed"})'
      BY <1>3, <2>1 DEF In
    <3> QED BY <1>1, <1>3, <3>1, <3>2 DEF FalsityHasRecord
  <2> QED BY <1>5, <1>7, <2>3, <2>4, <2>5 DEF IInv
\* A promotion is committed, or noted down to be undone.
<1>9. CASE Agree \/ Commit \/ Seal
  <2>1. /\ tx'[job].state \in {tx[job].state, "committed"}
        /\ tx'[job].state # tx[job].state => tx[job].state = "pending" /\ Commit
        /\ Commit => pc' = "posted" /\ tx'[job].state = "committed"
        /\ Agree => pc' = "idle"
        /\ Seal => pc' \in {after, "off"}
                   \/ (pc' = "withdraw" /\ tx' = tx /\ ReflectsRollback(my))
    BY <1>1, <1>2, <1>9 DEF Agree, Commit, Seal, LeaseLost, Goto, Txs, AtWork
  <2>2. AtWork'
    <3>1. CASE Agree
      BY <2>1, <3>1 DEF AtWork
    <3>2. CASE Commit
      BY <1>3, <2>1, <3>2 DEF AtWork
    <3>3. CASE Seal
      <4>1. pc = "seal" /\ tx[job].state # "none" /\ after \in {"idle", "undo", "recover", "root"}
        BY <1>1, <3>3 DEF Seal, AtWork, Data
      <4>2. pc' \in {after, "off"} => AtWork'
        BY <4>1 DEF AtWork
      <4>3. pc' = "withdraw" /\ tx' = tx /\ ReflectsRollback(my) => AtWork'
        BY <1>3, <4>1 DEF AtWork, my, ReflectsRollback
      <4> QED BY <2>1, <3>3, <4>2, <4>3
    <3> QED BY <1>9, <3>1, <3>2, <3>3
  <2>3. Passes'
    <3>1. \A i \in Ids : tx'[i].state # "none" <=> tx[i].state # "none"
      BY <1>2, <1>3, <2>1 DEF Txs
    <3>2. job \notin todo \/ tx'[job].state = tx[job].state \/ after \in {"idle", "undo"}
      BY <1>1, <2>1 DEF Passes, Handling, Commit, Data
    <3>3. tx'[job].undo => tx[job].state # "none"
      BY <1>1, <1>6, <1>9 DEF Passes, Agree, Commit, Seal
    <3>4. pc' \in {"undo", "recover", "root"} => after = pc'
      BY <1>9, <2>1
    <3>5. pc' \notin {"root-save", "root-final", "begin", "pended"}
      BY <1>1, <1>9, <2>1 DEF Data
    <3>6. pc' \in Handling => pc \in Handling
      BY <1>1, <1>9, <2>1 DEF Handling, Agree, Commit, Seal, Data
    <3>7. \A i \in todo : tx'[i].state = tx[i].state \/ after \in {"idle", "undo"}
      BY <1>1, <1>3, <3>2 DEF Data
    <3>8. \A i \in Ids : tx'[i].undo => tx'[i].state # "none"
      BY <1>1, <1>3, <3>1, <3>3 DEF Passes
    <3>9. after \in {"recover", "root"} /\ pc' \in Handling => job \notin todo
      BY <1>1, <3>6 DEF Passes
    <3>10. \A i \in todo : i \in Ids
      BY <1>1 DEF Data
    <3> QED BY <1>1, <1>3, <3>1, <3>4, <3>5, <3>7, <3>8, <3>9, <3>10 DEF Passes, In
  <2>4. FalsityHasRecord'
    <3>1. FirstHand' => FirstHand
      BY <1>2, <1>3, <2>1 DEF FirstHand, In, Txs
    <3>2. In({"pending", "committed"}) \subseteq In({"pending", "committed"})'
      BY <1>3, <2>1 DEF In
    <3> QED BY <1>1, <1>3, <3>1, <3>2 DEF FalsityHasRecord
  <2> QED BY <1>5, <1>7, <2>2, <2>3, <2>4 DEF IInv
\* The record goes when what its promotion changed is back.
<1>10. CASE Withdraw
  <2>1. /\ tx'[job].state = "quarantined" /\ ~tx'[job].undo
        /\ pc = "withdraw" /\ pc' = after /\ after \in {"idle", "undo", "recover", "root"}
    BY <1>1, <1>2, <1>10 DEF Withdraw, Goto, Txs, Data
  <2>2. AtWork'
    BY <2>1 DEF AtWork
  <2>3. Passes'
    BY <1>1, <1>3, <2>1 DEF Passes, In, Handling, Data
  <2>4. FalsityHasRecord'
    <3> SUFFICES ASSUME FirstHand' PROVE graph'.status[target'] # "false"
      BY DEF FalsityHasRecord
    <3>1. target \in Changed(my)
      BY <1>2, <1>3, <2>1 DEF FirstHand, In, my
    <3>2. graph.status[target] = my.before[target] /\ my.now[target] = "false"
      BY <1>1, <2>1, <3>1 DEF AtWork, ReflectsRollback, Refuted, my, Data
    <3> QED BY <1>3, <3>1, <3>2 DEF Changed
  <2> QED BY <1>5, <1>7, <2>2, <2>3, <2>4 DEF IInv
<1> QED BY <1>8, <1>9, <1>10

\* A new attempt, on a record of its own or on the one it left before.
LEMMA ProbeStep ==
  ASSUME IInv, Probe
  PROVE  IInv'
<1>1. Data /\ pc \in Places /\ Passes /\ Refuted /\ FalsityHasRecord
  BY DEF IInv, TInv
<1>2. PlanNow \in Plans /\ PlanNow.now[target] = "false"
  BY <1>1, PlanNowType
<1>3. /\ job' \in Ids
      /\ tx[job'].state = "none" \/ tx[job'].plan = PlanNow
  <2>1. job' \in {i \in Ids \ In({"none"}) : tx[i].plan = PlanNow} \cup Lowest(In({"none"}))
    BY DEF Probe
  <2> QED BY <2>1 DEF In, Lowest
<1>4. tx \in [Ids -> Txs] /\ \A i \in Ids : tx[i] \in Txs
  BY <1>1 DEF Data
<1>5. /\ tx' \in [Ids -> Txs]
      /\ \A i \in Ids : tx'[i].state = tx[i].state /\ tx'[i].undo = tx[i].undo
      /\ \A i \in Ids : tx[i].state # "none" => tx'[i].plan = tx[i].plan
      /\ tx'[job'].plan = PlanNow
  BY <1>2, <1>3, <1>4 DEF Probe, Txs
<1>6. /\ UNCHANGED <<source, graph, target, todo, spent>> /\ pc' = "begin" /\ after' = "idle"
      /\ pin' = source /\ fresh' = TRUE
  BY DEF Probe, Goto
<1>7. TInv'
  BY <1>1, <1>3, <1>5, <1>6 DEF TInv, Data, Full, Places
<1>8. Refuted'
  BY <1>1, <1>2, <1>5, <1>6 DEF Refuted, my
<1>9. AtWork'
  BY <1>6 DEF AtWork
<1>10. Passes'
  BY <1>1, <1>5, <1>6 DEF Passes, Handling
<1>11. FalsityHasRecord'
  <2>1. In({"none"})' = In({"none"}) /\ In({"pending", "committed"})' = In({"pending", "committed"})
    BY <1>5 DEF In
  <2>2. FirstHand' => FirstHand
    BY <1>5, <1>6, <2>1 DEF FirstHand, In
  <2> QED BY <1>1, <1>6, <2>1, <2>2 DEF FalsityHasRecord
<1> QED BY <1>7, <1>8, <1>9, <1>10, <1>11 DEF IInv

-----------------------------------------------------------------------------
(* The theorems *)

LEMMA InitInv == Init => IInv
<1> SUFFICES ASSUME Init PROVE IInv
  OBVIOUS
<1>1. Written \subseteq Statuses \ {"false"}
  BY NP_Assumption
<1>2. graph.status \in [Nodes -> Statuses] /\ graph.status[target] # "false" /\ graph \in Graphs
  BY <1>1 DEF Init, Graphs
<1>3. \A i \in Ids : tx[i].state = "none" /\ ~tx[i].undo
  BY DEF Init
<1>4. tx \in [Ids -> Txs]
  <2>1. [before |-> graph.status, now |-> graph.status, age |-> 0] \in Plans
    BY <1>2 DEF Plans
  <2>2. [state |-> "none", undo |-> FALSE,
         plan |-> [before |-> graph.status, now |-> graph.status, age |-> 0]] \in Txs
    BY <2>1 DEF Txs, TxStates
  <2> QED BY <2>2 DEF Init
<1>5. spent \in [user : 0 .. MaxUserEdits, graph : 0 .. MaxGraphEdits,
                 crash : 0 .. MaxCrashes, outage : 0 .. MaxOutages]
  <2>1. /\ 0 \in 0 .. MaxUserEdits /\ 0 \in 0 .. MaxGraphEdits
        /\ 0 \in 0 .. MaxCrashes /\ 0 \in 0 .. MaxOutages
    BY NP_Assumption
  <2> QED BY <2>1 DEF Init
<1>6. TInv
  BY <1>2, <1>4, <1>5 DEF Init, TInv, Data, Full, Places
<1>7. Refuted /\ AtWork /\ Passes
  BY <1>3 DEF Init, Refuted, AtWork, Passes, Handling
<1>8. FalsityHasRecord
  BY <1>2 DEF FalsityHasRecord
<1> QED BY <1>6, <1>7, <1>8 DEF IInv

LEMMA Invariant == Spec => []IInv
<1>1. IInv /\ [Next]_vars => IInv'
  <2> SUFFICES ASSUME IInv, [Next]_vars PROVE IInv'
    OBVIOUS
  <2>1. CASE UNCHANGED vars
    BY <2>1 DEF vars, IInv, TInv, Data, Full, Refuted, my, AtWork, ReflectsRollback, Changed,
       Passes, In, FalsityHasRecord, FirstHand
  <2>2. CASE Next
    BY <2>2, QuietSteps, PassSteps, TakeSteps, SaveSteps, RecordSteps, ProbeStep DEF Next, Run
  <2> QED BY <2>1, <2>2
<1> QED BY <1>1, InitInv, PTL DEF Spec

\* Every variable and every durable record keeps its type.
THEOREM TypeCorrect == Spec => []TypeOK
<1>1. IInv => TypeOK
  BY DEF IInv, TInv, Data, TypeOK, Txs, TxStates
<1> QED BY <1>1, Invariant, PTL

\* Whatever two writes the process dies between, a node that is false has a
\* durable record, if every attempt set out from a node that was not false.
THEOREM FalseNodesHaveRecords == Spec => []FalsityHasRecord
<1>1. IInv => FalsityHasRecord
  BY DEF IInv
<1> QED BY <1>1, Invariant, PTL

\* No record is withdrawn before every status its promotion changed is back.
THEOREM WithdrawalsReopen == Spec => WithdrawalReopens
<1> DEFINE A == \A i \in Ids : tx[i].state # "quarantined" /\ tx'[i].state = "quarantined"
                  => \A n \in Changed(tx[i].plan) : graph.status[n] = tx[i].plan.before[n]
<1>1. IInv /\ [Next]_vars => A
  <2> SUFFICES ASSUME IInv, [Next]_vars, NEW i \in Ids,
                      tx[i].state # "quarantined", tx'[i].state = "quarantined"
               PROVE  \A n \in Changed(tx[i].plan) : graph.status[n] = tx[i].plan.before[n]
    OBVIOUS
  <2>1. Data /\ AtWork /\ job \in Ids /\ tx \in [Ids -> Txs]
    BY DEF IInv, TInv, Data
  <2>2. ASSUME NEW g, SaveGraph(g) PROVE FALSE
    BY <2>1, <2>2 DEF SaveGraph, Txs
  <2>3. ~UNCHANGED tx
    OBVIOUS
  <2>4. ~(Save \/ Rollback \/ RootSave \/ OtherSave)
    BY <2>2, <2>3 DEF Save, Rollback, RootSave, OtherSave, Conflict
  <2>5. ~(RecoverUndo \/ Recover \/ Root)
    BY <2>1, <2>3 DEF RecoverUndo, Recover, Root, OutageKept, Txs
  <2>6. ~(Begin \/ Agree \/ Commit \/ Seal \/ Probe)
    BY <2>1, <2>3 DEF Begin, Agree, Commit, Seal, Probe, Txs
  <2>7. Withdraw
    BY <2>3, <2>4, <2>5, <2>6 DEF Next, Run, Pended, AfterSave, Reflect, Posted, Restore,
       RollbackSaved, Start, NextPass, Load, RootFinal, End, UserEdit, Crash, vars
  <2>8. i = job /\ pc = "withdraw"
    BY <2>1, <2>7 DEF Withdraw
  <2> QED BY <2>1, <2>8 DEF AtWork, ReflectsRollback, my
<1>2. IInv /\ [Next]_vars => [A]_vars
  BY <1>1
<1> QED BY <1>2, Invariant, PTL DEF Spec, WithdrawalReopens

-----------------------------------------------------------------------------
(* The graph a promotion commits over *)

\* What a refutation of the target makes of the statuses st.
Falsified(st) == InvalidateFalseSubtree([graph EXCEPT !.status = st], target).status

\* A plan says what its refutation does; before any save since, the graph is
\* as it was, and after one the graph is as it shall be if it seems to be.
Tracked(p) ==
  /\ p.now = Falsified(p.before)
  /\ p.age = 0 => graph.status = p.before
  /\ p.age = 1 /\ ReflectsWrite(p) => graph.status = p.now

\* The record of a transaction, or of the one that is about to begin.
Live(i) == tx[i].state # "none" \/ (pc = "begin" /\ i = job)

Agreed ==
  /\ \A i \in Ids : Live(i) => Tracked(tx[i].plan)
  /\ pc = "commit" => Promoted = graph

\* A refutation writes its node false and reopens others, it keeps the rest of
\* the graph, and a second one of the same node does nothing.
LEMMA FalsifiedShape ==
  ASSUME NEW g \in Graphs, NEW n \in Nodes
  PROVE  LET h == InvalidateFalseSubtree(g, n)
         IN  /\ h \in Graphs /\ h.note = g.note /\ h.depends = g.depends
             /\ \A m \in Nodes : h.status[m] # g.status[m] =>
                  h.status[m] = IF m = n THEN "false" ELSE "conjectured"
             /\ InvalidateFalseSubtree(h, n) = h
<1> DEFINE viaChild(m) == \E x \in Ancestors(n) \cup {n} :
                            ParentOf[x] = m /\ <<m, x>> \in g.depends
           r(s, m) == /\ m \in Ancestors(n)
                      /\ s[m] \in Open \/ (s[m] = "proved" /\ viaChild(m))
           f(s) == [m \in Nodes |->
                      IF m = n THEN "false" ELSE IF r(s, m) THEN "conjectured" ELSE s[m]]
           h == InvalidateFalseSubtree(g, n)
<1>1. h = [g EXCEPT !.status = f(g.status)]
  BY DEF InvalidateFalseSubtree
<1>2. h \in Graphs
  BY InvalidateType
<1>3. h.status = f(g.status) /\ h.note = g.note /\ h.depends = g.depends
  <2> HIDE DEF f, h
  <2> QED BY <1>1 DEF Graphs
<1>4. InvalidateFalseSubtree(h, n) = [h EXCEPT !.status = f(h.status)]
  <2> HIDE DEF h
  <2> QED BY <1>3 DEF InvalidateFalseSubtree
<1> HIDE DEF h
<1>5. ASSUME NEW m \in Nodes PROVE f(h.status)[m] = h.status[m]
  <2>1. r(g.status, m) \/ h.status[m] = g.status[m] \/ m = n
    <3> HIDE DEF r
    <3> QED BY <1>3
  <2>2. h.status[m] = g.status[m] => (r(h.status, m) <=> r(g.status, m))
    OBVIOUS
  <2> HIDE DEF r
  <2> QED BY <1>3, <2>1, <2>2
<1>6. \A m \in Nodes : h.status[m] # g.status[m] =>
        h.status[m] = IF m = n THEN "false" ELSE "conjectured"
  <2> HIDE DEF r
  <2> QED BY <1>3
<1> HIDE DEF f
<1>7. h.status \in [Nodes -> Statuses \cup {"none"}]
  BY <1>2 DEF Graphs
<1>8. f(h.status) = h.status
  <2>1. f(h.status) = [m \in Nodes |-> f(h.status)[m]]
    BY DEF f
  <2> QED BY <1>5, <1>7, <2>1
<1>9. [h EXCEPT !.status = h.status] = h
  BY <1>2 DEF Graphs
<1>10. InvalidateFalseSubtree(h, n) = h
  BY <1>4, <1>8, <1>9
<1> QED BY <1>2, <1>3, <1>6, <1>10 DEF h

LEMMA FalsifiedNow ==
  ASSUME Data
  PROVE  Falsified(graph.status) = Promoted.status
<1>1. [graph EXCEPT !.status = graph.status] = graph
  BY DEF Data, Graphs
<1> QED BY <1>1 DEF Falsified, Promoted

\* Saves of the promotions and of the other writers keep all but the statuses.
SameRest(g) == g \in Graphs /\ g.note = graph.note /\ g.depends = graph.depends

\* Once one of the changes a refutation is to make is there, all of it is.
Closes(g) ==
  LET now == Promoted.status
      changed == {n \in Nodes : graph.status[n] # now[n]}
  IN  changed # {} /\ (\A n \in changed : g.status[n] = now[n]) => g.status = now

LEMMA PromotedCloses ==
  ASSUME Data
  PROVE  SameRest(Promoted) /\ Closes(Promoted)
  BY FalsifiedShape DEF Data, Promoted, SameRest, Closes

\* One status is all of the changes, or one of them is still missing.
LEMMA OtherCloses ==
  ASSUME Data, NEW n \in Nodes, NEW s \in Statuses, graph.status[n] # s
  PROVE  SameRest(SetStatus(graph, n, s)) /\ Closes(SetStatus(graph, n, s))
<1> DEFINE g == SetStatus(graph, n, s)
           now == Promoted.status
<1>1. graph \in Graphs /\ graph.status \in [Nodes -> Statuses]
  BY DEF Data, Full
<1>2. now \in [Nodes -> Statuses]
  BY PlanNowType
<1>3. /\ g \in Graphs /\ g.note = graph.note /\ g.depends = graph.depends
      /\ g.status = [graph.status EXCEPT ![n] = s]
  BY <1>1 DEF SetStatus, Graphs
<1> HIDE DEF g, now
<1>4. ASSUME NEW m \in Nodes, graph.status[m] # now[m],
             \A k \in Nodes : graph.status[k] # now[k] => g.status[k] = now[k]
      PROVE  g.status = now
  <2>1. \A k \in Nodes : k # n => g.status[k] = graph.status[k]
    BY <1>1, <1>3
  <2>2. m = n
    BY <1>4, <2>1
  <2>3. \A k \in Nodes : g.status[k] = now[k]
    BY <1>4, <2>1, <2>2
  <2> QED BY <1>1, <1>2, <1>3, <2>3
<1>5. SameRest(g)
  BY <1>3 DEF SameRest
<1>6. Closes(g)
  BY <1>4 DEF Closes, now
<1> QED BY <1>5, <1>6 DEF g

\* A rollback makes none of the changes of a refutation.
LEMMA RollbackCloses ==
  ASSUME Data, NEW p \in Plans, p.now = Falsified(p.before)
  PROVE  SameRest(RolledBack(p)) /\ Closes(RolledBack(p))
<1> DEFINE g == RolledBack(p)
           now == Promoted.status
<1>1. graph \in Graphs /\ graph.status \in [Nodes -> Statuses] /\ target \in Nodes
  BY DEF Data, Full
<1>2. PICK reopened \in SUBSET Changed(p) :
        g = [graph EXCEPT !.status = [n \in Nodes |->
              IF n \in reopened /\ graph.status[n] = p.now[n] THEN p.before[n]
              ELSE graph.status[n]]]
  BY DEF RolledBack
<1>3. /\ g \in Graphs /\ g.note = graph.note /\ g.depends = graph.depends
      /\ \A n \in Nodes : g.status[n] = IF n \in reopened /\ graph.status[n] = p.now[n]
                                        THEN p.before[n] ELSE graph.status[n]
  <2> DEFINE f == [n \in Nodes |->
                     IF n \in reopened /\ graph.status[n] = p.now[n] THEN p.before[n]
                     ELSE graph.status[n]]
  <2>1. f \in [Nodes -> Statuses]
    BY <1>1 DEF Plans
  <2>2. \A n \in Nodes : f[n] = IF n \in reopened /\ graph.status[n] = p.now[n]
                                THEN p.before[n] ELSE graph.status[n]
    OBVIOUS
  <2> HIDE DEF f
  <2>3. g = [graph EXCEPT !.status = f]
    BY <1>2 DEF f
  <2>4. g.status = f /\ g.note = graph.note /\ g.depends = graph.depends
    BY <1>1, <2>3 DEF Graphs
  <2>5. g \in Graphs
    BY <1>1, RolledBackType DEF Data
  <2> QED BY <2>2, <2>4, <2>5
<1>4. \A n \in Nodes : now[n] # graph.status[n] =>
        now[n] = IF n = target THEN "false" ELSE "conjectured"
  BY <1>1, FalsifiedShape DEF Promoted
<1>5. \A n \in Changed(p) : p.now[n] = IF n = target THEN "false" ELSE "conjectured"
  <2> DEFINE q == [graph EXCEPT !.status = p.before]
  <2>1. q \in Graphs /\ q.status = p.before
    BY <1>1 DEF Graphs, Plans
  <2> HIDE DEF q
  <2>2. \A n \in Nodes : InvalidateFalseSubtree(q, target).status[n] # q.status[n] =>
          InvalidateFalseSubtree(q, target).status[n] = IF n = target THEN "false" ELSE "conjectured"
    BY <1>1, <2>1, FalsifiedShape
  <2>3. p.now = InvalidateFalseSubtree(q, target).status
    BY DEF Falsified, q
  <2> QED BY <2>1, <2>2, <2>3 DEF Changed
<1> HIDE DEF g, now
<1>6. \A n \in Nodes : now[n] # graph.status[n] => g.status[n] # now[n]
  BY <1>3, <1>4, <1>5
<1>7. Closes(g)
  BY <1>6 DEF Closes, now
<1> QED BY <1>3, <1>7 DEF SameRest, g

\* A save keeps track of every plan.
LEMMA SaveTracks ==
  ASSUME Data, NEW p \in Plans, Tracked(p), NEW g, SameRest(g), Closes(g),
         graph' = g, UNCHANGED target
  PROVE  Tracked(Aged(p))'
<1>1. Aged(p).before = p.before /\ Aged(p).now = p.now /\ Changed(Aged(p)) = Changed(p)
      /\ Aged(p) \in Plans
  BY AgedType
<1>2. [graph' EXCEPT !.status = p.before] = [graph EXCEPT !.status = p.before]
  BY DEF SameRest, Data, Graphs
<1>3. Falsified(p.before)' = Falsified(p.before)
  BY <1>2 DEF Falsified
<1>4. Aged(p).age # 0
  BY DEF Aged, Plans
<1>5. ASSUME Aged(p).age = 1, Changed(p) # {},
             \A n \in Changed(p) : g.status[n] = p.now[n]
      PROVE  g.status = p.now
  <2>1. p.age = 0
    BY <1>5 DEF Aged, Plans
  <2>2. graph.status = p.before /\ p.now = Promoted.status
    BY <2>1, FalsifiedNow DEF Tracked
  <2> QED BY <1>5, <2>2 DEF Closes, Changed
<1>6. Aged(p).age = 1 /\ ReflectsWrite(Aged(p))' => graph'.status = p.now
  <2> SUFFICES ASSUME Aged(p).age = 1, ReflectsWrite(Aged(p))' PROVE g.status = p.now
    OBVIOUS
  <2>1. Expected(Aged(p)) = 1 /\ \A n \in Changed(p) : g.status[n] = p.now[n]
    BY <1>1 DEF ReflectsWrite
  <2>2. Changed(p) # {}
    BY <1>1, <2>1 DEF Expected
  <2> QED BY <1>5, <2>1, <2>2
<1> QED BY <1>1, <1>3, <1>4, <1>6 DEF Tracked

\* Saves of the blueprint keep all plans tracked.
LEMMA SavesAgree ==
  ASSUME IInv, Agreed, Save \/ Rollback \/ RootSave \/ OtherSave
  PROVE  Agreed'
<1>1. Data /\ AtWork /\ \A i \in Ids : tx[i] \in Txs /\ tx[i].plan \in Plans
  BY DEF IInv, TInv, Data, Txs
<1>2. pc' \notin {"begin", "commit"} \/ (pc' = pc /\ OtherSave)
  BY <1>1 DEF Save, Rollback, RootSave, OtherSave, Conflict, Goto
<1>3. UNCHANGED <<target, job>>
  BY DEF Save, Rollback, RootSave, OtherSave
<1>4. pc' # "commit" /\ (pc' = "begin" => pc = "begin")
  BY <1>2 DEF OtherSave, Guarded
<1>5. ASSUME NEW g, SameRest(g), Closes(g), SaveGraph(g) PROVE Agreed'
  <2> SUFFICES ASSUME NEW i \in Ids, Live(i)' PROVE Tracked(tx[i].plan)'
    BY <1>4 DEF Agreed
  <2>1. /\ tx'[i] = [tx[i] EXCEPT !.plan = Aged(tx[i].plan)] /\ graph' = g
    BY <1>5 DEF SaveGraph
  <2>2. tx'[i].plan = Aged(tx[i].plan) /\ tx'[i].state = tx[i].state
    BY <1>1, <2>1 DEF Txs
  <2>3. Live(i)
    BY <1>3, <1>4, <2>2 DEF Live
  <2>4. PICK p \in Plans : p = tx[i].plan
    BY <1>1
  <2>5. Tracked(p)
    BY <2>3, <2>4 DEF Agreed
  <2>6. Tracked(Aged(p))'
    BY <1>1, <1>3, <1>5, <2>1, <2>5, SaveTracks
  <2>7. (tx[i].plan)' = Aged(p)
    BY <2>2, <2>4
  <2> QED BY <2>6, <2>7 DEF Tracked, Falsified, ReflectsWrite
<1>6. CASE UNCHANGED <<graph, tx>>
  BY <1>3, <1>4, <1>6 DEF Agreed, Live, Tracked, Falsified, ReflectsWrite, Expected, Changed
<1>7. CASE Save \/ RootSave
  BY <1>1, <1>5, <1>6, <1>7, PromotedCloses DEF Save, RootSave, Conflict
<1>8. CASE Rollback
  <2>1. CASE Conflict
    BY <1>6, <2>1 DEF Conflict
  <2>2. CASE ~Conflict
    <3>1. pc = "rollback" /\ SaveGraph(RolledBack(my))
      BY <1>8, <2>2 DEF Rollback
    <3>2. my \in Plans /\ my.now = Falsified(my.before)
      BY <1>1, <3>1 DEF my, Data, AtWork, Agreed, Live, Tracked
    <3> QED BY <1>1, <1>5, <3>1, <3>2, RollbackCloses
  <2> QED BY <2>1, <2>2
<1>9. CASE OtherSave
  <2>1. PICK n \in Nodes, s \in Written : graph.status[n] # s /\ SaveGraph(SetStatus(graph, n, s))
    BY <1>9 DEF OtherSave
  <2>2. s \in Statuses
    BY NP_Assumption
  <2> QED BY <1>1, <1>5, <2>1, <2>2, OtherCloses
<1> QED BY <1>7, <1>8, <1>9

\* A graph is its statuses, notes and dependencies.
LEMMA SameGraph ==
  ASSUME NEW g \in Graphs, NEW h \in Graphs,
         g.status = h.status, g.note = h.note, g.depends = h.depends
  PROVE  g = h
<1> DEFINE S == [Nodes -> Statuses \cup {"none"}]
           T == [Nodes -> {"", "audited", "suspect"}]
           U == SUBSET (Nodes \X Nodes)
<1>1. g \in [status : S, note : T, depends : U] /\ h \in [status : S, note : T, depends : U]
  BY DEF Graphs
<1> HIDE DEF S, T, U
<1> QED BY <1>1

\* A graph that reflects what a promotion wrote says what it says.
LEMMA ReflectsAgrees ==
  ASSUME Data, NEW p \in Plans, Tracked(p), ReflectsWrite(p)
  PROVE  Promoted = graph
<1>1. graph \in Graphs /\ target \in Nodes
  BY DEF Data
<1>2. Promoted.status = graph.status
  <2>1. CASE p.age = 0
    <3>1. Changed(p) = {} /\ graph.status = p.before
      BY <2>1 DEF ReflectsWrite, Expected, Tracked
    <3>2. p.now = p.before
      BY <3>1 DEF Changed, Plans
    <3> QED BY <3>1, <3>2, FalsifiedNow DEF Tracked
  <2>2. CASE p.age = 1
    <3> DEFINE q == [graph EXCEPT !.status = p.before]
               h == InvalidateFalseSubtree(q, target)
    <3>1. q \in Graphs /\ q.note = graph.note /\ q.depends = graph.depends
      BY <1>1 DEF Graphs, Plans, Statuses
    <3> HIDE DEF q
    <3>2. h \in Graphs /\ h.note = q.note /\ h.depends = q.depends
          /\ InvalidateFalseSubtree(h, target) = h
      BY <1>1, <3>1, FalsifiedShape
    <3>3. h.status = graph.status
      BY <2>2 DEF Tracked, Falsified, q
    <3> HIDE DEF h
    <3>4. h = graph
      BY <1>1, <3>1, <3>2, <3>3, SameGraph
    <3> QED BY <3>2, <3>4 DEF Promoted
  <2>3. p.age \in {0, 1}
    BY DEF ReflectsWrite, Expected
  <2> QED BY <2>1, <2>2, <2>3
<1>3. SameRest(Promoted)
  BY PromotedCloses
<1> QED BY <1>1, <1>2, <1>3, SameGraph DEF SameRest

\* Steps that leave the graph and the plans of the records alone.
LEMMA KeepsAgreed ==
  ASSUME Agreed, UNCHANGED <<graph, target>>,
         \A i \in Ids : Live(i)' => Live(i) /\ (tx[i].plan)' = tx[i].plan,
         pc' = "commit" => Promoted = graph
  PROVE  Agreed'
  BY DEF Agreed, Tracked, Falsified, ReflectsWrite, Expected, Changed, Promoted

\* The commit is reached only over a graph that agrees, and under the guard.
LEMMA ReflectStep ==
  ASSUME IInv, Agreed, Reflect
  PROVE  Agreed'
<1>1. Data /\ AtWork /\ my \in Plans
  BY DEF IInv, TInv, Data, Txs, my
<1>2. pc' = "commit" => ReflectsWrite(my)
  BY DEF Reflect, SourceChanged, Goto
<1>3. Tracked(my)
  BY <1>1 DEF Reflect, AtWork, Agreed, Live, Data, my
<1>4. pc' = "commit" => Promoted = graph
  BY <1>1, <1>2, <1>3, ReflectsAgrees
<1>5. pc' # "begin" /\ UNCHANGED <<graph, target, tx, job>>
  BY <1>1 DEF Reflect, SourceChanged, Goto
<1> QED BY <1>4, <1>5, KeepsAgreed DEF Live

\* A new plan says what the refutation makes of the graph as it is.
LEMMA ProbeAgrees ==
  ASSUME IInv, Agreed, Probe
  PROVE  Agreed'
<1>1. Data /\ PlanNow \in Plans /\ tx \in [Ids -> Txs]
  BY PlanNowType DEF IInv, TInv, Data
<1>2. Tracked(PlanNow)
  BY <1>1, FalsifiedNow DEF Tracked, PlanNow
<1>3. /\ job' \in Ids /\ tx' = [tx EXCEPT ![job'].plan = PlanNow]
      /\ UNCHANGED <<graph, target>> /\ pc' = "begin"
  BY DEF Probe, Goto, In, Lowest
<1> SUFFICES ASSUME NEW i \in Ids, Live(i)' PROVE Tracked(tx[i].plan)'
  BY <1>3 DEF Agreed
<1>4. CASE i = job'
  <2>1. (tx[i].plan)' = PlanNow
    BY <1>1, <1>3, <1>4 DEF Txs
  <2> QED BY <1>2, <1>3, <2>1 DEF Tracked, Falsified, ReflectsWrite, Expected, Changed
<1>5. CASE i # job'
  <2>1. (tx[i])' = tx[i] /\ Live(i)
    BY <1>1, <1>3, <1>5 DEF Live
  <2>2. Tracked(tx[i].plan)
    BY <2>1 DEF Agreed
  <2> QED BY <1>3, <2>1, <2>2 DEF Tracked, Falsified, ReflectsWrite, Expected, Changed
<1> QED BY <1>4, <1>5

\* Records change their state, and plans that were none stay none.
LEMMA RecordsAgree ==
  ASSUME IInv, Agreed, Begin \/ Agree \/ Commit \/ Seal \/ Withdraw
                       \/ RecoverUndo \/ Recover \/ Root
  PROVE  Agreed'
<1>1. Data /\ AtWork /\ Passes /\ tx \in [Ids -> Txs] /\ job \in Ids
  BY DEF IInv, TInv, Data
<1>2. UNCHANGED <<graph, target>>
  BY DEF Begin, Agree, Commit, Seal, Withdraw, RecoverUndo, Recover, Root
<1>3. pc' \notin {"begin", "commit"}
  BY <1>1 DEF Begin, Agree, Commit, Seal, Withdraw, RecoverUndo, Recover, Root, Goto,
     LeaseLost, OutageKept, Data
<1>4. ASSUME NEW i \in Ids PROVE (tx[i].plan)' = tx[i].plan
  BY <1>1 DEF Begin, Agree, Commit, Seal, Withdraw, RecoverUndo, Recover, Root, OutageKept, Txs
<1>5. ASSUME NEW i \in Ids, (tx[i].state)' # "none" PROVE Live(i)
  <2>1. CASE i = job /\ (Begin \/ Agree \/ Commit \/ Seal \/ Withdraw)
    BY <2>1, <1>1 DEF Begin, Agree, Commit, Seal, Withdraw, Live, AtWork
  <2>2. CASE i # job /\ (Begin \/ Agree \/ Commit \/ Seal \/ Withdraw)
    BY <1>1, <1>5, <2>2 DEF Begin, Agree, Commit, Seal, Withdraw, Live
  <2>3. CASE RecoverUndo \/ Recover \/ Root
    BY <1>1, <1>5, <2>3 DEF RecoverUndo, Recover, Root, OutageKept, Live, Txs
  <2> QED BY <2>1, <2>2, <2>3
<1> QED BY <1>2, <1>3, <1>4, <1>5, KeepsAgreed DEF Live

LEMMA AgreedNext ==
  ASSUME IInv, Agreed, [Next]_vars
  PROVE  Agreed'
<1>1. Data
  BY DEF IInv, TInv
<1>2. CASE UNCHANGED vars
  BY <1>2, KeepsAgreed DEF vars, Live, Agreed
<1>3. CASE Pended \/ AfterSave \/ Posted \/ Restore \/ RollbackSaved \/ Load \/ RootFinal
           \/ End \/ Crash \/ Start \/ NextPass
  <2>1. UNCHANGED <<graph, target, tx, job>>
    BY <1>3 DEF Pended, AfterSave, Posted, Restore, RollbackSaved, Load, RootFinal, End,
       Crash, Start, NextPass
  <2>2. pc' \notin {"begin", "commit"}
    BY <1>1, <1>3 DEF Pended, AfterSave, Posted, Restore, RollbackSaved, Load, RootFinal, End,
       Crash, Start, NextPass, Pass, Goto, LeaseLost, SourceChanged, Data
  <2> QED BY <2>1, <2>2, KeepsAgreed DEF Live
<1>4. CASE UserEdit
  <2>1. UNCHANGED <<graph, target, tx, job, pc>>
    BY <1>4 DEF UserEdit
  <2> QED BY <2>1, KeepsAgreed DEF Live, Agreed
<1> QED BY <1>2, <1>3, <1>4, ReflectStep, ProbeAgrees, RecordsAgree, SavesAgree DEF Next, Run

\* A promotion commits only over the graph its refutation makes: the age of
\* its plan and the nodes it changed tell that from any other graph that the
\* other writers, a rollback or another attempt can leave.
THEOREM CommitsAgreed == Spec => CommitsAgreedGraph
<1> DEFINE A == \A i \in Ids : tx[i].state # "committed" /\ tx'[i].state = "committed"
                  => Promoted = graph
<1>1. Init => Agreed
  <2> SUFFICES ASSUME Init PROVE Agreed
    OBVIOUS
  <2>1. pc = "idle" /\ \A i \in Ids : tx[i].state = "none"
    BY DEF Init
  <2> QED BY <2>1 DEF Agreed, Live
<1>2. IInv /\ Agreed /\ [Next]_vars => Agreed'
  BY AgreedNext
<1>3. IInv /\ Agreed /\ [Next]_vars => A
  <2> SUFFICES ASSUME IInv, Agreed, [Next]_vars, NEW i \in Ids,
                      tx[i].state # "committed", tx'[i].state = "committed"
               PROVE  Promoted = graph
    OBVIOUS
  <2>1. Data /\ job \in Ids /\ tx \in [Ids -> Txs]
    BY DEF IInv, TInv, Data
  <2>2. ASSUME NEW g, SaveGraph(g) PROVE FALSE
    BY <2>1, <2>2 DEF SaveGraph, Txs
  <2>3. ~UNCHANGED tx
    OBVIOUS
  <2>4. ~(Save \/ Rollback \/ RootSave \/ OtherSave)
    BY <2>2, <2>3 DEF Save, Rollback, RootSave, OtherSave, Conflict
  <2>5. ~(RecoverUndo \/ Recover \/ Root)
    BY <2>1, <2>3 DEF RecoverUndo, Recover, Root, OutageKept, Txs
  <2>6. ~(Begin \/ Agree \/ Withdraw \/ Seal \/ Probe)
    BY <2>1, <2>3 DEF Begin, Agree, Withdraw, Seal, Probe, Txs
  <2>7. Commit
    BY <2>3, <2>4, <2>5, <2>6 DEF Next, Run, Pended, AfterSave, Reflect, Posted, Restore,
       RollbackSaved, Start, NextPass, Load, RootFinal, End, UserEdit, Crash, vars
  <2> QED BY <2>7 DEF Commit, Agreed
<1>4. IInv /\ Agreed /\ [Next]_vars => [A]_vars
  BY <1>3
<1> QED BY <1>1, <1>2, <1>4, Invariant, PTL DEF Spec, CommitsAgreedGraph

=============================================================================
