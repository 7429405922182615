------------------------- MODULE FalseCleanup_proofs -------------------------
(* Proofs about FalseCleanup.  The types, the locks and the cleanness of a  *)
(* commit hold for any number of runners; that the cleanup implements       *)
(* CleanupLife, and that a stopped plan has its row, for one runner.        *)
EXTENDS FalseCleanup, TLAPS

\* Where a runner goes by bytes from which the helper is gone.
AfterCut == {"confirm", "recheck", "load", "save", "recheck-graph", "guard",
             "recheck-commit", "reflect", "commit"}

\* Such bytes stay what they were, and under the guard so does the graph.
CutSeen == \A r \in Runners : pc[r] \in AfterCut => ~HelperIn(seen[r])
Reflected == \A r \in Runners : pc[r] = "commit" => GraphReflects(graph, seen[r])

IInv == TypeOK /\ CutSeen /\ Reflected

-----------------------------------------------------------------------------
(* Types and locks *)

\* Leaving the critical sections gives back whatever is held.
LEMMA LeaveKeeps ==
  ASSUME TypeOK, NEW r \in Runners, NEW place \in {"idle", "select"}, Leave(r, place)
  PROVE  /\ pc' = [pc EXCEPT ![r] = place]
         /\ pc' \in [Runners -> Places]
         /\ lease' \in Runners \cup {None} /\ guard' \in Runners \cup {None}
         /\ \A s \in Runners : (pc'[s] \in InLease) <=> (lease' = s)
         /\ \A s \in Runners : (pc'[s] \in Guarded) <=> (guard' = s)
<1>1. pc' = [pc EXCEPT ![r] = place] /\ place \in Places \ (InLease \cup Guarded)
  BY DEF Leave, Goto, Places, InLease, Guarded
<1>2. lease' = (IF lease = r THEN None ELSE lease) /\ guard' = (IF guard = r THEN None ELSE guard)
  BY DEF Leave
<1> QED BY <1>1, <1>2, FC_Assumption DEF TypeOK

\* Stopping a plan, or keeping it, leaves with a typed plan and row.
LEMMA StopKeeps ==
  ASSUME TypeOK, NEW r \in Runners, Retain(r) \/ Mark(r) \/ Refuse(r)
  PROVE  /\ \E place \in {"idle", "select"} : Leave(r, place)
         /\ plan' \in [state : PlanStates, before : Texts]
         /\ row' \in BOOLEAN /\ UNCHANGED authority
         /\ plan'.state = "committed" => plan.state = "committed"
<1>1. AfterJob(r) \in {"idle", "select"}
  BY DEF AfterJob
<1>2. \A s \in PlanStates : AfterRetain(s) \in PlanStates \ {"committed"}
                            /\ AfterMark(s) \in PlanStates \ {"committed"}
  BY DEF AfterRetain, AfterMark, PlanStates, Corrupt
<1>3. plan.state \in PlanStates
  BY DEF TypeOK
<1>4. CASE Retain(r)
  BY <1>1, <1>2, <1>3, <1>4 DEF Retain, TypeOK
<1>5. CASE Mark(r)
  <2>1. plan \in [state : PlanStates, before : Texts] /\ row \in BOOLEAN
    BY DEF TypeOK
  <2>2. CASE plan.state \in Corrupt
    BY <1>5, <2>1, <2>2 DEF Mark
  <2>3. CASE plan.state \notin Corrupt
    <3>1. AfterMark(plan.state) \in PlanStates \ {"committed"}
      BY <1>2, <1>3
    <3>2. plan' = [plan EXCEPT !.state = AfterMark(plan.state)] /\ row' = TRUE
          /\ Leave(r, AfterJob(r)) /\ UNCHANGED authority
      BY <1>5, <2>3 DEF Mark
    <3> QED BY <1>1, <2>1, <3>1, <3>2
  <2> QED BY <2>2, <2>3
<1>6. CASE Refuse(r)
  BY <1>6 DEF Refuse, TypeOK
<1> QED BY <1>4, <1>5, <1>6

\* A runner that moves on inside the locks it has.
LEMMA GotoKeeps ==
  ASSUME TypeOK, NEW r \in Runners, NEW place \in Places, Goto(r, place),
         UNCHANGED <<lease, guard>>,
         pc[r] \in InLease <=> place \in InLease,
         pc[r] \in Guarded <=> place \in Guarded
  PROVE  /\ pc' \in [Runners -> Places]
         /\ \A s \in Runners : (pc'[s] \in InLease) <=> (lease' = s)
         /\ \A s \in Runners : (pc'[s] \in Guarded) <=> (guard' = s)
BY DEF Goto, TypeOK

\* The data of the types, without the places and the locks.
Data ==
  /\ source \in Texts
  /\ graph \in Graphs
  /\ plan \in [state : PlanStates, before : Texts]
  /\ authority \in {"active", "consumed"}
  /\ row \in BOOLEAN
  /\ seen \in [Runners -> Texts]
  /\ fresh \in [Runners -> BOOLEAN]
  /\ job \in [Runners -> {"replay", "candidate"}]
  /\ spent \in [user : 0 .. MaxUserEdits, graph : 0 .. MaxGraphEdits,
                crash : 0 .. MaxCrashes, retry : 0 .. MaxRetries]

Locks ==
  /\ lease \in Runners \cup {None}
  /\ guard \in Runners \cup {None}
  /\ pc \in [Runners -> Places]
  /\ \A r \in Runners : (pc[r] \in InLease) <=> (lease = r)
  /\ \A r \in Runners : (pc[r] \in Guarded) <=> (guard = r)

LEMMA TypeParts == TypeOK <=> Data /\ Locks
BY DEF TypeOK, Data, Locks

LEMMA CutText == \A t \in Texts : Cut(t) \in Texts /\ ~HelperIn(Cut(t))
BY DEF Cut, Texts, HelperIn

LEMMA CleanedGraph == \A g \in Graphs, t \in Texts : Cleaned(g, t) \in Graphs
BY DEF Cleaned, Graphs

\* Every step of a runner keeps the data typed.
LEMMA DataStep ==
  ASSUME TypeOK, [Next]_vars
  PROVE  Data'
<1>1. Data /\ Locks
  BY TypeParts
<1>2. ASSUME NEW r \in Runners, Retain(r) \/ Mark(r) \/ Refuse(r)
      PROVE  /\ plan' \in [state : PlanStates, before : Texts]
             /\ row' \in BOOLEAN /\ authority' \in {"active", "consumed"}
  BY <1>1, <1>2, StopKeeps DEF Data
<1>3. ASSUME NEW r \in Runners,
             Start(r) \/ Lease(r) \/ Select(r) \/ Guard(r)
      PROVE  Data'
  BY <1>1, <1>3 DEF Data, Start, Lease, Select, Guard
<1>4. ASSUME NEW r \in Runners, Examine(r) PROVE Data'
  BY <1>1, <1>4 DEF Data, Examine
<1>5. ASSUME NEW r \in Runners, Validate(r) PROVE Data'
  BY <1>1, <1>2, <1>5 DEF Data, Validate
<1>6. ASSUME NEW r \in Runners, Begin(r) PROVE Data'
  BY <1>1, <1>6 DEF Data, Begin, PlanStates
<1>7. ASSUME NEW r \in Runners, Read(r) \/ Compare(r) PROVE Data'
  BY <1>1, <1>2, <1>7 DEF Data, Read, Compare
<1>8. ASSUME NEW r \in Runners, Replace(r) PROVE Data'
  <2>1. plan.before \in Texts
    BY <1>1 DEF Data
  <2>2. Cut(plan.before) \in Texts
    BY <2>1, CutText
  <2> QED BY <1>1, <1>8, <2>2 DEF Data, Replace
<1>9. ASSUME NEW r \in Runners, Recheck(r) \/ Reflect(r) PROVE Data'
  BY <1>1, <1>2, <1>9 DEF Data, Recheck, Reflect
<1>10. ASSUME NEW r \in Runners, Load(r) PROVE Data'
  BY <1>1, <1>2, <1>10 DEF Data, Load
<1>11. ASSUME NEW r \in Runners, Save(r) PROVE Data'
  <2>1. CASE fresh[r]
    BY <1>1, <1>11, <2>1, CleanedGraph DEF Data, Save
  <2>2. CASE ~fresh[r]
    BY <1>1, <1>2, <1>11, <2>2 DEF Data, Save
  <2> QED BY <2>1, <2>2
<1>12. ASSUME NEW r \in Runners, Commit(r) PROVE Data'
  BY <1>1, <1>12 DEF Data, Commit, PlanStates
<1>13. ASSUME NEW r \in Runners, Crash(r) PROVE Data'
  BY <1>1, <1>13, FC_Assumption DEF Data, Crash
<1>14. CASE UserEdit
  BY <1>1, <1>14, FC_Assumption DEF Data, UserEdit
<1>15. CASE GraphEdit
  <2>1. graph' \in Graphs
    BY <1>1, <1>15 DEF Data, GraphEdit, Graphs
  <2> QED BY <1>1, <1>15, <2>1, FC_Assumption DEF Data, GraphEdit
<1>16. CASE AuthorizeRetry
  <2>1. plan' \in [state : PlanStates, before : Texts]
    BY <1>1, <1>16 DEF Data, AuthorizeRetry, PlanStates
  <2>2. spent' \in [user : 0 .. MaxUserEdits, graph : 0 .. MaxGraphEdits,
                    crash : 0 .. MaxCrashes, retry : 0 .. MaxRetries]
    BY <1>1, <1>16, FC_Assumption DEF Data, AuthorizeRetry
  <2>3. row' = FALSE /\ UNCHANGED <<source, graph, authority, seen, fresh, job>>
    BY <1>16 DEF AuthorizeRetry
  <2> QED BY <1>1, <2>1, <2>2, <2>3 DEF Data
<1>17. CASE UNCHANGED vars
  BY <1>1, <1>17 DEF vars, Data
<1> QED BY <1>3, <1>4, <1>5, <1>6, <1>7, <1>8, <1>9, <1>10, <1>11, <1>12, <1>13,
           <1>14, <1>15, <1>16, <1>17 DEF Next, Run

\* A runner is inside the lease and the guard exactly while it holds them.
LEMMA LocksStep ==
  ASSUME TypeOK, [Next]_vars
  PROVE  Locks'
<1>1. Data /\ Locks
  BY TypeParts
<1>2. ASSUME NEW r \in Runners, \E place \in {"idle", "select"} : Leave(r, place)
      PROVE  Locks'
  BY <1>2, LeaveKeeps DEF Locks
<1>3. ASSUME NEW r \in Runners, Retain(r) \/ Mark(r) \/ Refuse(r)
      PROVE  Locks'
  BY <1>2, <1>3, StopKeeps
<1>4. ASSUME NEW r \in Runners, NEW place \in Places, Goto(r, place),
             UNCHANGED <<lease, guard>>,
             pc[r] \in InLease <=> place \in InLease,
             pc[r] \in Guarded <=> place \in Guarded
      PROVE  Locks'
  BY <1>1, <1>4, GotoKeeps DEF Locks
<1> USE DEF Places, InLease, Guarded
<1>5. ASSUME NEW r \in Runners, Start(r) \/ Select(r) PROVE Locks'
  BY <1>4, <1>5 DEF Start, Select
<1>6. ASSUME NEW r \in Runners, Lease(r) PROVE Locks'
  BY <1>1, <1>6, FC_Assumption DEF Lease, Locks, Goto
<1>7. ASSUME NEW r \in Runners, Examine(r) PROVE Locks'
  <2>1. CASE Owned(graph) /\ HelperIn(source)
    BY <1>1, <1>7, <2>1, FC_Assumption DEF Examine, Locks, Goto
  <2>2. CASE ~(Owned(graph) /\ HelperIn(source))
    BY <1>4, <1>7, <2>2 DEF Examine
  <2> QED BY <2>1, <2>2
<1>8. ASSUME NEW r \in Runners, Validate(r) PROVE Locks'
  BY <1>2, <1>3, <1>4, <1>8 DEF Validate
<1>9. ASSUME NEW r \in Runners, Begin(r) PROVE Locks'
  BY <1>2, <1>4, <1>9 DEF Begin
<1>10. ASSUME NEW r \in Runners, Read(r) \/ Compare(r) PROVE Locks'
  BY <1>3, <1>4, <1>10 DEF Read, Compare
<1>11. ASSUME NEW r \in Runners, Replace(r) PROVE Locks'
  BY <1>4, <1>11 DEF Replace
<1>12. ASSUME NEW r \in Runners, Recheck(r) PROVE Locks'
  BY <1>3, <1>4, <1>12 DEF Recheck
<1>13. ASSUME NEW r \in Runners, Load(r) \/ Save(r) PROVE Locks'
  BY <1>3, <1>4, <1>13 DEF Load, Save
<1>14. ASSUME NEW r \in Runners, Guard(r) PROVE Locks'
  BY <1>1, <1>14, FC_Assumption DEF Guard, Locks, Goto
<1>15. ASSUME NEW r \in Runners, Reflect(r) PROVE Locks'
  BY <1>3, <1>4, <1>15 DEF Reflect
<1>16. ASSUME NEW r \in Runners, Commit(r) PROVE Locks'
  BY <1>2, <1>16 DEF Commit, AfterJob
<1>17. ASSUME NEW r \in Runners, Crash(r) PROVE Locks'
  BY <1>2, <1>17 DEF Crash
<1>18. CASE UserEdit \/ GraphEdit \/ AuthorizeRetry \/ UNCHANGED vars
  BY <1>1, <1>18 DEF Locks, UserEdit, GraphEdit, AuthorizeRetry, vars
<1> QED BY <1>5, <1>6, <1>7, <1>8, <1>9, <1>10, <1>11, <1>12, <1>13, <1>14, <1>15,
           <1>16, <1>17, <1>18 DEF Next, Run

LEMMA InitType == Init => TypeOK
<1> SUFFICES ASSUME Init PROVE Data /\ Locks
  BY TypeParts
<1>1. graph \in Graphs
  BY DEF Init, Graphs
<1>2. spent \in [user : 0 .. MaxUserEdits, graph : 0 .. MaxGraphEdits,
                 crash : 0 .. MaxCrashes, retry : 0 .. MaxRetries]
  BY FC_Assumption DEF Init
<1>3. Data
  BY <1>1, <1>2 DEF Init, Data, Texts, PlanStates
<1>4. Locks
  BY FC_Assumption DEF Init, Locks, Places, InLease, Guarded
<1> QED BY <1>3, <1>4

\* Every variable keeps its type, and a runner is inside the source lease or
\* the blueprint guard exactly while it holds it, whatever path it leaves by.
THEOREM TypeCorrect == Spec => []TypeOK
<1>1. TypeOK /\ [Next]_vars => TypeOK'
  <2> SUFFICES ASSUME TypeOK, [Next]_vars PROVE TypeOK'
    OBVIOUS
  <2>1. Data' /\ Locks'
    BY DataStep, LocksStep
  <2> QED BY <2>1 DEF TypeOK, Data, Locks
<1> QED BY <1>1, InitType, PTL DEF Spec

-----------------------------------------------------------------------------
(* What a commit leaves *)

\* Whoever stops, keeps or refuses is not behind a cut any more.
LEMMA OutOfCut ==
  ASSUME TypeOK, NEW r \in Runners, \E place \in {"idle", "select"} : Leave(r, place)
  PROVE  pc'[r] \notin AfterCut
BY DEF TypeOK, Leave, Goto, AfterCut

\* The bytes a runner goes by, once the helper is out of them.
LEMMA CutSeenStep ==
  ASSUME IInv, [Next]_vars
  PROVE  CutSeen'
<1>1. TypeOK /\ CutSeen
  BY DEF IInv
<1>2. ASSUME NEW r \in Runners, Run(r) \/ Crash(r),
             pc'[r] \in AfterCut => ~HelperIn(seen'[r])
      PROVE  CutSeen'
  <2>1. \A s \in Runners : s # r => pc'[s] = pc[s] /\ seen'[s] = seen[s]
    <3>1. ASSUME NEW place, Goto(r, place) \/ Leave(r, place)
          PROVE  \A s \in Runners : s # r => pc'[s] = pc[s]
      BY <1>1, <3>1 DEF TypeOK, Goto, Leave
    <3>2. Retain(r) \/ Mark(r) \/ Refuse(r) => \E place \in {"idle", "select"} : Leave(r, place)
      BY <1>1, StopKeeps
    <3>3. \A s \in Runners : s # r => pc'[s] = pc[s]
      BY <1>2, <3>1, <3>2 DEF Run, Crash, Start, Lease, Select, Examine, Validate, Begin, Read,
         Compare, Replace, Recheck, Load, Save, Guard, Reflect, Commit
    <3>4. \A s \in Runners : s # r => seen'[s] = seen[s]
      BY <1>1, <1>2 DEF TypeOK, Run, Crash, Start, Lease, Select, Examine, Validate, Begin, Read,
         Compare, Replace, Recheck, Load, Save, Guard, Reflect, Commit
    <3> QED BY <3>3, <3>4
  <2> QED BY <1>1, <1>2, <2>1 DEF CutSeen
<1>3. ASSUME NEW r \in Runners,
             \/ Retain(r) \/ Mark(r) \/ Refuse(r)
             \/ \E place \in {"idle", "select"} : Leave(r, place)
      PROVE  pc'[r] \notin AfterCut
  BY <1>1, <1>3, StopKeeps, OutOfCut
<1>4. ASSUME NEW r \in Runners, NEW place, Goto(r, place)
      PROVE  pc'[r] = place
  BY <1>1, <1>4 DEF TypeOK, Goto
<1>5. ASSUME NEW r \in Runners,
             Start(r) \/ Lease(r) \/ Select(r) \/ Examine(r) \/ Validate(r) \/ Begin(r)
      PROVE  pc'[r] \notin AfterCut
  BY <1>3, <1>4, <1>5 DEF Start, Lease, Select, Examine, Validate, Begin, AfterCut
<1>6. ASSUME NEW r \in Runners, Read(r) \/ Compare(r)
      PROVE  pc'[r] \in AfterCut => ~HelperIn(seen'[r])
  BY <1>1, <1>3, <1>4, <1>6 DEF TypeOK, Read, Compare, AfterCut, StillReflects
<1>7. ASSUME NEW r \in Runners, Replace(r)
      PROVE  ~HelperIn(seen'[r])
  <2>1. ~HelperIn(Cut(plan.before))
    BY <1>1, CutText DEF TypeOK
  <2> QED BY <1>1, <1>7, <2>1 DEF TypeOK, Replace
<1>8. ASSUME NEW r \in Runners,
             Recheck(r) \/ Load(r) \/ Save(r) \/ Guard(r) \/ Reflect(r) \/ Commit(r) \/ Crash(r)
      PROVE  pc'[r] \in AfterCut => ~HelperIn(seen'[r])
  <2>1. CASE pc[r] \in AfterCut
    <3>1. seen' = seen
      BY <1>8 DEF Recheck, Load, Save, Guard, Reflect, Commit, Crash
    <3> QED BY <1>1, <2>1, <3>1 DEF CutSeen
  <2>2. CASE Crash(r)
    BY <1>3, <2>2 DEF Crash
  <2> QED BY <1>8, <2>1, <2>2 DEF Recheck, Load, Save, Guard, Reflect, Commit, AfterCut
<1>9. CASE UserEdit \/ GraphEdit \/ AuthorizeRetry \/ UNCHANGED vars
  BY <1>1, <1>9 DEF CutSeen, UserEdit, GraphEdit, AuthorizeRetry, vars
<1> QED BY <1>2, <1>5, <1>6, <1>7, <1>8, <1>9 DEF Next, Run

\* Under the guard the graph is what it was found to be.
LEMMA ReflectedStep ==
  ASSUME IInv, [Next]_vars
  PROVE  Reflected'
<1>1. TypeOK /\ Reflected
  BY DEF IInv
<1> SUFFICES ASSUME NEW r \in Runners, pc'[r] = "commit"
             PROVE  GraphReflects(graph', seen'[r])
  BY DEF Reflected
<1>2. ASSUME NEW s \in Runners, NEW place, Goto(s, place) \/ Leave(s, place)
      PROVE  (s # r => pc'[r] = pc[r]) /\ (s = r => place = "commit")
  BY <1>1, <1>2 DEF TypeOK, Goto, Leave
<1>3. ASSUME NEW s \in Runners, Retain(s) \/ Mark(s) \/ Refuse(s)
      PROVE  s # r /\ pc'[r] = pc[r]
  BY <1>1, <1>2, <1>3, StopKeeps
<1>4. CASE Reflect(r)
  <2>1. UNCHANGED <<graph, seen>> /\ (GraphReflects(graph, seen[r]) \/ Retain(r))
    BY <1>4 DEF Reflect
  <2> QED BY <1>3, <2>1
<1>5. ASSUME NEW s \in Runners, Run(s) \/ Crash(s), ~(s = r /\ Reflect(r))
      PROVE  s # r /\ pc[r] = "commit"
  <2>1. AfterJob(s) # "commit"
    BY DEF AfterJob
  <2>2. CASE Recheck(s)
    BY <1>2, <1>3, <2>2 DEF Recheck
  <2>3. CASE Crash(s) \/ Start(s) \/ Lease(s) \/ Select(s) \/ Examine(s)
    BY <1>2, <1>3, <2>3 DEF Crash, Start, Lease, Select, Examine
  <2>4. CASE Validate(s) \/ Begin(s) \/ Read(s) \/ Compare(s) \/ Replace(s)
    BY <1>2, <1>3, <2>4 DEF Validate, Begin, Read, Compare, Replace
  <2>5. CASE Load(s) \/ Save(s) \/ Guard(s) \/ Commit(s)
    BY <1>2, <1>3, <2>1, <2>5 DEF Load, Save, Guard, Commit
  <2>6. CASE Reflect(s)
    BY <1>2, <1>3, <1>5, <2>6 DEF Reflect
  <2> QED BY <1>5, <2>2, <2>3, <2>4, <2>5, <2>6 DEF Run
<1>6. ASSUME pc[r] = "commit", ~Reflect(r), UNCHANGED graph \/ guard = None,
             seen'[r] = seen[r]
      PROVE  GraphReflects(graph', seen'[r])
  <2>1. guard = r /\ r # None
    BY <1>1, <1>6, FC_Assumption DEF TypeOK, Guarded
  <2> QED BY <1>1, <1>6, <2>1 DEF Reflected
<1>7. ASSUME NEW s \in Runners, Run(s) \/ Crash(s), ~(s = r /\ Reflect(r))
      PROVE  GraphReflects(graph', seen'[r])
  <2>1. s # r /\ pc[r] = "commit"
    BY <1>5, <1>7
  <2>2. UNCHANGED graph \/ guard = None
    BY <1>7 DEF Run, Crash, Start, Lease, Select, Examine, Validate, Begin, Read,
       Compare, Replace, Recheck, Load, Save, Guard, Reflect, Commit
  <2>3. seen'[r] = seen[r]
    BY <1>1, <1>7, <2>1 DEF TypeOK, Run, Crash, Start, Lease, Select, Examine, Validate, Begin,
       Read, Compare, Replace, Recheck, Load, Save, Guard, Reflect, Commit
  <2>4. ~Reflect(r)
    BY <2>1 DEF Reflect
  <2> QED BY <1>6, <2>1, <2>2, <2>3, <2>4
<1>8. CASE UserEdit \/ GraphEdit \/ AuthorizeRetry \/ UNCHANGED vars
  <2>1. UNCHANGED <<pc, seen>> /\ (UNCHANGED graph \/ guard = None)
    BY <1>8 DEF UserEdit, GraphEdit, AuthorizeRetry, vars
  <2>2. pc[r] = "commit"
    BY <2>1
  <2>3. ~Reflect(r)
    BY <2>2 DEF Reflect
  <2> QED BY <1>6, <2>1, <2>2, <2>3
<1> QED BY <1>4, <1>7, <1>8 DEF Next

LEMMA Invariant == Spec => []IInv
<1>1. Init => IInv
  BY InitType DEF Init, IInv, CutSeen, Reflected, AfterCut
<1>2. IInv /\ [Next]_vars => IInv'
  <2> SUFFICES ASSUME IInv, [Next]_vars PROVE IInv'
    OBVIOUS
  <2>1. Data' /\ Locks'
    BY DataStep, LocksStep DEF IInv
  <2>2. CutSeen' /\ Reflected'
    BY CutSeenStep, ReflectedStep
  <2> QED BY <2>1, <2>2 DEF IInv, TypeOK, Data, Locks
<1> QED BY <1>1, <1>2, PTL DEF Spec

\* Whatever other runners, users and writers do, a cleanup that commits leaves
\* no false helper but an audit tombstone, no edge to it and an open parent,
\* and uses up the promotion in the same write.
THEOREM CommitsClean == Spec => CleanAtCommit
<1> DEFINE A == (plan.state # "committed" /\ plan'.state = "committed") =>
                  \E r \in Runners : /\ pc[r] = "commit"
                                     /\ ~HelperIn(seen[r])
                                     /\ GraphReflects(graph', seen[r])
                                     /\ authority' = "consumed"
<1>1. IInv /\ [Next]_vars => A
  <2> SUFFICES ASSUME IInv, [Next]_vars,
                      plan.state # "committed", plan'.state = "committed"
               PROVE  \E r \in Runners : /\ pc[r] = "commit" /\ ~HelperIn(seen[r])
                                         /\ GraphReflects(graph', seen[r])
                                         /\ authority' = "consumed"
    OBVIOUS
  <2>1. TypeOK /\ CutSeen /\ Reflected
    BY DEF IInv
  <2>2. \A r \in Runners : ~(Retain(r) \/ Mark(r) \/ Refuse(r))
    BY <2>1, StopKeeps
  <2>3. plan \in [state : PlanStates, before : Texts]
    BY <2>1 DEF TypeOK
  <2>4. PICK r \in Runners : Commit(r)
    <3>1. ~(UserEdit \/ GraphEdit \/ UNCHANGED vars)
      BY DEF UserEdit, GraphEdit, vars
    <3>2. ~AuthorizeRetry
      BY <2>3 DEF AuthorizeRetry
    <3>3. \A r \in Runners : ~Begin(r)
      BY <2>3 DEF Begin
    <3>4. \A r \in Runners : ~Crash(r) /\ (Run(r) => Commit(r))
      BY <2>2, <3>3 DEF Run, Crash, Start, Lease, Select, Examine, Validate, Read,
         Compare, Replace, Recheck, Load, Save, Guard, Reflect
    <3> QED BY <3>1, <3>2, <3>4 DEF Next
  <2>5. pc[r] = "commit" /\ authority' = "consumed" /\ UNCHANGED graph
    BY <2>4 DEF Commit
  <2> QED BY <2>1, <2>5 DEF CutSeen, Reflected, AfterCut
<1>2. IInv /\ [Next]_vars => [A]_vars
  BY <1>1
<1> QED BY <1>2, Invariant, PTL DEF Spec, CleanAtCommit

-----------------------------------------------------------------------------
(* One runner *)

OneRunner == \A r, s \in Runners : r = s

\* What the only runner knows of the durable records at each of its places.
Alone ==
  /\ plan.state \notin Corrupt
  /\ plan.state = "committed" <=> authority = "consumed"
  /\ \A r \in Runners :
       /\ pc[r] \in AfterCut \cup {"replay", "read", "compare", "replace"}
            => plan.state = "pending"
       /\ pc[r] \in {"candidate", "validate", "begin"} => plan.state = "none" /\ ~row

AInv == TypeOK /\ CutSeen /\ Alone /\ StoppedHasRow

\* Every step keeps the records in order, and is one of CleanupLife's.
LEMMA AloneStep ==
  ASSUME OneRunner, AInv, [Next]_vars
  PROVE  Alone' /\ StoppedHasRow' /\ [Life!Next]_(Life!vars)
<1> DEFINE Done == Alone' /\ StoppedHasRow' /\ [Life!Next]_(Life!vars)
<1>1. TypeOK /\ CutSeen /\ Alone /\ StoppedHasRow
  BY DEF AInv
<1>2. plan \in [state : PlanStates, before : Texts] /\ row \in BOOLEAN
  BY <1>1 DEF TypeOK
<1>3. plan.state \in {"none", "pending", "quarantined", "committed"}
  BY <1>1, <1>2 DEF Alone, PlanStates
<1>4. ASSUME NEW r \in Runners, NEW place, Goto(r, place) \/ Leave(r, place)
      PROVE  pc'[r] = place /\ \A s \in Runners : pc'[s] = place
  BY <1>1, <1>4 DEF TypeOK, Goto, Leave, OneRunner
\* Steps that leave the records and the file alone.
<1>5. ASSUME UNCHANGED <<source, plan, authority, row>>, UNCHANGED spent \/ spent'.user = spent.user,
             NEW r \in Runners, NEW place, \A s \in Runners : pc'[s] = place,
             place \in AfterCut \cup {"replay", "read", "compare", "replace"} => plan.state = "pending",
             place \in {"candidate", "validate", "begin"} => plan.state = "none" /\ ~row
      PROVE  Done
  BY <1>1, <1>5 DEF Alone, StoppedHasRow, Life!vars
<1>6. ASSUME NEW r \in Runners, Retain(r), plan.state = "pending", UNCHANGED <<source, spent>>
      PROVE  Done
  <2>1. Leave(r, AfterJob(r)) /\ plan' = plan /\ UNCHANGED <<authority, row>>
    BY <1>2, <1>6 DEF Retain, AfterRetain, Corrupt
  <2>2. AfterJob(r) \in {"idle", "select"}
    BY DEF AfterJob
  <2>3. \A s \in Runners : pc'[s] = AfterJob(r)
    BY <1>4, <2>1
  <2> QED BY <1>5, <1>6, <2>1, <2>2, <2>3 DEF AfterCut
<1>7. ASSUME NEW r \in Runners, Mark(r), plan.state = "pending", UNCHANGED <<source, spent>>
      PROVE  Done
  <2>1. /\ Leave(r, AfterJob(r)) /\ plan' = [plan EXCEPT !.state = "quarantined"]
        /\ row' = TRUE /\ UNCHANGED authority
    BY <1>2, <1>7 DEF Mark, AfterMark, Corrupt
  <2>2. plan'.state = "quarantined"
    BY <1>2, <2>1
  <2>3. AfterJob(r) \in {"idle", "select"} /\ \A s \in Runners : pc'[s] = AfterJob(r)
    BY <1>4, <2>1 DEF AfterJob
  <2>4. Alone' /\ StoppedHasRow'
    BY <1>1, <1>7, <2>1, <2>2, <2>3 DEF Alone, StoppedHasRow, Corrupt, AfterCut
  <2>5. Life!Stop
    BY <1>7, <2>1, <2>2 DEF Life!Stop
  <2> QED BY <2>4, <2>5 DEF Life!Next
<1>8. ASSUME NEW r \in Runners, Start(r) \/ Lease(r) \/ Select(r) \/ Guard(r)
      PROVE  Done
  <2>1. authority = "active" => plan.state # "committed"
    BY <1>1 DEF Alone
  <2>2. CASE Start(r)
    BY <1>4, <1>5, <2>2 DEF Start, AfterCut
  <2>3. CASE Lease(r)
    BY <1>1, <1>4, <1>5, <2>3 DEF Lease, Alone, AfterCut
  <2>4. CASE Select(r)
    BY <1>3, <1>4, <1>5, <2>1, <2>4 DEF Select, AfterCut
  <2>5. CASE Guard(r)
    BY <1>1, <1>4, <1>5, <2>5 DEF Guard, Alone, AfterCut
  <2> QED BY <1>8, <2>2, <2>3, <2>4, <2>5
\* A candidate refused: no plan, and a row of its own.
<1>9. ASSUME NEW r \in Runners, plan.state = "none", row' = TRUE,
             UNCHANGED <<source, plan, authority, spent>>, \A s \in Runners : pc'[s] = "idle"
      PROVE  Done
  BY <1>1, <1>9 DEF Alone, StoppedHasRow, Life!vars, AfterCut
<1>10. ASSUME NEW r \in Runners, Examine(r) \/ Validate(r) PROVE Done
  <2>1. plan.state = "none" /\ ~row
    BY <1>1, <1>10 DEF Alone, Examine, Validate
  <2>2. CASE Examine(r)
    BY <1>4, <1>5, <1>9, <2>1, <2>2 DEF Examine, AfterCut
  <2>3. CASE Validate(r)
    BY <1>4, <1>5, <1>9, <2>1, <2>3 DEF Validate, Refuse, AfterCut
  <2> QED BY <1>10, <2>2, <2>3
<1>11. ASSUME NEW r \in Runners, Begin(r) PROVE Done
  <2>1. plan.state = "none" /\ ~row
    BY <1>1, <1>11 DEF Alone, Begin
  <2>2. /\ plan' = [state |-> "pending", before |-> seen[r]] /\ Goto(r, "read")
        /\ UNCHANGED <<source, authority, row, spent>>
    BY <1>11, <2>1 DEF Begin
  <2>3. plan'.state = "pending" /\ \A s \in Runners : pc'[s] = "read"
    BY <1>4, <2>2
  <2>4. Alone' /\ StoppedHasRow'
    BY <1>1, <2>1, <2>2, <2>3 DEF Alone, StoppedHasRow, Corrupt
  <2>5. Life!Prepare
    BY <2>1, <2>2, <2>3 DEF Life!Prepare
  <2> QED BY <2>4, <2>5 DEF Life!Next
<1>12. ASSUME NEW r \in Runners,
              Read(r) \/ Compare(r) \/ Recheck(r) \/ Load(r) \/ Reflect(r) \/ Save(r)
       PROVE  Done
  <2>1. plan.state = "pending"
    BY <1>1, <1>12 DEF Alone, Read, Compare, Recheck, Load, Reflect, Save, AfterCut
  <2>2. CASE Retain(r) \/ Mark(r)
    BY <1>6, <1>7, <1>12, <2>1, <2>2 DEF Read, Compare, Recheck, Load, Reflect, Save
  <2>3. CASE ~(Retain(r) \/ Mark(r))
    <3>1. UNCHANGED <<source, plan, authority, row, spent>>
      BY <1>12, <2>3 DEF Read, Compare, Recheck, Load, Reflect, Save
    <3>2. \E place \in AfterCut \cup {"compare", "replace"} : Goto(r, place)
      BY <1>12, <2>3 DEF Read, Compare, Recheck, Load, Reflect, Save, AfterCut
    <3> QED BY <1>4, <1>5, <2>1, <3>1, <3>2 DEF AfterCut
  <2> QED BY <2>2, <2>3
<1>13. ASSUME NEW r \in Runners, Replace(r) PROVE Done
  <2>1. plan.state = "pending"
    BY <1>1, <1>13 DEF Alone, Replace
  <2>2. ~HelperIn(source') /\ UNCHANGED <<plan, authority, row, spent>> /\ Goto(r, "confirm")
    BY <1>2, <1>13, CutText DEF Replace
  <2>3. \A s \in Runners : pc'[s] = "confirm"
    BY <1>4, <2>2
  <2>4. Alone' /\ StoppedHasRow'
    BY <1>1, <2>1, <2>2, <2>3 DEF Alone, StoppedHasRow, AfterCut
  <2>5. Life!Remove
    BY <2>1, <2>2 DEF Life!Remove, HelperIn
  <2> QED BY <2>4, <2>5 DEF Life!Next
<1>14. ASSUME NEW r \in Runners, Commit(r) PROVE Done
  <2>1. plan.state = "pending"
    BY <1>1, <1>14 DEF Alone, Commit, AfterCut
  <2>2. authority = "active"
    BY <1>1, <2>1 DEF Alone, TypeOK
  <2>3. /\ plan' = [plan EXCEPT !.state = "committed"] /\ authority' = "consumed"
        /\ Leave(r, AfterJob(r)) /\ UNCHANGED <<source, row, spent>>
    BY <1>14, <2>1, <2>2 DEF Commit
  <2>4. plan'.state = "committed" /\ AfterJob(r) \in {"idle", "select"}
        /\ \A s \in Runners : pc'[s] = AfterJob(r)
    BY <1>2, <1>4, <2>3 DEF AfterJob
  <2>5. Alone' /\ StoppedHasRow'
    BY <1>1, <2>1, <2>3, <2>4 DEF Alone, StoppedHasRow, Corrupt, AfterCut
  <2>6. Life!Commit
    BY <2>1, <2>2, <2>3, <2>4 DEF Life!Commit
  <2> QED BY <2>5, <2>6 DEF Life!Next
<1>15. ASSUME NEW r \in Runners, Crash(r) PROVE Done
  <2>1. /\ UNCHANGED <<source, plan, authority, row>> /\ spent' = [spent EXCEPT !.crash = @ + 1]
        /\ Leave(r, "idle")
    BY <1>15 DEF Crash
  <2>2. spent'.user = spent.user /\ \A s \in Runners : pc'[s] = "idle"
    BY <1>1, <1>4, <2>1 DEF TypeOK
  <2> QED BY <1>5, <2>1, <2>2 DEF AfterCut
<1>16. ASSUME UserEdit PROVE Done
  <2>1. /\ spent' = [spent EXCEPT !.user = @ + 1] /\ UNCHANGED <<plan, authority, row, pc>>
    BY <1>16 DEF UserEdit
  <2>2. spent'.user = spent.user + 1
    BY <1>1, <2>1 DEF TypeOK
  <2>3. Life!Edit
    BY <2>1, <2>2 DEF Life!Edit, HelperIn
  <2> QED BY <1>1, <2>1, <2>3 DEF Alone, StoppedHasRow, Life!Next
<1>17. ASSUME GraphEdit PROVE Done
  <2>1. /\ spent' = [spent EXCEPT !.graph = @ + 1]
        /\ UNCHANGED <<source, plan, authority, row, pc>>
    BY <1>17 DEF GraphEdit
  <2>2. spent'.user = spent.user
    BY <1>1, <2>1 DEF TypeOK
  <2> QED BY <1>1, <2>1, <2>2 DEF Alone, StoppedHasRow, Life!vars
<1>18. ASSUME AuthorizeRetry PROVE Done
  <2>1. /\ row /\ ~row' /\ spent' = [spent EXCEPT !.retry = @ + 1]
        /\ UNCHANGED <<source, authority, pc>>
    BY <1>18 DEF AuthorizeRetry
  <2>2. spent'.user = spent.user
    BY <1>1, <2>1 DEF TypeOK
  <2>3. plan.state # "pending"
    BY <1>1, <2>1 DEF StoppedHasRow
  <2>4. CASE plan.state = "quarantined"
    <3>1. plan' = [plan EXCEPT !.state = "pending"]
      BY <1>18, <2>4 DEF AuthorizeRetry
    <3>2. plan'.state = "pending"
      BY <1>2, <3>1
    <3>3. Alone' /\ StoppedHasRow'
      BY <1>1, <2>1, <2>4, <3>2 DEF Alone, StoppedHasRow, Corrupt
    <3>4. Life!Authorize
      BY <2>1, <2>2, <2>4, <3>2 DEF Life!Authorize
    <3> QED BY <3>3, <3>4 DEF Life!Next
  <2>5. CASE plan.state # "quarantined"
    <3>1. plan' = plan
      BY <1>18, <2>5 DEF AuthorizeRetry
    <3> QED BY <1>1, <2>1, <2>2, <2>3, <2>5, <3>1 DEF Alone, StoppedHasRow, Life!vars
  <2> QED BY <2>4, <2>5
<1>19. ASSUME UNCHANGED vars PROVE Done
  BY <1>1, <1>19 DEF vars, Alone, StoppedHasRow, Life!vars
<1> HIDE DEF Done
<1>20. ASSUME NEW r \in Runners, Run(r) PROVE Done
  BY <1>8, <1>10, <1>11, <1>12, <1>13, <1>14, <1>20 DEF Run
<1>21. Done
  BY <1>15, <1>16, <1>17, <1>18, <1>19, <1>20 DEF Next
<1> QED BY <1>21 DEF Done

LEMMA AloneInvariant ==
  ASSUME OneRunner
  PROVE  Spec => [](IInv /\ AInv)
<1>1. Init => AInv
  <2> SUFFICES ASSUME Init PROVE AInv
    OBVIOUS
  <2>1. plan.state = "none" /\ authority = "active" /\ \A r \in Runners : pc[r] = "idle"
    BY DEF Init
  <2>2. CutSeen /\ Alone /\ StoppedHasRow
    BY <2>1 DEF CutSeen, Alone, StoppedHasRow, Corrupt, AfterCut
  <2> QED BY <2>2, InitType DEF AInv
<1>2. IInv /\ AInv /\ [Next]_vars => AInv'
  <2> SUFFICES ASSUME IInv, AInv, [Next]_vars PROVE AInv'
    OBVIOUS
  <2>1. Data' /\ Locks'
    BY DataStep, LocksStep DEF AInv
  <2>2. CutSeen' /\ Alone' /\ StoppedHasRow'
    BY CutSeenStep, AloneStep
  <2> QED BY <2>1, <2>2 DEF AInv, TypeOK, Data, Locks
<1> QED BY <1>1, <1>2, Invariant, PTL DEF Spec

\* With one runner a stopped plan always has the row by which a person can
\* authorise a retry, and a pending one never has it.
THEOREM StoppedPlansHaveRows ==
  ASSUME OneRunner
  PROVE  Spec => []StoppedHasRow
<1>1. IInv /\ AInv => StoppedHasRow
  BY DEF AInv
<1> QED BY <1>1, AloneInvariant, PTL

\* With one runner the replayed, crashed and interrupted cleanup is the simple
\* life cycle of CleanupLife: no cut without a durable plan, no commit twice.
THEOREM Implements ==
  ASSUME OneRunner
  PROVE  Spec => ImplementsCleanupLife
<1>1. Init => Life!Init
  BY FC_Assumption DEF Init, Life!Init, HelperIn
<1>2. IInv /\ AInv /\ [Next]_vars => [Life!Next]_(Life!vars)
  BY AloneStep
<1> QED BY <1>1, <1>2, AloneInvariant, PTL DEF Spec, ImplementsCleanupLife, Life!Spec
=============================================================================
