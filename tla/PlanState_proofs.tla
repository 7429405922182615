-------------------------- MODULE PlanState_proofs --------------------------
(* Proofs about PlanState, for any nodes, any order in which files list    *)
(* them and any writers: the types, what a synchronization commits, and    *)
(* that all writers together implement NodeLife.  The synchronization goes *)
(* over the nodes one by one; what holds after each of them is shown by    *)
(* induction over their number, once and for both passes.                  *)
EXTENDS PlanState, WellFoundedInduction, TLAPS

-----------------------------------------------------------------------------
(* Passes over a list *)

\* An inhabited set of numbers has a least element.
LEMMA LeastElement ==
  ASSUME NEW T, T \subseteq Nat, T # {}
  PROVE  \E x \in T : \A y \in T : ~(y < x)
<1> DEFINE Less == {p \in Nat \X Nat : p[1] < p[2]}
<1>1. OpToRel(<, Nat) = Less
  BY DEF OpToRel
<1>2. IsWellFoundedOn(Less, Nat)
  BY <1>1, NatLessThanWellFounded
<1> HIDE DEF Less
<1>3. \E x \in T : \A y \in T : ~(<<y, x>> \in Less)
  BY <1>2, WFMin
<1> QED BY <1>3 DEF Less

\* Induction up to N, for the elements of a set.
LEMMA SetInduction ==
  ASSUME NEW N \in Nat, NEW T, 0 \in T, \A i \in 0..N-1 : i \in T => i+1 \in T
  PROVE  N \in T
<1> DEFINE Bad == {i \in 0..N : i \notin T}
<1> SUFFICES ASSUME Bad # {} PROVE FALSE
  OBVIOUS
<1>1. Bad \subseteq Nat
  OBVIOUS
<1>2. PICK x \in Bad : \A y \in Bad : ~(y < x)
  <2> HIDE DEF Bad
  <2> QED BY <1>1, LeastElement
<1>3. x # 0 /\ x \in 0..N
  OBVIOUS
<1>4. x-1 \in 0..N-1 /\ x-1 \in T
  BY <1>2, <1>3
<1> QED BY <1>2, <1>4

\* f[i] is what the first i steps make of a.
Iterates(f, S, a, n, step) ==
  /\ f \in [0..n -> S]
  /\ f[0] = a
  /\ \A i \in 1..n : f[i] = step[i][f[i-1]]

\* A pass has a result after each of its steps.
LEMMA IteratesExist ==
  ASSUME NEW S, NEW a \in S, NEW N \in Nat, NEW step \in [1..N -> [S -> S]]
  PROVE  \E f : Iterates(f, S, a, N, step)
<1> DEFINE T == {n \in 0..N : \E f : Iterates(f, S, a, n, step)}
<1>1. 0 \in T
  <2>1. Iterates([i \in 0..0 |-> a], S, a, 0, step)
    BY DEF Iterates
  <2>2. \E f : Iterates(f, S, a, 0, step)
    BY <2>1
  <2> QED BY <2>2
<1>2. ASSUME NEW n \in 0..N-1, n \in T PROVE n+1 \in T
  <2>1. PICK f : Iterates(f, S, a, n, step)
    BY <1>2
  <2> DEFINE v == step[n+1][f[n]]
             g == [i \in 0..n+1 |-> IF i = n+1 THEN v ELSE f[i]]
  <2>2. v \in S
    <3>1. n+1 \in 1..N /\ n \in 0..n
      OBVIOUS
    <3>2. f[n] \in S
      BY <2>1, <3>1 DEF Iterates
    <3>3. step[n+1] \in [S -> S]
      BY <3>1
    <3> QED BY <3>2, <3>3
  <2>3. g \in [0..n+1 -> S]
    <3> HIDE DEF v
    <3> QED BY <2>1, <2>2 DEF Iterates
  <2>4. ASSUME NEW i \in 1..n+1 PROVE g[i] = step[i][g[i-1]]
    <3>1. i - 1 \in 0..n
      OBVIOUS
    <3>2. g[i-1] = f[i-1]
      <4> HIDE DEF v
      <4> QED BY <3>1
    <3>3. CASE i = n+1
      BY <3>2, <3>3
    <3>4. CASE i # n+1
      <4>1. i \in 1..n
        BY <3>4
      <4>2. g[i] = f[i]
        BY <3>4
      <4> QED BY <2>1, <3>2, <4>1, <4>2 DEF Iterates
    <3> QED BY <3>3, <3>4
  <2>5. g[0] = a
    <3> HIDE DEF v
    <3> QED BY <2>1 DEF Iterates
  <2> HIDE DEF g
  <2>6. Iterates(g, S, a, n+1, step)
    BY <2>3, <2>4, <2>5 DEF Iterates
  <2>7. n+1 \in 0..N
    OBVIOUS
  <2> QED BY <2>6, <2>7
<1> HIDE DEF T
<1>3. N \in T
  BY <1>1, <1>2, SetInduction
<1> QED BY <1>3 DEF T

\* What holds at first and is kept by every step holds after the last.
LEMMA PassKeeps ==
  ASSUME NEW Kept, NEW N \in Nat, NEW f, f[0] \in Kept,
         \A i \in 1..N : f[i-1] \in Kept => f[i] \in Kept
  PROVE  f[N] \in Kept
<1> DEFINE T == {i \in 0..N : f[i] \in Kept}
<1>1. 0 \in T
  OBVIOUS
<1>2. ASSUME NEW i \in 0..N-1, i \in T PROVE i+1 \in T
  <2>1. i+1 \in 1..N /\ i+1 \in 0..N /\ (i+1)-1 = i
    OBVIOUS
  <2>2. f[(i+1)-1] \in Kept => f[i+1] \in Kept
    BY <2>1
  <2> QED BY <1>2, <2>1, <2>2
<1> HIDE DEF T
<1>3. N \in T
  BY <1>1, <1>2, SetInduction
<1> QED BY <1>3 DEF T

-----------------------------------------------------------------------------
(* What a pass may do to a graph *)

Worked == {"conjectured", "stated", "audited", "proving", "blocked"}

\* A synchronization keeps a status or puts the node to work or proves it,
\* and it leaves a refutation alone.
Advances(g, h) ==
  /\ h.depends = g.depends
  /\ \A n \in Nodes : \/ h.status[n] = g.status[n]
                      \/ g.status[n] # "false" /\ h.status[n] \in Worked \cup {"proved"}

\* What is recorded as proved was seen clean and rests on nothing bad, or was
\* among the proofs P before, and its file could not be read.
Grounded(g, t, P) ==
  \A n \in Nodes : g.status[n] = "proved" =>
    \/ t[n] = "clean" /\ ~HasInvalidDependency(g, n)
    \/ t[n] = "unread" /\ n \in P

\* Advances composes.
LEMMA AdvancesOn ==
  ASSUME NEW g, NEW h, NEW k, Advances(g, h), Advances(h, k)
  PROVE  Advances(g, k)
  BY DEF Advances, Worked

\* No pass makes a dependency bad.
LEMMA BadShrinks ==
  ASSUME NEW g, NEW h, Advances(g, h), NEW n \in Nodes, HasInvalidDependency(h, n)
  PROVE  HasInvalidDependency(g, n)
<1> SUFFICES ASSUME NEW S \in SUBSET Nodes,
                    \A e \in g.depends : e[1] \in S \cup {n} => e[2] \in S
             PROVE  \E m \in S : g.status[m] \in {"false", "parked"}
  BY DEF HasInvalidDependency
<1>1. h.depends = g.depends
  BY DEF Advances
<1>2. PICK m \in S : h.status[m] \in {"false", "parked"}
  BY <1>1 DEF HasInvalidDependency
<1>3. g.status[m] = h.status[m]
  BY <1>2 DEF Advances, Worked
<1> QED BY <1>2, <1>3

\* So a pass that proves only what is grounded keeps a graph grounded.
LEMMA GroundedOn ==
  ASSUME NEW g, NEW h, NEW t, NEW P, Advances(g, h), Grounded(g, t, P),
         \A n \in Nodes : h.status[n] = "proved" =>
           \/ g.status[n] = "proved"
           \/ t[n] = "clean" /\ ~HasInvalidDependency(g, n)
  PROVE  Grounded(h, t, P)
  BY BadShrinks DEF Grounded

\* One status changes.
LEMMA SetStatusAdvances ==
  ASSUME NEW g \in Graphs, NEW n \in Nodes, NEW s \in Worked \cup {"proved"},
         g.status[n] # "false"
  PROVE  /\ SetStatus(g, n, s) \in Graphs
         /\ Advances(g, SetStatus(g, n, s))
         /\ SetStatus(g, n, s).status = [g.status EXCEPT ![n] = s]
  BY DEF SetStatus, Graphs, Statuses, Open, Advances, Worked

\* Many statuses change, and nothing else.
LEMMA MapAdvances ==
  ASSUME NEW g \in Graphs, NEW st \in [Nodes -> Statuses \cup {"none"}],
         \A n \in Nodes : \/ st[n] = g.status[n]
                          \/ g.status[n] # "false" /\ st[n] \in Worked \cup {"proved"}
  PROVE  /\ [g EXCEPT !.status = st] \in Graphs
         /\ Advances(g, [g EXCEPT !.status = st])
         /\ [g EXCEPT !.status = st].status = st
  BY DEF Graphs, Advances

\* A note or a dependency changes no status.
LEMMA NoteKeeps ==
  ASSUME NEW g \in Graphs, NEW n \in Nodes, NEW v \in {"audited", "suspect"}
  PROVE  /\ [g EXCEPT !.note[n] = v] \in Graphs
         /\ [g EXCEPT !.note[n] = v].status = g.status
         /\ [g EXCEPT !.note[n] = v].depends = g.depends
  BY DEF Graphs

LEMMA DependsKeeps ==
  ASSUME NEW g \in Graphs, NEW e \in Nodes \X Nodes
  PROVE  /\ [g EXCEPT !.depends = @ \cup {e}] \in Graphs
         /\ [g EXCEPT !.depends = @ \cup {e}].status = g.status
  BY DEF Graphs

\* A graph advances to itself.
LEMMA AdvancesSelf ==
  ASSUME NEW g
  PROVE  Advances(g, g)
  BY DEF Advances

-----------------------------------------------------------------------------
(* The passes *)

\* reconcile takes proofs back and grounds the graph.
LEMMA ReconcileGrounds ==
  ASSUME NEW g \in Graphs, NEW t \in Truths
  PROVE  /\ Reconcile(g, t) \in Graphs
         /\ Advances(g, Reconcile(g, t))
         /\ Grounded(Reconcile(g, t), t, Proved(g))
<1> DEFINE st == [n \in Nodes |-> Reconciled(g, t, n)]
<1>1. ASSUME NEW n \in Nodes
      PROVE  /\ Reconciled(g, t, n) \in Statuses \cup {"none"}
             /\ \/ Reconciled(g, t, n) = g.status[n]
                \/ g.status[n] # "false" /\ Reconciled(g, t, n) \in Worked
             /\ Reconciled(g, t, n) = "proved" =>
                  \/ t[n] = "clean" /\ ~HasInvalidDependency(g, n)
                  \/ t[n] = "unread" /\ n \in Proved(g)
  BY DEF Reconciled, Graphs, Statuses, Open, Worked, Proved
<1>2. st \in [Nodes -> Statuses \cup {"none"}]
  BY <1>1
<1>3. \A n \in Nodes : \/ st[n] = g.status[n]
                       \/ g.status[n] # "false" /\ st[n] \in Worked \cup {"proved"}
  BY <1>1
<1>4. Reconcile(g, t) = [g EXCEPT !.status = st]
  BY DEF Reconcile
<1>5. \A n \in Nodes : st[n] = "proved" =>
        \/ t[n] = "clean" /\ ~HasInvalidDependency(g, n)
        \/ t[n] = "unread" /\ n \in Proved(g)
  BY <1>1
<1> HIDE DEF st
<1>6. /\ Reconcile(g, t) \in Graphs /\ Advances(g, Reconcile(g, t))
      /\ Reconcile(g, t).status = st
  BY <1>2, <1>3, <1>4, MapAdvances
<1> QED BY <1>5, <1>6, BadShrinks DEF Grounded

\* The graphs that a pass over g may have reached.
Reached(g, t, P) == {h \in Graphs : Advances(g, h) /\ Grounded(h, t, P)}

\* A reopened park advances, and proves nothing.
LEMMA ReopenedKeeps ==
  ASSUME NEW h \in Graphs, NEW t, NEW n \in Nodes, NEW P
  PROVE  /\ Reopened(h, t, n) \in Graphs
         /\ Advances(h, Reopened(h, t, n))
         /\ Grounded(h, t, P) => Grounded(Reopened(h, t, n), t, P)
<1> DEFINE k == SetStatus(h, n, "audited")
           r == [k EXCEPT !.note[n] = "audited"]
<1>1. CASE Reopened(h, t, n) = h
  BY <1>1, AdvancesSelf
<1>2. CASE Reopened(h, t, n) # h
  <2>1. Reopened(h, t, n) = r /\ h.status[n] = "parked"
    BY <1>2 DEF Reopened
  <2>2. k \in Graphs /\ Advances(h, k) /\ k.status = [h.status EXCEPT ![n] = "audited"]
    <3>1. "audited" \in Worked \cup {"proved"} /\ h.status[n] # "false"
      BY <2>1 DEF Worked
    <3> QED BY <3>1, SetStatusAdvances
  <2> HIDE DEF k
  <2>3. r \in Graphs /\ r.status = k.status /\ r.depends = k.depends
    BY <2>2 DEF Graphs
  <2> HIDE DEF r
  <2>4. Advances(h, r)
    BY <2>2, <2>3 DEF Advances
  <2>5. \A m \in Nodes : r.status[m] = "proved" => h.status[m] = "proved"
    BY <2>2, <2>3 DEF Graphs
  <2>6. Grounded(h, t, P) => Grounded(r, t, P)
    BY <2>4, <2>5, GroundedOn
  <2> QED BY <2>1, <2>3, <2>4, <2>6
<1> QED BY <1>1, <1>2

\* So does the pass that reopens parks.
LEMMA ReopenKeeps ==
  ASSUME NEW g \in Graphs, NEW t, NEW P, Grounded(g, t, P)
  PROVE  ReopenFidelityParks(g, t) \in Reached(g, t, P)
<1> DEFINE N == Len(Order)
           step == [i \in 1..N |-> [x \in Graphs |-> Reopened(x, t, Order[i])]]
           R(f) == f = [i \in 0..N |-> IF i = 0 THEN g ELSE Reopened(f[i-1], t, Order[i])]
           c == CHOOSE f : R(f)
<1>1. N \in Nat /\ \A i \in 1..N : Order[i] \in Nodes
  BY NodeAssumption
<1>2. step \in [1..N -> [Graphs -> Graphs]]
  BY <1>1, ReopenedKeeps
<1>3. PICK f : Iterates(f, Graphs, g, N, step)
  <2> HIDE DEF step, N
  <2> QED BY <1>1, <1>2, IteratesExist
<1>4. R(f)
  <2>1. ASSUME NEW i \in 1..N PROVE f[i] = Reopened(f[i-1], t, Order[i])
    <3>1. i-1 \in 0..N
      BY <1>1
    <3>2. f[i-1] \in Graphs /\ f[i] = step[i][f[i-1]]
      BY <1>3, <3>1 DEF Iterates
    <3> QED BY <3>2
  <2>2. f = [i \in 0..N |-> f[i]] /\ f[0] = g
    BY <1>3 DEF Iterates
  <2>3. \A i \in 0..N : f[i] = IF i = 0 THEN g ELSE Reopened(f[i-1], t, Order[i])
    <3>1. \A i \in 0..N : i = 0 \/ i \in 1..N
      BY <1>1
    <3> HIDE DEF N
    <3> QED BY <2>1, <2>2, <3>1
  <2> HIDE DEF N
  <2> QED BY <2>2, <2>3
<1>5. R(c)
  <2> HIDE DEF R
  <2> QED BY <1>4
<1>6. c[0] = g /\ \A i \in 1..N : c[i] = Reopened(c[i-1], t, Order[i])
  <2> HIDE DEF c
  <2>1. \A i \in 0..N : c[i] = IF i = 0 THEN g ELSE Reopened(c[i-1], t, Order[i])
    BY <1>5
  <2> QED BY <1>1, <2>1
<1>7. g \in Reached(g, t, P)
  BY AdvancesSelf DEF Reached
<1> HIDE DEF c
<1>8. ASSUME NEW i \in 1..N, c[i-1] \in Reached(g, t, P) PROVE c[i] \in Reached(g, t, P)
  <2>1. c[i-1] \in Graphs /\ Advances(g, c[i-1]) /\ Grounded(c[i-1], t, P)
    BY <1>8 DEF Reached
  <2>2. Order[i] \in Nodes /\ c[i] = Reopened(c[i-1], t, Order[i])
    BY <1>1, <1>6
  <2>3. c[i] \in Graphs /\ Advances(c[i-1], c[i]) /\ Grounded(c[i], t, P)
    BY <2>1, <2>2, ReopenedKeeps
  <2> QED BY <2>1, <2>3, AdvancesOn DEF Reached
<1>9. c[N] \in Reached(g, t, P)
  <2> HIDE DEF N
  <2> QED BY <1>1, <1>6, <1>7, <1>8, PassKeeps
<1>10. ReopenFidelityParks(g, t) = c[N]
  BY DEF ReopenFidelityParks, c
<1> QED BY <1>9, <1>10

\* Revoking a gate takes a proof back.
LEMMA RevokeKeeps ==
  ASSUME NEW g \in Graphs, NEW n \in Nodes
  PROVE  /\ RevokeGateAcceptance(g, n) \in Graphs
         /\ Advances(g, RevokeGateAcceptance(g, n))
         /\ \A m \in Nodes : RevokeGateAcceptance(g, n).status[m] = "proved" => g.status[m] = "proved"
<1> DEFINE s == Restored(g, n)
<1>1. s \in Worked \cup {"proved"} /\ s # "proved"
  BY DEF Restored, Worked
<1>2. CASE g.status[n] = "proved"
  <2> HIDE DEF s
  <2>1. RevokeGateAcceptance(g, n) = SetStatus(g, n, s)
    BY <1>2 DEF RevokeGateAcceptance, s
  <2>2. g.status[n] # "false" /\ g.status \in [Nodes -> Statuses \cup {"none"}]
    BY <1>2 DEF Graphs
  <2>3. /\ SetStatus(g, n, s) \in Graphs /\ Advances(g, SetStatus(g, n, s))
        /\ SetStatus(g, n, s).status = [g.status EXCEPT ![n] = s]
    BY <1>1, <2>2, SetStatusAdvances
  <2> QED BY <1>1, <2>1, <2>2, <2>3
<1>3. CASE g.status[n] # "proved"
  BY <1>3, AdvancesSelf DEF RevokeGateAcceptance
<1> QED BY <1>2, <1>3

\* Following an outcome proves at most its node, for a solved one on clean text.
LEMMA FollowedKeeps ==
  ASSUME NEW g \in Graphs, NEW t, NEW n \in Nodes, NEW o \in Outcomes
  PROVE  /\ Followed(g, t, n, o) \in Graphs
         /\ Advances(g, Followed(g, t, n, o))
         /\ \A m \in Nodes : Followed(g, t, n, o).status[m] = "proved" =>
              \/ g.status[m] = "proved"
              \/ m = n /\ o = "solved" /\ t[n] = "clean"
<1> DEFINE h == Followed(g, t, n, o)
<1>1. \/ h = g
      \/ /\ g.status[n] # "false"
         /\ \E s \in Worked \cup {"proved"} :
              /\ h = SetStatus(g, n, s)
              /\ s = "proved" => o = "solved" /\ t[n] = "clean"
  <2>1. "proved" \in Worked \cup {"proved"} /\ "blocked" \in Worked \cup {"proved"}
        /\ "stated" \in Worked \cup {"proved"} /\ "conjectured" \in Worked \cup {"proved"}
    BY DEF Worked
  <2>2. \A s \in Open \cup {"proving", "blocked"} : s # "false"
    BY DEF Open
  <2>3. CASE o = "solved" /\ g.status[n] \in Open /\ t[n] = "clean"
    <3>1. h = SetStatus(g, n, "proved")
      BY <2>3 DEF Followed
    <3> QED BY <2>1, <2>2, <2>3, <3>1
  <2>4. CASE ~(o = "solved" /\ g.status[n] \in Open /\ t[n] = "clean") /\ h # g
    <3>1. /\ g.status[n] \in Open \cup {"proving", "blocked"}
          /\ \/ h = SetStatus(g, n, "blocked")
             \/ h = SetStatus(g, n, "stated")
             \/ h = SetStatus(g, n, "conjectured")
      BY <2>4 DEF Followed
    <3> HIDE DEF h
    <3> QED BY <2>1, <2>2, <3>1
  <2> QED BY <2>3, <2>4
<1> HIDE DEF h
<1>2. CASE h = g
  BY <1>2, AdvancesSelf DEF h
<1>3. ASSUME g.status[n] # "false", NEW s \in Worked \cup {"proved"}, h = SetStatus(g, n, s),
             s = "proved" => o = "solved" /\ t[n] = "clean"
      PROVE  /\ h \in Graphs /\ Advances(g, h)
             /\ \A m \in Nodes : h.status[m] = "proved" =>
                  \/ g.status[m] = "proved"
                  \/ m = n /\ o = "solved" /\ t[n] = "clean"
  <2>1. h \in Graphs /\ Advances(g, h) /\ h.status = [g.status EXCEPT ![n] = s]
    BY <1>3, SetStatusAdvances
  <2>2. g.status \in [Nodes -> Statuses \cup {"none"}]
    BY DEF Graphs
  <2> QED BY <1>3, <2>1, <2>2
<1>4. /\ h \in Graphs /\ Advances(g, h)
      /\ \A m \in Nodes : h.status[m] = "proved" =>
           \/ g.status[m] = "proved"
           \/ m = n /\ o = "solved" /\ t[n] = "clean"
  BY <1>1, <1>2, <1>3, AdvancesSelf
<1> QED BY <1>4 DEF h

\* What the synchronization has made of the graph and of the outcomes.
Results == [g : Graphs, out : [Nodes -> Outcomes]]

\* One outcome advances the graph, and leaves it grounded.
LEMMA FollowOutcomeKeeps ==
  ASSUME NEW r \in Results, NEW t, NEW n \in Nodes, NEW current, NEW live, NEW P
  PROVE  LET q == FollowOutcome(r, t, n, current, live)
         IN  /\ q \in Results
             /\ Advances(r.g, q.g)
             /\ Grounded(r.g, t, P) => Grounded(q.g, t, P)
<1> DEFINE q == FollowOutcome(r, t, n, current, live)
           o == r.out[n]
           bad == HasInvalidDependency(r.g, n)
           now == IF o \in {"solved", "rejected"} /\ bad THEN "retired"
                  ELSE IF o = "rejected" THEN "unverified" ELSE o
           revoked == ((o = "rejected" /\ ~bad) \/ o = "unverified") /\ n # live
           g == IF revoked THEN RevokeGateAcceptance(r.g, n) ELSE r.g
           h == IF n = current THEN g ELSE Followed(g, t, n, now)
<1>1. r.g \in Graphs /\ r.out \in [Nodes -> Outcomes]
  BY DEF Results
<1>2. q = [g |-> h, out |-> [r.out EXCEPT ![n] = now]]
  BY DEF FollowOutcome
<1>3. now \in Outcomes /\ (now = "solved" => ~bad)
  BY <1>1 DEF Outcomes
<1> HIDE DEF q, now, bad, revoked
<1>4. /\ g \in Graphs /\ Advances(r.g, g)
      /\ \A m \in Nodes : g.status[m] = "proved" => r.g.status[m] = "proved"
  BY <1>1, RevokeKeeps, AdvancesSelf
<1> HIDE DEF g
<1>5. /\ h \in Graphs /\ Advances(g, h)
      /\ \A m \in Nodes : h.status[m] = "proved" =>
           g.status[m] = "proved" \/ (m = n /\ now = "solved" /\ t[n] = "clean")
  <2>1. CASE n = current
    BY <1>4, <2>1, AdvancesSelf
  <2>2. CASE n # current
    <3>1. h = Followed(g, t, n, now)
      BY <2>2
    <3>2. LET k == Followed(g, t, n, now)
          IN  /\ k \in Graphs /\ Advances(g, k)
              /\ \A m \in Nodes : k.status[m] = "proved" =>
                   g.status[m] = "proved" \/ (m = n /\ now = "solved" /\ t[n] = "clean")
      BY <1>3, <1>4, FollowedKeeps
    <3> HIDE DEF h
    <3> QED BY <3>1, <3>2
  <2> QED BY <2>1, <2>2
<1> HIDE DEF h
<1>6. Advances(r.g, h)
  BY <1>4, <1>5, AdvancesOn
<1>7. Grounded(r.g, t, P) => Grounded(h, t, P)
  BY <1>3, <1>4, <1>5, <1>6, GroundedOn DEF bad
<1>8. q.g = h /\ q \in Results
  BY <1>1, <1>2, <1>3, <1>5 DEF Results
<1>9. q \in Results /\ Advances(r.g, q.g) /\ (Grounded(r.g, t, P) => Grounded(q.g, t, P))
  BY <1>6, <1>7, <1>8
<1> QED BY <1>9 DEF q

\* And so do all of them, one after the other.
LEMMA FollowKeeps ==
  ASSUME NEW r \in Results, NEW t, NEW P, Grounded(r.g, t, P), NEW current, NEW live
  PROVE  /\ FollowOutcomes(r, t, current, live) \in Results
         /\ FollowOutcomes(r, t, current, live).g \in Reached(r.g, t, P)
<1> DEFINE N == Len(Order)
           F(x, i) == FollowOutcome(x, t, Order[i], current, live)
           step == [i \in 1..N |-> [x \in Results |-> F(x, i)]]
           R(f) == f = [i \in 0..N |-> IF i = 0 THEN r ELSE F(f[i-1], i)]
           c == CHOOSE f : R(f)
           Kept == {x \in Results : x.g \in Reached(r.g, t, P)}
<1>1. N \in Nat /\ \A i \in 1..N : Order[i] \in Nodes
  BY NodeAssumption
<1>2. step \in [1..N -> [Results -> Results]]
  <2>1. \A i \in 1..N : \A x \in Results : F(x, i) \in Results
    BY <1>1, FollowOutcomeKeeps
  <2> HIDE DEF F
  <2> QED BY <2>1
<1>3. PICK f : Iterates(f, Results, r, N, step)
  <2> HIDE DEF step, N
  <2> QED BY <1>1, <1>2, IteratesExist
<1>4. R(f)
  <2> HIDE DEF F
  <2>1. ASSUME NEW i \in 1..N PROVE f[i] = F(f[i-1], i)
    <3>1. i-1 \in 0..N
      BY <1>1
    <3>2. f[i-1] \in Results /\ f[i] = step[i][f[i-1]]
      BY <1>3, <3>1 DEF Iterates
    <3> QED BY <3>2
  <2>2. f = [i \in 0..N |-> f[i]] /\ f[0] = r
    BY <1>3 DEF Iterates
  <2>3. \A i \in 0..N : f[i] = IF i = 0 THEN r ELSE F(f[i-1], i)
    BY <1>1, <2>1, <2>2
  <2> HIDE DEF N
  <2> QED BY <2>2, <2>3
<1>5. R(c)
  <2> HIDE DEF R
  <2> QED BY <1>4
<1>6. c[0] = r /\ \A i \in 1..N : c[i] = F(c[i-1], i)
  <2> HIDE DEF c, F
  <2>1. \A i \in 0..N : c[i] = IF i = 0 THEN r ELSE F(c[i-1], i)
    BY <1>5
  <2> QED BY <1>1, <2>1
<1>7. r \in Kept
  BY AdvancesSelf DEF Reached, Results
<1> HIDE DEF c
<1>8. ASSUME NEW i \in 1..N, c[i-1] \in Kept PROVE c[i] \in Kept
  <2>1. /\ c[i-1] \in Results
        /\ Advances(r.g, c[i-1].g) /\ Grounded(c[i-1].g, t, P)
    BY <1>8 DEF Reached
  <2>2. Order[i] \in Nodes /\ c[i] = F(c[i-1], i)
    BY <1>1, <1>6
  <2>3. c[i] \in Results /\ Advances(c[i-1].g, c[i].g) /\ Grounded(c[i].g, t, P)
    BY <2>1, <2>2, FollowOutcomeKeeps
  <2>4. c[i].g \in Graphs /\ Advances(r.g, c[i].g)
    BY <2>1, <2>3, AdvancesOn DEF Results
  <2> QED BY <2>3, <2>4 DEF Reached
<1>9. c[N] \in Kept
  <2> HIDE DEF N, Kept
  <2> QED BY <1>1, <1>6, <1>7, <1>8, PassKeeps
<1>10. FollowOutcomes(r, t, current, live) = c[N]
  BY DEF FollowOutcomes, c
<1> QED BY <1>9, <1>10

\* What no assignment is on is put back.
LEMMA RetireKeeps ==
  ASSUME NEW g \in Graphs, NEW t, NEW active
  PROVE  /\ RetireInactiveProving(g, t, active) \in Graphs
         /\ Advances(g, RetireInactiveProving(g, t, active))
         /\ \A m \in Nodes : RetireInactiveProving(g, t, active).status[m] = "proved"
                               => g.status[m] = "proved"
<1> DEFINE st == [n \in Nodes |->
                    IF g.status[n] # "proving" \/ n = active THEN g.status[n]
                    ELSE IF t[n] = "absent" THEN "conjectured" ELSE Restored(g, n)]
<1>1. ASSUME NEW n \in Nodes
      PROVE  /\ st[n] \in Statuses \cup {"none"}
             /\ \/ st[n] = g.status[n]
                \/ g.status[n] # "false" /\ st[n] \in Worked
  BY DEF Graphs, Statuses, Open, Worked, Restored
<1>2. st \in [Nodes -> Statuses \cup {"none"}]
  BY <1>1
<1>3. RetireInactiveProving(g, t, active) = [g EXCEPT !.status = st]
  BY DEF RetireInactiveProving
<1> HIDE DEF st
<1>4. /\ [g EXCEPT !.status = st] \in Graphs /\ Advances(g, [g EXCEPT !.status = st])
      /\ [g EXCEPT !.status = st].status = st
  BY <1>1, <1>2, MapAdvances
<1>5. \A m \in Nodes : st[m] = "proved" => g.status[m] = "proved"
  BY <1>1 DEF Worked
<1> QED BY <1>3, <1>4, <1>5

\* The assignment is marked as being proved.
LEMMA UpsertKeeps ==
  ASSUME NEW g \in Graphs, NEW n \in Nodes
  PROVE  /\ UpsertNodeForAssignment(g, n) \in Graphs
         /\ Advances(g, UpsertNodeForAssignment(g, n))
         /\ \A m \in Nodes : UpsertNodeForAssignment(g, n).status[m] = "proved"
                               => g.status[m] = "proved"
<1>1. CASE g.status[n] \in {"proved", "false"}
  BY <1>1, AdvancesSelf DEF UpsertNodeForAssignment
<1>2. CASE g.status[n] \notin {"proved", "false"}
  <2>1. UpsertNodeForAssignment(g, n) = SetStatus(g, n, "proving")
    BY <1>2 DEF UpsertNodeForAssignment
  <2>2. "proving" \in Worked \cup {"proved"} /\ g.status[n] # "false"
        /\ g.status \in [Nodes -> Statuses \cup {"none"}]
    BY <1>2 DEF Worked, Graphs
  <2>3. /\ SetStatus(g, n, "proving") \in Graphs /\ Advances(g, SetStatus(g, n, "proving"))
        /\ SetStatus(g, n, "proving").status = [g.status EXCEPT ![n] = "proving"]
    BY <2>2, SetStatusAdvances
  <2> QED BY <2>1, <2>2, <2>3
<1> QED BY <1>1, <1>2

\* The whole synchronization advances the graph and grounds it.
LEMMA SyncedKeeps ==
  ASSUME NEW g \in Graphs, NEW t \in Truths, NEW out \in [Nodes -> Outcomes],
         NEW active \in Nodes \cup {None}, NEW current, NEW live
  PROVE  LET q == Synced(g, t, out, active, current, live)
         IN  /\ q.g \in Graphs /\ q.out \in [Nodes -> Outcomes]
             /\ Advances(g, q.g)
             /\ Grounded(q.g, t, Proved(g))
<1> DEFINE q == Synced(g, t, out, active, current, live)
           st == [n \in Nodes |->
                    IF g.status[n] = "none" /\ out[n] # "none" THEN "proving" ELSE g.status[n]]
           known == [g EXCEPT !.status = st]
           grounded == Reconcile(known, t)
           opened == IF ExternalClaim THEN grounded ELSE ReopenFidelityParks(grounded, t)
           first == [g |-> opened, out |-> RetireOutcomes(out, known, grounded)]
           r == FollowOutcomes(first, t, current, live)
           idle == RetireInactiveProving(r.g, t, active)
           last == IF active = None THEN idle ELSE UpsertNodeForAssignment(idle, active)
<1>1. q = [g |-> last, out |-> r.out]
  BY DEF Synced
<1> HIDE DEF q
<1> DEFINE P == Proved(g)
<1>2. known \in Graphs /\ Advances(g, known) /\ Proved(known) \subseteq Proved(g)
  <2>1. \A n \in Nodes : /\ st[n] \in Statuses \cup {"none"}
                         /\ \/ st[n] = g.status[n]
                            \/ g.status[n] # "false" /\ st[n] \in Worked \cup {"proved"}
    BY DEF Graphs, Statuses, Open, Worked
  <2>2. st \in [Nodes -> Statuses \cup {"none"}]
    BY <2>1
  <2>3. \A n \in Nodes : st[n] = "proved" => g.status[n] = "proved"
    BY DEF Graphs
  <2> HIDE DEF st
  <2>4. known \in Graphs /\ Advances(g, known) /\ known.status = st
    BY <2>1, <2>2, MapAdvances
  <2> QED BY <2>3, <2>4 DEF Proved
<1> HIDE DEF known
<1>3. grounded \in Graphs /\ Advances(known, grounded) /\ Grounded(grounded, t, P)
  BY <1>2, ReconcileGrounds DEF Grounded
<1> HIDE DEF grounded, P
<1>4. opened \in Reached(grounded, t, P)
  BY <1>3, ReopenKeeps, AdvancesSelf DEF Reached
<1>5. opened \in Graphs /\ Advances(grounded, opened) /\ Grounded(opened, t, P)
  BY <1>4 DEF Reached
<1> HIDE DEF opened
<1>6. RetireOutcomes(out, known, grounded) \in [Nodes -> Outcomes]
  BY DEF RetireOutcomes, Outcomes
<1>7. first \in Results /\ first.g = opened
  BY <1>5, <1>6 DEF Results
<1> HIDE DEF first
<1>8. r \in Results /\ r.g \in Reached(opened, t, P)
  BY <1>5, <1>7, FollowKeeps
<1>9. /\ r.g \in Graphs /\ Advances(opened, r.g) /\ Grounded(r.g, t, P)
      /\ r.out \in [Nodes -> Outcomes]
  BY <1>8 DEF Reached, Results
<1> HIDE DEF r
<1>10. /\ idle \in Graphs /\ Advances(r.g, idle)
       /\ \A m \in Nodes : idle.status[m] = "proved" => r.g.status[m] = "proved"
  BY <1>9, RetireKeeps
<1>11. Grounded(idle, t, P)
  BY <1>9, <1>10, GroundedOn
<1> HIDE DEF idle
<1>12. /\ last \in Graphs /\ Advances(idle, last)
       /\ \A m \in Nodes : last.status[m] = "proved" => idle.status[m] = "proved"
  BY <1>10, UpsertKeeps, AdvancesSelf
<1>13. Grounded(last, t, P)
  BY <1>11, <1>12, GroundedOn
<1>14. Advances(g, last)
  <2>1. Advances(g, grounded)
    BY <1>2, <1>3, AdvancesOn
  <2>2. Advances(g, opened)
    BY <1>5, <2>1, AdvancesOn
  <2>3. Advances(g, r.g)
    BY <1>9, <2>2, AdvancesOn
  <2>4. Advances(g, idle)
    BY <1>10, <2>3, AdvancesOn
  <2> QED BY <1>12, <2>4, AdvancesOn
<1> HIDE DEF last
<1>15. /\ q.g \in Graphs /\ q.out \in [Nodes -> Outcomes]
       /\ Advances(g, q.g) /\ Grounded(q.g, t, Proved(g))
  BY <1>1, <1>9, <1>12, <1>13, <1>14 DEF P
<1> QED BY <1>15 DEF q

-----------------------------------------------------------------------------
(* The changes of the other writers *)

\* How NodeLife lets a status move in one commit.
Moves(s, s1) ==
  \/ s1 = s
  \/ s \in Life!Work /\ s1 \in Life!Work \ {"none"}
  \/ s \in Life!Work \cup {"false"} /\ s1 = "proved"
  \/ s = "proved" /\ s1 \in Life!Work \ {"none", "parked"}
  \/ s # "false" /\ s1 = "false"

Lives(g, h) == \A n \in Nodes : Moves(g.status[n], h.status[n])

\* What a synchronization does, a life allows.
LEMMA AdvancesLives ==
  ASSUME NEW g \in Graphs, NEW h, Advances(g, h)
  PROVE  Lives(g, h)
<1>1. \A n \in Nodes : g.status[n] \in Life!Work \cup {"proved", "false"}
  BY DEF Graphs, Statuses, Open, Life!Work
<1>2. Worked \subseteq Life!Work \ {"none", "parked"}
  BY DEF Worked, Life!Work
<1> QED BY <1>1, <1>2 DEF Advances, Lives, Moves

\* A refutation takes effect on whatever was split for the refuted node.
LEMMA InvalidateLives ==
  ASSUME NEW g \in Graphs, NEW n \in Nodes, g.status[n] # "none"
  PROVE  /\ InvalidateFalseSubtree(g, n) \in Graphs
         /\ Lives(g, InvalidateFalseSubtree(g, n))
<1> DEFINE viaChild(m) == \E x \in Ancestors(n) \cup {n} :
                            ParentOf[x] = m /\ <<m, x>> \in g.depends
           reopens(m) == /\ m \in Ancestors(n)
                         /\ g.status[m] \in Open \/ (g.status[m] = "proved" /\ viaChild(m))
           st == [m \in Nodes |->
                    IF m = n THEN "false" ELSE IF reopens(m) THEN "conjectured" ELSE g.status[m]]
<1>1. InvalidateFalseSubtree(g, n) = [g EXCEPT !.status = st]
  BY DEF InvalidateFalseSubtree
<1>2. \A m \in Nodes : reopens(m) => g.status[m] \in Open \cup {"proved"}
  OBVIOUS
<1> HIDE DEF reopens
<1>3. ASSUME NEW m \in Nodes
      PROVE  st[m] \in Statuses \cup {"none"} /\ Moves(g.status[m], st[m])
  <2>1. g.status[m] \in Statuses \cup {"none"}
    BY DEF Graphs
  <2> QED BY <1>2, <2>1 DEF Moves, Life!Work, Statuses, Open
<1>4. st \in [Nodes -> Statuses \cup {"none"}]
  BY <1>3
<1> HIDE DEF st
<1>5. [g EXCEPT !.status = st] \in Graphs /\ [g EXCEPT !.status = st].status = st
  BY <1>4 DEF Graphs
<1> QED BY <1>1, <1>3, <1>5 DEF Lives

\* One status moves.
LEMMA SetStatusLives ==
  ASSUME NEW g \in Graphs, NEW n \in Nodes, NEW s \in Statuses, Moves(g.status[n], s)
  PROVE  SetStatus(g, n, s) \in Graphs /\ Lives(g, SetStatus(g, n, s))
<1>1. SetStatus(g, n, s) \in Graphs /\ SetStatus(g, n, s).status = [g.status EXCEPT ![n] = s]
      /\ g.status \in [Nodes -> Statuses \cup {"none"}]
  BY DEF SetStatus, Graphs
<1>2. \A m \in Nodes : [g.status EXCEPT ![n] = s][m] = IF m = n THEN s ELSE g.status[m]
  BY <1>1
<1> QED BY <1>1, <1>2 DEF Lives, Moves

\* Every change of a writer moves each node as its life allows.
LEMMA AppliedLives ==
  ASSUME NEW g \in Graphs, NEW j \in Jobs
  PROVE  Applied(j, g) \in Graphs /\ Lives(g, Applied(j, g))
<1> DEFINE n == j.node
           s == g.status[n]
           a == Applied(j, g)
<1>1. CASE j.kind = "rewire"
  <2>1. j.edge \in Nodes \X Nodes
    BY <1>1, SettingAssumption DEF Jobs, Kinds
  <2>2. a = [g EXCEPT !.depends = @ \cup {j.edge}]
    BY <1>1 DEF Applied
  <2> HIDE DEF a
  <2>3. a \in Graphs /\ a.status = g.status
    BY <2>1, <2>2, DependsKeeps
  <2> QED BY <2>3 DEF Lives, Moves, a
<1>2. CASE j.kind # "rewire"
  <2>1. n \in Nodes /\ j.kind \in Kinds /\ s \in Statuses \cup {"none"}
    BY <1>2 DEF Jobs, Graphs
  <2>2. \A x \in Statuses \cup {"none"} : \A y \in Life!Work \ {"none"} :
          (x \in Life!Work => Moves(x, y)) /\ y \in Statuses
    BY DEF Moves, Life!Work, Statuses, Open
  <2>3. CASE j.kind \in {"park", "block", "state"}
    <3>1. \/ a = g
          \/ /\ s \in Life!Work
             /\ \E y \in {"parked", "blocked", "stated"} : a = SetStatus(g, n, y)
      BY <2>1, <2>3 DEF Applied, Life!Work, Open, Kinds
    <3>2. {"parked", "blocked", "stated"} \subseteq Life!Work \ {"none"}
      BY DEF Life!Work
    <3>3. CASE a = g
      BY <3>3 DEF Lives, Moves
    <3>4. ASSUME s \in Life!Work, NEW y \in Life!Work \ {"none"}, a = SetStatus(g, n, y)
          PROVE  a \in Graphs /\ Lives(g, a)
      <4>1. Moves(g.status[n], y) /\ y \in Statuses
        BY <2>1, <2>2, <3>4
      <4> QED BY <2>1, <3>4, <4>1, SetStatusLives
    <3> QED BY <3>1, <3>2, <3>3, <3>4
  <2>4. CASE j.kind = "pass"
    <3> DEFINE y == IF s = "stated" THEN "audited" ELSE s
               k == SetStatus(g, n, y)
    <3>1. s = "none" => a = g
      BY <2>4 DEF Applied
    <3>2. s # "none" => a = [k EXCEPT !.note[n] = "audited"]
      BY <2>4 DEF Applied
    <3>3. CASE s # "none"
      <4>1. y \in Statuses /\ Moves(g.status[n], y)
        BY <2>1, <3>3 DEF Statuses, Open, Moves, Life!Work
      <4> HIDE DEF y
      <4>2. k \in Graphs /\ Lives(g, k)
        BY <2>1, <4>1, SetStatusLives
      <4> HIDE DEF k
      <4>3. a \in Graphs /\ a.status = k.status
        BY <2>1, <3>2, <3>3, <4>2, NoteKeeps
      <4> QED BY <4>2, <4>3 DEF Lives
    <3>4. CASE s = "none"
      BY <3>1, <3>4 DEF Lives, Moves
    <3> QED BY <3>3, <3>4
  <2>5. CASE j.kind = "suspect"
    <3>1. a = g \/ a = [g EXCEPT !.note[n] = "suspect"]
      BY <2>5 DEF Applied
    <3>2. a \in Graphs /\ a.status = g.status
      BY <2>1, <3>1, NoteKeeps
    <3> QED BY <3>2 DEF Lives, Moves
  <2>6. CASE j.kind = "prove"
    <3>1. a = g \/ (s \in Open \cup {"false"} /\ a = SetStatus(g, n, "proved"))
      BY <2>6 DEF Applied
    <3>2. s \in Open \cup {"false"} => Moves(g.status[n], "proved")
      BY DEF Moves, Open, Life!Work
    <3>3. "proved" \in Statuses
      BY DEF Statuses
    <3>4. CASE a = g
      BY <3>4 DEF Lives, Moves
    <3> QED BY <2>1, <3>1, <3>2, <3>3, <3>4, SetStatusLives
  <2>7. CASE j.kind = "falsify"
    <3>1. a = g \/ (s # "none" /\ a = InvalidateFalseSubtree(g, n))
      BY <2>7 DEF Applied
    <3>2. CASE a = g
      BY <3>2 DEF Lives, Moves
    <3> QED BY <2>1, <3>1, <3>2, InvalidateLives
  <2> QED BY <2>1, <2>3, <2>4, <2>5, <2>6, <2>7 DEF Kinds
<1> QED BY <1>1, <1>2

-----------------------------------------------------------------------------
(* The invariant *)

\* As long as nobody else saves, the synchronization works on what is on disk.
SyncCurrent ==
  planFresh => /\ stage \in {"scan", "progress"} => plan = graph
               /\ stage = "save" => Advances(graph, plan)

\* What it is about to save is grounded in what it scanned, and in the proofs
\* of the graph it has loaded.
SyncSeen ==
  planFresh => (stage \in {"save", "progress"} => Grounded(plan, seen, Proved(graph)))

\* A change that will not be refused is one that a life allows.
CopiesLive == \A w \in Writers : job[w] # None /\ fresh[w] => Lives(graph, copy[w])

IInv == TypeOK /\ SyncCurrent /\ SyncSeen /\ CopiesLive

USE DEF runner, others

\* The initial graph is one, and nobody is at work on it.
LEMMA InitIInv == Init => IInv
<1> SUFFICES ASSUME Init PROVE IInv
  OBVIOUS
<1>1. PICK planned \in BOOLEAN :
        graph = [status |-> [n \in Nodes |-> IF n \in Generated /\ ~planned THEN "none" ELSE "stated"],
                 note |-> [n \in Nodes |-> ""], depends |-> IF planned THEN Rewires ELSE {}]
  BY DEF Init
<1>2. graph \in Graphs
  <2>1. (IF planned THEN Rewires ELSE {}) \in SUBSET (Nodes \X Nodes)
    BY SettingAssumption
  <2>2. [n \in Nodes |-> IF n \in Generated /\ ~planned THEN "none" ELSE "stated"]
          \in [Nodes -> Statuses \cup {"none"}]
    BY DEF Statuses, Open
  <2> QED BY <1>1, <2>1, <2>2 DEF Graphs
<1>3. truth \in Truths /\ outcome \in [Nodes -> Outcomes]
  BY DEF Init, Truths, Found, Outcomes
<1>4. TypeOK
  <2>1. 0 \in 0..MaxChanges
    BY SettingAssumption
  <2> QED BY <1>2, <1>3, <2>1 DEF Init, TypeOK, Stages
<1>5. SyncCurrent /\ SyncSeen /\ CopiesLive
  BY DEF Init, SyncCurrent, SyncSeen, CopiesLive
<1> QED BY <1>4, <1>5 DEF IInv

\* A step that happens at all is counted within the bound.
LEMMA HappensKeeps ==
  ASSUME TypeOK, Happens
  PROVE  changes' \in 0..MaxChanges
  BY SettingAssumption DEF TypeOK, Happens

\* The scan: what it makes of the plan is an advance, grounded in its sight.
LEMMA ScanKeeps ==
  ASSUME IInv, SyncScan
  PROVE  IInv'
<1>1. PICK current \in {assigned, None}, live \in Nodes \cup {None} :
        \E r \in {Synced(plan, truth, outcome, assigned, current, live)} :
          /\ outcome' = r.out
          /\ plan' = r.g
          /\ proven' = Proved(r.g) \ Proved(plan)
          /\ stage' = IF r.g = plan THEN "idle" ELSE "save"
  BY DEF SyncScan
<1> DEFINE r == Synced(plan, truth, outcome, assigned, current, live)
<1>2. /\ outcome' = r.out /\ plan' = r.g
      /\ proven' = Proved(r.g) \ Proved(plan)
      /\ stage' = IF r.g = plan THEN "idle" ELSE "save"
  BY <1>1
<1>3. /\ plan \in Graphs /\ truth \in Truths /\ outcome \in [Nodes -> Outcomes]
      /\ assigned \in Nodes \cup {None}
  BY DEF IInv, TypeOK
<1>4. /\ r.g \in Graphs /\ r.out \in [Nodes -> Outcomes]
      /\ Advances(plan, r.g) /\ Grounded(r.g, truth, Proved(plan))
  BY <1>3, SyncedKeeps
<1> HIDE DEF r
<1>5. stage = "scan" /\ seen' = truth
      /\ UNCHANGED <<graph, truth, assigned, planFresh, job, copy, fresh, changes>>
  BY DEF SyncScan
<1>6. TypeOK'
  BY <1>2, <1>4, <1>5 DEF IInv, TypeOK, Stages, Proved
<1>7. SyncCurrent'
  BY <1>2, <1>4, <1>5 DEF IInv, SyncCurrent
<1>8. SyncSeen'
  BY <1>2, <1>4, <1>5 DEF IInv, SyncCurrent, SyncSeen
<1>9. CopiesLive'
  BY <1>5 DEF IInv, CopiesLive
<1> QED BY <1>6, <1>7, <1>8, <1>9 DEF IInv

\* Progress puts blocked nodes to work again, and proves nothing.
LEMMA ProgressKeeps ==
  ASSUME IInv, SyncProgress
  PROVE  IInv'
<1> DEFINE aside == {n \in Nodes : outcome[n] \in {"blocked", "deferred"}}
           st == [n \in Nodes |->
                   IF n \in aside /\ plan.status[n] = "blocked" /\ seen[n] # "unread"
                   THEN IF seen[n] = "absent" THEN "conjectured" ELSE "stated"
                   ELSE plan.status[n]]
           g == [plan EXCEPT !.status = st]
<1>1. /\ stage = "progress"
      /\ outcome' = [n \in Nodes |-> IF n \in aside THEN "unresolved" ELSE outcome[n]]
      /\ plan' = g
      /\ stage' = IF g = plan THEN "idle" ELSE "save"
      /\ proven' = {}
      /\ UNCHANGED <<graph, truth, assigned, planFresh, seen, job, copy, fresh, changes>>
  BY DEF SyncProgress
<1>2. plan \in Graphs /\ outcome \in [Nodes -> Outcomes]
  BY DEF IInv, TypeOK
<1>3. outcome' \in [Nodes -> Outcomes]
  BY <1>1, <1>2 DEF Outcomes
<1> HIDE DEF aside
<1>4. ASSUME NEW n \in Nodes
      PROVE  /\ st[n] \in Statuses \cup {"none"}
             /\ \/ st[n] = plan.status[n]
                \/ plan.status[n] # "false" /\ st[n] \in Worked
  BY <1>2 DEF Graphs, Statuses, Open, Worked
<1>5. st \in [Nodes -> Statuses \cup {"none"}]
  BY <1>4
<1> HIDE DEF st
<1>6. g \in Graphs /\ Advances(plan, g) /\ g.status = st
  BY <1>2, <1>4, <1>5, MapAdvances
<1>7. \A n \in Nodes : g.status[n] = "proved" => plan.status[n] = "proved"
  BY <1>4, <1>6 DEF Worked
<1> HIDE DEF g
<1>8. planFresh => Grounded(g, seen, Proved(graph))
  BY <1>1, <1>6, <1>7, GroundedOn DEF IInv, SyncSeen
<1>9. TypeOK'
  BY <1>1, <1>3, <1>6 DEF IInv, TypeOK, Stages
<1>10. SyncCurrent'
  BY <1>1, <1>6 DEF IInv, SyncCurrent
<1>11. SyncSeen'
  BY <1>1, <1>8 DEF SyncSeen
<1>12. CopiesLive'
  BY <1>1 DEF IInv, CopiesLive
<1> QED BY <1>9, <1>10, <1>11, <1>12 DEF IInv

\* Loading and saving, refused or not, and the end of a synchronization.
LEMMA SyncKeeps ==
  ASSUME IInv, Sync
  PROVE  IInv'
<1>1. CASE SyncLoad
  <2>1. TypeOK' /\ SyncCurrent' /\ SyncSeen'
    BY <1>1 DEF IInv, TypeOK, SyncCurrent, SyncSeen, SyncLoad, Stages
  <2>2. CopiesLive'
    BY <1>1 DEF IInv, CopiesLive, SyncLoad
  <2> QED BY <2>1, <2>2 DEF IInv
<1>2. CASE SyncSave
  <2>1. TypeOK'
    BY <1>2 DEF IInv, TypeOK, SyncSave, Stages
  <2>2. SyncCurrent' /\ SyncSeen'
    BY <1>2 DEF IInv, SyncCurrent, SyncSeen, SyncSave, Saves, Grounded, Proved
  <2>3. CopiesLive'
    BY <1>2 DEF CopiesLive, SyncSave
  <2> QED BY <2>1, <2>2, <2>3 DEF IInv
<1>3. CASE SyncRefused \/ SyncNoProgress
  <2>1. TypeOK' /\ SyncCurrent' /\ SyncSeen'
    BY <1>3 DEF IInv, TypeOK, SyncCurrent, SyncSeen, SyncRefused, SyncNoProgress, Stages
  <2>2. CopiesLive'
    BY <1>3 DEF IInv, CopiesLive, SyncRefused, SyncNoProgress
  <2> QED BY <2>1, <2>2 DEF IInv
<1> QED BY <1>1, <1>2, <1>3, ScanKeeps, ProgressKeeps DEF Sync

\* What a writer is about to save, it applied to the graph on disk.
LEMMA WriteKeeps ==
  ASSUME IInv, NEW w \in Writers, Write(w)
  PROVE  IInv'
<1>t. /\ graph \in Graphs /\ job[w] \in Jobs \cup {None} /\ (job[w] # None => copy[w] \in Graphs)
  BY DEF IInv, TypeOK
<1>1. CASE Load(w)
  <2>1. PICK j \in Jobs : /\ job' = [job EXCEPT ![w] = j]
                          /\ copy' = [copy EXCEPT ![w] = Applied(j, graph)]
    BY <1>1 DEF Load
  <2>2. Applied(j, graph) \in Graphs /\ Lives(graph, Applied(j, graph))
    BY <1>t, AppliedLives
  <2>3. /\ fresh' = [fresh EXCEPT ![w] = TRUE]
        /\ UNCHANGED <<graph, truth, outcome, assigned, stage, plan, planFresh, seen, proven>>
        /\ Happens
    BY <1>1 DEF Load
  <2>4. changes' \in 0..MaxChanges
    BY <2>3, HappensKeeps DEF IInv
  <2>5. TypeOK' /\ CopiesLive'
    BY <2>1, <2>2, <2>3, <2>4 DEF IInv, TypeOK, CopiesLive
  <2>6. SyncCurrent' /\ SyncSeen'
    BY <2>3 DEF IInv, SyncCurrent, SyncSeen
  <2> QED BY <2>5, <2>6 DEF IInv
<1>2. CASE Save(w)
  <2>1. /\ graph' = copy[w] /\ fresh' = [v \in Writers |-> FALSE] /\ planFresh' = FALSE
        /\ job[w] # None
        /\ job' = [job EXCEPT ![w] = None] /\ copy' = [copy EXCEPT ![w] = None]
        /\ UNCHANGED <<truth, outcome, assigned, stage, plan, seen, proven, changes>>
    BY <1>2 DEF Save
  <2>2. TypeOK'
    BY <1>t, <2>1 DEF IInv, TypeOK
  <2>3. SyncCurrent' /\ SyncSeen' /\ CopiesLive'
    BY <2>1 DEF IInv, SyncCurrent, SyncSeen, CopiesLive
  <2> QED BY <2>2, <2>3 DEF IInv
<1>3. CASE Refused(w)
  <2> DEFINE g == Applied(job[w], graph)
             j == [job[w] EXCEPT !.retried = TRUE]
  <2>1. job[w] \in Jobs /\ UNCHANGED <<graph, truth, outcome, assigned, runner, changes>>
    BY <1>t, <1>3 DEF Refused
  <2>2. g \in Graphs /\ Lives(graph, g)
    BY <1>t, <2>1, AppliedLives
  <2>3. j \in Jobs
    <3>1. CASE job[w] \in [kind : Kinds, node : Nodes, retried : BOOLEAN]
      BY <3>1 DEF Jobs
    <3>2. CASE job[w] \in [kind : {"rewire"}, edge : Rewires, retried : BOOLEAN]
      BY <3>2 DEF Jobs
    <3> QED BY <2>1, <3>1, <3>2 DEF Jobs
  <2>4. CASE Retries(job[w]) /\ g # graph
    <3>1. /\ job' = [job EXCEPT ![w] = j]
          /\ copy' = [copy EXCEPT ![w] = g]
          /\ fresh' = [fresh EXCEPT ![w] = TRUE]
      BY <1>3, <2>4 DEF Refused
    <3> HIDE DEF g, j
    <3>2. TypeOK' /\ CopiesLive'
      BY <2>1, <2>2, <2>3, <3>1 DEF IInv, TypeOK, CopiesLive
    <3>3. SyncCurrent' /\ SyncSeen'
      BY <2>1 DEF IInv, SyncCurrent, SyncSeen
    <3> QED BY <3>2, <3>3 DEF IInv
  <2>5. CASE ~(Retries(job[w]) /\ g # graph)
    <3>1. /\ job' = [job EXCEPT ![w] = None] /\ copy' = [copy EXCEPT ![w] = None]
          /\ UNCHANGED fresh
      BY <1>3, <2>5 DEF Refused
    <3> HIDE DEF g, j
    <3>2. TypeOK' /\ CopiesLive'
      BY <2>1, <3>1 DEF IInv, TypeOK, CopiesLive
    <3>3. SyncCurrent' /\ SyncSeen'
      BY <2>1 DEF IInv, SyncCurrent, SyncSeen
    <3> QED BY <3>2, <3>3 DEF IInv
  <2> QED BY <2>4, <2>5
<1> QED BY <1>1, <1>2, <1>3 DEF Write

\* The queue, the sources and the end of a process touch no graph.
LEMMA RestKeeps ==
  ASSUME IInv,
         \/ Restart \/ Queue
         \/ Sources
  PROVE  IInv'
<1>1. /\ UNCHANGED <<graph, plan, planFresh, seen, proven, job, copy, fresh>>
      /\ stage' \in {stage, "idle"}
  BY DEF Restart, Queue, Assign, Disqualify, Finish, Sources, Edit, Vanish, Reappear
<1>2. /\ graph \in Graphs /\ plan \in Graphs
      /\ truth \in Truths /\ outcome \in [Nodes -> Outcomes]
      /\ assigned \in Nodes \cup {None} /\ changes \in 0..MaxChanges
  BY DEF IInv, TypeOK
<1>3. CASE Restart
  <2>1. changes' \in 0..MaxChanges
    BY <1>3, HappensKeeps DEF Restart, IInv
  <2> QED BY <1>1, <1>3, <2>1 DEF Restart, IInv, TypeOK, SyncCurrent, SyncSeen, CopiesLive, Stages
<1>4. ASSUME UNCHANGED stage,
             truth' \in Truths, outcome' \in [Nodes -> Outcomes],
             assigned' \in Nodes \cup {None}, changes' \in 0..MaxChanges
      PROVE  IInv'
  <2>1. TypeOK'
    BY <1>1, <1>4 DEF IInv, TypeOK
  <2>2. SyncCurrent' /\ SyncSeen' /\ CopiesLive'
    BY <1>1, <1>4 DEF IInv, SyncCurrent, SyncSeen, CopiesLive
  <2> QED BY <2>1, <2>2 DEF IInv
<1>5. ASSUME NEW n \in Nodes, Assign(n)
      PROVE  IInv'
  BY <1>2, <1>4, <1>5 DEF Assign, runner
<1>6. ASSUME NEW n \in Nodes, Disqualify(n)
      PROVE  IInv'
  <2>1. changes' \in 0..MaxChanges
    BY <1>6, HappensKeeps DEF Disqualify, IInv
  <2>2. outcome' \in [Nodes -> Outcomes] /\ UNCHANGED <<stage, truth, assigned>>
    BY <1>2, <1>6 DEF Disqualify, Outcomes
  <2> QED BY <1>2, <1>4, <2>1, <2>2
<1>7. ASSUME NEW o \in {"solved", "blocked", "deferred", "retired"}, Finish(o)
      PROVE  IInv'
  <2>1. changes' \in 0..MaxChanges
    BY <1>7, HappensKeeps DEF Finish, IInv
  <2>2. outcome' \in [Nodes -> Outcomes] /\ assigned' = None /\ UNCHANGED <<stage, truth>>
    BY <1>2, <1>7 DEF Finish, Outcomes
  <2> QED BY <1>2, <1>4, <2>1, <2>2
<1>8. ASSUME NEW n \in Nodes, Edit(n) \/ Vanish(n) \/ Reappear(n)
      PROVE  IInv'
  <2>1. changes' \in 0..MaxChanges
    BY <1>8, HappensKeeps DEF Edit, Vanish, Reappear, IInv
  <2>2. UNCHANGED <<stage, outcome, assigned>>
    BY <1>8 DEF Edit, Vanish, Reappear
  <2>3. truth' \in Truths
    BY <1>2, <1>8 DEF Edit, Vanish, Reappear, Truths, Found
  <2> QED BY <1>2, <1>4, <2>1, <2>2, <2>3
<1> QED BY <1>3, <1>5, <1>6, <1>7, <1>8 DEF Queue, Sources

\* The invariant is inductive.
LEMMA NextKeeps == IInv /\ [Next]_vars => IInv'
<1> SUFFICES ASSUME IInv, [Next]_vars PROVE IInv'
  OBVIOUS
<1>1. CASE Next
  BY <1>1, SyncKeeps, WriteKeeps, RestKeeps DEF Next
<1>2. CASE UNCHANGED vars
  BY <1>2 DEF vars, IInv, TypeOK, SyncCurrent, SyncSeen, CopiesLive
<1> QED BY <1>1, <1>2

\* In every behaviour the invariant holds: what the synchronization and the
\* writers have at hand fits the graph, or will be refused.
THEOREM Invariant == Spec => []IInv
<1>1. Init => IInv
  BY InitIInv
<1>2. IInv /\ [Next]_vars => IInv'
  BY NextKeeps
<1> QED BY <1>1, <1>2, PTL DEF Spec

\* The graph and all that is computed from it stay what Graphs says: every
\* pass of the synchronization, over any list of nodes, ends in a graph.
THEOREM TypeCorrect == Spec => []TypeOK
<1>1. IInv => TypeOK
  BY DEF IInv
<1> QED BY <1>1, Invariant, PTL

-----------------------------------------------------------------------------
(* What the graph promises *)

\* No pass of a synchronization gets a proof committed that it did not see
\* clean or that rests on a false or parked node, and none revives a
\* refutation, in however many turns the outcomes are replayed.
THEOREM SyncsGrounded == Spec => SyncGrounded
<1>1. ASSUME IInv, [Next]_vars, stage = "save", stage' # "save", graph' # graph
      PROVE  /\ \A n \in Proved(graph') :
                  \/ seen[n] = "clean" /\ ~HasInvalidDependency(graph', n)
                  \/ seen[n] = "unread" /\ n \in Proved(graph)
             /\ \A n \in Nodes : graph.status[n] = "false" => graph'.status[n] = "false"
  <2>1. SyncSave
    <3>1. UNCHANGED vars => UNCHANGED graph
      BY DEF vars
    <3>2. Next
      BY <1>1, <3>1
    <3>3. CASE Sync
      BY <1>1, <3>3 DEF Sync, SyncLoad, SyncScan, SyncRefused, SyncProgress, SyncNoProgress
    <3>4. ASSUME NEW w \in Writers, Write(w) PROVE FALSE
      BY <1>1, <3>4 DEF Write, Load, Save, Refused
    <3>5. Restart \/ Queue \/ (Sources) => UNCHANGED graph
      BY DEF Restart, Queue, Assign, Disqualify, Finish, Sources, Edit, Vanish, Reappear
    <3> QED BY <1>1, <3>2, <3>3, <3>4, <3>5 DEF Next
  <2>2. graph' = plan /\ planFresh
    BY <2>1 DEF SyncSave, Saves
  <2>3. Advances(graph, plan) /\ Grounded(plan, seen, Proved(graph))
    BY <1>1, <2>2 DEF IInv, SyncCurrent, SyncSeen
  <2> QED BY <2>2, <2>3 DEF Advances, Grounded, Proved
<1>2. IInv /\ [Next]_vars =>
        [stage = "save" /\ stage' # "save" /\ graph' # graph =>
           /\ \A n \in Proved(graph') :
                \/ seen[n] = "clean" /\ ~HasInvalidDependency(graph', n)
                \/ seen[n] = "unread" /\ n \in Proved(graph)
           /\ \A n \in Nodes : graph.status[n] = "false" => graph'.status[n] = "false"]_vars
  BY <1>1
<1> QED BY <1>2, Invariant, PTL DEF Spec, SyncGrounded

\* A step leaves the graph, or moves each node as its life allows.
LEMMA StepLives ==
  ASSUME IInv, [Next]_vars
  PROVE  UNCHANGED graph \/ Lives(graph, graph')
<1>1. CASE UNCHANGED vars
  BY <1>1 DEF vars
<1>2. CASE Sync
  <2>1. CASE SyncSave
    <3>1. graph' = plan /\ Advances(graph, plan) /\ graph \in Graphs
      BY <2>1 DEF SyncSave, Saves, IInv, SyncCurrent, TypeOK
    <3> QED BY <3>1, AdvancesLives
  <2>2. CASE ~SyncSave
    BY <1>2, <2>2 DEF Sync, SyncLoad, SyncScan, SyncRefused, SyncProgress, SyncNoProgress
  <2> QED BY <2>1, <2>2
<1>3. ASSUME NEW w \in Writers, Write(w)
      PROVE  UNCHANGED graph \/ Lives(graph, graph')
  <2>1. CASE Save(w)
    BY <2>1 DEF Save, Saves, IInv, CopiesLive
  <2>2. CASE ~Save(w)
    BY <1>3, <2>2 DEF Write, Load, Refused
  <2> QED BY <2>1, <2>2
<1>4. CASE Restart \/ Queue \/ Sources
  BY <1>4 DEF Restart, Queue, Assign, Disqualify, Finish, Sources, Edit, Vanish, Reappear
<1> QED BY <1>1, <1>2, <1>3, <1>4 DEF Next

\* Whatever the runner and the writers do at once, for any number of them,
\* every declaration lives as NodeLife says: a save over a graph that moved on
\* is refused, and all others move each node as its life allows.
THEOREM Implements == Spec => ImplementsNodeLife
<1>1. Init => Life!Init
  <2> SUFFICES ASSUME Init PROVE graph.status \in [Nodes -> Life!Work \cup {"proved", "false"}]
    BY DEF Life!Init
  <2>1. graph \in Graphs
    BY InitIInv DEF IInv, TypeOK
  <2> QED BY <2>1 DEF Graphs, Statuses, Open, Life!Work
<1>2. IInv /\ IInv' /\ [Next]_vars => [Life!Next]_(graph.status)
  <2> SUFFICES ASSUME IInv, IInv', [Next]_vars, ~ UNCHANGED graph
               PROVE  Life!Next
    BY DEF vars
  <2>1. graph' \in Graphs /\ graph \in Graphs
    BY DEF IInv, TypeOK
  <2>2. DOMAIN graph'.status = Nodes
    BY <2>1 DEF Graphs
  <2>3. Lives(graph, graph')
    BY StepLives
  <2>4. \A n \in Nodes : Moves(graph.status[n], graph'.status[n])
    BY <2>3 DEF Lives
  <2> QED BY <2>2, <2>4 DEF Moves, Life!Next, Life!Proceeds, Life!Proves, Life!Reopens, Life!Refutes
<1> QED BY <1>1, <1>2, Invariant, PTL DEF Spec, ImplementsNodeLife, Life!Spec

=============================================================================
