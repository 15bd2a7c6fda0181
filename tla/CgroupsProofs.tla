--------------------------- MODULE CgroupsProofs ---------------------------
(***************************************************************************)
(* Cgroups, proved for every tree of paths, however deep, and every number *)
(* of tasks and CPUs: rmdir never panics, the tree is whole between verbs, *)
(* and tasks keep to the test CPUs.  And Region on top of it, for tables   *)
(* of every size: they join, and show every domain.                        *)
(*                                                                         *)
(* Above() and Effective() climb the tree.  That there are such functions  *)
(* follows from TreeAssumption, by which every climb ends (Recursion);     *)
(* after that both are used by the equations AboveIs and EffectiveIs.      *)
(* In the second part, the filters, the flattened lists, the walk and the  *)
(* fold are recursions too: each gets a lemma that says it follows its     *)
(* rule (OnlyIs, FlattenIs, WalkIs, CollectIs), and what it holds is then  *)
(* shown by induction (Upwards).                                           *)
(***************************************************************************)
EXTENDS Region, WellFoundedInduction, FiniteSetTheorems, TLAPS

-----------------------------------------------------------------------------
(* Functions that are defined from the root on. *)

Nodes == Groups \union {Root}

\* f follows the rule G from v up to the groups of D.
Follows(f, D, v, G) ==
  /\ f[Root] = v
  /\ \A h \in D : Parent[h] \in D \union {Root} /\ f[h] = G[h][f[Parent[h]]]

\* A rule can be followed up from the root to every group.
LEMMA Recursion ==
  ASSUME NEW V, NEW v \in V, NEW G \in [Groups -> [V -> V]]
  PROVE  \E f \in [Nodes -> V] : Follows(f, Groups, v, G)
<1> DEFINE Reach(h) == \E D \in SUBSET Groups : \E f \in [Nodes -> V] : h \in D /\ Follows(f, D, v, G)
           Value(h) == CHOOSE x \in V : \E D \in SUBSET Groups : \E f \in [Nodes -> V] :
                         h \in D /\ Follows(f, D, v, G) /\ x = f[h]
           F == [h \in Nodes |-> IF h = Root THEN v ELSE Value(h)]
<1>0. /\ Parent \in [Groups -> Nodes] /\ Root \notin Groups /\ Root \in Nodes
      /\ \A h \in Nodes : h # Root => h \in Groups
  BY TreeAssumption DEF Nodes
<1>agree. ASSUME NEW D \in SUBSET Groups, NEW f \in [Nodes -> V], Follows(f, D, v, G),
             NEW E \in SUBSET Groups, NEW e \in [Nodes -> V], Follows(e, E, v, G)
      PROVE  \A h \in D \intersect E : f[h] = e[h]
  <2> DEFINE B == {h \in D \intersect E : f[h] # e[h]}
  <2> SUFFICES ASSUME B # {} PROVE FALSE
    OBVIOUS
  <2>1. B \in SUBSET Groups
    OBVIOUS
  <2>2. PICK g \in B : Parent[g] \notin B
    BY <2>1, TreeAssumption
  <2>3. f[g] = G[g][f[Parent[g]]] /\ e[g] = G[g][e[Parent[g]]]
    BY <1>agree DEF Follows
  <2>4. f[Parent[g]] = e[Parent[g]]
    <3>1. CASE Parent[g] = Root
      BY <1>agree, <3>1 DEF Follows
    <3>2. CASE Parent[g] # Root
      <4>1. Parent[g] \in D \intersect E
        BY <1>agree, <3>2 DEF Follows
      <4> QED
        BY <2>2, <4>1
    <3> QED
      BY <3>1, <3>2
  <2> QED
    BY <2>3, <2>4
<1>1. ASSUME NEW D \in SUBSET Groups, NEW f \in [Nodes -> V], Follows(f, D, v, G), NEW h \in D
      PROVE  Value(h) = f[h]
  <2>1. h \in Nodes /\ f[h] \in V
    BY DEF Nodes
  <2>2. \E x \in V : \E E \in SUBSET Groups : \E e \in [Nodes -> V] :
          h \in E /\ Follows(e, E, v, G) /\ x = e[h]
    BY <1>1, <2>1
  <2>3. \E E \in SUBSET Groups : \E e \in [Nodes -> V] :
          h \in E /\ Follows(e, E, v, G) /\ Value(h) = e[h]
    BY <2>2, Zenon
  <2>4. PICK E \in SUBSET Groups, e \in [Nodes -> V] : h \in E /\ Follows(e, E, v, G) /\ Value(h) = e[h]
    BY <2>3, Zenon
  <2> HIDE DEF Value
  <2>5. Follows(f, D, v, G) /\ Follows(e, E, v, G)
    BY <1>1, <2>4, Zenon
  <2>6. \A k \in D \intersect E : f[k] = e[k]
    BY <1>agree, <2>5
  <2> QED
    BY <2>4, <2>6
<1> HIDE DEF Value
<1>2. ASSUME NEW g \in Groups, Parent[g] = Root \/ Reach(Parent[g]) PROVE Reach(g)
  <2>0. g \in Nodes /\ g # Root
    BY <1>0 DEF Nodes
  <2>1. CASE Parent[g] = Root
    <3> DEFINE f == [h \in Nodes |-> IF h = Root THEN v ELSE G[g][v]]
    <3>1. f \in [Nodes -> V] /\ f[Root] = v /\ f[g] = G[g][v]
      BY <1>0, <2>0
    <3> HIDE DEF f
    <3>2. Follows(f, {g}, v, G)
      BY <2>1, <3>1 DEF Follows
    <3>3. {g} \in SUBSET Groups /\ g \in {g}
      OBVIOUS
    <3> QED
      BY <3>1, <3>2, <3>3
  <2>2. CASE Reach(Parent[g])
    <3>1. PICK D \in SUBSET Groups, f \in [Nodes -> V] : Parent[g] \in D /\ Follows(f, D, v, G)
      BY <2>2
    <3>2. CASE g \in D
      BY <3>1, <3>2
    <3>3. CASE g \notin D
      <4> DEFINE E == D \union {g}
                 e == [h \in Nodes |-> IF h = g THEN G[g][f[Parent[g]]] ELSE f[h]]
      <4>1. Parent[g] \in Nodes /\ f[Parent[g]] \in V /\ Parent[g] # g
        BY <1>0, <3>1, <3>3
      <4>2. e \in [Nodes -> V]
        BY <4>1
      <4>3. e[Root] = v
        BY <1>0, <2>0, <3>1 DEF Follows
      <4>4. ASSUME NEW h \in E PROVE Parent[h] \in E \union {Root} /\ e[h] = G[h][e[Parent[h]]]
        <5>1. CASE h = g
          <6>1. e[h] = G[g][f[Parent[g]]] /\ e[Parent[h]] = f[Parent[g]]
            BY <2>0, <4>1, <5>1
          <6> QED
            BY <3>1, <5>1, <6>1
        <5>2. CASE h # g
          <6>1. h \in D /\ h \in Nodes
            BY <5>2 DEF Nodes
          <6>2. Parent[h] \in D \union {Root} /\ f[h] = G[h][f[Parent[h]]]
            BY <3>1, <6>1 DEF Follows
          <6>3. Parent[h] # g /\ Parent[h] \in Nodes
            BY <1>0, <2>0, <3>3, <6>1, <6>2
          <6>4. e[h] = f[h] /\ e[Parent[h]] = f[Parent[h]]
            BY <5>2, <6>1, <6>3
          <6> QED
            BY <6>2, <6>4
        <5> QED
          BY <5>1, <5>2
      <4> HIDE DEF e
      <4>5. Follows(e, E, v, G)
        BY <4>3, <4>4 DEF Follows
      <4>6. E \in SUBSET Groups /\ g \in E
        OBVIOUS
      <4> HIDE DEF E
      <4> QED
        BY <4>2, <4>5, <4>6
    <3> QED
      BY <3>2, <3>3
  <2> QED
    BY <1>2, <2>1, <2>2
<1>3. \A g \in Groups : Reach(g)
  <2> DEFINE B == {g \in Groups : ~Reach(g)}
  <2> SUFFICES ASSUME B # {} PROVE FALSE
    BY Zenon
  <2>1. B \in SUBSET Groups
    OBVIOUS
  <2>2. PICK g \in B : Parent[g] \notin B
    BY <2>1, TreeAssumption
  <2> HIDE DEF Reach
  <2>3. g \in Groups /\ ~Reach(g) /\ (Parent[g] = Root \/ Reach(Parent[g]))
    BY <1>0, <2>2
  <2> QED
    BY <1>2, <2>3
<1>4. ASSUME NEW g \in Groups
      PROVE  F[g] \in V /\ F[g] = G[g][F[Parent[g]]]
  <2>0. g \in Nodes /\ g # Root /\ Parent[g] \in Nodes
    BY <1>0 DEF Nodes
  <2>1. PICK D \in SUBSET Groups, f \in [Nodes -> V] : g \in D /\ Follows(f, D, v, G)
    BY <1>3
  <2>2. F[g] = f[g]
    BY <1>1, <2>0, <2>1
  <2>3. f[g] = G[g][f[Parent[g]]] /\ Parent[g] \in D \union {Root} /\ f[Root] = v
    BY <2>1 DEF Follows
  <2>4. F[Parent[g]] = f[Parent[g]]
    <3>1. CASE Parent[g] = Root
      BY <2>0, <2>3, <3>1
    <3>2. CASE Parent[g] # Root
      BY <1>1, <2>0, <2>1, <2>3, <3>2
    <3> QED
      BY <3>1, <3>2
  <2> HIDE DEF F
  <2> QED
    BY <2>0, <2>2, <2>3, <2>4
<1>5. F \in [Nodes -> V]
  <2>1. \A h \in Nodes : F[h] \in V
    BY <1>0, <1>4
  <2> QED
    BY <2>1
<1>6. F[Root] = v
  BY <1>0
<1> HIDE DEF F
<1>7. Follows(F, Groups, v, G)
  BY <1>0, <1>4, <1>6 DEF Follows, Nodes
<1> QED
  BY <1>5, <1>7

-----------------------------------------------------------------------------
(* The kernel's side of the tree. *)

\* What is above a group, from what is above its parent.
LEMMA AboveIs ==
  /\ Above(Root) = {}
  /\ \A g \in Groups : Above(g) = ({Parent[g]} \union Above(Parent[g])) \ {Root}
<1> DEFINE V == SUBSET Nodes
           G == [h \in Groups |-> [x \in V |-> ({Parent[h]} \union x) \ {Root}]]
           Rule(f) == f = [h \in Nodes |-> IF h = Root THEN {} ELSE ({Parent[h]} \union f[Parent[h]]) \ {Root}]
<1>0. Parent \in [Groups -> Nodes] /\ Root \notin Groups /\ Root \in Nodes /\ \A h \in Nodes : h # Root => h \in Groups
  BY TreeAssumption DEF Nodes
<1>1. {} \in V /\ G \in [Groups -> [V -> V]]
  BY <1>0
<1>2. \A h \in Groups, x \in V : G[h][x] = ({Parent[h]} \union x) \ {Root}
  OBVIOUS
<1> HIDE DEF V, G
<1>3. PICK f \in [Nodes -> V] : Follows(f, Groups, {}, G)
  BY <1>1, Recursion
<1>4. \A h \in Nodes : f[h] = IF h = Root THEN {} ELSE ({Parent[h]} \union f[Parent[h]]) \ {Root}
  <2> SUFFICES ASSUME NEW h \in Nodes, h # Root PROVE f[h] = ({Parent[h]} \union f[Parent[h]]) \ {Root}
    BY <1>3 DEF Follows
  <2>1. h \in Groups /\ Parent[h] \in Nodes /\ f[Parent[h]] \in V
    BY <1>0
  <2>2. f[h] = G[h][f[Parent[h]]]
    BY <1>3, <2>1 DEF Follows
  <2> QED
    BY <1>2, <2>1, <2>2
<1>5. Rule(f)
  BY <1>4
<1>6. Rule(CHOOSE e : Rule(e))
  BY <1>5, Zenon
<1>7. PICK e : e = CHOOSE x : Rule(x)
  OBVIOUS
<1>8. Rule(e)
  BY <1>6, <1>7, Zenon
<1>9. \A g : Above(g) = e[g]
  BY <1>7, Zenon DEF Above, Nodes
<1>10. \A h \in Nodes : e[h] = IF h = Root THEN {} ELSE ({Parent[h]} \union e[Parent[h]]) \ {Root}
  BY <1>8
<1> HIDE DEF Rule
<1> QED
  BY <1>0, <1>9, <1>10 DEF Nodes

\* The cpuset in force at a group, from that of its parent.
LEMMA EffectiveIs ==
  ASSUME cpuset \in [Groups -> SUBSET CPUs]
  PROVE  /\ Effective(Root) = CPUs
         /\ \A g \in Groups : Effective(g) = IF cpuset[g] \intersect Effective(Parent[g]) = {}
                                             THEN Effective(Parent[g])
                                             ELSE cpuset[g] \intersect Effective(Parent[g])
<1> DEFINE V == SUBSET CPUs
           R(h, x) == IF cpuset[h] \intersect x = {} THEN x ELSE cpuset[h] \intersect x
           G == [h \in Groups |-> [x \in V |-> R(h, x)]]
           Rule(f) == f = [h \in Nodes |-> IF h = Root THEN CPUs ELSE R(h, f[Parent[h]])]
<1>0. Parent \in [Groups -> Nodes] /\ Root \notin Groups /\ Root \in Nodes /\ \A h \in Nodes : h # Root => h \in Groups
  BY TreeAssumption DEF Nodes
<1>1. CPUs \in V /\ G \in [Groups -> [V -> V]]
  <2>1. \A h \in Groups, x \in V : R(h, x) \in V
    OBVIOUS
  <2> HIDE DEF R, V
  <2>2. G \in [Groups -> [V -> V]]
    BY <2>1
  <2> QED
    BY <2>2 DEF V
<1>2. \A h \in Groups, x \in V : G[h][x] = R(h, x)
  OBVIOUS
<1> HIDE DEF V, G
<1>3. PICK f \in [Nodes -> V] : Follows(f, Groups, CPUs, G)
  BY <1>1, Recursion
<1> HIDE DEF R
<1>4. \A h \in Nodes : f[h] = IF h = Root THEN CPUs ELSE R(h, f[Parent[h]])
  <2> SUFFICES ASSUME NEW h \in Nodes, h # Root PROVE f[h] = R(h, f[Parent[h]])
    BY <1>3 DEF Follows
  <2>1. h \in Groups /\ Parent[h] \in Nodes /\ f[Parent[h]] \in V
    BY <1>0
  <2>2. f[h] = G[h][f[Parent[h]]]
    BY <1>3, <2>1 DEF Follows
  <2> QED
    BY <1>2, <2>1, <2>2
<1>5. Rule(f)
  BY <1>4
<1>6. Rule(CHOOSE e : Rule(e))
  BY <1>5, Zenon
<1>7. PICK e : e = CHOOSE x : Rule(x)
  OBVIOUS
<1>8. Rule(e)
  BY <1>6, <1>7, Zenon
<1>9. \A g : Effective(g) = e[g]
  BY <1>7, Zenon DEF Effective, Nodes, R
<1>10. \A h \in Nodes : e[h] = IF h = Root THEN CPUs ELSE R(h, e[Parent[h]])
  BY <1>8
<1> HIDE DEF Rule
<1>11. Effective(Root) = CPUs
  BY <1>0, <1>9, <1>10
<1>12. ASSUME NEW g \in Groups PROVE Effective(g) = R(g, Effective(Parent[g]))
  BY <1>0, <1>9, <1>10 DEF Nodes
<1> QED
  BY <1>11, <1>12 DEF R

\* A set of groups with their parents holds all their ancestors.
LEMMA AboveStays ==
  ASSUME NEW D \in SUBSET Groups, \A h \in D : Parent[h] \in D \union {Root},
         NEW g \in Groups, Parent[g] \in D \union {Root}
  PROVE  Above(g) \subseteq D
<1>1. \A h \in D : Above(h) \subseteq D
  <2> DEFINE B == {h \in D : ~(Above(h) \subseteq D)}
  <2> SUFFICES ASSUME B # {} PROVE FALSE
    OBVIOUS
  <2>1. B \in SUBSET Groups
    OBVIOUS
  <2>2. PICK h \in B : Parent[h] \notin B
    BY <2>1, TreeAssumption
  <2>3. Parent[h] = Root \/ Above(Parent[h]) \subseteq D
    BY <2>2
  <2>4. Above(h) = ({Parent[h]} \union Above(Parent[h])) \ {Root}
    BY AboveIs
  <2>5. Above(Parent[h]) \subseteq D
    BY <2>3, AboveIs
  <2> QED
    BY <2>2, <2>4, <2>5
<1>2. Above(g) = ({Parent[g]} \union Above(Parent[g])) \ {Root}
  BY AboveIs
<1>3. Above(Parent[g]) \subseteq D
  BY <1>1, AboveIs
<1> QED
  BY <1>2, <1>3

LEMMA ParentAbove ==
  ASSUME NEW g \in Groups
  PROVE  Parent[g] # Root => Parent[g] \in Above(g)
BY AboveIs

LEMMA NotOwnParent ==
  ASSUME NEW g \in Groups
  PROVE  Parent[g] # g
<1>1. {g} \in SUBSET Groups
  OBVIOUS
<1>2. PICK h \in {g} : Parent[h] \notin {g}
  BY <1>1, TreeAssumption
<1> QED
  BY <1>2

-----------------------------------------------------------------------------
(* The inductive invariant. *)

\* Nothing has panicked; every group's parent is there, and a group that is still to be
\* configured is nobody's parent and nobody's cgroup.  Who is not there is at the root.
TreeInv ==
  /\ ~panicked
  /\ \A g \in dirs : Parent[g] \in dirs \union {Root} /\ Parent[g] # making
  /\ \A g \in dirs : g # making => g \in control /\ cpuset[g] # {}
  /\ \A t \in Tasks : cgroup[t] # making
  /\ \A t \in Tasks : t \in Present \/ cgroup[t] = Root

\* What was set since the test CPUs were is among them.
MaskInv ==
  ~late => /\ \A g \in dirs : cpuset[g] \subseteq TestCpus
           /\ \A t \in Present : affinity[t] # {} /\ affinity[t] \subseteq TestCpus

IInv == TypeOK /\ TreeInv /\ MaskInv

\* What is assumed of the constants.
LEMMA Facts ==
  /\ NumCpus \in Nat /\ NumCpus >= 2
  /\ Root \notin Groups /\ None \notin Groups /\ None # Root
  /\ Parent \in [Groups -> Groups \union {Root}]
  /\ Lists \subseteq SUBSET CPUs
BY TreeAssumption

LEMMA TestCpusIs ==
  ASSUME NEW n \in 1 .. NumCpus - 1
  PROVE  1 .. n \subseteq CPUs /\ 1 .. n # {}
<1>1. 1 \in 1 .. n /\ n \in Nat
  BY Facts
<1>2. ASSUME NEW c \in 1 .. n PROVE c \in 0 .. NumCpus - 1
  BY Facts
<1> QED
  BY <1>1, <1>2 DEF CPUs

\* The invariant holds at first.
LEMMA InitInv ==
  ASSUME Init
  PROVE  IInv
<1>1. /\ ncpus = NumCpus - 1 /\ dirs = {} /\ control = {} /\ cpuset = [g \in Groups |-> {}] /\ making = None
      /\ life = [t \in Tasks |-> "none"] /\ cgroup = [t \in Tasks |-> Root]
      /\ affinity = [t \in Tasks |-> {}] /\ panicked = FALSE /\ late = FALSE
  BY DEF Init
<1>2. Present = {}
  BY <1>1 DEF Present
<1>3. ncpus \in 1 .. NumCpus - 1
  BY <1>1, Facts
<1>4. /\ cpuset \in [Groups -> SUBSET CPUs] /\ \A g \in Groups \ dirs : cpuset[g] = {}
  BY <1>1
<1>5. life \in [Tasks -> {"none", "live", "dying", "dead", "refused"}]
  BY <1>1
<1>6. cgroup \in [Tasks -> Groups \union {Root}] /\ affinity \in [Tasks -> SUBSET CPUs]
  BY <1>1
<1>7. TypeOK
  BY <1>1, <1>2, <1>3, <1>4, <1>5, <1>6 DEF TypeOK
<1>8. TreeInv
  BY <1>1, Facts DEF TreeInv
<1>9. MaskInv
  BY <1>1, <1>2 DEF MaskInv
<1> QED
  BY <1>7, <1>8, <1>9 DEF IInv

\* Present, by the task.
LEMMA PresentIs ==
  /\ \A t : t \in Present <=> t \in Tasks /\ life[t] \in {"live", "dying", "refused"}
  /\ \A t : t \in Present' <=> t \in Tasks /\ life'[t] \in {"live", "dying", "refused"}
BY DEF Present

\* The verbs.
LEMMA TopoStep ==
  ASSUME IInv, NEW n \in 1 .. NumCpus - 1, cmd_cpu_topo(n)
  PROVE  IInv'
<1>0. TypeOK /\ TreeInv /\ MaskInv
  BY DEF IInv
<1>1. /\ ncpus' = n /\ late' = (late \/ dirs # {} \/ \E t \in Tasks : life[t] # "none")
      /\ UNCHANGED <<dirs, control, cpuset, making, life, cgroup, affinity, panicked>>
  BY DEF cmd_cpu_topo, tree, tasks
<1>2. Present' = Present
  BY <1>1 DEF Present
<1>3. late' \in BOOLEAN
  BY <1>1
<1>4. TypeOK'
  BY <1>0, <1>1, <1>2, <1>3 DEF TypeOK
<1>5. TreeInv'
  BY <1>0, <1>1, <1>2 DEF TreeInv
<1>6. MaskInv'
  <2> SUFFICES ASSUME ~late' PROVE dirs' = {} /\ Present' = {}
    BY DEF MaskInv
  <2>1. dirs = {} /\ \A t \in Tasks : life[t] = "none"
    BY <1>1
  <2> QED
    BY <1>1, <1>2, <2>1 DEF Present
<1> QED
  BY <1>4, <1>5, <1>6 DEF IInv

LEMMA CreateStep ==
  ASSUME IInv, NEW t \in Tasks, NEW g \in Groups \union {Root}, cmd_create(t, g)
  PROVE  IInv'
<1>0. TypeOK /\ TreeInv /\ MaskInv
  BY DEF IInv
<1>1. /\ making = None /\ life[t] = "none" /\ g \in dirs \union {Root}
      /\ affinity' = [affinity EXCEPT ![t] = TestCpus]
      /\ UNCHANGED <<ncpus, dirs, control, cpuset, making, panicked, late>>
      /\ \/ cgroup' = [cgroup EXCEPT ![t] = g] /\ life' = [life EXCEPT ![t] = "live"]
         \/ cgroup' = cgroup /\ life' = [life EXCEPT ![t] = "refused"]
  BY DEF cmd_create, Idle, kstep_cgroup_exists, kstep_cgroup_move_task, tree
<1>2. t \notin Present /\ cgroup[t] = Root
  BY <1>0, <1>1, PresentIs DEF TreeInv
<1>3. /\ cgroup'[t] \in dirs \union {Root} /\ life'[t] \in {"live", "refused"} /\ affinity'[t] = TestCpus
      /\ \A u \in Tasks : u # t => cgroup'[u] = cgroup[u] /\ life'[u] = life[u] /\ affinity'[u] = affinity[u]
  BY <1>0, <1>1, <1>2 DEF TypeOK
<1>4. /\ life' \in [Tasks -> {"none", "live", "dying", "dead", "refused"}]
      /\ cgroup' \in [Tasks -> Groups \union {Root}]
  BY <1>0, <1>1 DEF TypeOK
<1>5. TestCpus \subseteq CPUs /\ TestCpus # {} /\ TestCpus' = TestCpus
  BY <1>0, <1>1, TestCpusIs DEF TypeOK, TestCpus
<1>6. affinity' \in [Tasks -> SUBSET CPUs]
  BY <1>0, <1>1, <1>5 DEF TypeOK
<1>7. Present' = Present \union {t}
  <2>1. \A u : u \in Present' <=> u \in Present \union {t}
    BY <1>3, PresentIs
  <2> QED
    BY <2>1
<1>8. \A u \in Present' : cgroup'[u] \in dirs' \union {Root}
  BY <1>0, <1>1, <1>3, <1>7, PresentIs DEF TypeOK
<1>9. TypeOK'
  BY <1>0, <1>1, <1>4, <1>6, <1>8 DEF TypeOK
<1>10. TreeInv'
  <2>1. \A u \in Tasks : cgroup'[u] # making'
    BY <1>1, <1>4, Facts
  <2>2. \A u \in Tasks : u \in Present' \/ cgroup'[u] = Root
    BY <1>0, <1>3, <1>7 DEF TreeInv
  <2> QED
    BY <1>0, <1>1, <2>1, <2>2 DEF TreeInv
<1>11. MaskInv'
  <2> SUFFICES ASSUME ~late'
               PROVE  /\ \A h \in dirs' : cpuset'[h] \subseteq TestCpus'
                      /\ \A u \in Present' : affinity'[u] # {} /\ affinity'[u] \subseteq TestCpus'
    BY DEF MaskInv
  <2>1. /\ \A h \in dirs : cpuset[h] \subseteq TestCpus
        /\ \A u \in Present : affinity[u] # {} /\ affinity[u] \subseteq TestCpus
    BY <1>0, <1>1 DEF MaskInv
  <2> QED
    BY <1>1, <1>3, <1>5, <1>7, <2>1, PresentIs
<1> QED
  BY <1>9, <1>10, <1>11 DEF IInv

LEMMA AffinityStep ==
  ASSUME IInv, NEW t \in Tasks, NEW list \in Lists, cmd_affinity(t, list)
  PROVE  IInv'
<1>0. TypeOK /\ TreeInv /\ MaskInv
  BY DEF IInv
<1>1. /\ list # {} /\ list \subseteq TestCpus /\ list \in SUBSET CPUs
      /\ affinity' = [affinity EXCEPT ![t] = list]
      /\ UNCHANGED <<ncpus, dirs, control, cpuset, making, life, cgroup, panicked, late>>
  BY Facts DEF cmd_affinity, kstep_parse_cpus, tree
<1>2. Present' = Present /\ TestCpus' = TestCpus
  BY <1>1 DEF Present, TestCpus
<1>3. affinity' \in [Tasks -> SUBSET CPUs]
  BY <1>0, <1>1 DEF TypeOK
<1>4. TypeOK'
  BY <1>0, <1>1, <1>2, <1>3 DEF TypeOK
<1>5. TreeInv'
  BY <1>0, <1>1, <1>2 DEF TreeInv
<1>6. \A u \in Tasks : affinity'[u] = IF u = t THEN list ELSE affinity[u]
  BY <1>0, <1>1 DEF TypeOK
<1>7. MaskInv'
  BY <1>0, <1>1, <1>2, <1>6, PresentIs DEF MaskInv
<1> QED
  BY <1>4, <1>5, <1>7 DEF IInv

\* kstep_cgroup_create(), its first half: the new group has no child and no task.
LEMMA MkdirStep ==
  ASSUME IInv, NEW g \in Groups, cmd_cgroup_create(g)
  PROVE  IInv'
<1>0. TypeOK /\ TreeInv /\ MaskInv
  BY DEF IInv
<1>1. /\ making = None /\ g \notin dirs /\ Parent[g] \in dirs \union {Root}
      /\ dirs' = dirs \union {g} /\ making' = g
      /\ UNCHANGED <<ncpus, control, cpuset, life, cgroup, affinity, panicked, late>>
  BY DEF cmd_cgroup_create, Idle, kstep_cgroup_exists, kstep_mkdir, tasks
<1>2. Present' = Present /\ TestCpus' = TestCpus
  BY <1>1 DEF Present, TestCpus
<1>3. TypeOK'
  BY <1>0, <1>1, <1>2 DEF TypeOK
<1>4. TreeInv'
  <2>1. \A h \in dirs : Parent[h] \in dirs \union {Root} /\ Parent[h] # g
    BY <1>0, <1>1, Facts DEF TreeInv
  <2>2. Parent[g] # g
    BY NotOwnParent
  <2>3. \A h \in dirs : h \in control /\ cpuset[h] # {}
    BY <1>0, <1>1, Facts DEF TreeInv, TypeOK
  <2>4. \A t \in Tasks : cgroup[t] # g
    <3> SUFFICES ASSUME NEW t \in Tasks, cgroup[t] = g PROVE FALSE
      OBVIOUS
    <3>1. t \in Present
      BY <1>0, Facts DEF TreeInv
    <3> QED
      BY <1>0, <1>1, <3>1, Facts DEF TypeOK
  <2> QED
    BY <1>0, <1>1, <1>2, <2>1, <2>2, <2>3, <2>4 DEF TreeInv
<1>5. MaskInv'
  <2>1. cpuset[g] = {}
    BY <1>0, <1>1 DEF TypeOK
  <2> QED
    BY <1>0, <1>1, <1>2, <2>1 DEF MaskInv
<1> QED
  BY <1>3, <1>4, <1>5 DEF IInv

LEMMA CpusStep ==
  ASSUME IInv, NEW g \in Groups, NEW list \in Lists, cmd_cgroup_cpus(g, list)
  PROVE  IInv'
<1>0. TypeOK /\ TreeInv /\ MaskInv
  BY DEF IInv
<1>1. /\ g \in dirs /\ list # {} /\ list \subseteq TestCpus /\ list \in SUBSET CPUs
      /\ cpuset' = [cpuset EXCEPT ![g] = list]
      /\ UNCHANGED <<ncpus, dirs, control, making, life, cgroup, affinity, panicked, late>>
  BY Facts DEF cmd_cgroup_cpus, kstep_parse_cpus, kstep_cgroup_set_cpuset, tasks
<1>2. Present' = Present /\ TestCpus' = TestCpus
  BY <1>1 DEF Present, TestCpus
<1>3. /\ cpuset' \in [Groups -> SUBSET CPUs]
      /\ \A h \in Groups : cpuset'[h] = IF h = g THEN list ELSE cpuset[h]
  BY <1>0, <1>1 DEF TypeOK
<1>4. dirs \subseteq Groups
  BY <1>0 DEF TypeOK
<1>5. TypeOK'
  BY <1>0, <1>1, <1>2, <1>3 DEF TypeOK
<1>6. TreeInv'
  BY <1>0, <1>1, <1>2, <1>3, <1>4 DEF TreeInv
<1>7. MaskInv'
  BY <1>0, <1>1, <1>2, <1>3, <1>4 DEF MaskInv
<1> QED
  BY <1>5, <1>6, <1>7 DEF IInv

\* A group that is nobody's parent and holds no task goes.
LEMMA RemoveStep ==
  ASSUME IInv, NEW g \in dirs, making \in {None, g}, making' = None,
         \A h \in dirs : Parent[h] # g, \A t \in Present : cgroup[t] # g,
         dirs' = dirs \ {g}, control' = control \ {g}, cpuset' = [cpuset EXCEPT ![g] = {}],
         UNCHANGED <<ncpus, life, cgroup, affinity, panicked, late>>
  PROVE  IInv'
<1>0. TypeOK /\ TreeInv /\ MaskInv
  BY DEF IInv
<1>1. Present' = Present /\ TestCpus' = TestCpus
  BY DEF Present, TestCpus
<1>2. dirs \subseteq Groups
  BY <1>0 DEF TypeOK
<1>3. /\ cpuset' \in [Groups -> SUBSET CPUs]
      /\ \A h \in Groups : cpuset'[h] = IF h = g THEN {} ELSE cpuset[h]
  BY <1>0, <1>2 DEF TypeOK
<1>4. TypeOK'
  BY <1>0, <1>1, <1>2, <1>3 DEF TypeOK
<1>5. TreeInv'
  <2>1. \A h \in dirs' : Parent[h] \in dirs' \union {Root} /\ Parent[h] # None
    BY <1>0, <1>2, Facts DEF TreeInv
  <2>2. \A h \in dirs' : h \in control' /\ cpuset'[h] # {}
    BY <1>0, <1>2, <1>3, Facts DEF TreeInv
  <2>3. \A t \in Tasks : cgroup[t] # None
    BY <1>0, Facts DEF TypeOK
  <2> QED
    BY <1>0, <1>1, <2>1, <2>2, <2>3 DEF TreeInv
<1>6. MaskInv'
  BY <1>0, <1>1, <1>2, <1>3 DEF MaskInv
<1> QED
  BY <1>4, <1>5, <1>6 DEF IInv

\* cgroup-destroy, which has looked.
LEMMA DestroyStep ==
  ASSUME IInv, NEW g \in Groups, cmd_cgroup_destroy(g)
  PROVE  IInv'
<1>0. TypeOK /\ TreeInv
  BY DEF IInv
<1>1. /\ making = None /\ g \in dirs /\ ~Populated(g) /\ Below(g) = {}
      /\ UNCHANGED <<ncpus, making, life, cgroup, affinity, late>>
  BY DEF cmd_cgroup_destroy, busy, Idle, tasks
<1>2. dirs' = dirs \ {g} /\ control' = control \ {g} /\ cpuset' = [cpuset EXCEPT ![g] = {}] /\ panicked' = panicked
  BY <1>1 DEF cmd_cgroup_destroy, kstep_rmdir
<1>3. \A h \in dirs : Parent[h] # g
  <2> SUFFICES ASSUME NEW h \in dirs, Parent[h] = g PROVE FALSE
    OBVIOUS
  <2>1. h \in Groups /\ g # Root
    BY <1>0, Facts DEF TypeOK
  <2>2. g \in Above(h)
    BY <2>1, ParentAbove
  <2> QED
    BY <1>1, <2>2 DEF Below
<1>4. \A t \in Present : cgroup[t] # g
  BY <1>1 DEF Populated, Inside
<1> QED
  BY <1>1, <1>2, <1>3, <1>4, RemoveStep

\* The second half, which has not: a group just made is not in use.
LEMMA ConfigureStep ==
  ASSUME IInv, configure
  PROVE  IInv'
<1>0. TypeOK /\ TreeInv /\ MaskInv
  BY DEF IInv
<1>1. making # None /\ making' = None /\ UNCHANGED <<ncpus, life, cgroup, affinity, late>>
  BY DEF configure, tasks
<1>2. PICK g \in dirs : g = making
  BY <1>0, <1>1 DEF TypeOK
<1>3. dirs \subseteq Groups /\ g \in Groups
  BY <1>0 DEF TypeOK
<1>4. Present' = Present /\ TestCpus' = TestCpus
  BY <1>1 DEF Present, TestCpus
<1>5. CASE ValidDomain(making)
  <2>1. control' = control \union {g} /\ cpuset' = [cpuset EXCEPT ![g] = TestCpus] /\ UNCHANGED <<dirs, panicked>>
    BY <1>2, <1>5 DEF configure, kstep_cgroup_set_cpuset
  <2>2. TestCpus \subseteq CPUs /\ TestCpus # {}
    BY <1>0, TestCpusIs DEF TypeOK, TestCpus
  <2>3. /\ cpuset' \in [Groups -> SUBSET CPUs]
        /\ \A h \in Groups : cpuset'[h] = IF h = g THEN TestCpus ELSE cpuset[h]
    BY <1>0, <1>3, <2>1, <2>2 DEF TypeOK
  <2>4. TypeOK'
    BY <1>0, <1>1, <1>3, <1>4, <2>1, <2>3 DEF TypeOK
  <2>5. TreeInv'
    <3>1. \A h \in dirs : Parent[h] \in dirs \union {Root} /\ Parent[h] # None
      BY <1>0, <1>3, Facts DEF TreeInv
    <3>2. \A h \in dirs : h \in control' /\ cpuset'[h] # {}
      BY <1>0, <1>2, <1>3, <2>1, <2>2, <2>3 DEF TreeInv
    <3>3. \A t \in Tasks : cgroup[t] # None
      BY <1>0, Facts DEF TypeOK
    <3> QED
      BY <1>0, <1>1, <1>4, <2>1, <3>1, <3>2, <3>3 DEF TreeInv
  <2>6. MaskInv'
    BY <1>0, <1>1, <1>3, <1>4, <2>1, <2>3 DEF MaskInv
  <2> QED
    BY <2>4, <2>5, <2>6 DEF IInv
<1>6. CASE ~ValidDomain(making)
  <2>1. \A h \in dirs : Parent[h] # g
    BY <1>0, <1>2 DEF TreeInv
  <2>2. \A t \in Present : cgroup[t] # g
    BY <1>0, <1>2, PresentIs DEF TreeInv
  <2>3. Below(g) = {}
    <3> DEFINE D == dirs \ {g}
    <3>1. \A h \in dirs : Parent[h] \in D \union {Root}
      BY <1>0, <2>1 DEF TreeInv
    <3>2. D \in SUBSET Groups /\ \A h \in D : h \in dirs
      BY <1>3
    <3> HIDE DEF D
    <3>3. ASSUME NEW h \in dirs PROVE Above(h) \subseteq D
      BY <1>3, <3>1, <3>2, AboveStays
    <3>4. g \notin D
      BY DEF D
    <3> QED
      BY <3>3, <3>4 DEF Below
  <2>4. ~Populated(g)
    BY <2>2, <2>3 DEF Populated, Inside
  <2>5. dirs' = dirs \ {g} /\ control' = control \ {g} /\ cpuset' = [cpuset EXCEPT ![g] = {}] /\ panicked' = panicked
    BY <1>2, <1>6, <2>3, <2>4 DEF configure, kstep_rmdir
  <2> QED
    BY <1>1, <1>2, <2>1, <2>2, <2>5, RemoveStep
<1> QED
  BY <1>5, <1>6

LEMMA AttachStep ==
  ASSUME IInv, NEW t \in Tasks, NEW g \in Groups \union {Root}, cmd_cgroup_attach(g, t)
  PROVE  IInv'
<1>0. TypeOK /\ TreeInv /\ MaskInv
  BY DEF IInv
<1>1. /\ making = None /\ g \in dirs \union {Root} /\ life[t] \in {"live", "dying"}
      /\ cgroup' = cgroup \/ cgroup' = [cgroup EXCEPT ![t] = g]
      /\ UNCHANGED <<ncpus, dirs, control, cpuset, making, life, affinity, panicked, late>>
  BY DEF cmd_cgroup_attach, Idle, kstep_cgroup_exists, kstep_cgroup_move_task, tree
<1>2. Present' = Present /\ TestCpus' = TestCpus /\ t \in Present
  BY <1>1 DEF Present, TestCpus
<1>3. /\ cgroup' \in [Tasks -> Groups \union {Root}] /\ \A u \in Tasks : cgroup'[u] = cgroup[u] \/ (u = t /\ cgroup'[u] = g)
  BY <1>0, <1>1 DEF TypeOK
<1>4. \A u \in Present : cgroup'[u] \in dirs \union {Root}
  BY <1>0, <1>1, <1>3, PresentIs DEF TypeOK
<1>5. TypeOK'
  BY <1>0, <1>1, <1>2, <1>3, <1>4 DEF TypeOK
<1>6. TreeInv'
  <2>1. \A u \in Tasks : cgroup'[u] # None
    BY <1>3, Facts
  <2>2. \A u \in Tasks : u \in Present \/ cgroup'[u] = Root
    BY <1>0, <1>2, <1>3 DEF TreeInv
  <2> QED
    BY <1>0, <1>1, <1>2, <2>1, <2>2 DEF TreeInv
<1>7. MaskInv'
  BY <1>0, <1>1, <1>2 DEF MaskInv
<1> QED
  BY <1>5, <1>6, <1>7 DEF IInv

LEMMA KillStep ==
  ASSUME IInv, NEW t \in Tasks, kill(t)
  PROVE  IInv'
<1>0. TypeOK /\ TreeInv /\ MaskInv
  BY DEF IInv
<1>1. /\ life[t] = "live" /\ life' = [life EXCEPT ![t] = "dying"]
      /\ UNCHANGED <<ncpus, dirs, control, cpuset, making, cgroup, affinity, panicked, late>>
  BY DEF kill, tree
<1>2. life' \in [Tasks -> {"none", "live", "dying", "dead", "refused"}] /\ \A u \in Tasks : life'[u] = IF u = t THEN "dying" ELSE life[u]
  BY <1>0, <1>1 DEF TypeOK
<1>3. Present' = Present /\ TestCpus' = TestCpus
  BY <1>1, <1>2 DEF Present, TestCpus
<1>4. TypeOK'
  BY <1>0, <1>1, <1>2, <1>3 DEF TypeOK
<1>5. TreeInv'
  BY <1>0, <1>1, <1>3 DEF TreeInv
<1>6. MaskInv'
  BY <1>0, <1>1, <1>3 DEF MaskInv
<1> QED
  BY <1>4, <1>5, <1>6 DEF IInv

LEMMA ExitStep ==
  ASSUME IInv, NEW t \in Tasks, exit(t)
  PROVE  IInv'
<1>0. TypeOK /\ TreeInv /\ MaskInv
  BY DEF IInv
<1>1. /\ life[t] = "dying" /\ life' = [life EXCEPT ![t] = "dead"]
      /\ cgroup' = [cgroup EXCEPT ![t] = Root] /\ affinity' = [affinity EXCEPT ![t] = {}]
      /\ UNCHANGED <<ncpus, dirs, control, cpuset, making, panicked, late>>
  BY DEF exit, tree
<1>2. /\ life' \in [Tasks -> {"none", "live", "dying", "dead", "refused"}]
      /\ cgroup' \in [Tasks -> Groups \union {Root}] /\ affinity' \in [Tasks -> SUBSET CPUs]
  BY <1>0, <1>1 DEF TypeOK
<1>3. /\ life'[t] = "dead" /\ cgroup'[t] = Root
      /\ \A u \in Tasks : u # t => life'[u] = life[u] /\ cgroup'[u] = cgroup[u] /\ affinity'[u] = affinity[u]
  BY <1>0, <1>1 DEF TypeOK
<1>4. Present' = Present \ {t} /\ TestCpus' = TestCpus
  <2>1. \A u : u \in Present' <=> u \in Present \ {t}
    BY <1>3, PresentIs
  <2> QED
    BY <1>1, <2>1 DEF TestCpus
<1>5. Present \subseteq Tasks
  BY PresentIs
<1>6. TypeOK'
  <2>1. \A u \in Present' : cgroup'[u] \in dirs' \union {Root}
    BY <1>0, <1>1, <1>3, <1>4, <1>5 DEF TypeOK
  <2> QED
    BY <1>0, <1>1, <1>2, <2>1 DEF TypeOK
<1>7. TreeInv'
  <2>1. \A u \in Tasks : cgroup'[u] # making'
    <3>1. making # Root
      BY <1>0, Facts DEF TypeOK
    <3> QED
      BY <1>0, <1>1, <1>3, <3>1 DEF TreeInv
  <2>2. \A u \in Tasks : u \in Present' \/ cgroup'[u] = Root
    BY <1>0, <1>3, <1>4 DEF TreeInv
  <2> QED
    BY <1>0, <1>1, <2>1, <2>2 DEF TreeInv
<1>8. MaskInv'
  BY <1>0, <1>1, <1>3, <1>4, <1>5 DEF MaskInv
<1> QED
  BY <1>6, <1>7, <1>8 DEF IInv

LEMMA StutterStep ==
  ASSUME IInv, UNCHANGED vars
  PROVE  IInv'
<1>1. UNCHANGED <<ncpus, dirs, control, cpuset, making, life, cgroup, affinity, panicked, late>>
  BY DEF vars, tree, tasks
<1>2. Present' = Present /\ TestCpus' = TestCpus
  BY <1>1 DEF Present, TestCpus
<1> QED
  BY <1>1, <1>2 DEF IInv, TypeOK, TreeInv, MaskInv

\* Every step keeps the invariant.
LEMMA NextStep ==
  ASSUME IInv, [Next]_vars
  PROVE  IInv'
BY TopoStep, CreateStep, AffinityStep, MkdirStep, DestroyStep, ConfigureStep, CpusStep, AttachStep,
   KillStep, ExitStep, StutterStep DEF Next

\* The cpuset in force at a configured group is among the test CPUs, and not empty.
LEMMA EffectiveOnTestCpus ==
  ASSUME IInv, ~late, NEW g \in dirs, g # making
  PROVE  Effective(g) # {} /\ Effective(g) \subseteq TestCpus
<1>0. TypeOK /\ TreeInv /\ MaskInv
  BY DEF IInv
<1>1. dirs \subseteq Groups /\ cpuset \in [Groups -> SUBSET CPUs]
  BY <1>0 DEF TypeOK
<1> DEFINE Good(h) == Effective(h) # {} /\ Effective(h) \subseteq TestCpus
           B == {h \in dirs : h # making /\ ~Good(h)}
<1> HIDE DEF Good
<1> SUFFICES ASSUME B # {} PROVE FALSE
  BY DEF Good
<1>2. B \in SUBSET Groups
  BY <1>1
<1>3. PICK h \in B : Parent[h] \notin B
  BY <1>2, TreeAssumption
<1>4. h \in Groups /\ h \in dirs /\ h # making
  BY <1>1
<1>5. cpuset[h] # {} /\ cpuset[h] \subseteq TestCpus /\ cpuset[h] \subseteq CPUs
  BY <1>0, <1>1, <1>4 DEF TreeInv, MaskInv
<1>6. Parent[h] = Root \/ Good(Parent[h])
  BY <1>0, <1>3, <1>4 DEF TreeInv
<1>7. Effective(Root) = CPUs
  BY <1>1, EffectiveIs
<1>8. Effective(h) = IF cpuset[h] \intersect Effective(Parent[h]) = {}
                     THEN Effective(Parent[h]) ELSE cpuset[h] \intersect Effective(Parent[h])
  BY <1>1, <1>4, EffectiveIs
<1>9. CASE Parent[h] = Root
  <2>1. cpuset[h] \intersect Effective(Parent[h]) = cpuset[h]
    BY <1>5, <1>7, <1>9
  <2>2. Effective(h) = cpuset[h]
    BY <1>5, <1>8, <2>1
  <2> QED
    BY <1>3, <1>5, <2>2 DEF Good
<1>10. CASE Good(Parent[h])
  <2>1. Good(h)
    BY <1>5, <1>8, <1>10 DEF Good
  <2> QED
    BY <1>3, <2>1
<1> QED
  BY <1>6, <1>9, <1>10

LEMMA MasksOnTestCpus == IInv => TasksOnTestCpus
<1> SUFFICES ASSUME IInv, ~late, NEW t \in Present
             PROVE  cpus_mask(t) # {} /\ cpus_mask(t) \subseteq TestCpus
  BY DEF TasksOnTestCpus
<1>0. TypeOK /\ TreeInv /\ MaskInv /\ t \in Tasks
  BY PresentIs DEF IInv
<1>1. affinity[t] # {} /\ affinity[t] \subseteq TestCpus
  BY <1>0 DEF MaskInv
<1>2. cgroup[t] \in dirs \union {Root} /\ cgroup[t] # making
  BY <1>0 DEF TypeOK, TreeInv
<1>3. CASE cgroup[t] = Root
  <2>1. Effective(cgroup[t]) = CPUs
    BY <1>0, <1>3, EffectiveIs DEF TypeOK
  <2>2. affinity[t] \subseteq CPUs
    BY <1>0 DEF TypeOK
  <2>3. affinity[t] \intersect Effective(cgroup[t]) = affinity[t]
    BY <2>1, <2>2
  <2>4. cpus_mask(t) = affinity[t]
    BY <1>1, <2>3 DEF cpus_mask
  <2> QED
    BY <1>1, <2>4
<1>4. CASE cgroup[t] \in dirs
  <2>1. Effective(cgroup[t]) # {} /\ Effective(cgroup[t]) \subseteq TestCpus
    BY <1>2, <1>4, EffectiveOnTestCpus
  <2> QED
    BY <1>1, <2>1 DEF cpus_mask
<1> QED
  BY <1>2, <1>3, <1>4

LEMMA SoundTree == IInv => TreeSound
<1>1. None \notin Groups
  BY Facts
<1> QED
  BY <1>1 DEF IInv, TypeOK, TreeInv, TreeSound

-----------------------------------------------------------------------------
(* The theorems. *)

\* The inductive invariant: the properties, and that a cgroup which is made and not yet
\* configured is nobody's parent and nobody's cgroup.
THEOREM Invariant == Spec => []IInv
BY InitInv, NextStep, PTL DEF Spec

\* Every variable keeps to its type, for every set of paths, tasks and CPUs: settings are
\* those of cgroups that are there, and so is the cgroup of every task that is.
THEOREM TypeCorrect == Spec => []TypeOK
<1>1. IInv => TypeOK
  BY DEF IInv
<1> QED
  BY <1>1, Invariant, PTL

\* kstep_rmdir() never fails on a cgroup in use, not even where kstep_cgroup_create()
\* takes back what it could not configure; and between two verbs the tree is whole.
THEOREM TreeStaysSound == Spec => []TreeSound
BY SoundTree, Invariant, PTL

\* Whatever verbs set the affinities and the cpusets, at whatever depth, no task is ever
\* allowed the controller's CPU, and none is left without a CPU.
THEOREM TasksStayOnTestCpus == Spec => []TasksOnTestCpus
BY MasksOnTestCpus, Invariant, PTL

\* A step of the region is one of the cgroups, or none.
LEMMA RegionStep ==
  ASSUME [RegionNext]_regionVars
  PROVE  [Next]_vars
<1>1. CASE UNCHANGED regionVars
  BY <1>1 DEF regionVars
<1>2. CASE \E n \in 1 .. NumCpus - 1 : \E h \in Hierarchies[n] : topo(n, h)
  BY <1>2 DEF topo, Next
<1>3. CASE \E t \in Tasks, g \in Groups \union {Root} : create(t, g)
  BY <1>3 DEF create, Next
<1>4. CASE \E g \in Groups : mkdir(g) \/ rmdir(g)
  BY <1>4 DEF mkdir, rmdir, Next
<1>5. CASE \E t \in Tasks, p \in {"fair", "rt"} : cmd_policy(t, p)
  BY <1>5 DEF cmd_policy
<1>6. CASE \E t \in Tasks : die(t)
  BY <1>6 DEF die, Next
<1>7. CASE Other
  BY <1>7 DEF Other, Next
<1> QED
  BY <1>1, <1>2, <1>3, <1>4, <1>5, <1>6, <1>7 DEF RegionNext

\* The machine whose tables kstep_shm_update() writes is this one: each verb as Region
\* has it is the verb here, so what is proved of the cgroups holds there too.
THEOREM RegionKeepsTheRules == RegionSpec => Spec
<1>1. RegionInit => Init
  BY DEF RegionInit
<1> QED
  BY <1>1, RegionStep, PTL DEF RegionSpec, Spec

-----------------------------------------------------------------------------
(* Induction. *)

\* A set of natural numbers has a least one.
LEMMA LeastNat ==
  ASSUME NEW T \in SUBSET Nat, T # {}
  PROVE  \E n \in T : \A m \in T : n <= m
<1>1. IsWellFoundedOn(OpToRel(<, Nat), Nat)
  BY NatLessThanWellFounded
<1>2. PICK n \in T : \A m \in T : ~(<<m, n>> \in OpToRel(<, Nat))
  BY <1>1, WFMin, Zenon
<1>3. \A m \in T : ~(m < n)
  BY <1>2 DEF OpToRel
<1> QED
  BY <1>3

\* Induction, with the property as a set.
LEMMA Upwards ==
  ASSUME NEW n \in Nat, NEW T, 0 \in T, \A k \in 0 .. n - 1 : k \in T => k + 1 \in T
  PROVE  \A k \in 0 .. n : k \in T
<1> DEFINE B == {k \in 0 .. n : k \notin T}
<1> SUFFICES ASSUME B # {} PROVE FALSE
  OBVIOUS
<1>1. B \in SUBSET Nat
  OBVIOUS
<1>2. PICK k \in B : \A m \in B : k <= m
  BY <1>1, LeastNat
<1>3. k # 0 /\ k - 1 \in 0 .. n - 1 /\ k - 1 \notin B
  BY <1>2
<1>4. k - 1 \in T /\ (k - 1) + 1 = k
  BY <1>3
<1> QED
  BY <1>2, <1>3, <1>4

\* f follows the rule G from v up to n.
Counts(f, n, V, v, G) ==
  f \in [0 .. n -> V] /\ f[0] = v /\ \A i \in 1 .. n : f[i] = G[i][f[i - 1]]

\* A rule can be followed from 0 up to n.
LEMMA CountedRecursion ==
  ASSUME NEW n \in Nat, NEW V, NEW v \in V, NEW G \in [1 .. n -> [V -> V]]
  PROVE  \E f : Counts(f, n, V, v, G)
<1> DEFINE Up(k) == \E f \in [0 .. k -> V] : f[0] = v /\ \A i \in 1 .. k : f[i] = G[i][f[i - 1]]
           T == {k \in 0 .. n : Up(k)}
<1>1. Up(0)
  <2> DEFINE e == [i \in 0 .. 0 |-> v]
  <2>1. e \in [0 .. 0 -> V] /\ e[0] = v /\ \A i \in 1 .. 0 : e[i] = G[i][e[i - 1]]
    OBVIOUS
  <2> HIDE DEF e
  <2> QED
    BY <2>1
<1>2. ASSUME NEW k \in 0 .. n - 1, Up(k) PROVE Up(k + 1)
  <2>1. PICK f \in [0 .. k -> V] : f[0] = v /\ \A i \in 1 .. k : f[i] = G[i][f[i - 1]]
    BY <1>2
  <2> DEFINE e == [i \in 0 .. k + 1 |-> IF i = k + 1 THEN G[k + 1][f[k]] ELSE f[i]]
  <2>2. k + 1 \in 1 .. n /\ f[k] \in V /\ G[k + 1][f[k]] \in V
    OBVIOUS
  <2>3. e \in [0 .. k + 1 -> V]
    BY <2>2
  <2>4. e[0] = v /\ \A i \in 1 .. k + 1 : e[i] = G[i][e[i - 1]]
    BY <2>1, <2>2
  <2> QED
    BY <2>3, <2>4
<1> HIDE DEF Up
<1>3. 0 \in T /\ \A k \in 0 .. n - 1 : k \in T => k + 1 \in T
  BY <1>1, <1>2
<1>4. \A k \in 0 .. n : k \in T
  BY <1>3, Upwards
<1>5. n \in T
  BY <1>4
<1> QED
  BY <1>5 DEF Up, Counts

-----------------------------------------------------------------------------
(* Filters *)

\* f is the recursion Only() is defined by.
Filters(f, A, s, S) ==
  /\ f \in [0 .. Len(s) -> Seq(A)]
  /\ f[0] = <<>>
  /\ \A i \in 1 .. Len(s) : f[i] = IF s[i] \in S THEN Append(f[i - 1], s[i]) ELSE f[i - 1]
  /\ Only(s, S) = f[Len(s)]

\* Only() follows its rule.
LEMMA OnlyIs ==
  ASSUME NEW A, NEW s \in Seq(A), NEW S
  PROVE  \E f : Filters(f, A, s, S)
<1> DEFINE V == Seq(A)
           n == Len(s)
           v == <<>>
           R(i, x) == IF s[i] \in S THEN Append(x, s[i]) ELSE x
           G == [i \in 1 .. n |-> [x \in V |-> R(i, x)]]
           Rule(f) == f = [i \in 0 .. n |-> IF i = 0 THEN v ELSE R(i, f[i - 1])]
<1>0. n \in Nat
  OBVIOUS
<1>1. \A i \in 1 .. n, x \in V : R(i, x) \in V
  OBVIOUS
<1> HIDE DEF R
<1> HIDE DEF n
<1>2. v \in V /\ G \in [1 .. n -> [V -> V]]
  BY <1>1
<1>3. \A i \in 1 .. n, x \in V : G[i][x] = R(i, x)
  OBVIOUS
<1> HIDE DEF V, G, v
<1>4. PICK f \in [0 .. n -> V] : f[0] = v /\ \A i \in 1 .. n : f[i] = G[i][f[i - 1]]
  <2>1. \E f : Counts(f, n, V, v, G)
    BY <1>0, <1>2, CountedRecursion
  <2> QED
    BY <2>1 DEF Counts
<1>5. \A i \in 0 .. n : f[i] = IF i = 0 THEN v ELSE R(i, f[i - 1])
  <2> SUFFICES ASSUME NEW i \in 1 .. n PROVE f[i] = R(i, f[i - 1])
    BY <1>0, <1>4
  <2>1. f[i - 1] \in V
    BY <1>0
  <2> QED
    BY <1>3, <1>4, <2>1
<1>6. Rule(f)
  BY <1>5
<1>7. Rule(CHOOSE e : Rule(e))
  BY <1>6, Zenon
<1>8. PICK e : e = CHOOSE x : Rule(x)
  OBVIOUS
<1>9. Rule(e)
  BY <1>7, <1>8, Zenon
<1>10. Only(s, S) = e[n]
  BY <1>8, Zenon DEF Only, R, n, v
<1>11. e = [i \in 0 .. n |-> e[i]] /\ \A i \in 0 .. n : e[i] = IF i = 0 THEN v ELSE R(i, e[i - 1])
  BY <1>9
<1> HIDE DEF Rule
<1>12. e[0] = v /\ \A i \in 1 .. n : e[i] = R(i, e[i - 1])
  BY <1>0, <1>11
<1>13. e \in [0 .. n -> V]
  <2> DEFINE T == {i \in 0 .. n : e[i] \in V}
  <2>1. 0 \in T
    BY <1>0, <1>2, <1>12
  <2>2. \A i \in 0 .. n - 1 : i \in T => i + 1 \in T
    <3> SUFFICES ASSUME NEW i \in 0 .. n - 1, e[i] \in V PROVE i + 1 \in T
      OBVIOUS
    <3>1. i + 1 \in 1 .. n /\ (i + 1) - 1 = i /\ i + 1 # 0 /\ i + 1 \in 0 .. n
      BY <1>0
    <3>2. e[i + 1] = R(i + 1, e[i])
      BY <1>11, <3>1
    <3> QED
      BY <1>1, <3>1, <3>2
  <2>3. \A i \in 0 .. n : i \in T
    BY <1>0, <2>1, <2>2, Upwards
  <2> QED
    BY <1>11, <2>3
<1> QED
  BY <1>10, <1>12, <1>13 DEF V, R, n, v, Filters

\* e names, in order, the places of s that r is made of: those in S up to n.
Places(e, r, s, S, n) ==
  /\ e \in [1 .. Len(r) -> 1 .. n]
  /\ \A k \in 1 .. Len(r) : r[k] = s[e[k]]
  /\ \A k, l \in 1 .. Len(r) : k < l => e[k] < e[l]
  /\ \A i \in 1 .. n : s[i] \in S <=> \E k \in 1 .. Len(r) : e[k] = i

\* What is left by a filter: the elements in S, in their order.
LEMMA OnlyPlaces ==
  ASSUME NEW A, NEW s \in Seq(A), NEW S
  PROVE  Only(s, S) \in Seq(A) /\ \E e : Places(e, Only(s, S), s, S, Len(s))
<1>a. PICK f : Filters(f, A, s, S)
  BY OnlyIs
<1>1. /\ f \in [0 .. Len(s) -> Seq(A)] /\ f[0] = <<>> /\ Only(s, S) = f[Len(s)]
      /\ \A i \in 1 .. Len(s) : f[i] = IF s[i] \in S THEN Append(f[i - 1], s[i]) ELSE f[i - 1]
  BY <1>a DEF Filters
<1> DEFINE T == {i \in 0 .. Len(s) : \E e : Places(e, f[i], s, S, i)}
<1>0. Len(s) \in Nat
  OBVIOUS
<1>2. 0 \in T
  <2> DEFINE e == [k \in 1 .. 0 |-> 0]
  <2>1. e \in [1 .. 0 -> 1 .. 0] /\ Len(f[0]) = 0
    BY <1>1
  <2>2. Places(e, f[0], s, S, 0)
    BY <2>1 DEF Places
  <2> QED
    BY <1>0, <2>2
<1>3. ASSUME NEW i \in 0 .. Len(s) - 1, i \in T PROVE i + 1 \in T
  <2>1. PICK e : Places(e, f[i], s, S, i)
    BY <1>3
  <2>2. /\ i + 1 \in 1 .. Len(s) /\ (i + 1) - 1 = i /\ i + 1 \in 0 .. Len(s) /\ i \in 0 .. Len(s)
        /\ i \in Nat
    BY <1>0
  <2>3. f[i] \in Seq(A) /\ s[i + 1] \in A /\ Len(f[i]) \in Nat
    BY <1>1, <2>2
  <2>4. f[i + 1] = IF s[i + 1] \in S THEN Append(f[i], s[i + 1]) ELSE f[i]
    BY <1>1, <2>2
  <2>5. CASE s[i + 1] \notin S
    <3>1. f[i + 1] = f[i]
      BY <2>4, <2>5
    <3>2. \A k \in 1 .. Len(f[i]) : e[k] \in 1 .. i
      BY <2>1 DEF Places
    <3>3. Places(e, f[i], s, S, i + 1)
      <4>1. e \in [1 .. Len(f[i]) -> 1 .. i + 1]
        BY <2>1, <2>2, <3>2 DEF Places
      <4>2. ASSUME NEW j \in 1 .. i + 1
            PROVE  s[j] \in S <=> \E k \in 1 .. Len(f[i]) : e[k] = j
        <5>1. CASE j = i + 1
          BY <2>2, <2>5, <3>2, <5>1
        <5>2. CASE j # i + 1
          <6>1. j \in 1 .. i
            BY <2>2, <5>2
          <6> QED
            BY <2>1, <6>1 DEF Places
        <5> QED
          BY <5>1, <5>2
      <4> QED
        BY <2>1, <4>1, <4>2 DEF Places
    <3> QED
      BY <2>2, <3>1, <3>3
  <2>6. CASE s[i + 1] \in S
    <3> DEFINE r == Append(f[i], s[i + 1])
               m == Len(f[i])
               d == [k \in 1 .. m + 1 |-> IF k = m + 1 THEN i + 1 ELSE e[k]]
    <3>1. f[i + 1] = r
      BY <2>4, <2>6
    <3>2. /\ Len(r) = m + 1 /\ r[m + 1] = s[i + 1] /\ \A k \in 1 .. m : r[k] = f[i][k]
      BY <2>3
    <3>3. \A k \in 1 .. m : e[k] \in 1 .. i /\ f[i][k] = s[e[k]]
      BY <2>1 DEF Places
    <3>4. \A k, l \in 1 .. m : k < l => e[k] < e[l]
      BY <2>1 DEF Places
    <3>5. \A j \in 1 .. i : s[j] \in S <=> \E k \in 1 .. m : e[k] = j
      BY <2>1 DEF Places
    <3> HIDE DEF r, m
    <3>m. m \in Nat
      BY <2>3 DEF m
    <3>6. d[m + 1] = i + 1 /\ \A k \in 1 .. m : d[k] = e[k]
      BY <3>m
    <3>7. d \in [1 .. m + 1 -> 1 .. i + 1]
      BY <2>2, <3>3, <3>m
    <3> HIDE DEF d
    <3>8. \A k \in 1 .. m + 1 : r[k] = s[d[k]]
      BY <3>2, <3>3, <3>6, <3>m
    <3>9. \A k, l \in 1 .. m + 1 : k < l => d[k] < d[l]
      <4> SUFFICES ASSUME NEW k \in 1 .. m + 1, NEW l \in 1 .. m + 1, k < l PROVE d[k] < d[l]
        OBVIOUS
      <4>1. k \in 1 .. m /\ e[k] \in 1 .. i /\ d[k] = e[k]
        BY <3>3, <3>6, <3>m
      <4>2. CASE l = m + 1
        BY <2>2, <3>6, <4>1, <4>2
      <4>3. CASE l # m + 1
        <5>1. l \in 1 .. m
          BY <3>m, <4>3
        <5> QED
          BY <3>4, <3>6, <4>1, <5>1
      <4> QED
        BY <4>2, <4>3
    <3>10. ASSUME NEW j \in 1 .. i + 1
           PROVE  s[j] \in S <=> \E k \in 1 .. m + 1 : d[k] = j
      <4>1. CASE j = i + 1
        <5>1. m + 1 \in 1 .. m + 1
          BY <3>m
        <5> QED
          BY <2>6, <3>6, <4>1, <5>1
      <4>2. CASE j # i + 1
        <5>1. j \in 1 .. i
          BY <2>2, <4>2
        <5>2. (\E k \in 1 .. m + 1 : d[k] = j) <=> \E k \in 1 .. m : e[k] = j
          BY <2>2, <3>6, <3>m, <4>2
        <5> QED
          BY <3>5, <5>1, <5>2
      <4> QED
        BY <4>1, <4>2
    <3>11. Places(d, r, s, S, i + 1)
      BY <3>2, <3>7, <3>8, <3>9, <3>10 DEF Places
    <3> QED
      BY <2>2, <3>1, <3>11
  <2> QED
    BY <2>5, <2>6
<1>4. \A i \in 0 .. Len(s) : i \in T
  BY <1>0, <1>2, <1>3, Upwards
<1>5. Len(s) \in 0 .. Len(s)
  BY <1>0
<1>6. Len(s) \in T /\ f[Len(s)] \in Seq(A)
  BY <1>1, <1>4, <1>5
<1> QED
  BY <1>1, <1>6

-----------------------------------------------------------------------------
(* Flattened lists. *)

\* f is the recursion FlattenSeq() is defined by, from the empty sequence on.
Flattens(f, A, seqs) ==
  /\ f \in [0 .. Len(seqs) -> Seq(A)]
  /\ f[0] = <<>>
  /\ \A i \in 1 .. Len(seqs) : f[i] = f[i - 1] \o seqs[i]
  /\ FlattenSeq(seqs) = f[Len(seqs)]

\* FlattenSeq() follows its rule.
LEMMA FlattenIs ==
  ASSUME NEW A, NEW seqs \in Seq(Seq(A))
  PROVE  \E f : Flattens(f, A, seqs)
<1> DEFINE V == Seq(A)
           n == Len(seqs)
           v == <<>>
           G == [i \in 1 .. n |-> [x \in V |-> x \o seqs[i]]]
           Rule(f) == f = [i \in 1 .. n |-> IF i = 1 THEN seqs[i] ELSE f[i - 1] \o seqs[i]]
<1>0. n \in Nat /\ \A i \in 1 .. n : seqs[i] \in V
  OBVIOUS
<1>1. \A i \in 1 .. n, x \in V : x \o seqs[i] \in V
  BY <1>0
<1>2. v \in V /\ \A x \in V : v \o x = x
  OBVIOUS
<1> HIDE DEF n
<1>3. G \in [1 .. n -> [V -> V]]
  BY <1>1
<1>4. \A i \in 1 .. n, x \in V : G[i][x] = x \o seqs[i]
  OBVIOUS
<1> HIDE DEF V, G, v
<1>5. PICK f \in [0 .. n -> V] : f[0] = v /\ \A i \in 1 .. n : f[i] = G[i][f[i - 1]]
  <2>1. n \in Nat /\ v \in V
    BY <1>0, <1>2
  <2>2. \E f : Counts(f, n, V, v, G)
    BY <1>3, <2>1, CountedRecursion
  <2> QED
    BY <2>2 DEF Counts
<1>6. ASSUME NEW i \in 1 .. n PROVE f[i] = f[i - 1] \o seqs[i]
  <2>1. f[i - 1] \in V
    BY <1>0
  <2> QED
    BY <1>4, <1>5, <2>1
<1>7. CASE n = 0
  <2>1. FlattenSeq(seqs) = seqs /\ seqs = v
    BY <1>7 DEF FlattenSeq, n, v
  <2>2. f[n] = v
    BY <1>5, <1>7
  <2> QED
    BY <1>5, <1>6, <2>1, <2>2 DEF Flattens, V, n, v
<1>8. CASE n # 0
  <2> DEFINE d == [i \in 1 .. n |-> f[i]]
  <2>1. ASSUME NEW i \in 1 .. n PROVE d[i] = IF i = 1 THEN seqs[i] ELSE d[i - 1] \o seqs[i]
    <3>1. CASE i = 1
      <4>1. f[i - 1] = v
        BY <1>5, <3>1
      <4>2. v \o seqs[i] = seqs[i]
        BY <1>0, <1>2
      <4>3. d[i] = seqs[i]
        BY <1>6, <4>1, <4>2
      <4> QED
        BY <3>1, <4>3
    <3>2. CASE i # 1
      <4>1. i - 1 \in 1 .. n
        BY <1>0, <3>2
      <4>2. d[i - 1] = f[i - 1] /\ d[i] = f[i]
        BY <4>1
      <4> QED
        BY <1>6, <3>2, <4>2
    <3> QED
      BY <3>1, <3>2
  <2>2. d = [i \in 1 .. n |-> d[i]]
    OBVIOUS
  <2> HIDE DEF d
  <2>3. Rule(d)
    BY <2>1, <2>2
  <2>4. Rule(CHOOSE e : Rule(e))
    BY <2>3, Zenon
  <2>5. PICK e : e = CHOOSE x : Rule(x)
    OBVIOUS
  <2>6. Rule(e)
    BY <2>4, <2>5, Zenon
  <2>7. FlattenSeq(seqs) = e[n]
    BY <1>8, <2>5, Zenon DEF FlattenSeq, n
  <2>8. \A i \in 1 .. n : e[i] = IF i = 1 THEN seqs[i] ELSE e[i - 1] \o seqs[i]
    BY <2>6
  <2> HIDE DEF Rule
  <2> DEFINE T == {i \in 0 .. n : i # 0 => e[i] = f[i]}
  <2>9. 0 \in T
    BY <1>0
  <2>10. ASSUME NEW i \in 0 .. n - 1, i \in T PROVE i + 1 \in T
    <3>1. i + 1 \in 1 .. n /\ (i + 1) - 1 = i /\ i + 1 \in 0 .. n /\ i + 1 # 0
      BY <1>0
    <3>2. f[i + 1] = f[i] \o seqs[i + 1]
      BY <1>6, <3>1
    <3>3. CASE i = 0
      <4>0. 1 \in 1 .. n
        BY <1>0, <1>8
      <4>1. v \o seqs[1] = seqs[1]
        BY <1>0, <1>2, <4>0
      <4>2. e[1] = seqs[1]
        BY <2>8, <4>0
      <4>3. f[1] = v \o seqs[1]
        <5>1. i + 1 = 1 /\ f[i] = v
          BY <1>5, <3>3
        <5> QED
          BY <3>2, <5>1
      <4> QED
        BY <3>1, <3>3, <4>1, <4>2, <4>3
    <3>4. CASE i # 0
      <4>0. i + 1 # 1
        BY <3>4
      <4>1. e[i + 1] = e[(i + 1) - 1] \o seqs[i + 1]
        BY <2>8, <3>1, <4>0
      <4>2. e[i] = f[i]
        BY <2>10, <3>4
      <4> QED
        BY <3>1, <3>2, <4>1, <4>2
    <3> QED
      BY <3>3, <3>4
  <2>11. \A i \in 0 .. n : i \in T
    BY <1>0, <2>9, <2>10, Upwards
  <2>12. n \in 0 .. n
    BY <1>0
  <2>13. e[n] = f[n]
    BY <1>8, <2>11, <2>12
  <2> QED
    BY <1>5, <1>6, <2>7, <2>13 DEF Flattens, V, n, v
<1> QED
  BY <1>7, <1>8

-----------------------------------------------------------------------------
(* Recursion by rank. *)

\* By the rule G a value depends on values of lower rank only.
Descends(S, rank, V, G) ==
  \A g \in S : \A f, e \in [S -> V] :
    (\A h \in S : rank[h] < rank[g] => f[h] = e[h]) => G[g][f] = G[g][e]

\* f follows the rule.
Obeys(f, S, V, G) == f \in [S -> V] /\ \A g \in S : f[g] = G[g][f]

\* Such a rule can be followed.
LEMMA RankedRecursion ==
  ASSUME NEW N \in Nat, NEW S, NEW rank \in [S -> 0 .. N],
         NEW V, NEW v \in V, NEW G \in [S -> [[S -> V] -> V]],
         Descends(S, rank, V, G)
  PROVE  \E f : Obeys(f, S, V, G)
<1> DEFINE Up(k) == \E f \in [S -> V] : \A g \in S : rank[g] < k => f[g] = G[g][f]
           T == {k \in 0 .. N + 1 : Up(k)}
<1>1. Up(0)
  <2> DEFINE e == [g \in S |-> v]
  <2>1. e \in [S -> V] /\ \A g \in S : ~(rank[g] < 0)
    OBVIOUS
  <2> HIDE DEF e
  <2> QED
    BY <2>1
<1>2. ASSUME NEW k \in 0 .. N, Up(k) PROVE Up(k + 1)
  <2>1. PICK f \in [S -> V] : \A g \in S : rank[g] < k => f[g] = G[g][f]
    BY <1>2
  <2> DEFINE e == [g \in S |-> IF rank[g] = k THEN G[g][f] ELSE f[g]]
  <2>2. \A g \in S : G[g][f] \in V
    OBVIOUS
  <2>3. e \in [S -> V]
    BY <2>2
  <2>4. ASSUME NEW g \in S, rank[g] < k + 1 PROVE e[g] = G[g][e]
    <3>1. rank[g] \in Nat /\ k \in Nat /\ rank[g] <= k /\ \A h \in S : rank[h] \in Nat
      BY <2>4
    <3>2. \A h \in S : rank[h] < rank[g] => e[h] = f[h]
      BY <3>1
    <3>3. e[g] = G[g][f]
      <4>1. CASE rank[g] = k
        BY <4>1
      <4>2. CASE rank[g] # k
        <5>0. \A a, b \in Nat : a <= b /\ a # b => a < b
          OBVIOUS
        <5>1. rank[g] < k
          BY <3>1, <4>2, <5>0
        <5> QED
          BY <2>1, <4>2, <5>1
      <4> QED
        BY <4>1, <4>2
    <3> HIDE DEF e
    <3>4. G[g][e] = G[g][f]
      BY <2>3, <3>2 DEF Descends
    <3> QED
      BY <3>3, <3>4
  <2> HIDE DEF e
  <2> QED
    BY <2>3, <2>4
<1> HIDE DEF Up
<1>3. 0 \in T /\ \A k \in 0 .. (N + 1) - 1 : k \in T => k + 1 \in T
  BY <1>1, <1>2
<1>4. \A k \in 0 .. N + 1 : k \in T
  <2>1. N + 1 \in Nat
    OBVIOUS
  <2> HIDE DEF T
  <2> QED
    BY <1>3, <2>1, Upwards
<1>5. Up(N + 1)
  BY <1>4
<1>6. \A g \in S : rank[g] < N + 1
  OBVIOUS
<1> QED
  BY <1>5, <1>6 DEF Up, Obeys

-----------------------------------------------------------------------------
(* The tree *)

\* What is above something above a group is above the group.
LEMMA AboveTransitive ==
  ASSUME NEW g \in Groups, NEW h \in Above(g)
  PROVE  Above(h) \subseteq Above(g)
<1> DEFINE B == {k \in Groups : \E l \in Above(k) : ~(Above(l) \subseteq Above(k))}
<1> SUFFICES ASSUME B # {} PROVE FALSE
  OBVIOUS
<1>1. B \in SUBSET Groups
  OBVIOUS
<1>2. PICK k \in B : Parent[k] \notin B
  BY <1>1, TreeAssumption
<1>3. PICK l \in Above(k) : ~(Above(l) \subseteq Above(k))
  BY <1>2
<1>4. Above(k) = ({Parent[k]} \union Above(Parent[k])) \ {Root}
  BY AboveIs
<1>5. Root \notin Above(Parent[k])
  BY AboveIs, TreeAssumption
<1>6. Above(Parent[k]) \subseteq Above(k)
  BY <1>4, <1>5
<1>7. l # Parent[k]
  BY <1>3, <1>6
<1>8. l \in Above(Parent[k]) /\ Parent[k] \in Groups
  BY <1>3, <1>4, <1>7, AboveIs, TreeAssumption
<1>9. Above(l) \subseteq Above(Parent[k])
  BY <1>2, <1>8
<1> QED
  BY <1>3, <1>6, <1>9

\* No climb comes back.
LEMMA NotAboveItself ==
  ASSUME NEW g \in Groups
  PROVE  g \notin Above(g)
<1> SUFFICES ASSUME g \in Above(g) PROVE FALSE
  OBVIOUS
<1> DEFINE C == {h \in Groups : g \in Above(h)}
<1>1. C \in SUBSET Groups /\ C # {}
  OBVIOUS
<1>2. PICK h \in C : Parent[h] \notin C
  BY <1>1, TreeAssumption
<1>3. g \in {Parent[h]} \union Above(Parent[h])
  BY <1>2, AboveIs
<1>4. Parent[h] \in Groups
  BY <1>3, AboveIs, TreeAssumption
<1> QED
  BY <1>2, <1>3, <1>4

\* A node and what of the tree is below it.
Sub(g) == {g} \union {h \in dirs : g = Root \/ g \in Above(h)}

\* The children of a node, in a set.
Kids(g) == {h \in dirs : Parent[h] = g}

\* Every group that is there has its parent there.
Rooted == dirs \subseteq Groups /\ \A g \in dirs : Parent[g] \in dirs \union {Root}

\* A subtree is its node and the subtrees of the children.
LEMMA SubIs ==
  ASSUME Rooted, NEW g \in Nodes
  PROVE  \A h : h \in Sub(g) <=> h = g \/ \E k \in Kids(g) : h \in Sub(k)
<1>0. Root \notin Groups /\ dirs \subseteq Groups /\ \A h \in dirs : Parent[h] \in dirs \union {Root}
  BY TreeAssumption DEF Rooted
<1>1. ASSUME NEW k \in Kids(g), NEW h \in Sub(k) PROVE h \in Sub(g)
  <2>1. k \in Groups /\ k \in dirs /\ Parent[k] = g /\ k # Root
    BY <1>0 DEF Kids
  <2>2. CASE h = k
    BY <2>1, <2>2, ParentAbove DEF Sub
  <2>3. CASE h # k
    <3>1. h \in dirs /\ k \in Above(h)
      BY <2>1, <2>3 DEF Sub
    <3>2. Above(k) \subseteq Above(h)
      BY <1>0, <3>1, AboveTransitive
    <3> QED
      BY <2>1, <3>1, <3>2, ParentAbove DEF Sub
  <2> QED
    BY <2>2, <2>3
<1>2. ASSUME NEW h \in Sub(g), h # g PROVE \E k \in Kids(g) : h \in Sub(k)
  <2> DEFINE B == {l \in dirs : (g = Root \/ g \in Above(l)) /\ ~\E k \in Kids(g) : l \in Sub(k)}
  <2> SUFFICES ASSUME B # {} PROVE FALSE
    BY <1>2 DEF Sub
  <2>1. B \in SUBSET Groups
    BY <1>0
  <2>2. PICK l \in B : Parent[l] \notin B
    BY <2>1, TreeAssumption
  <2>3. l \in dirs /\ l \in Groups /\ Parent[l] \in dirs \union {Root}
    BY <1>0, <2>2
  <2>4. l \in Sub(l)
    BY DEF Sub
  <2>5. Parent[l] # g
    BY <2>2, <2>3, <2>4 DEF Kids
  <2>6. Parent[l] # Root /\ (g = Root \/ g \in Above(Parent[l]))
    BY <2>2, <2>3, <2>5, AboveIs
  <2>7. PICK k \in Kids(g) : Parent[l] \in Sub(k)
    BY <2>2, <2>3, <2>6
  <2>8. k \in dirs /\ k # Root
    BY <1>0 DEF Kids
  <2>9. k \in Above(l)
    BY <2>3, <2>6, <2>7, <2>8, AboveIs DEF Sub
  <2> QED
    BY <2>2, <2>3, <2>7, <2>9 DEF Sub
<1>3. g \in Sub(g)
  BY DEF Sub
<1> QED
  BY <1>1, <1>2, <1>3

\* The subtrees of two children have nothing in common.
LEMMA SubsDisjoint ==
  ASSUME Rooted, NEW g \in Nodes, NEW k \in Kids(g)
  PROVE  g \notin Sub(k) /\ \A l \in Kids(g) : l # k => Sub(l) \intersect Sub(k) = {}
<1>0. Root \notin Groups /\ dirs \subseteq Groups /\ \A h \in dirs : Parent[h] \in dirs \union {Root}
  BY TreeAssumption DEF Rooted
<1>1. ASSUME NEW l \in Kids(g) PROVE l \in dirs /\ l \in Groups /\ l # Root /\ Parent[l] = g
  BY <1>0 DEF Kids
<1>2. ASSUME NEW l \in Kids(g), NEW m \in Kids(g) PROVE l \notin Above(m) /\ g \notin Sub(l)
  <2>1. \A x \in Kids(g) : x \notin Above(g)
    <3> SUFFICES ASSUME NEW x \in Kids(g), x \in Above(g) PROVE FALSE
      OBVIOUS
    <3>1. g # Root /\ g \in Groups
      BY AboveIs DEF Nodes
    <3>2. g \in Above(x)
      BY <1>1, <3>1, ParentAbove
    <3>3. Above(g) \subseteq Above(x)
      BY <1>1, <3>2, AboveTransitive
    <3> QED
      BY <1>1, <3>3, NotAboveItself
  <2>2. Above(m) = ({g} \union Above(g)) \ {Root}
    BY <1>1, AboveIs
  <2>3. l # g
    BY <1>1, NotOwnParent
  <2> QED
    BY <1>1, <2>1, <2>2, <2>3 DEF Sub
<1>3. ASSUME NEW l \in Kids(g), l # k, Sub(l) \intersect Sub(k) # {} PROVE FALSE
  <2> DEFINE B == Sub(l) \intersect Sub(k)
  <2>1. B \in SUBSET Groups
    BY <1>0, <1>1 DEF Sub
  <2>2. PICK h \in B : Parent[h] \notin B
    BY <1>3, <2>1, TreeAssumption
  <2>3. h # l /\ h # k
    BY <1>1, <1>2, <1>3, <2>2 DEF Sub
  <2>4. h \in dirs /\ l \in Above(h) /\ k \in Above(h) /\ h \in Groups
    BY <1>0, <1>1, <2>2, <2>3 DEF Sub
  <2>5. Above(h) = ({Parent[h]} \union Above(Parent[h])) \ {Root}
    BY <2>4, AboveIs
  <2>6. Parent[h] # Root
    BY <1>3, <2>4, <2>5, AboveIs
  <2>7. Parent[h] \in dirs /\ Parent[h] \in Groups
    BY <1>0, <2>4, <2>6
  <2>8. \A x \in {l, k} : x = Parent[h] \/ x \in Above(Parent[h])
    BY <2>4, <2>5
  <2> QED
    BY <2>2, <2>7, <2>8 DEF Sub
<1> QED
  BY <1>2, <1>3

-----------------------------------------------------------------------------
(* The list of the cgroups that were made. *)

\* made lists the groups there are, once each and parents first.
MadeInv ==
  /\ Rooted
  /\ made \in Seq(Groups)
  /\ \A i, j \in 1 .. Len(made) : made[i] = made[j] => i = j
  /\ \A g : g \in dirs <=> \E i \in 1 .. Len(made) : made[i] = g
  /\ \A i \in 1 .. Len(made) : Parent[made[i]] = Root \/ \E j \in 1 .. i - 1 : made[j] = Parent[made[i]]

\* The children of a node, in the order they were made.
KidSeq(g) == Only(made, Kids(g))

\* They are listed once each.
LEMMA KidSeqIs ==
  ASSUME MadeInv, NEW g
  PROVE  /\ KidSeq(g) \in Seq(Groups)
         /\ \A i, j \in 1 .. Len(KidSeq(g)) : KidSeq(g)[i] = KidSeq(g)[j] => i = j
         /\ \A h : h \in Kids(g) <=> \E i \in 1 .. Len(KidSeq(g)) : KidSeq(g)[i] = h
<1> DEFINE r == KidSeq(g)
           n == Len(made)
<1>1. made \in Seq(Groups)
  BY DEF MadeInv
<1>2. r \in Seq(Groups) /\ \E e : Places(e, r, made, Kids(g), n)
  BY <1>1, OnlyPlaces DEF KidSeq
<1>3. PICK e : Places(e, r, made, Kids(g), n)
  BY <1>2
<1> HIDE DEF r, n
<1>4. /\ e \in [1 .. Len(r) -> 1 .. n]
      /\ \A k \in 1 .. Len(r) : r[k] = made[e[k]]
      /\ \A k, l \in 1 .. Len(r) : k < l => e[k] < e[l]
      /\ \A i \in 1 .. n : made[i] \in Kids(g) <=> \E k \in 1 .. Len(r) : e[k] = i
  BY <1>3 DEF Places
<1>5. /\ \A i, j \in 1 .. n : made[i] = made[j] => i = j
      /\ \A h : h \in dirs <=> \E i \in 1 .. n : made[i] = h
  BY DEF MadeInv, n
<1>6. ASSUME NEW i \in 1 .. Len(r), NEW j \in 1 .. Len(r), r[i] = r[j] PROVE i = j
  <2>1. e[i] \in 1 .. n /\ e[j] \in 1 .. n /\ e[i] = e[j]
    BY <1>4, <1>5, <1>6
  <2>2. ~(i < j) /\ ~(j < i)
    BY <1>4, <2>1
  <2>3. i \in Int /\ j \in Int
    OBVIOUS
  <2> QED
    BY <2>2, <2>3
<1>7. ASSUME NEW h \in Kids(g) PROVE \E i \in 1 .. Len(r) : r[i] = h
  BY <1>4, <1>5 DEF Kids
<1>8. ASSUME NEW i \in 1 .. Len(r) PROVE r[i] \in Kids(g)
  <2>1. e[i] \in 1 .. n /\ r[i] = made[e[i]]
    BY <1>4
  <2> QED
    BY <1>4, <2>1
<1> QED
  BY <1>2, <1>6, <1>7, <1>8 DEF r

\* How far a node is from the end of the list, the root before all.
Rank ==
  [g \in Nodes |-> IF g = Root THEN Len(made) + 1
                   ELSE IF g \in dirs THEN Len(made) + 1 - (CHOOSE i \in 1 .. Len(made) : made[i] = g)
                   ELSE 0]

\* Children have a lower rank, so the walk is a recursion by rank.
LEMMA KidsRankLower ==
  ASSUME MadeInv
  PROVE  /\ Len(made) + 1 \in Nat /\ Rank \in [Nodes -> 0 .. Len(made) + 1]
         /\ \A g \in Nodes : \A h \in Kids(g) : h \in Nodes /\ Rank[h] < Rank[g]
<1> DEFINE n == Len(made)
           at(g) == CHOOSE i \in 1 .. n : made[i] = g
<1>0. /\ n \in Nat /\ dirs \subseteq Groups /\ Root \notin Groups /\ dirs \subseteq Nodes
      /\ \A i \in 1 .. n : made[i] \in Groups
  BY TreeAssumption DEF MadeInv, Rooted, Nodes
<1>1. /\ \A i, j \in 1 .. n : made[i] = made[j] => i = j
      /\ \A g : g \in dirs <=> \E i \in 1 .. n : made[i] = g
      /\ \A i \in 1 .. n : Parent[made[i]] = Root \/ \E j \in 1 .. i - 1 : made[j] = Parent[made[i]]
  BY DEF MadeInv
<1>2. \A g \in dirs : at(g) \in 1 .. n /\ made[at(g)] = g
  BY <1>1
<1>3. \A g \in Nodes : Rank[g] = IF g = Root THEN n + 1 ELSE IF g \in dirs THEN n + 1 - at(g) ELSE 0
  BY DEF Rank
<1> HIDE DEF n, at
<1>4. \A g \in Nodes : Rank[g] \in 0 .. n + 1
  <2> SUFFICES ASSUME NEW g \in Nodes PROVE Rank[g] \in 0 .. n + 1
    OBVIOUS
  <2>1. CASE g \in dirs
    <3>1. n + 1 - at(g) \in 0 .. n + 1
      BY <1>0, <1>2, <2>1
    <3> QED
      BY <1>0, <1>3, <2>1, <3>1
  <2>2. CASE g \notin dirs
    BY <1>0, <1>3, <2>2
  <2> QED
    BY <2>1, <2>2
<1>5. ASSUME NEW g \in Nodes, NEW h \in Kids(g) PROVE Rank[h] < Rank[g]
  <2>1. h \in dirs /\ h # Root /\ h \in Nodes /\ Parent[h] = g
    BY <1>0 DEF Kids
  <2>2. at(h) \in 1 .. n /\ made[at(h)] = h
    BY <1>2, <2>1
  <2>3. Rank[h] = n + 1 - at(h)
    BY <1>3, <2>1
  <2>4. CASE g = Root
    <3>1. Rank[g] = n + 1
      BY <1>3, <2>4
    <3> QED
      BY <1>0, <2>2, <2>3, <3>1
  <2>5. CASE g # Root
    <3>1. PICK j \in 1 .. at(h) - 1 : made[j] = g
      BY <1>1, <2>1, <2>2, <2>5
    <3>2. j \in 1 .. n
      BY <1>0, <2>2
    <3>3. g \in dirs
      BY <1>1, <3>1, <3>2
    <3>4. at(g) = j
      BY <1>1, <1>2, <3>1, <3>2, <3>3
    <3>5. Rank[g] = n + 1 - j
      BY <1>3, <2>5, <3>3, <3>4
    <3> QED
      BY <1>0, <2>2, <2>3, <3>1, <3>5
  <2> QED
    BY <2>4, <2>5
<1>6. \A g, h \in Nodes : h \in Kids(g) => h \in Nodes
  OBVIOUS
<1>7. Rank \in [Nodes -> 0 .. n + 1]
  <2>1. Rank = [g \in Nodes |-> Rank[g]]
    BY DEF Rank
  <2> QED
    BY <1>4, <2>1
<1>8. \A g : Kids(g) \subseteq Nodes
  BY <1>0 DEF Kids
<1> QED
  BY <1>0, <1>5, <1>7, <1>8 DEF n

-----------------------------------------------------------------------------
(* The walk *)

\* w is the recursion Preorder is defined by.
Walks(w) ==
  /\ w \in [Nodes -> Seq(Nodes)]
  /\ \A g \in Nodes : w[g] = <<g>> \o FlattenSeq([i \in 1 .. Len(KidSeq(g)) |-> w[KidSeq(g)[i]]])
  /\ Preorder = w[Root]

\* A flattened list is one of the elements.
LEMMA FlattenType ==
  ASSUME NEW A, NEW seqs \in Seq(Seq(A))
  PROVE  FlattenSeq(seqs) \in Seq(A)
<1>1. PICK f : Flattens(f, A, seqs)
  BY FlattenIs
<1>2. Len(seqs) \in 0 .. Len(seqs)
  OBVIOUS
<1> QED
  BY <1>1, <1>2 DEF Flattens

\* Preorder follows its rule.
LEMMA WalkIs ==
  ASSUME MadeInv
  PROVE  \E w : Walks(w)
<1> DEFINE V == Seq(Nodes)
           v == <<>>
           N == Len(made) + 1
           Row(g, f) == [i \in 1 .. Len(KidSeq(g)) |-> f[KidSeq(g)[i]]]
           R(g, f) == <<g>> \o FlattenSeq(Row(g, f))
           G == [g \in Nodes |-> [f \in [Nodes -> V] |-> R(g, f)]]
           Rule(f) == f = [g \in Nodes |-> R(g, f)]
<1>0. /\ N \in Nat /\ Rank \in [Nodes -> 0 .. N] /\ Root \in Nodes
      /\ \A g \in Nodes : \A h \in Kids(g) : h \in Nodes /\ Rank[h] < Rank[g]
  BY KidsRankLower DEF Nodes
<1>1. \A g \in Nodes : \A i \in 1 .. Len(KidSeq(g)) : KidSeq(g)[i] \in Kids(g) /\ KidSeq(g)[i] \in Nodes
  BY <1>0, KidSeqIs
<1>2. \A g : Len(KidSeq(g)) \in Nat
  BY KidSeqIs
<1> HIDE DEF N
<1>3. ASSUME NEW g \in Nodes, NEW f, NEW e, \A h \in Nodes : Rank[h] < Rank[g] => f[h] = e[h]
      PROVE  R(g, f) = R(g, e)
  <2>1. \A i \in 1 .. Len(KidSeq(g)) : f[KidSeq(g)[i]] = e[KidSeq(g)[i]]
    BY <1>0, <1>1, <1>3
  <2>2. Row(g, f) = Row(g, e)
    BY <2>1
  <2> HIDE DEF Row
  <2> QED
    BY <2>2
<1>4. ASSUME NEW g \in Nodes, NEW f \in [Nodes -> V] PROVE R(g, f) \in V
  <2>1. \A i \in 1 .. Len(KidSeq(g)) : f[KidSeq(g)[i]] \in V
    BY <1>1
  <2>2. Row(g, f) \in Seq(V)
    BY <1>2, <2>1
  <2> HIDE DEF Row
  <2>3. FlattenSeq(Row(g, f)) \in V
    BY <2>2, FlattenType
  <2> QED
    BY <2>3
<1> HIDE DEF R, Row
<1>5. v \in V
  OBVIOUS
<1> HIDE DEF V, v
<1>6. G \in [Nodes -> [[Nodes -> V] -> V]] /\ \A g \in Nodes, f \in [Nodes -> V] : G[g][f] = R(g, f)
  BY <1>4
<1> HIDE DEF G
<1>7. PICK f \in [Nodes -> V] : \A g \in Nodes : f[g] = G[g][f]
  <2>1. Descends(Nodes, Rank, V, G)
    BY <1>3, <1>6 DEF Descends
  <2>2. \E f : Obeys(f, Nodes, V, G)
    BY <1>0, <1>5, <1>6, <2>1, RankedRecursion
  <2> QED
    BY <2>2 DEF Obeys
<1>8. \A g \in Nodes : f[g] = R(g, f)
  BY <1>6, <1>7
<1>9. Rule(f)
  BY <1>8
<1>10. Rule(CHOOSE e : Rule(e))
  BY <1>9, Zenon
<1>11. PICK e : e = CHOOSE x : Rule(x)
  OBVIOUS
<1>12. Rule(e)
  BY <1>10, <1>11, Zenon
<1>13. Preorder = e[Root]
  BY <1>11, Zenon DEF Preorder, R, Row, Nodes, KidSeq, Kids
<1>14. \A g \in Nodes : e[g] = R(g, e)
  BY <1>12
<1> HIDE DEF Rule
<1>15. \A g \in Nodes : e[g] = f[g]
  <2> DEFINE T == {k \in 0 .. N + 1 : \A g \in Nodes : Rank[g] < k => e[g] = f[g]}
  <2>1. \A g \in Nodes : Rank[g] \in Nat /\ Rank[g] < N + 1
    BY <1>0
  <2>2. 0 \in T
    BY <1>0, <2>1
  <2>3. ASSUME NEW k \in 0 .. (N + 1) - 1, k \in T PROVE k + 1 \in T
    <3>1. k + 1 \in 0 .. N + 1 /\ k \in Nat
      BY <1>0
    <3>2. ASSUME NEW g \in Nodes, Rank[g] < k + 1 PROVE e[g] = f[g]
      <4>1. \A h \in Nodes : Rank[h] < Rank[g] => e[h] = f[h]
        BY <2>1, <2>3, <3>1, <3>2
      <4> QED
        BY <1>3, <1>8, <1>14, <4>1
    <3> QED
      BY <3>1, <3>2
  <2>4. N + 1 \in Nat
    BY <1>0
  <2>5. \A k \in 0 .. N + 1 : k \in T
    <3> HIDE DEF T
    <3> QED
      BY <2>2, <2>3, <2>4, Upwards
  <2>6. N + 1 \in T
    BY <2>4, <2>5
  <2> QED
    BY <2>1, <2>6
<1>16. Preorder = f[Root]
  BY <1>0, <1>13, <1>15
<1> QED
  BY <1>8, <1>16 DEF Walks, R, Row, V

-----------------------------------------------------------------------------
(* The walk visits every cgroup once, parents first. *)

\* What a concatenation holds.
LEMMA Joined ==
  ASSUME NEW A, NEW F \in Seq(A), NEW W \in Seq(A)
  PROVE  /\ F \o W \in Seq(A) /\ Len(F \o W) = Len(F) + Len(W) /\ Len(F) \in Nat /\ Len(W) \in Nat
         /\ \A p \in 1 .. Len(F) : (F \o W)[p] = F[p]
         /\ \A p \in 1 .. Len(W) : (F \o W)[Len(F) + p] = W[p]
         /\ \A p \in 1 .. Len(F \o W) : p \in 1 .. Len(F) \/ \E q \in 1 .. Len(W) : p = Len(F) + q
<1>1. /\ F \o W \in Seq(A) /\ Len(F \o W) = Len(F) + Len(W) /\ Len(F) \in Nat /\ Len(W) \in Nat
      /\ \A p \in 1 .. Len(F) : (F \o W)[p] = F[p]
      /\ \A p \in 1 .. Len(W) : (F \o W)[Len(F) + p] = W[p]
  OBVIOUS
<1>2. ASSUME NEW p \in 1 .. Len(F \o W), p \notin 1 .. Len(F) PROVE \E q \in 1 .. Len(W) : p = Len(F) + q
  <2>1. p - Len(F) \in 1 .. Len(W) /\ p = Len(F) + (p - Len(F))
    BY <1>1, <1>2
  <2> QED
    BY <2>1
<1> QED
  BY <1>1, <1>2

\* W is a walk of the subtree of g: everything in it once, parents first.
InOrder(W, g) ==
  /\ W \in Seq(Nodes) /\ Len(W) >= 1 /\ W[1] = g
  /\ \A p, q \in 1 .. Len(W) : W[p] = W[q] => p = q
  /\ \A h : h \in Sub(g) <=> \E p \in 1 .. Len(W) : W[p] = h
  /\ \A p \in 2 .. Len(W) : \E q \in 1 .. p - 1 : W[q] = Parent[W[p]]

\* F is one of the subtrees of the first i children of g.
Forest(F, g, i) ==
  /\ F \in Seq(Nodes)
  /\ \A p, q \in 1 .. Len(F) : F[p] = F[q] => p = q
  /\ \A h : (\E j \in 1 .. i : h \in Sub(KidSeq(g)[j])) <=> \E p \in 1 .. Len(F) : F[p] = h
  /\ \A p \in 1 .. Len(F) : Parent[F[p]] = g \/ \E q \in 1 .. p - 1 : F[q] = Parent[F[p]]

\* One child more.
LEMMA ForestGrows ==
  ASSUME MadeInv, NEW g \in Nodes, NEW i \in Nat, i + 1 \in 1 .. Len(KidSeq(g)),
         NEW F, Forest(F, g, i), NEW W, InOrder(W, KidSeq(g)[i + 1])
  PROVE  Forest(F \o W, g, i + 1)
<1> DEFINE C == F \o W
           n == Len(F)
           m == Len(W)
           k == KidSeq(g)[i + 1]
<1>0. Len(KidSeq(g)) \in Nat /\ 1 .. i \subseteq 1 .. Len(KidSeq(g))
  BY KidSeqIs
<1>1. /\ C \in Seq(Nodes) /\ Len(C) = n + m /\ n \in Nat /\ m \in Nat
      /\ \A p \in 1 .. n : C[p] = F[p]
      /\ \A p \in 1 .. m : C[n + p] = W[p]
      /\ \A p \in 1 .. Len(C) : p \in 1 .. n \/ \E q \in 1 .. m : p = n + q
  BY Joined DEF Forest, InOrder
<1>2. /\ \A p, q \in 1 .. n : F[p] = F[q] => p = q
      /\ \A h : (\E j \in 1 .. i : h \in Sub(KidSeq(g)[j])) <=> \E p \in 1 .. n : F[p] = h
      /\ \A p \in 1 .. n : Parent[F[p]] = g \/ \E q \in 1 .. p - 1 : F[q] = Parent[F[p]]
  BY DEF Forest
<1>3. /\ m >= 1 /\ W[1] = k
      /\ \A p, q \in 1 .. m : W[p] = W[q] => p = q
      /\ \A h : h \in Sub(k) <=> \E p \in 1 .. m : W[p] = h
      /\ \A p \in 2 .. m : \E q \in 1 .. p - 1 : W[q] = Parent[W[p]]
  BY DEF InOrder
<1>4. k \in Kids(g) /\ Parent[k] = g /\ \A j \in 1 .. i : KidSeq(g)[j] \in Kids(g) /\ KidSeq(g)[j] # k
  <2>1. ASSUME NEW j \in 1 .. i PROVE KidSeq(g)[j] \in Kids(g) /\ KidSeq(g)[j] # k
    <3>1. j # i + 1 /\ j \in 1 .. Len(KidSeq(g))
      BY <1>0
    <3> QED
      BY <3>1, KidSeqIs
  <2> QED
    BY <2>1, KidSeqIs DEF Kids
<1> HIDE DEF C, n, m, k
<1>5. \A p \in 1 .. n, q \in 1 .. m : F[p] # W[q]
  <2> SUFFICES ASSUME NEW p \in 1 .. n, NEW q \in 1 .. m, F[p] = W[q] PROVE FALSE
    OBVIOUS
  <2>1. PICK j \in 1 .. i : F[p] \in Sub(KidSeq(g)[j])
    BY <1>2
  <2>2. W[q] \in Sub(k)
    BY <1>3
  <2>3. Sub(KidSeq(g)[j]) \intersect Sub(k) = {}
    BY <1>4, SubsDisjoint DEF MadeInv
  <2> QED
    BY <2>1, <2>2, <2>3
<1>6. ASSUME NEW p \in 1 .. Len(C), NEW q \in 1 .. Len(C), C[p] = C[q] PROVE p = q
  <2>1. CASE p \in 1 .. n /\ q \in 1 .. n
    BY <1>1, <1>2, <1>6, <2>1
  <2>2. CASE p \in 1 .. n /\ q \notin 1 .. n
    <3>1. PICK y \in 1 .. m : q = n + y
      BY <1>1, <2>2
    <3>2. C[p] = F[p] /\ C[q] = W[y]
      BY <1>1, <2>2, <3>1
    <3> QED
      BY <1>5, <1>6, <2>2, <3>2
  <2>3. CASE p \notin 1 .. n /\ q \in 1 .. n
    <3>1. PICK x \in 1 .. m : p = n + x
      BY <1>1, <2>3
    <3>2. C[q] = F[q] /\ C[p] = W[x]
      BY <1>1, <2>3, <3>1
    <3> QED
      BY <1>5, <1>6, <2>3, <3>2
  <2>4. CASE p \notin 1 .. n /\ q \notin 1 .. n
    <3>1. PICK x \in 1 .. m, y \in 1 .. m : p = n + x /\ q = n + y
      BY <1>1, <2>4
    <3>2. C[p] = W[x] /\ C[q] = W[y]
      BY <1>1, <3>1
    <3>3. W[x] = W[y]
      BY <1>6, <3>2
    <3>4. x = y
      BY <1>3, <3>3
    <3> QED
      BY <3>1, <3>4
  <2> QED
    BY <2>1, <2>2, <2>3, <2>4
<1>7. ASSUME NEW h PROVE (\E j \in 1 .. i + 1 : h \in Sub(KidSeq(g)[j])) <=> \E p \in 1 .. Len(C) : C[p] = h
  <2>1. (\E j \in 1 .. i + 1 : h \in Sub(KidSeq(g)[j])) <=> (\E j \in 1 .. i : h \in Sub(KidSeq(g)[j])) \/ h \in Sub(k)
    <3>1. \A j \in 1 .. i + 1 : j \in 1 .. i \/ j = i + 1
      OBVIOUS
    <3>2. i + 1 \in 1 .. i + 1 /\ 1 .. i \subseteq 1 .. i + 1
      OBVIOUS
    <3> QED
      BY <3>1, <3>2 DEF k
  <2>2. (\E p \in 1 .. Len(C) : C[p] = h) <=> (\E p \in 1 .. n : F[p] = h) \/ \E p \in 1 .. m : W[p] = h
    <3>1. ASSUME NEW p \in 1 .. n PROVE p \in 1 .. Len(C) /\ C[p] = F[p]
      BY <1>1
    <3>2. ASSUME NEW p \in 1 .. m PROVE n + p \in 1 .. Len(C) /\ C[n + p] = W[p]
      BY <1>1
    <3>3. ASSUME NEW p \in 1 .. Len(C), C[p] = h
          PROVE  (\E x \in 1 .. n : F[x] = h) \/ \E x \in 1 .. m : W[x] = h
      <4>1. CASE p \in 1 .. n
        BY <3>1, <3>3, <4>1
      <4>2. CASE p \notin 1 .. n
        <5>1. PICK x \in 1 .. m : p = n + x
          BY <1>1, <4>2
        <5> QED
          BY <3>2, <3>3, <5>1
      <4> QED
        BY <4>1, <4>2
    <3> QED
      BY <3>1, <3>2, <3>3
  <2> QED
    BY <1>2, <1>3, <2>1, <2>2
<1>8. ASSUME NEW p \in 1 .. Len(C) PROVE Parent[C[p]] = g \/ \E q \in 1 .. p - 1 : C[q] = Parent[C[p]]
  <2>1. CASE p \in 1 .. n
    <3>1. \A q \in 1 .. p - 1 : q \in 1 .. n
      BY <1>1, <2>1
    <3> QED
      BY <1>1, <1>2, <2>1, <3>1
  <2>2. ASSUME NEW x \in 1 .. m, p = n + x PROVE Parent[C[p]] = g \/ \E q \in 1 .. p - 1 : C[q] = Parent[C[p]]
    <3>1. C[p] = W[x]
      BY <1>1, <2>2
    <3>2. CASE x = 1
      BY <1>3, <1>4, <3>1, <3>2
    <3>3. CASE x # 1
      <4>1. x \in 2 .. m
        BY <1>1, <3>3
      <4>2. PICK q \in 1 .. x - 1 : W[q] = Parent[W[x]]
        BY <1>3, <4>1
      <4>3. q \in 1 .. m /\ n + q \in 1 .. p - 1
        BY <1>1, <2>2
      <4>4. C[n + q] = W[q]
        BY <1>1, <4>3
      <4> QED
        BY <3>1, <4>2, <4>3, <4>4
    <3> QED
      BY <3>2, <3>3
  <2> QED
    BY <1>1, <2>1, <2>2
<1> QED
  BY <1>1, <1>6, <1>7, <1>8 DEF Forest, C

\* A node before the walks of its children.
LEMMA WalkFromForest ==
  ASSUME MadeInv, NEW g \in Nodes, NEW F, Forest(F, g, Len(KidSeq(g)))
  PROVE  InOrder(<<g>> \o F, g)
<1> DEFINE H == <<g>>
           C == H \o F
           n == Len(F)
<1>0. H \in Seq(Nodes) /\ Len(H) = 1 /\ H[1] = g
  OBVIOUS
<1>1. /\ C \in Seq(Nodes) /\ Len(C) = 1 + n /\ n \in Nat
      /\ C[1] = g
      /\ \A p \in 1 .. n : C[1 + p] = F[p]
      /\ \A p \in 1 .. Len(C) : p = 1 \/ \E q \in 1 .. n : p = 1 + q
  <2>1. F \in Seq(Nodes)
    BY DEF Forest
  <2>2. /\ C \in Seq(Nodes) /\ Len(C) = Len(H) + n /\ n \in Nat
        /\ \A p \in 1 .. Len(H) : C[p] = H[p]
        /\ \A p \in 1 .. n : C[Len(H) + p] = F[p]
        /\ \A p \in 1 .. Len(C) : p \in 1 .. Len(H) \/ \E q \in 1 .. n : p = Len(H) + q
    <3>1. PICK X \in Seq(Nodes) : X = H
      BY <1>0
    <3> HIDE DEF H
    <3>2. /\ X \o F \in Seq(Nodes) /\ Len(X \o F) = Len(X) + Len(F) /\ Len(F) \in Nat
          /\ \A p \in 1 .. Len(X) : (X \o F)[p] = X[p]
          /\ \A p \in 1 .. Len(F) : (X \o F)[Len(X) + p] = F[p]
          /\ \A p \in 1 .. Len(X \o F) : p \in 1 .. Len(X) \/ \E q \in 1 .. Len(F) : p = Len(X) + q
      BY <2>1, Joined
    <3> QED
      BY <3>1, <3>2
  <2> HIDE DEF C, n, H
  <2>3. 1 \in 1 .. 1 /\ \A p \in 1 .. 1 : p = 1
    OBVIOUS
  <2> QED
    BY <1>0, <2>2, <2>3
<1>2. /\ \A p, q \in 1 .. n : F[p] = F[q] => p = q
      /\ \A h : (\E j \in 1 .. Len(KidSeq(g)) : h \in Sub(KidSeq(g)[j])) <=> \E p \in 1 .. n : F[p] = h
      /\ \A p \in 1 .. n : Parent[F[p]] = g \/ \E q \in 1 .. p - 1 : F[q] = Parent[F[p]]
  BY DEF Forest
<1> HIDE DEF C, n, H
<1>3. \A h : (\E k \in Kids(g) : h \in Sub(k)) <=> \E p \in 1 .. n : F[p] = h
  <2>1. \A k : k \in Kids(g) <=> \E i \in 1 .. Len(KidSeq(g)) : KidSeq(g)[i] = k
    BY KidSeqIs
  <2>2. \A h : (\E k \in Kids(g) : h \in Sub(k)) <=> \E j \in 1 .. Len(KidSeq(g)) : h \in Sub(KidSeq(g)[j])
    BY <2>1, Zenon
  <2> QED
    BY <1>2, <2>2
<1>4. \A p \in 1 .. n : F[p] # g
  BY <1>3, SubsDisjoint DEF MadeInv
<1>5. ASSUME NEW p \in 1 .. Len(C), NEW q \in 1 .. Len(C), C[p] = C[q] PROVE p = q
  <2>1. CASE p = 1
    BY <1>1, <1>4, <1>5, <2>1
  <2>2. CASE q = 1
    BY <1>1, <1>4, <1>5, <2>2
  <2>3. CASE p # 1 /\ q # 1
    <3>1. PICK x \in 1 .. n, y \in 1 .. n : p = 1 + x /\ q = 1 + y
      BY <1>1, <2>3
    <3>2. C[p] = F[x] /\ C[q] = F[y]
      BY <1>1, <3>1
    <3>3. F[x] = F[y]
      BY <1>5, <3>2
    <3>4. x = y
      BY <1>2, <3>3
    <3> QED
      BY <3>1, <3>4
  <2> QED
    BY <2>1, <2>2, <2>3
<1>6. \A h : h \in Sub(g) <=> \E p \in 1 .. Len(C) : C[p] = h
  <2> SUFFICES ASSUME NEW h PROVE h \in Sub(g) <=> \E p \in 1 .. Len(C) : C[p] = h
    OBVIOUS
  <2>1. h \in Sub(g) <=> h = g \/ \E p \in 1 .. n : F[p] = h
    BY <1>3, SubIs DEF MadeInv
  <2>2. 1 \in 1 .. Len(C) /\ \A p \in 1 .. n : 1 + p \in 1 .. Len(C)
    BY <1>1
  <2>3. ASSUME NEW p \in 1 .. Len(C), C[p] = h, p # 1 PROVE \E x \in 1 .. n : F[x] = h
    <3>1. PICK x \in 1 .. n : p = 1 + x
      BY <1>1, <2>3
    <3> QED
      BY <1>1, <2>3, <3>1
  <2>4. ASSUME NEW x \in 1 .. n, F[x] = h PROVE \E p \in 1 .. Len(C) : C[p] = h
    <3>1. C[1 + x] = h
      BY <1>1, <2>4
    <3> QED
      BY <2>2, <3>1
  <2> QED
    BY <1>1, <2>1, <2>2, <2>3, <2>4
<1>7. ASSUME NEW p \in 2 .. Len(C) PROVE \E q \in 1 .. p - 1 : C[q] = Parent[C[p]]
  <2>1. p \in 1 .. Len(C) /\ p # 1
    BY <1>1
  <2>2. PICK x \in 1 .. n : p = 1 + x
    BY <1>1, <2>1
  <2>3. C[p] = F[x]
    BY <1>1, <2>2
  <2>4. CASE Parent[F[x]] = g
    <3>1. 1 \in 1 .. p - 1
      BY <1>1
    <3> QED
      BY <1>1, <2>3, <2>4, <3>1
  <2>5. ASSUME NEW q \in 1 .. x - 1, F[q] = Parent[F[x]] PROVE \E y \in 1 .. p - 1 : C[y] = Parent[C[p]]
    <3>1. q \in 1 .. n /\ 1 + q \in 1 .. p - 1
      BY <1>1, <2>2
    <3>2. C[1 + q] = F[q]
      BY <1>1, <3>1
    <3> QED
      BY <2>3, <2>5, <3>1, <3>2
  <2> QED
    BY <1>2, <2>4, <2>5
<1>8. Len(C) >= 1
  BY <1>1
<1>9. InOrder(C, g)
  BY <1>1, <1>5, <1>6, <1>7, <1>8 DEF InOrder
<1> QED
  BY <1>9 DEF C, H

\* The walk from a node is one of its subtree.
LEMMA WalkInOrder ==
  ASSUME MadeInv, NEW w, Walks(w)
  PROVE  \A g \in Nodes : InOrder(w[g], g)
<1>0. /\ Len(made) + 1 \in Nat /\ Rank \in [Nodes -> 0 .. Len(made) + 1]
      /\ \A g \in Nodes : \A h \in Kids(g) : h \in Nodes /\ Rank[h] < Rank[g]
  BY KidsRankLower
<1>1. ASSUME NEW g \in Nodes, \A h \in Kids(g) : InOrder(w[h], h) PROVE InOrder(w[g], g)
  <2> DEFINE K == KidSeq(g)
             seqs == [i \in 1 .. Len(K) |-> w[K[i]]]
  <2>1. Len(K) \in Nat /\ \A i \in 1 .. Len(K) : K[i] \in Kids(g) /\ K[i] \in Nodes
    BY <1>0, KidSeqIs
  <2>2. w[g] = <<g>> \o FlattenSeq(seqs)
    BY DEF Walks
  <2>3. \A i \in 1 .. Len(K) : w[K[i]] \in Seq(Nodes)
    BY <2>1 DEF Walks
  <2> HIDE DEF K
  <2>4. seqs \in Seq(Seq(Nodes)) /\ Len(seqs) = Len(K) /\ \A i \in 1 .. Len(K) : seqs[i] = w[K[i]]
    BY <2>1, <2>3
  <2> HIDE DEF seqs
  <2>5. PICK f : Flattens(f, Nodes, seqs)
    BY <2>4, FlattenIs
  <2>6. /\ f[0] = <<>> /\ FlattenSeq(seqs) = f[Len(K)]
        /\ \A i \in 1 .. Len(K) : f[i] = f[i - 1] \o w[K[i]]
    BY <2>4, <2>5 DEF Flattens
  <2> DEFINE T == {i \in 0 .. Len(K) : Forest(f[i], g, i)}
  <2>7. 0 \in T
    <3>1. f[0] \in Seq(Nodes) /\ Len(f[0]) = 0
      BY <2>6
    <3>2. Forest(f[0], g, 0)
      BY <3>1 DEF Forest
    <3> QED
      BY <2>1, <3>2
  <2>8. ASSUME NEW i \in 0 .. Len(K) - 1, i \in T PROVE i + 1 \in T
    <3>1. i \in Nat /\ i + 1 \in 1 .. Len(K) /\ (i + 1) - 1 = i /\ i + 1 \in 0 .. Len(K)
      BY <2>1
    <3>2. f[i + 1] = f[i] \o w[K[i + 1]]
      BY <2>6, <3>1
    <3>3. InOrder(w[K[i + 1]], K[i + 1]) /\ Forest(f[i], g, i)
      BY <1>1, <2>1, <2>8, <3>1
    <3>4. Forest(f[i] \o w[K[i + 1]], g, i + 1)
      BY <3>1, <3>3, ForestGrows DEF K
    <3> QED
      BY <3>1, <3>2, <3>4
  <2>9. \A i \in 0 .. Len(K) : i \in T
    <3> HIDE DEF T
    <3> QED
      BY <2>1, <2>7, <2>8, Upwards
  <2>10. Forest(FlattenSeq(seqs), g, Len(K))
    BY <2>1, <2>6, <2>9
  <2>11. InOrder(<<g>> \o FlattenSeq(seqs), g)
    BY <2>10, WalkFromForest DEF K
  <2> QED
    BY <2>2, <2>11
<1> DEFINE B == {Rank[g] : g \in {x \in Nodes : ~InOrder(w[x], x)}}
<1> SUFFICES ASSUME B # {} PROVE FALSE
  OBVIOUS
<1>2. B \in SUBSET Nat
  BY <1>0
<1>3. PICK r \in B : \A q \in B : r <= q
  BY <1>2, LeastNat
<1>4. PICK g \in Nodes : ~InOrder(w[g], g) /\ Rank[g] = r
  BY <1>3
<1>5. \A h \in Kids(g) : InOrder(w[h], h)
  <2> SUFFICES ASSUME NEW h \in Kids(g), ~InOrder(w[h], h) PROVE FALSE
    OBVIOUS
  <2>1. h \in Nodes /\ Rank[h] < Rank[g] /\ Rank[h] \in Nat /\ Rank[g] \in Nat
    BY <1>0
  <2>2. Rank[h] \in B
    BY <2>1
  <2> QED
    BY <1>3, <1>4, <2>1, <2>2
<1> QED
  BY <1>1, <1>4, <1>5

\* The walk the rows are taken from.
LEMMA PreorderInOrder ==
  ASSUME MadeInv
  PROVE  InOrder(Preorder, Root) /\ Sub(Root) = dirs \union {Root}
<1>1. PICK w : Walks(w)
  BY WalkIs
<1>2. Root \in Nodes
  BY DEF Nodes
<1> QED
  BY <1>1, <1>2, WalkInOrder DEF Walks, Sub

-----------------------------------------------------------------------------
(* Tables that are cut, and lists that are filtered. *)

\* What fits is all of it, or as much as there is room for.
LEMMA FitIs ==
  ASSUME NEW A, NEW s \in Seq(A), NEW n \in Nat
  PROVE  /\ Fit(s, n) \in Seq(A)
         /\ Len(Fit(s, n)) = IF Len(s) < n THEN Len(s) ELSE n
         /\ \A k \in 1 .. Len(Fit(s, n)) : Fit(s, n)[k] = s[k]
         /\ Len(s) <= n => Fit(s, n) = s
<1> DEFINE m == IF Len(s) < n THEN Len(s) ELSE n
<1>1. m \in 0 .. Len(s) /\ Fit(s, n) = SubSeq(s, 1, m)
  BY DEF Fit
<1> HIDE DEF m
<1>2. SubSeq(s, 1, m) \in Seq(A) /\ Len(SubSeq(s, 1, m)) = m /\ \A k \in 1 .. m : SubSeq(s, 1, m)[k] = s[k]
  BY <1>1
<1>3. m = Len(s) => SubSeq(s, 1, m) = s
  BY <1>1
<1> QED
  BY <1>1, <1>2, <1>3 DEF m

\* A place a filter takes is no earlier than the one it is put in.
LEMMA PlacesRise ==
  ASSUME NEW e, NEW r, NEW s, NEW S, NEW n \in Nat, Len(r) \in Nat, Places(e, r, s, S, n)
  PROVE  \A k \in 1 .. Len(r) : k <= e[k] /\ e[k] <= n
<1> DEFINE m == Len(r)
           T == {k \in 0 .. m : k = 0 \/ k <= e[k]}
<1>1. e \in [1 .. m -> 1 .. n] /\ \A k, l \in 1 .. m : k < l => e[k] < e[l]
  BY DEF Places
<1> HIDE DEF m
<1>m. m \in Nat
  BY DEF m
<1>2. 0 \in T
  BY <1>m
<1>3. ASSUME NEW k \in 0 .. m - 1, k \in T PROVE k + 1 \in T
  <2>1. CASE k = 0
    BY <1>1, <1>m, <2>1
  <2>2. CASE k # 0
    <3>1. k \in 1 .. m /\ k + 1 \in 1 .. m /\ k < k + 1 /\ k <= e[k]
      BY <1>3, <1>m, <2>2
    <3>2. e[k] < e[k + 1] /\ e[k] \in 1 .. n /\ e[k + 1] \in 1 .. n
      BY <1>1, <3>1
    <3> QED
      BY <1>m, <3>1, <3>2
  <2> QED
    BY <2>1, <2>2
<1> HIDE DEF T
<1>4. \A k \in 0 .. m : k \in T
  BY <1>m, <1>2, <1>3, Upwards
<1>5. \A k \in 1 .. m : k \in 0 .. m /\ k # 0
  BY <1>m
<1> QED
  BY <1>1, <1>4, <1>5 DEF T, m

\* A filtered list is no longer, has no repetitions where there were none, and
\* holds what was there and is in the set.
LEMMA OnlyHolds ==
  ASSUME NEW A, NEW s \in Seq(A), NEW S
  PROVE  /\ Only(s, S) \in Seq(A) /\ Len(Only(s, S)) <= Len(s)
         /\ (\A i, j \in 1 .. Len(s) : s[i] = s[j] => i = j) =>
              \A i, j \in 1 .. Len(Only(s, S)) : Only(s, S)[i] = Only(s, S)[j] => i = j
         /\ \A x : (\E k \in 1 .. Len(Only(s, S)) : Only(s, S)[k] = x)
                     <=> x \in S /\ \E i \in 1 .. Len(s) : s[i] = x
<1> DEFINE r == Only(s, S)
           n == Len(s)
<1>1. r \in Seq(A) /\ \E e : Places(e, r, s, S, n)
  BY OnlyPlaces
<1>2. PICK e : Places(e, r, s, S, n)
  BY <1>1
<1> HIDE DEF r
<1>0. n \in Nat /\ Len(r) \in Nat
  BY <1>1
<1>3. /\ e \in [1 .. Len(r) -> 1 .. n]
      /\ \A k \in 1 .. Len(r) : r[k] = s[e[k]]
      /\ \A k, l \in 1 .. Len(r) : k < l => e[k] < e[l]
      /\ \A i \in 1 .. n : s[i] \in S <=> \E k \in 1 .. Len(r) : e[k] = i
  BY <1>2 DEF Places
<1>4. \A k \in 1 .. Len(r) : k <= e[k] /\ e[k] <= n
  BY <1>0, <1>2, PlacesRise
<1>5. Len(r) <= n
  <2>1. CASE Len(r) = 0
    BY <1>0, <2>1
  <2>2. CASE Len(r) # 0
    <3>1. Len(r) \in 1 .. Len(r)
      BY <1>0, <2>2
    <3>2. Len(r) <= e[Len(r)] /\ e[Len(r)] <= n /\ e[Len(r)] \in 1 .. n
      BY <1>3, <1>4, <3>1
    <3> QED
      BY <1>0, <3>2
  <2> QED
    BY <2>1, <2>2
<1>6. ASSUME \A i, j \in 1 .. n : s[i] = s[j] => i = j,
             NEW k \in 1 .. Len(r), NEW l \in 1 .. Len(r), r[k] = r[l]
      PROVE  k = l
  <2>1. e[k] \in 1 .. n /\ e[l] \in 1 .. n /\ s[e[k]] = s[e[l]]
    BY <1>3, <1>6
  <2>2. e[k] = e[l]
    BY <1>6, <2>1
  <2>3. ~(k < l) /\ ~(l < k)
    BY <1>3, <2>1, <2>2
  <2> QED
    BY <1>0, <2>3
<1>7. ASSUME NEW k \in 1 .. Len(r) PROVE r[k] \in S /\ \E i \in 1 .. n : s[i] = r[k]
  <2>1. e[k] \in 1 .. n /\ r[k] = s[e[k]] /\ s[e[k]] \in S
    BY <1>3
  <2> QED
    BY <2>1
<1>8. ASSUME NEW i \in 1 .. n, s[i] \in S PROVE \E k \in 1 .. Len(r) : r[k] = s[i]
  BY <1>3, <1>8
<1> QED
  BY <1>1, <1>5, <1>6, <1>7, <1>8 DEF r, n

-----------------------------------------------------------------------------
(* The cgroup table *)

\* R is a cgroup table: the root first, none twice, only cgroups there are and
\* whose paths fit, all of them unless it is full, parents first.
CgroupRows(R) ==
  /\ R \in Seq(Nodes) /\ Len(R) \in 1 .. MaxCgroups /\ R[1] = Root
  /\ \A p, q \in 1 .. Len(R) : R[p] = R[q] => p = q
  /\ \A p \in 1 .. Len(R) : R[p] \in (dirs \union {Root}) \ Long
  /\ Len(R) < MaxCgroups => \A h \in (dirs \union {Root}) \ Long : \E p \in 1 .. Len(R) : R[p] = h
  /\ \A p \in 2 .. Len(R) : \E q \in 1 .. p - 1 : R[q] = Parent[R[p]]

\* Cut anywhere, a list with parents first stays one.
LEMMA FirstRowsServe ==
  ASSUME NEW O, NEW n \in Nat \ {0}, NEW D,
         /\ O \in Seq(Nodes) /\ Len(O) >= 1 /\ O[1] = Root
         /\ \A p, q \in 1 .. Len(O) : O[p] = O[q] => p = q
         /\ \A h : (\E p \in 1 .. Len(O) : O[p] = h) <=> h \in D
         /\ \A p \in 2 .. Len(O) : \E q \in 1 .. p - 1 : O[q] = Parent[O[p]]
  PROVE  /\ Fit(O, n) \in Seq(Nodes) /\ Len(Fit(O, n)) \in 1 .. n /\ Fit(O, n)[1] = Root
         /\ \A p, q \in 1 .. Len(Fit(O, n)) : Fit(O, n)[p] = Fit(O, n)[q] => p = q
         /\ \A p \in 1 .. Len(Fit(O, n)) : Fit(O, n)[p] \in D
         /\ Len(Fit(O, n)) < n => \A h \in D : \E p \in 1 .. Len(Fit(O, n)) : Fit(O, n)[p] = h
         /\ \A p \in 2 .. Len(Fit(O, n)) : \E q \in 1 .. p - 1 : Fit(O, n)[q] = Parent[Fit(O, n)[p]]
<1> DEFINE R == Fit(O, n)
           m == Len(R)
<1>1. /\ R \in Seq(Nodes) /\ m = IF Len(O) < n THEN Len(O) ELSE n
      /\ \A k \in 1 .. m : R[k] = O[k]
      /\ Len(O) <= n => R = O
  BY FitIs
<1>2. Len(O) \in Nat /\ m \in 1 .. n /\ m <= Len(O)
  BY <1>1
<1> HIDE DEF R
<1>3. R[1] = Root /\ \A k \in 1 .. m : k \in 1 .. Len(O)
  BY <1>1, <1>2
<1> HIDE DEF m
<1>4. \A p, q \in 1 .. m : R[p] = R[q] => p = q
  BY <1>1, <1>3
<1>5. \A p \in 1 .. m : R[p] \in D
  BY <1>1, <1>3
<1>6. m < n => \A h \in D : \E p \in 1 .. m : R[p] = h
  <2>1. m < n => R = O /\ m = Len(O)
    BY <1>1, <1>2
  <2> QED
    BY <2>1
<1>7. ASSUME NEW p \in 2 .. m PROVE \E q \in 1 .. p - 1 : R[q] = Parent[R[p]]
  <2>1. p \in 2 .. Len(O) /\ p \in 1 .. m
    BY <1>2
  <2>2. PICK q \in 1 .. p - 1 : O[q] = Parent[O[p]]
    BY <2>1
  <2>3. q \in 1 .. m
    BY <1>2
  <2> QED
    BY <1>1, <2>1, <2>2, <2>3
<1> QED
  BY <1>1, <1>2, <1>3, <1>4, <1>5, <1>6, <1>7 DEF R, m

\* shm_collect_cgroups() writes such a table.
LEMMA CgroupRowsAre ==
  ASSUME MadeInv
  PROVE  CgroupRows(shm_collect_cgroups)
<1> DEFINE S == (Groups \union {Root}) \ Long
           W == Preorder
           O == Only(W, S)
           D == (dirs \union {Root}) \ Long
           n == Len(W)
<1>1. InOrder(W, Root) /\ Sub(Root) = dirs \union {Root}
  BY PreorderInOrder
<1>2. /\ W \in Seq(Nodes) /\ n >= 1 /\ W[1] = Root
      /\ \A p, q \in 1 .. n : W[p] = W[q] => p = q
      /\ \A h : h \in dirs \union {Root} <=> \E p \in 1 .. n : W[p] = h
      /\ \A p \in 2 .. n : \E q \in 1 .. p - 1 : W[q] = Parent[W[p]]
  BY <1>1 DEF InOrder
<1>3. O \in Seq(Nodes) /\ \E e : Places(e, O, W, S, n)
  BY <1>2, OnlyPlaces
<1>4. PICK e : Places(e, O, W, S, n)
  BY <1>3
<1>5. /\ \A i, j \in 1 .. Len(O) : O[i] = O[j] => i = j
      /\ \A x : (\E k \in 1 .. Len(O) : O[k] = x) <=> x \in S /\ \E i \in 1 .. n : W[i] = x
  <2> HIDE DEF W, S
  <2>1. /\ (\A i, j \in 1 .. Len(W) : W[i] = W[j] => i = j) =>
              \A i, j \in 1 .. Len(Only(W, S)) : Only(W, S)[i] = Only(W, S)[j] => i = j
        /\ \A x : (\E k \in 1 .. Len(Only(W, S)) : Only(W, S)[k] = x)
                     <=> x \in S /\ \E i \in 1 .. Len(W) : W[i] = x
    BY <1>2, OnlyHolds
  <2> QED
    BY <1>2, <2>1
<1> HIDE DEF W, O
<1>0. /\ n \in Nat /\ Len(O) \in Nat /\ Root \notin Groups /\ dirs \subseteq Groups /\ Long \subseteq Groups
      /\ MaxCgroups \in Nat \ {0} /\ shm_collect_cgroups = Fit(O, MaxCgroups) /\ Root \in S
  BY <1>2, <1>3, TreeAssumption, RegionAssumption DEF MadeInv, Rooted, shm_collect_cgroups, O, W
<1> HIDE DEF n
<1>6. /\ e \in [1 .. Len(O) -> 1 .. n]
      /\ \A k \in 1 .. Len(O) : O[k] = W[e[k]]
      /\ \A k, l \in 1 .. Len(O) : k < l => e[k] < e[l]
      /\ \A i \in 1 .. n : W[i] \in S <=> \E k \in 1 .. Len(O) : e[k] = i
  BY <1>4 DEF Places
<1>7. Len(O) >= 1 /\ O[1] = Root
  <2>1. 1 \in 1 .. n /\ W[1] \in S
    BY <1>0, <1>2
  <2>2. PICK k \in 1 .. Len(O) : e[k] = 1
    BY <1>6, <2>1
  <2>3. 1 \in 1 .. Len(O)
    BY <1>0
  <2>4. e[1] \in 1 .. n /\ (1 < k => e[1] < 1)
    BY <1>6, <2>2, <2>3
  <2>5. k = 1
    BY <1>0, <2>3, <2>4
  <2> QED
    BY <1>0, <1>2, <1>6, <2>2, <2>3, <2>5
<1>8. \A h : (\E p \in 1 .. Len(O) : O[p] = h) <=> h \in D
  BY <1>0, <1>2, <1>5
<1>9. ASSUME NEW p \in 2 .. Len(O) PROVE \E q \in 1 .. p - 1 : O[q] = Parent[O[p]]
  <2>1. 1 \in 1 .. Len(O) /\ p \in 1 .. Len(O) /\ 1 < p
    BY <1>0
  <2>2. e[1] \in 1 .. n /\ e[p] \in 1 .. n /\ e[1] < e[p] /\ O[p] = W[e[p]]
    BY <1>6, <2>1
  <2>3. e[p] \in 2 .. n
    BY <1>0, <2>2
  <2>4. PICK i \in 1 .. e[p] - 1 : W[i] = Parent[W[e[p]]]
    BY <1>2, <2>3
  <2>5. i \in 1 .. n /\ i < e[p]
    BY <1>0, <2>3
  <2>6. O[p] # Root /\ O[p] \in D
    BY <1>5, <1>7, <1>8, <2>1
  <2>7. O[p] \in Groups /\ O[p] \notin Long
    BY <1>0, <2>6
  <2>8. Parent[O[p]] \in S
    <3>1. Parent[O[p]] \in Groups \union {Root}
      BY <2>7, TreeAssumption
    <3>2. CASE Parent[O[p]] = Root
      BY <1>0, <3>2
    <3>3. CASE Parent[O[p]] # Root
      <4>1. Parent[O[p]] \in Above(O[p])
        BY <2>7, <3>1, <3>3, AboveIs
      <4>2. Parent[O[p]] \notin Long
        BY <2>7, <4>1, RegionAssumption
      <4> QED
        BY <3>1, <4>2
    <3> QED
      BY <3>2, <3>3
  <2>9. PICK k \in 1 .. Len(O) : e[k] = i
    BY <1>6, <2>2, <2>4, <2>5, <2>8
  <2>10. k < p
    <3> SUFFICES ASSUME ~(k < p) PROVE FALSE
      OBVIOUS
    <3>1. k = p \/ p < k
      BY <1>0
    <3>2. e[p] <= e[k]
      BY <1>6, <2>1, <2>2, <3>1
    <3> QED
      BY <1>0, <2>2, <2>5, <2>9, <3>2
  <2>11. k \in 1 .. p - 1 /\ O[k] = Parent[O[p]]
    BY <1>0, <1>6, <2>2, <2>4, <2>9, <2>10
  <2> QED
    BY <2>11
<1> HIDE DEF D
<1>10. /\ O \in Seq(Nodes) /\ Len(O) >= 1 /\ O[1] = Root
       /\ \A p, q \in 1 .. Len(O) : O[p] = O[q] => p = q
       /\ \A h : (\E p \in 1 .. Len(O) : O[p] = h) <=> h \in D
       /\ \A p \in 2 .. Len(O) : \E q \in 1 .. p - 1 : O[q] = Parent[O[p]]
  BY <1>3, <1>5, <1>7, <1>8, <1>9 DEF O
<1> DEFINE R == Fit(O, MaxCgroups)
<1>11. /\ R \in Seq(Nodes) /\ Len(R) \in 1 .. MaxCgroups /\ R[1] = Root
       /\ \A p, q \in 1 .. Len(R) : R[p] = R[q] => p = q
       /\ \A p \in 1 .. Len(R) : R[p] \in D
       /\ Len(R) < MaxCgroups => \A h \in D : \E p \in 1 .. Len(R) : R[p] = h
       /\ \A p \in 2 .. Len(R) : \E q \in 1 .. p - 1 : R[q] = Parent[R[p]]
  BY <1>0, <1>10, FirstRowsServe
<1> QED
  BY <1>0, <1>11 DEF CgroupRows, D

-----------------------------------------------------------------------------
(* The tables of tasks. *)

\* The numbers of the tasks are given out up to the table's size.
NumberedInv ==
  /\ numbered \in Seq(Tasks) /\ Len(numbered) <= MaxTasks
  /\ policy \in [Tasks -> {"fair", "rt"}]
  /\ ncpus \in 1 .. NumCpus - 1

\* s lists the set of numbers A, each once.
Listing(s, A) ==
  /\ s \in Seq(Nat)
  /\ \A k, l \in 1 .. Len(s) : s[k] = s[l] => k = l
  /\ \A i : (\E k \in 1 .. Len(s) : s[k] = i) <=> i \in A

\* The numbers of the tasks that live.
Alive == {i \in 1 .. Len(numbered) : life[numbered[i]] # "dead"}

\* The living of a class.
AliveOf(p) == {i \in Alive : policy[numbered[i]] = p}
\* The rows of a class.
TasksOf(p) == Only(shm_tasks, {i \in DOMAIN numbered : policy[numbered[i]] = p})

\* A filtered listing lists what is left.
LEMMA ListsOnly ==
  ASSUME NEW s, NEW A, Listing(s, A), NEW S
  PROVE  Listing(Only(s, S), A \intersect S) /\ Len(Only(s, S)) <= Len(s)
<1>1. s \in Seq(Nat)
  BY DEF Listing
<1>2. /\ Only(s, S) \in Seq(Nat) /\ Len(Only(s, S)) <= Len(s)
      /\ (\A i, j \in 1 .. Len(s) : s[i] = s[j] => i = j) =>
           \A i, j \in 1 .. Len(Only(s, S)) : Only(s, S)[i] = Only(s, S)[j] => i = j
      /\ \A x : (\E k \in 1 .. Len(Only(s, S)) : Only(s, S)[k] = x)
                  <=> x \in S /\ \E i \in 1 .. Len(s) : s[i] = x
  BY <1>1, OnlyHolds
<1> QED
  BY <1>2 DEF Listing

\* A listing is as long as its set is large, and has each number in one place.
LEMMA ListsCount ==
  ASSUME NEW s, NEW A, Listing(s, A)
  PROVE  /\ Cardinality(A) = Len(s)
         /\ \A i \in A : Cardinality({k \in 1 .. Len(s) : s[k] = i}) = 1
         /\ \A i : i \notin A => Cardinality({k \in 1 .. Len(s) : s[k] = i}) = 0
<1> DEFINE n == Len(s)
           f == [k \in 1 .. n |-> s[k]]
<1>1. /\ s \in Seq(Nat) /\ \A k, l \in 1 .. n : s[k] = s[l] => k = l
      /\ \A i : (\E k \in 1 .. n : s[k] = i) <=> i \in A
  BY DEF Listing
<1>0. n \in Nat
  BY <1>1
<1> HIDE DEF n
<1>2. f \in Bijection(1 .. n, A)
  <2>1. f \in [1 .. n -> A] /\ \A k \in 1 .. n : f[k] = s[k]
    BY <1>1
  <2> HIDE DEF f
  <2>2. IsInjective(f)
    BY <1>1, <2>1 DEF IsInjective
  <2>3. \A i \in A : \E k \in 1 .. n : f[k] = i
    BY <1>1, <2>1
  <2> QED
    BY <2>1, <2>2, <2>3 DEF Bijection, Injection, Surjection
<1>3. Cardinality(A) = n
  <2>1. ExistsBijection(1 .. n, A)
    BY <1>2 DEF ExistsBijection
  <2> QED
    BY <1>0, <2>1, FS_CountingElements
<1>4. ASSUME NEW i \in A PROVE Cardinality({k \in 1 .. n : s[k] = i}) = 1
  <2>1. PICK k \in 1 .. n : s[k] = i
    BY <1>1
  <2>2. {l \in 1 .. n : s[l] = i} = {k}
    BY <1>1, <2>1
  <2> QED
    BY <2>2, FS_Singleton
<1>5. ASSUME NEW i, i \notin A PROVE Cardinality({k \in 1 .. n : s[k] = i}) = 0
  <2>1. {l \in 1 .. n : s[l] = i} = {}
    BY <1>1, <1>5
  <2> QED
    BY <2>1, FS_EmptySet
<1> QED
  BY <1>3, <1>4, <1>5 DEF n

\* The task table has the living, and the classes share them out.
LEMMA TaskRowsAre ==
  ASSUME NumberedInv
  PROVE  /\ Listing(shm_tasks, Alive) /\ Len(shm_tasks) <= MaxTasks
         /\ \A p : Listing(TasksOf(p), AliveOf(p)) /\ Len(TasksOf(p)) <= MaxTasks
<1> DEFINE n == Len(numbered)
           C == Count(n)
           D == {i \in DOMAIN numbered : life[numbered[i]] # "dead"}
           s == Only(C, D)
<1>0. n \in Nat /\ DOMAIN numbered = 1 .. n /\ MaxTasks \in Nat /\ n <= MaxTasks
  BY RegionAssumption DEF NumberedInv
<1>1. Listing(C, 1 .. n) /\ Len(C) = n
  <2> HIDE DEF n
  <2>1. C \in Seq(Nat) /\ Len(C) = n /\ \A k \in 1 .. n : C[k] = k
    BY <1>0 DEF Count
  <2> HIDE DEF C
  <2> QED
    BY <1>0, <2>1 DEF Listing
<1>2. (1 .. n) \intersect D = Alive
  BY <1>0 DEF Alive
<1>3. Listing(s, Alive) /\ Len(s) <= n
  <2> HIDE DEF C, D, n
  <2>1. Listing(s, (1 .. n) \intersect D) /\ Len(s) <= Len(C)
    BY <1>1, ListsOnly
  <2> QED
    BY <1>1, <1>2, <2>1
<1>4. shm_tasks = s
  <2>1. shm_tasks = Fit(s, MaxTasks)
    BY DEF shm_tasks
  <2> HIDE DEF s, n
  <2>2. s \in Seq(Nat) /\ Len(s) <= MaxTasks
    BY <1>0, <1>3 DEF Listing
  <2> QED
    BY <1>0, <2>1, <2>2, FitIs
<1>5. Listing(shm_tasks, Alive) /\ Len(shm_tasks) <= MaxTasks /\ Len(shm_tasks) \in Nat
  <2> HIDE DEF s, n
  <2> QED
    BY <1>0, <1>3, <1>4 DEF Listing
<1>6. ASSUME NEW p PROVE Listing(TasksOf(p), AliveOf(p)) /\ Len(TasksOf(p)) <= MaxTasks
  <2> DEFINE S == {i \in DOMAIN numbered : policy[numbered[i]] = p}
  <2>1. Alive \intersect S = AliveOf(p) /\ TasksOf(p) = Only(shm_tasks, S)
    BY <1>0 DEF Alive, AliveOf, TasksOf
  <2> HIDE DEF S, n
  <2>2. Listing(Only(shm_tasks, S), Alive \intersect S) /\ Len(Only(shm_tasks, S)) <= Len(shm_tasks)
    BY <1>5, ListsOnly
  <2>3. Only(shm_tasks, S) \in Seq(Nat)
    BY <2>2 DEF Listing
  <2>4. Len(Only(shm_tasks, S)) <= MaxTasks
    BY <1>0, <1>5, <2>2, <2>3
  <2> QED
    BY <2>1, <2>2, <2>4, Zenon
<1> QED
  BY <1>5, <1>6

\* A table read back is its rows, if they fit.
LEMMA TableRead ==
  ASSUME NEW A, NEW rows \in Seq(A), NEW size \in Nat, Len(rows) <= size
  PROVE  table(Table(rows, size)) = rows
<1> DEFINE f == [i \in 1 .. size |-> IF i <= Len(rows) THEN rows[i] ELSE Stale]
           n == Len(rows)
<1>1. n \in Nat
  OBVIOUS
<1>2. f \in Seq(A \union {Stale}) /\ Len(f) = size /\ \A i \in 1 .. n : f[i] = rows[i]
  OBVIOUS
<1>3. table(Table(rows, size)) = SubSeq(f, 1, n)
  BY <1>2 DEF table, Table
<1> HIDE DEF f
<1>4. SubSeq(f, 1, n) \in Seq(A \union {Stale}) /\ Len(SubSeq(f, 1, n)) = n /\ \A i \in 1 .. n : SubSeq(f, 1, n)[i] = f[i]
  BY <1>1, <1>2
<1>5. SubSeq(f, 1, n) = rows
  BY <1>1, <1>2, <1>4
<1> QED
  BY <1>3, <1>5

\* Products grow.
LEMMA TimesGrows ==
  ASSUME NEW a \in Nat, NEW b \in Nat, NEW c \in Nat, NEW d \in Nat, a <= b, c <= d
  PROVE  a * c \in Nat /\ b * d \in Nat /\ a * c <= b * d
<1>1. a * c <= b * c
  <2>1. b = a + (b - a) /\ b - a \in Nat
    OBVIOUS
  <2>2. (b - a) * c \in Nat /\ a * c \in Nat
    BY <2>1
  <2>3. b * c = a * c + (b - a) * c
    OBVIOUS
  <2> QED
    BY <2>2, <2>3
<1>2. b * c <= b * d
  <2>1. d = c + (d - c) /\ d - c \in Nat
    OBVIOUS
  <2>2. b * (d - c) \in Nat /\ b * c \in Nat
    BY <2>1
  <2>3. b * d = b * c + b * (d - c)
    OBVIOUS
  <2> QED
    BY <2>2, <2>3
<1>3. a * c \in Nat /\ b * d \in Nat /\ b * c \in Nat
  OBVIOUS
<1> QED
  BY <1>1, <1>2, <1>3

-----------------------------------------------------------------------------
(* What is written ... *)

\* The cgroups that have a row.
Shown(R) == {R[p] : p \in 1 .. Len(R)}

\* The cgroup the host reads for one of the machine: its row's, or the root.
PlaceOf(R, g) == IF g \in Shown(R) THEN g ELSE Root

\* What the host reads at an index of the cgroup table.
PathAt(R, i) == IF i < Len(R) THEN R[i + 1] ELSE Root

\* The index written for a cgroup is read back as that cgroup.
LEMMA IndexRead ==
  ASSUME NEW R, CgroupRows(R), NEW g
  PROVE  PathAt(R, cgroup_index(R, g)) = PlaceOf(R, g)
<1>1. R \in Seq(Nodes) /\ Len(R) \in 1 .. MaxCgroups /\ R[1] = Root /\ MaxCgroups \in Nat
  BY RegionAssumption DEF CgroupRows
<1>2. Len(R) \in Nat /\ 0 < Len(R) /\ DOMAIN R = 1 .. Len(R)
  BY <1>1
<1>3. CASE g \in Shown(R)
  <2> DEFINE i == CHOOSE i \in DOMAIN R : R[i] = g
  <2>1. \E p \in DOMAIN R : R[p] = g
    BY <1>2, <1>3 DEF Shown
  <2>2. i \in DOMAIN R /\ R[i] = g
    BY <2>1
  <2>3. cgroup_index(R, g) = i - 1
    BY <2>1 DEF cgroup_index
  <2> HIDE DEF i
  <2>4. i - 1 < Len(R) /\ (i - 1) + 1 = i
    BY <1>2, <2>2
  <2> QED
    BY <1>3, <2>2, <2>3, <2>4 DEF PathAt, PlaceOf
<1>4. CASE g \notin Shown(R)
  <2>1. ~ \E p \in DOMAIN R : R[p] = g
    BY <1>2, <1>4 DEF Shown
  <2>2. cgroup_index(R, g) = 0
    BY <2>1 DEF cgroup_index
  <2> QED
    BY <1>1, <1>2, <1>4, <2>2 DEF PathAt, PlaceOf
<1> QED
  BY <1>3, <1>4

\* How many group entities there are.
GroupCount(R) == ncpus * (Len(R) - 1)

\* The rows of the task and the entity table.
TaskRows(R) ==
  [k \in 1 .. Len(shm_tasks) |-> shm_task(shm_tasks[k], cgroup_index(R, cgroup[numbered[shm_tasks[k]]]))]
\* The entities of the fair tasks.
FairRows(R) ==
  [k \in 1 .. Len(TasksOf("fair")) |->
     shm_entity(TasksOf("fair")[k], cgroup_index(R, cgroup[numbered[TasksOf("fair")[k]]]), 0)]
\* The rows of the others.
RtRows == [k \in 1 .. Len(TasksOf("rt")) |-> shm_rt_entity(TasksOf("rt")[k])]

\* The entity table has room for every task beside every group.
LEMMA RoomForTasks ==
  ASSUME NumberedInv, NEW R, CgroupRows(R)
  PROVE  /\ GroupCount(R) \in Nat
         /\ MaxEntities - GroupCount(R) \in Nat /\ MaxTasks <= MaxEntities - GroupCount(R)
<1>1. /\ ncpus \in Nat /\ NumCpus - 1 \in Nat /\ ncpus <= NumCpus - 1
      /\ Len(R) - 1 \in Nat /\ MaxCgroups \in Nat /\ Len(R) - 1 <= MaxCgroups /\ MaxTasks \in Nat
  BY RegionAssumption, TreeAssumption DEF NumberedInv, CgroupRows
<1> DEFINE a == Len(R) - 1
           b == NumCpus - 1
<1>2. ncpus * a \in Nat /\ b * MaxCgroups \in Nat /\ ncpus * a <= b * MaxCgroups
  <2> HIDE DEF a, b
  <2> QED
    BY <1>1, TimesGrows DEF a, b
<1>3. MaxCgroups * b = b * MaxCgroups /\ MaxEntities = MaxTasks + MaxCgroups * b /\ GroupCount(R) = ncpus * a
  BY <1>1 DEF MaxEntities, GroupCount
<1> HIDE DEF a, b
<1> DEFINE x == ncpus * a
           y == b * MaxCgroups
<1>4. x \in Nat /\ y \in Nat /\ x <= y /\ MaxEntities = MaxTasks + y /\ GroupCount(R) = x
  BY <1>2, <1>3
<1> HIDE DEF x, y
<1> QED
  BY <1>1, <1>4

\* What is written: no table is cut but the cgroups'.
LEMMA UpdateIs ==
  ASSUME NumberedInv, NEW R, R = shm_collect_cgroups, CgroupRows(R)
  PROVE  kstep_shm_update =
           [cgroup |-> Table(R, MaxCgroups),
            task   |-> Table(TaskRows(R), MaxTasks),
            entity |-> Table(shm_group_entities(R) \o FairRows(R), MaxEntities),
            rt     |-> Table(RtRows, MaxTasks)]
<1> DEFINE n == GroupCount(R)
           f == Fit(TasksOf("fair"), MaxEntities - n)
<1>1. n \in Nat /\ MaxEntities - n \in Nat /\ MaxTasks <= MaxEntities - n /\ MaxTasks \in Nat
  BY RoomForTasks, RegionAssumption
<1>2. Len(shm_group_entities(R)) = n
  BY <1>1 DEF shm_group_entities, GroupCount
<1> HIDE DEF n
<1>3. TasksOf("fair") \in Seq(Nat) /\ Len(TasksOf("fair")) <= MaxTasks
  BY TaskRowsAre DEF Listing
<1>4. f = TasksOf("fair")
  <2> DEFINE m == MaxEntities - n
  <2>1. m \in Nat /\ Len(TasksOf("fair")) <= m
    BY <1>1, <1>3
  <2> HIDE DEF m
  <2>2. Fit(TasksOf("fair"), m) = TasksOf("fair")
    BY <1>3, <2>1, FitIs
  <2> QED
    BY <2>2 DEF m
<1>5. kstep_shm_update =
        [cgroup |-> Table(R, MaxCgroups),
         task   |-> Table(TaskRows(R), MaxTasks),
         entity |-> Table(shm_group_entities(R) \o
                          [k \in 1 .. Len(f) |-> shm_entity(f[k], cgroup_index(R, cgroup[numbered[f[k]]]), 0)],
                          MaxEntities),
         rt     |-> Table(RtRows, MaxTasks)]
  BY <1>2, Zenon DEF kstep_shm_update, TaskRows, RtRows, TasksOf
<1> QED
  BY <1>4, <1>5, Zenon DEF FairRows

-----------------------------------------------------------------------------
(* ... and what is read back. *)

\* Rows with their cgroup's index replaced by its path.
Paths(R, t) == [k \in DOMAIN t |-> [t[k] EXCEPT !.cgroup = PathAt(R, @)]]

\* The group entities are a sequence of that length.
LEMMA GroupEntitiesAre ==
  ASSUME NEW R, NEW n, n = GroupCount(R), n \in Nat
  PROVE  /\ Len(shm_group_entities(R)) = n
         /\ shm_group_entities(R) \in Seq({shm_group_entities(R)[k] : k \in 1 .. n})
<1> DEFINE row(k) == shm_entity(0, 1 + ((k - 1) \div ncpus), 1 + ((k - 1) % ncpus))
<1>1. shm_group_entities(R) = [k \in 1 .. n |-> row(k)]
  BY DEF shm_group_entities, GroupCount
<1> HIDE DEF row
<1> QED
  BY <1>1

\* The tables have room for what is written, and are read back with paths.
LEMMA DecodeIs ==
  ASSUME NumberedInv, NEW R, R = shm_collect_cgroups, CgroupRows(R)
  PROVE  decode(kstep_shm_update) =
           [cgroups  |-> R,
            tasks    |-> Paths(R, TaskRows(R)),
            entities |-> Paths(R, shm_group_entities(R) \o FairRows(R)),
            rt       |-> RtRows]
<1> DEFINE n == GroupCount(R)
           m == Len(TasksOf("fair"))
           E == shm_group_entities(R) \o FairRows(R)
           V == [task : Nat, cgroup : Int, cpu : Int]
           U == kstep_shm_update
<1>0. /\ n \in Nat /\ MaxEntities - n \in Nat /\ MaxTasks <= MaxEntities - n /\ MaxTasks \in Nat
      /\ MaxCgroups \in Nat /\ MaxEntities \in Int
  <2>1. n \in Nat /\ MaxEntities - n \in Nat /\ MaxTasks <= MaxEntities - n /\ MaxTasks \in Nat /\ MaxCgroups \in Nat
    BY RoomForTasks, RegionAssumption
  <2>2. MaxEntities \in Int
    BY <2>1, TreeAssumption DEF MaxEntities
  <2> QED
    BY <2>1, <2>2
<1>1. /\ U.cgroup = Table(R, MaxCgroups) /\ U.task = Table(TaskRows(R), MaxTasks)
      /\ U.entity = Table(E, MaxEntities) /\ U.rt = Table(RtRows, MaxTasks)
  BY UpdateIs
<1>2. table(U.cgroup) = R
  <2>1. R \in Seq(Nodes) /\ Len(R) <= MaxCgroups
    BY <1>0 DEF CgroupRows
  <2> QED
    BY <1>0, <1>1, <2>1, TableRead
<1>3. Len(shm_tasks) \in Nat /\ Len(shm_tasks) <= MaxTasks
  BY TaskRowsAre DEF Listing
<1>4. m \in Nat /\ m <= MaxTasks /\ Len(TasksOf("rt")) \in Nat /\ Len(TasksOf("rt")) <= MaxTasks
  BY TaskRowsAre DEF Listing
<1> HIDE DEF n, m
<1>5. table(U.task) = TaskRows(R)
  <2> DEFINE A == {TaskRows(R)[k] : k \in 1 .. Len(shm_tasks)}
  <2>1. TaskRows(R) \in Seq(A) /\ Len(TaskRows(R)) = Len(shm_tasks)
    BY <1>3 DEF TaskRows
  <2> HIDE DEF A
  <2> QED
    BY <1>0, <1>1, <1>3, <2>1, TableRead
<1>6. table(U.rt) = RtRows
  <2> DEFINE A == {RtRows[k] : k \in 1 .. Len(TasksOf("rt"))}
  <2>1. RtRows \in Seq(A) /\ Len(RtRows) = Len(TasksOf("rt"))
    BY <1>4 DEF RtRows
  <2> HIDE DEF A
  <2> QED
    BY <1>0, <1>1, <1>4, <2>1, TableRead
<1>7. table(U.entity) = E
  <2> DEFINE B == {shm_group_entities(R)[k] : k \in 1 .. n}
             C == {FairRows(R)[k] : k \in 1 .. m}
             A == B \union C
  <2>1. shm_group_entities(R) \in Seq(B) /\ Len(shm_group_entities(R)) = n
    BY <1>0, GroupEntitiesAre DEF n
  <2>2. FairRows(R) \in Seq(C) /\ Len(FairRows(R)) = m
    BY <1>4 DEF FairRows, m
  <2> HIDE DEF B, C
  <2>3. shm_group_entities(R) \in Seq(A) /\ FairRows(R) \in Seq(A)
    BY <2>1, <2>2
  <2> HIDE DEF A
  <2>4. E \in Seq(A) /\ Len(E) = n + m
    BY <2>1, <2>2, <2>3, Joined
  <2>5. n + m <= MaxEntities /\ MaxEntities \in Nat
    BY <1>0, <1>4
  <2> HIDE DEF E
  <2> QED
    BY <1>1, <2>4, <2>5, TableRead
<1> HIDE DEF U, E
<1>8. decode(U) = [cgroups  |-> R,
                   tasks    |-> Paths(R, TaskRows(R)),
                   entities |-> Paths(R, E),
                   rt       |-> RtRows]
  BY <1>2, <1>5, <1>6, <1>7 DEF decode, Paths, PathAt
<1> QED
  BY <1>8 DEF U, E

\* The tasks and the real-time tasks the host reads.
LEMMA TasksRead ==
  ASSUME NumberedInv, NEW R, CgroupRows(R)
  PROVE  /\ Len(Paths(R, TaskRows(R))) = Len(shm_tasks) /\ DOMAIN Paths(R, TaskRows(R)) = 1 .. Len(shm_tasks)
         /\ \A k \in 1 .. Len(shm_tasks) :
              Paths(R, TaskRows(R))[k] = shm_task(shm_tasks[k], PlaceOf(R, cgroup[numbered[shm_tasks[k]]]))
         /\ DOMAIN RtRows = 1 .. Len(TasksOf("rt"))
         /\ \A k \in 1 .. Len(TasksOf("rt")) : RtRows[k].task = TasksOf("rt")[k]
<1>1. Len(shm_tasks) \in Nat /\ Len(TasksOf("rt")) \in Nat
  BY TaskRowsAre DEF Listing
<1>2. DOMAIN TaskRows(R) = 1 .. Len(shm_tasks)
  BY DEF TaskRows
<1>3. DOMAIN Paths(R, TaskRows(R)) = 1 .. Len(shm_tasks) /\ Len(Paths(R, TaskRows(R))) = Len(shm_tasks)
  BY <1>1, <1>2 DEF Paths
<1>4. ASSUME NEW k \in 1 .. Len(shm_tasks)
      PROVE  Paths(R, TaskRows(R))[k] = shm_task(shm_tasks[k], PlaceOf(R, cgroup[numbered[shm_tasks[k]]]))
  <2> DEFINE g == cgroup[numbered[shm_tasks[k]]]
  <2>1. TaskRows(R)[k] = shm_task(shm_tasks[k], cgroup_index(R, g))
    BY DEF TaskRows
  <2> HIDE DEF g
  <2>2. Paths(R, TaskRows(R))[k] = [TaskRows(R)[k] EXCEPT !.cgroup = PathAt(R, @)]
    BY <1>2 DEF Paths
  <2>3. Paths(R, TaskRows(R))[k] = shm_task(shm_tasks[k], PathAt(R, cgroup_index(R, g)))
    BY <2>1, <2>2 DEF shm_task
  <2>4. PathAt(R, cgroup_index(R, g)) = PlaceOf(R, g)
    BY IndexRead
  <2> QED
    BY <2>3, <2>4 DEF g
<1>5. DOMAIN RtRows = 1 .. Len(TasksOf("rt")) /\ \A k \in 1 .. Len(TasksOf("rt")) : RtRows[k].task = TasksOf("rt")[k]
  BY DEF RtRows, shm_rt_entity
<1> QED
  BY <1>3, <1>4, <1>5

\* Row and CPU of a group entity.
Row(k) == 2 + ((k - 1) \div ncpus)
Cpu(k) == 1 + ((k - 1) % ncpus)

\* The group entities go through all rows but the first and all test CPUs.
LEMMA GroupEntitiesCover ==
  ASSUME NumberedInv, NEW R, CgroupRows(R)
  PROVE  /\ \A k \in 1 .. GroupCount(R) : Row(k) \in 2 .. Len(R) /\ Cpu(k) \in 1 .. ncpus
         /\ \A p \in 2 .. Len(R), c \in 1 .. ncpus : \E k \in 1 .. GroupCount(R) : Row(k) = p /\ Cpu(k) = c
<1> DEFINE m == Len(R) - 1
<1>0. GroupCount(R) = ncpus * m /\ GroupCount(R) \in Nat
  BY RoomForTasks DEF GroupCount
<1>1. ncpus \in Nat /\ ncpus >= 1 /\ m \in Nat /\ Len(R) = m + 1 /\ GroupCount(R) = ncpus * m /\ ncpus * m \in Nat
  <2>1. ncpus \in Nat /\ ncpus >= 1 /\ m \in Nat /\ Len(R) = m + 1
    BY RegionAssumption, TreeAssumption DEF NumberedInv, CgroupRows
  <2> QED
    BY <1>0, <2>1
<1> HIDE DEF m
<1>2. ASSUME NEW k \in 1 .. ncpus * m
      PROVE  Row(k) \in 2 .. Len(R) /\ Cpu(k) \in 1 .. ncpus
  <2> DEFINE q == (k - 1) \div ncpus
             r == (k - 1) % ncpus
  <2>1. q \in Int /\ r \in 0 .. ncpus - 1 /\ k - 1 = ncpus * q + r /\ k - 1 \in Nat /\ k - 1 < ncpus * m
    BY <1>1
  <2> HIDE DEF q, r
  <2>2. q >= 0
    <3> SUFFICES ASSUME q <= 0 - 1 PROVE FALSE
      BY <2>1
    <3>1. ncpus * q <= 0 - ncpus
      BY <1>1, <2>1
    <3> QED
      BY <1>1, <2>1, <3>1
  <2>3. q <= m - 1
    <3> SUFFICES ASSUME q >= m PROVE FALSE
      BY <1>1, <2>1
    <3>1. ncpus * m <= ncpus * q
      BY <1>1, <2>1, <2>2, TimesGrows
    <3> QED
      BY <1>1, <2>1, <3>1
  <2> QED
    BY <1>1, <2>1, <2>2, <2>3 DEF Row, Cpu, q, r
<1>3. ASSUME NEW p \in 2 .. Len(R), NEW c \in 1 .. ncpus
      PROVE  \E k \in 1 .. ncpus * m : Row(k) = p /\ Cpu(k) = c
  <2> DEFINE q == p - 2
             r == c - 1
             k == ncpus * q + r + 1
  <2>1. q \in Nat /\ r \in 0 .. ncpus - 1 /\ q + 1 <= m /\ q + 1 \in Nat
    BY <1>1
  <2> HIDE DEF q, r
  <2>2. ncpus * (q + 1) <= ncpus * m
    BY <1>1, <2>1, TimesGrows
  <2>3. ncpus * (q + 1) = ncpus * q + ncpus /\ ncpus * q \in Nat
    BY <1>1, <2>1
  <2>4. k \in 1 .. ncpus * m /\ k - 1 = ncpus * q + r
    BY <1>1, <2>1, <2>2, <2>3
  <2>5. (ncpus * q + r) \div ncpus = q /\ (ncpus * q + r) % ncpus = r
    BY <1>1, <2>1
  <2>6. Row(k) = p /\ Cpu(k) = c
    BY <2>4, <2>5, <1>1 DEF Row, Cpu, q, r
  <2> QED
    BY <2>4, <2>6
<1> QED
  BY <1>1, <1>2, <1>3

\* The entities the host reads: the groups' and then the fair tasks'.
LEMMA EntitiesRead ==
  ASSUME NumberedInv, NEW R, CgroupRows(R), NEW E, E = Paths(R, shm_group_entities(R) \o FairRows(R)),
         NEW n, n = GroupCount(R), NEW F, F = TasksOf("fair")
  PROVE  /\ DOMAIN E = 1 .. n + Len(F)
         /\ \A k \in 1 .. n : E[k] = shm_entity(0, R[Row(k)], Cpu(k))
         /\ \A k \in 1 .. Len(F) : E[n + k] = shm_entity(F[k], PlaceOf(R, cgroup[numbered[F[k]]]), 0)
<1> DEFINE X == shm_group_entities(R)
           Y == FairRows(R)
           B == {X[k] : k \in 1 .. n}
           C == {Y[k] : k \in 1 .. Len(F)}
           A == B \union C
<1>0. n \in Nat /\ Len(F) \in Nat
  BY RoomForTasks, TaskRowsAre DEF Listing
<1>1. X \in Seq(B) /\ Len(X) = n /\ \A k \in 1 .. n : X[k] = shm_entity(0, Row(k) - 1, Cpu(k))
  <2>1. X \in Seq(B) /\ Len(X) = n
    BY <1>0, GroupEntitiesAre
  <2>2. ASSUME NEW k \in 1 .. n PROVE X[k] = shm_entity(0, Row(k) - 1, Cpu(k))
    <3>1. X[k] = shm_entity(0, 1 + ((k - 1) \div ncpus), 1 + ((k - 1) % ncpus))
      BY DEF shm_group_entities, GroupCount
    <3>2. 1 + ((k - 1) \div ncpus) = Row(k) - 1
      BY <1>0 DEF NumberedInv, Row
    <3> QED
      BY <3>1, <3>2 DEF Cpu
  <2> QED
    BY <2>1, <2>2
<1>2. /\ Y \in Seq(C) /\ Len(Y) = Len(F)
      /\ \A k \in 1 .. Len(F) : Y[k] = shm_entity(F[k], cgroup_index(R, cgroup[numbered[F[k]]]), 0)
  BY <1>0 DEF FairRows
<1> HIDE DEF X, Y, B, C
<1>3. X \in Seq(A) /\ Y \in Seq(A)
  BY <1>1, <1>2
<1> HIDE DEF A
<1>4. /\ X \o Y \in Seq(A) /\ Len(X \o Y) = n + Len(F)
      /\ \A p \in 1 .. n : (X \o Y)[p] = X[p]
      /\ \A p \in 1 .. Len(F) : (X \o Y)[n + p] = Y[p]
  <2>1. /\ X \o Y \in Seq(A) /\ Len(X \o Y) = Len(X) + Len(Y)
        /\ \A p \in 1 .. Len(X) : (X \o Y)[p] = X[p]
        /\ \A p \in 1 .. Len(Y) : (X \o Y)[Len(X) + p] = Y[p]
    BY <1>3, Joined
  <2> QED
    BY <1>1, <1>2, <2>1
<1> DEFINE Z == X \o Y
<1>5. E = Paths(R, Z) /\ DOMAIN Z = 1 .. n + Len(F)
  BY <1>4 DEF X, Y
<1>6. /\ \A p \in 1 .. n : Z[p] = X[p]
      /\ \A p \in 1 .. Len(F) : Z[n + p] = Y[p]
  BY <1>4
<1> HIDE DEF Z
<1>7. DOMAIN E = 1 .. n + Len(F) /\ \A k \in 1 .. n + Len(F) : E[k] = [Z[k] EXCEPT !.cgroup = PathAt(R, @)]
  BY <1>5 DEF Paths
<1>8. ASSUME NEW k \in 1 .. n PROVE E[k] = shm_entity(0, R[Row(k)], Cpu(k))
  <2>1. k \in 1 .. n + Len(F)
    BY <1>0
  <2>2. E[k] = [shm_entity(0, Row(k) - 1, Cpu(k)) EXCEPT !.cgroup = PathAt(R, @)]
    BY <1>1, <1>6, <1>7, <2>1
  <2>3. E[k] = shm_entity(0, PathAt(R, Row(k) - 1), Cpu(k))
    BY <2>2 DEF shm_entity
  <2>4. Row(k) \in 2 .. Len(R) /\ Len(R) \in Nat
    BY GroupEntitiesCover DEF CgroupRows
  <2>5. Row(k) - 1 < Len(R) /\ (Row(k) - 1) + 1 = Row(k)
    BY <2>4
  <2> QED
    BY <2>3, <2>5 DEF PathAt
<1>9. ASSUME NEW k \in 1 .. Len(F)
      PROVE  E[n + k] = shm_entity(F[k], PlaceOf(R, cgroup[numbered[F[k]]]), 0)
  <2> DEFINE g == cgroup[numbered[F[k]]]
  <2>1. n + k \in 1 .. n + Len(F) /\ Y[k] = shm_entity(F[k], cgroup_index(R, g), 0)
    BY <1>0, <1>2
  <2> HIDE DEF g
  <2>2. E[n + k] = [Y[k] EXCEPT !.cgroup = PathAt(R, @)]
    BY <1>6, <1>7, <2>1
  <2>3. E[n + k] = shm_entity(F[k], PathAt(R, cgroup_index(R, g)), 0)
    BY <2>1, <2>2 DEF shm_entity
  <2>4. PathAt(R, cgroup_index(R, g)) = PlaceOf(R, g)
    BY IndexRead
  <2> QED
    BY <2>3, <2>4 DEF g
<1> QED
  BY <1>7, <1>8, <1>9

-----------------------------------------------------------------------------
(* The tables join. *)

\* The fields of an entity.
LEMMA EntityFields ==
  \A i, g, c : shm_entity(i, g, c).task = i /\ shm_entity(i, g, c).cgroup = g /\ shm_entity(i, g, c).cpu = c
BY DEF shm_entity

\* Every living task has its entity or its real-time row, and no other.
LEMMA ClassRowsCount ==
  ASSUME NumberedInv, NEW R, CgroupRows(R), NEW E, E = Paths(R, shm_group_entities(R) \o FairRows(R)), NEW i \in Alive
  PROVE  /\ Cardinality({k \in DOMAIN E : E[k].task = i}) = IF policy[numbered[i]] = "fair" THEN 1 ELSE 0
         /\ Cardinality({k \in DOMAIN RtRows : RtRows[k].task = i}) = IF policy[numbered[i]] = "fair" THEN 0 ELSE 1
<1> DEFINE n == GroupCount(R)
           F == TasksOf("fair")
           m == Len(F)
           K == {k \in DOMAIN E : E[k].task = i}
<1>0. /\ n \in Nat /\ Listing(F, AliveOf("fair")) /\ Listing(TasksOf("rt"), AliveOf("rt"))
      /\ i \in Nat /\ i # 0
  BY RoomForTasks, TaskRowsAre DEF Alive, NumberedInv
<1>1. policy[numbered[i]] \in {"fair", "rt"}
  BY DEF NumberedInv, Alive
<1>2. /\ DOMAIN E = 1 .. n + m
      /\ \A k \in 1 .. n : E[k] = shm_entity(0, R[Row(k)], Cpu(k))
      /\ \A k \in 1 .. m : E[n + k] = shm_entity(F[k], PlaceOf(R, cgroup[numbered[F[k]]]), 0)
  BY EntitiesRead
<1> HIDE DEF n, F
<1>m. m \in Nat
  BY <1>0 DEF Listing
<1> HIDE DEF m
<1>3. /\ \A k \in 1 .. n : E[k].task = 0
      /\ \A k \in 1 .. m : E[n + k].task = F[k]
  <2>1. ASSUME NEW k \in 1 .. n PROVE E[k].task = 0
    BY <1>2, EntityFields
  <2>2. ASSUME NEW k \in 1 .. m PROVE E[n + k].task = F[k]
    BY <1>2, EntityFields
  <2> QED
    BY <2>1, <2>2
<1>4. \A k \in 1 .. n + m : k \in 1 .. n \/ \E l \in 1 .. m : k = n + l
  <2> SUFFICES ASSUME NEW k \in 1 .. n + m, k \notin 1 .. n PROVE \E l \in 1 .. m : k = n + l
    OBVIOUS
  <2>1. k - n \in 1 .. m /\ k = n + (k - n)
    BY <1>0, <1>m
  <2> QED
    BY <2>1
<1>5. \A k, l \in 1 .. m : F[k] = F[l] => k = l
  BY <1>0 DEF Listing, m
<1>6. (\E k \in 1 .. m : F[k] = i) <=> i \in AliveOf("fair")
  BY <1>0 DEF Listing, m
<1>7. ASSUME i \in AliveOf("fair") PROVE Cardinality(K) = 1
  <2>1. PICK k \in 1 .. m : F[k] = i
    BY <1>6, <1>7
  <2>2. n + k \in 1 .. n + m
    BY <1>0, <1>m
  <2>3. n + k \in K
    BY <1>2, <1>3, <2>1, <2>2
  <2>4. ASSUME NEW x \in K PROVE x = n + k
    <3>1. x \in 1 .. n + m /\ E[x].task = i
      BY <1>2
    <3>2. PICK l \in 1 .. m : x = n + l
      BY <1>0, <1>3, <1>4, <3>1
    <3>3. F[l] = i
      BY <1>3, <3>1, <3>2
    <3> QED
      BY <1>5, <2>1, <3>2, <3>3
  <2>5. K = {n + k}
    BY <2>3, <2>4
  <2> QED
    BY <2>5, FS_Singleton
<1>8. ASSUME i \notin AliveOf("fair") PROVE Cardinality(K) = 0
  <2>1. K = {}
    <3> SUFFICES ASSUME NEW x \in K PROVE FALSE
      OBVIOUS
    <3>1. x \in 1 .. n + m /\ E[x].task = i
      BY <1>2
    <3>2. PICK l \in 1 .. m : x = n + l
      BY <1>0, <1>3, <1>4, <3>1
    <3>3. F[l] = i
      BY <1>3, <3>1, <3>2
    <3> QED
      BY <1>6, <1>8, <3>3
  <2> QED
    BY <2>1, FS_EmptySet
<1>9. /\ i \in AliveOf("rt") => Cardinality({k \in DOMAIN RtRows : RtRows[k].task = i}) = 1
      /\ i \notin AliveOf("rt") => Cardinality({k \in DOMAIN RtRows : RtRows[k].task = i}) = 0
  <2> DEFINE s == TasksOf("rt")
  <2>1. DOMAIN RtRows = 1 .. Len(s) /\ \A k \in 1 .. Len(s) : RtRows[k].task = s[k]
    BY TasksRead
  <2>2. {k \in DOMAIN RtRows : RtRows[k].task = i} = {k \in 1 .. Len(s) : s[k] = i}
    BY <2>1
  <2> HIDE DEF s
  <2> QED
    BY <1>0, <2>2, ListsCount DEF s
<1> HIDE DEF K
<1>10. CASE policy[numbered[i]] = "fair"
  <2>1. i \in AliveOf("fair") /\ i \notin AliveOf("rt")
    BY <1>10 DEF AliveOf
  <2> QED
    BY <1>7, <1>9, <1>10, <2>1 DEF K
<1>11. CASE policy[numbered[i]] # "fair"
  <2>1. i \notin AliveOf("fair") /\ i \in AliveOf("rt")
    BY <1>1, <1>11 DEF AliveOf
  <2> QED
    BY <1>8, <1>9, <1>11, <2>1 DEF K
<1> QED
  BY <1>10, <1>11

\* A task's entity is where the task is; the groups' are one per row and CPU.
LEMMA EntitiesJoin ==
  ASSUME NumberedInv, NEW R, CgroupRows(R), NEW E, E = Paths(R, shm_group_entities(R) \o FairRows(R))
  PROVE  /\ \A k \in DOMAIN E : E[k].task # 0 => E[k].cgroup = PlaceOf(R, cgroup[numbered[E[k].task]])
         /\ {<<E[k].cgroup, E[k].cpu>> : k \in {j \in DOMAIN E : E[j].task = 0}} = (Shown(R) \ {Root}) \X TestCpus
<1> DEFINE n == GroupCount(R)
           F == TasksOf("fair")
           m == Len(F)
           Z == {j \in DOMAIN E : E[j].task = 0}
<1>0. n \in Nat /\ Listing(F, AliveOf("fair"))
  BY RoomForTasks, TaskRowsAre
<1>1. /\ DOMAIN E = 1 .. n + m
      /\ \A k \in 1 .. n : E[k] = shm_entity(0, R[Row(k)], Cpu(k))
      /\ \A k \in 1 .. m : E[n + k] = shm_entity(F[k], PlaceOf(R, cgroup[numbered[F[k]]]), 0)
  BY EntitiesRead
<1>r. /\ \A k \in 1 .. n : Row(k) \in 2 .. Len(R) /\ Cpu(k) \in 1 .. ncpus
      /\ \A p \in 2 .. Len(R), c \in 1 .. ncpus : \E k \in 1 .. n : Row(k) = p /\ Cpu(k) = c
  BY GroupEntitiesCover
<1> HIDE DEF n, F
<1>m. m \in Nat /\ \A k \in 1 .. m : F[k] # 0
  <2>1. \A k \in 1 .. m : F[k] \in AliveOf("fair")
    BY <1>0 DEF Listing
  <2>2. 0 \notin AliveOf("fair")
    BY DEF AliveOf, Alive
  <2>3. m \in Nat
    BY <1>0 DEF Listing
  <2> QED
    BY <2>1, <2>2, <2>3
<1> HIDE DEF m
<1>2. /\ \A k \in 1 .. n : E[k].task = 0 /\ E[k].cgroup = R[Row(k)] /\ E[k].cpu = Cpu(k)
      /\ \A k \in 1 .. m : E[n + k].task = F[k] /\ E[n + k].cgroup = PlaceOf(R, cgroup[numbered[F[k]]])
  <2>1. ASSUME NEW k \in 1 .. n PROVE E[k].task = 0 /\ E[k].cgroup = R[Row(k)] /\ E[k].cpu = Cpu(k)
    BY <1>1, EntityFields
  <2>2. ASSUME NEW k \in 1 .. m PROVE E[n + k].task = F[k] /\ E[n + k].cgroup = PlaceOf(R, cgroup[numbered[F[k]]])
    BY <1>1, EntityFields
  <2> QED
    BY <2>1, <2>2
<1>3. \A k \in 1 .. n + m : k \in 1 .. n \/ \E l \in 1 .. m : k = n + l
  <2> SUFFICES ASSUME NEW k \in 1 .. n + m, k \notin 1 .. n PROVE \E l \in 1 .. m : k = n + l
    OBVIOUS
  <2>1. k - n \in 1 .. m /\ k = n + (k - n)
    BY <1>0, <1>m
  <2> QED
    BY <2>1
<1>4. ASSUME NEW k \in DOMAIN E, E[k].task # 0 PROVE E[k].cgroup = PlaceOf(R, cgroup[numbered[E[k].task]])
  <2>1. PICK l \in 1 .. m : k = n + l
    BY <1>1, <1>2, <1>3, <1>4
  <2> QED
    BY <1>2, <2>1
<1>5. Z = 1 .. n
  <2>1. ASSUME NEW k \in 1 .. n PROVE k \in Z
    BY <1>0, <1>1, <1>2, <1>m
  <2>2. ASSUME NEW k \in Z PROVE k \in 1 .. n
    BY <1>1, <1>2, <1>3, <1>m
  <2> QED
    BY <2>1, <2>2
<1>6. /\ R \in Seq(Nodes) /\ Len(R) \in Nat /\ R[1] = Root /\ Len(R) >= 1
      /\ \A p, q \in 1 .. Len(R) : R[p] = R[q] => p = q
  BY RegionAssumption DEF CgroupRows
<1>7. ASSUME NEW k \in 1 .. n PROVE <<E[k].cgroup, E[k].cpu>> \in (Shown(R) \ {Root}) \X TestCpus
  <2>1. Row(k) \in 1 .. Len(R) /\ Row(k) # 1 /\ 1 \in 1 .. Len(R) /\ Cpu(k) \in TestCpus
    BY <1>6, <1>r DEF TestCpus
  <2>2. R[Row(k)] # Root /\ R[Row(k)] \in Shown(R)
    BY <1>6, <2>1 DEF Shown
  <2> QED
    BY <1>2, <2>1, <2>2
<1>8. ASSUME NEW g \in Shown(R) \ {Root}, NEW c \in TestCpus PROVE \E k \in 1 .. n : <<E[k].cgroup, E[k].cpu>> = <<g, c>>
  <2>1. PICK p \in 1 .. Len(R) : R[p] = g
    BY DEF Shown
  <2>2. p \in 2 .. Len(R) /\ c \in 1 .. ncpus
    BY <1>6, <2>1 DEF TestCpus
  <2>3. PICK k \in 1 .. n : Row(k) = p /\ Cpu(k) = c
    BY <1>r, <2>2
  <2> QED
    BY <1>2, <2>1, <2>3
<1>9. {<<E[k].cgroup, E[k].cpu>> : k \in 1 .. n} = (Shown(R) \ {Root}) \X TestCpus
  BY <1>7, <1>8
<1> HIDE DEF Z
<1>10. {<<E[k].cgroup, E[k].cpu>> : k \in Z} = (Shown(R) \ {Root}) \X TestCpus
  BY <1>5, <1>9
<1> QED
  BY <1>4, <1>10 DEF Z

\* The tables join in every state in which the cgroups and the tasks are listed right.
LEMMA TablesDoJoin ==
  ASSUME MadeInv, NumberedInv
  PROVE  TablesJoin
<1>1. PICK R : R = shm_collect_cgroups
  OBVIOUS
<1>2. CgroupRows(R)
  BY <1>1, CgroupRowsAre
<1> DEFINE d == decode(kstep_shm_update)
           T == Paths(R, TaskRows(R))
           E == Paths(R, shm_group_entities(R) \o FairRows(R))
           place(t) == IF cgroup[t] \in Range(R) THEN cgroup[t] ELSE Root
<1>4. d.cgroups = R /\ d.tasks = T /\ d.entities = E /\ d.rt = RtRows
  BY <1>1, <1>2, DecodeIs
<1> HIDE DEF d
<1>5. /\ R \in Seq(Nodes) /\ Len(R) \in Nat /\ R[1] = Root /\ Len(R) >= 1 /\ DOMAIN R = 1 .. Len(R)
      /\ \A p, q \in 1 .. Len(R) : R[p] = R[q] => p = q
      /\ \A p \in 1 .. Len(R) : R[p] \in (dirs \union {Root}) \ Long
      /\ Len(R) < MaxCgroups => \A h \in (dirs \union {Root}) \ Long : \E p \in 1 .. Len(R) : R[p] = h
      /\ \A p \in 2 .. Len(R) : \E q \in 1 .. p - 1 : R[q] = Parent[R[p]]
  BY <1>2, RegionAssumption DEF CgroupRows
<1>6. Range(R) = Shown(R) /\ IsInjective(R)
  BY <1>5 DEF Range, Shown, IsInjective
<1>7. Len(R) < MaxCgroups => Range(R) = (dirs \union {Root}) \ Long
  BY <1>5, <1>6 DEF Shown
<1>8. ASSUME NEW i \in 2 .. Len(R) PROVE Parent[R[i]] \in Range(SubSeq(R, 1, i - 1))
  <2>1. PICK q \in 1 .. i - 1 : R[q] = Parent[R[i]]
    BY <1>5
  <2>2. i - 1 \in 0 .. Len(R) /\ i - 1 \in Nat
    BY <1>5
  <2>3. DOMAIN SubSeq(R, 1, i - 1) = 1 .. i - 1 /\ SubSeq(R, 1, i - 1)[q] = R[q]
    BY <1>5, <2>2
  <2> QED
    BY <2>1, <2>3 DEF Range
<1>9. Listing(shm_tasks, Alive)
  BY TaskRowsAre
<1>10. Len(T) = Cardinality(Alive)
  <2>1. Len(T) = Len(shm_tasks)
    BY <1>2, TasksRead
  <2>2. Cardinality(Alive) = Len(shm_tasks)
    BY <1>9, ListsCount
  <2> QED
    BY <2>1, <2>2
<1>11. \A t : place(t) = PlaceOf(R, cgroup[t])
  BY <1>6 DEF PlaceOf
<1>12. Range(T) = {shm_task(i, place(numbered[i])) : i \in Alive}
  <2> DEFINE s == shm_tasks
             row(i) == shm_task(i, PlaceOf(R, cgroup[numbered[i]]))
  <2>1. DOMAIN T = 1 .. Len(s) /\ \A k \in 1 .. Len(s) : T[k] = row(s[k])
    BY <1>2, TasksRead
  <2>2. \A i : (\E k \in 1 .. Len(s) : s[k] = i) <=> i \in Alive
    BY <1>9 DEF Listing
  <2> HIDE DEF T, row, s
  <2>3. Range(T) = {row(i) : i \in Alive}
    BY <2>1, <2>2 DEF Range
  <2>4. \A i \in Alive : row(i) = shm_task(i, place(numbered[i]))
    BY <1>11 DEF row
  <2> QED
    BY <2>3, <2>4
<1>13. \A i \in Alive :
         /\ Cardinality({k \in DOMAIN E : E[k].task = i}) = IF policy[numbered[i]] = "fair" THEN 1 ELSE 0
         /\ Cardinality({k \in DOMAIN RtRows : RtRows[k].task = i}) = IF policy[numbered[i]] = "fair" THEN 0 ELSE 1
  BY <1>2, ClassRowsCount
<1>14. /\ \A k \in DOMAIN E : E[k].task # 0 => E[k].cgroup = PlaceOf(R, cgroup[numbered[E[k].task]])
       /\ {<<E[k].cgroup, E[k].cpu>> : k \in {j \in DOMAIN E : E[j].task = 0}} = (Shown(R) \ {Root}) \X TestCpus
  BY <1>2, EntitiesJoin
<1> HIDE DEF T, E
<1>15. \A k \in DOMAIN E : E[k].task # 0 => E[k].cgroup = place(numbered[E[k].task])
  BY <1>11, <1>14
<1>s. Stale \notin Range(R)
  <2>1. Range(R) \subseteq Groups \union {Root}
    BY <1>5, <1>6 DEF Shown, MadeInv, Rooted
  <2> QED
    BY <2>1, RegionAssumption
<1>20. /\ Stale \notin Range(d.cgroups) /\ d.cgroups[1] = Root /\ IsInjective(d.cgroups)
       /\ Len(d.cgroups) < MaxCgroups => Range(d.cgroups) = (dirs \union {Root}) \ Long
       /\ \A i \in 2 .. Len(d.cgroups) : Parent[d.cgroups[i]] \in Range(SubSeq(d.cgroups, 1, i - 1))
  BY <1>4, <1>5, <1>6, <1>7, <1>8, <1>s
<1>21. /\ Len(d.tasks) = Cardinality(Alive)
       /\ Range(d.tasks) = {shm_task(i, IF cgroup[numbered[i]] \in Range(d.cgroups) THEN cgroup[numbered[i]] ELSE Root) : i \in Alive}
  BY <1>4, <1>10, <1>12, Zenon
<1>22. \A i \in Alive :
         /\ Cardinality({k \in DOMAIN d.entities : d.entities[k].task = i}) = IF policy[numbered[i]] = "fair" THEN 1 ELSE 0
         /\ Cardinality({k \in DOMAIN d.rt : d.rt[k].task = i}) = IF policy[numbered[i]] = "fair" THEN 0 ELSE 1
  BY <1>4, <1>13, Zenon
<1>23. \A k \in DOMAIN d.entities : d.entities[k].task # 0 =>
         d.entities[k].cgroup = IF cgroup[numbered[d.entities[k].task]] \in Range(d.cgroups)
                                THEN cgroup[numbered[d.entities[k].task]] ELSE Root
  BY <1>4, <1>15, Zenon
<1>24. {<<d.entities[k].cgroup, d.entities[k].cpu>> : k \in {j \in DOMAIN d.entities : d.entities[j].task = 0}}
         = (Range(d.cgroups) \ {Root}) \X TestCpus
  <2>1. Range(d.cgroups) = Shown(R)
    BY <1>4, <1>6
  <2>2. d.entities = E
    BY <1>4
  <2> QED
    BY <1>14, <2>1, <2>2, ZenonT(30)
<1> QED
  BY <1>20, <1>21, <1>22, <1>23, <1>24, Zenon DEF TablesJoin, Alive, d

-----------------------------------------------------------------------------
(* Region keeps its lists. *)

\* Listed so: the groups and the tasks as above, and the domains' levels as the
\* number of test CPUs allows.
RegionInv == IInv /\ MadeInv /\ NumberedInv /\ hierarchy \in Hierarchies[ncpus]

\* A new group goes to the end of the list.
LEMMA MadeGrows ==
  ASSUME MadeInv, Rooted', NEW g \in Groups, g \notin dirs, Parent[g] \in dirs \union {Root},
         dirs' = dirs \union {g}, made' = Append(made, g)
  PROVE  MadeInv'
<1> DEFINE n == Len(made)
<1>1. /\ made \in Seq(Groups)
      /\ \A i, j \in 1 .. n : made[i] = made[j] => i = j
      /\ \A h : h \in dirs <=> \E i \in 1 .. n : made[i] = h
      /\ \A i \in 1 .. n : Parent[made[i]] = Root \/ \E j \in 1 .. i - 1 : made[j] = Parent[made[i]]
  BY DEF MadeInv
<1>2. n \in Nat /\ made' \in Seq(Groups) /\ Len(made') = n + 1 /\ made'[n + 1] = g /\ \A i \in 1 .. n : made'[i] = made[i]
  BY <1>1
<1> HIDE DEF n
<1>3. \A i \in 1 .. n + 1 : i \in 1 .. n \/ i = n + 1
  BY <1>2
<1>4. \A i \in 1 .. n : i \in 1 .. n + 1 /\ made'[i] # g
  BY <1>1, <1>2
<1>5. n + 1 \in 1 .. n + 1
  BY <1>2
<1>6. \A i, j \in 1 .. n + 1 : made'[i] = made'[j] => i = j
  BY <1>1, <1>2, <1>3, <1>4
<1>7. \A h : h \in dirs' <=> \E i \in 1 .. n + 1 : made'[i] = h
  <2>1. ASSUME NEW h \in dirs' PROVE \E i \in 1 .. n + 1 : made'[i] = h
    <3>1. CASE h = g
      BY <1>2, <1>5, <3>1
    <3>2. CASE h # g
      <4>1. PICK i \in 1 .. n : made[i] = h
        BY <1>1, <3>2
      <4> QED
        BY <1>2, <1>4, <4>1
    <3> QED
      BY <3>1, <3>2
  <2>2. ASSUME NEW i \in 1 .. n + 1 PROVE made'[i] \in dirs'
    BY <1>1, <1>2, <1>3
  <2> QED
    BY <2>1, <2>2
<1>8. ASSUME NEW i \in 1 .. n + 1
      PROVE  Parent[made'[i]] = Root \/ \E j \in 1 .. i - 1 : made'[j] = Parent[made'[i]]
  <2>1. CASE i \in 1 .. n
    <3>1. made'[i] = made[i] /\ (Parent[made[i]] = Root \/ \E j \in 1 .. i - 1 : made[j] = Parent[made[i]])
      BY <1>1, <1>2, <2>1
    <3>2. \A j \in 1 .. i - 1 : j \in 1 .. n
      BY <1>2, <2>1
    <3> QED
      BY <1>2, <3>1, <3>2
  <2>2. CASE i = n + 1
    <3>1. made'[i] = g /\ i - 1 = n
      BY <1>2, <2>2
    <3>2. CASE Parent[g] \in dirs
      <4>1. PICK j \in 1 .. n : made[j] = Parent[g]
        BY <1>1, <3>2
      <4> QED
        BY <1>2, <3>1, <4>1
    <3> QED
      BY <3>1, <3>2
  <2> QED
    BY <1>3, <2>1, <2>2
<1> QED
  BY <1>2, <1>6, <1>7, <1>8 DEF MadeInv

\* A removed one is taken out; whatever is left keeps its order.
LEMMA MadeShrinks ==
  ASSUME MadeInv, Rooted', dirs' \subseteq dirs, made' = Only(made, dirs')
  PROVE  MadeInv'
<1> DEFINE n == Len(made)
           D == dirs'
           r == Only(made, D)
           m == Len(r)
<1>1. /\ made \in Seq(Groups)
      /\ \A i, j \in 1 .. n : made[i] = made[j] => i = j
      /\ \A h : h \in dirs <=> \E i \in 1 .. n : made[i] = h
      /\ \A i \in 1 .. n : Parent[made[i]] = Root \/ \E j \in 1 .. i - 1 : made[j] = Parent[made[i]]
  BY DEF MadeInv
<1>0. \A g \in D : Parent[g] \in D \union {Root}
  BY DEF Rooted
<1> HIDE DEF D
<1>2. r \in Seq(Groups) /\ \E e : Places(e, r, made, D, n)
  BY <1>1, OnlyPlaces
<1>3. PICK e : Places(e, r, made, D, n)
  BY <1>2
<1>4. n \in Nat /\ m \in Nat
  BY <1>1, <1>2
<1> HIDE DEF r, n
<1>5. /\ e \in [1 .. m -> 1 .. n]
      /\ \A k \in 1 .. m : r[k] = made[e[k]]
      /\ \A k, l \in 1 .. m : k < l => e[k] < e[l]
      /\ \A i \in 1 .. n : made[i] \in D <=> \E k \in 1 .. m : e[k] = i
  BY <1>3 DEF Places
<1> HIDE DEF m
<1>6. \A x : x \in D <=> \E k \in 1 .. m : r[k] = x
  <2>1. ASSUME NEW x \in D PROVE \E k \in 1 .. m : r[k] = x
    <3>1. PICK i \in 1 .. n : made[i] = x
      BY <1>1 DEF D
    <3> QED
      BY <1>5, <3>1
  <2>2. ASSUME NEW k \in 1 .. m PROVE r[k] \in D
    BY <1>5
  <2> QED
    BY <2>1, <2>2
<1>7. ASSUME NEW k \in 1 .. m, NEW l \in 1 .. m, r[k] = r[l] PROVE k = l
  <2>1. e[k] \in 1 .. n /\ e[l] \in 1 .. n /\ made[e[k]] = made[e[l]]
    BY <1>7, <1>5
  <2>2. e[k] = e[l]
    BY <1>1, <2>1 DEF n
  <2>3. ~(k < l) /\ ~(l < k)
    BY <1>5, <2>1, <2>2
  <2> QED
    BY <1>4, <2>3
<1>8. ASSUME NEW k \in 1 .. m PROVE Parent[r[k]] = Root \/ \E l \in 1 .. k - 1 : r[l] = Parent[r[k]]
  <2> SUFFICES ASSUME Parent[r[k]] # Root PROVE \E l \in 1 .. k - 1 : r[l] = Parent[r[k]]
    OBVIOUS
  <2>1. e[k] \in 1 .. n /\ r[k] = made[e[k]] /\ r[k] \in D
    BY <1>5, <1>6
  <2>2. PICK j \in 1 .. e[k] - 1 : made[j] = Parent[made[e[k]]]
    BY <1>1, <2>1
  <2>3. j \in 1 .. n /\ j < e[k] /\ made[j] \in D
    BY <1>0, <1>4, <2>1, <2>2
  <2>4. PICK l \in 1 .. m : e[l] = j
    BY <1>5, <2>3
  <2>5. l < k
    <3> SUFFICES ASSUME l = k \/ k < l PROVE FALSE
      BY <1>4
    <3>1. e[k] <= e[l]
      BY <1>5, <2>1
    <3> QED
      BY <2>1, <2>3, <2>4, <3>1
  <2>6. l \in 1 .. k - 1 /\ r[l] = Parent[r[k]]
    BY <1>4, <1>5, <2>1, <2>2, <2>4, <2>5
  <2> QED
    BY <2>6
<1>9. made' = r /\ dirs' = D
  BY DEF r, D
<1>10. r \in Seq(Groups) /\ \A i, j \in 1 .. m : r[i] = r[j] => i = j
  BY <1>2, <1>7 DEF r
<1> QED
  BY <1>6, <1>8, <1>9, <1>10 DEF MadeInv, m

\* Nothing made, nothing removed.
LEMMA MadeStays ==
  ASSUME MadeInv, UNCHANGED <<made, dirs>>
  PROVE  MadeInv'
BY DEF MadeInv, Rooted

\* At first there is nothing to list.
LEMMA RegionInitInv == RegionInit => RegionInv
<1> SUFFICES ASSUME RegionInit PROVE RegionInv
  OBVIOUS
<1>1. IInv
  BY InitInv DEF RegionInit
<1>2. MadeInv
  <2>1. dirs = {} /\ made \in Seq(Groups) /\ Len(made) = 0
    BY DEF RegionInit, Init
  <2> QED
    BY <2>1 DEF MadeInv, Rooted
<1>3. NumberedInv
  <2>1. MaxTasks \in Nat /\ NumCpus \in Nat \ {0, 1}
    BY RegionAssumption, TreeAssumption
  <2>2. numbered = <<>> /\ policy = [t \in Tasks |-> "fair"] /\ ncpus = NumCpus - 1
    BY DEF RegionInit, Init
  <2>3. numbered \in Seq(Tasks) /\ Len(numbered) = 0
    BY <2>2
  <2> QED
    BY <2>1, <2>2, <2>3 DEF NumberedInv
<1> QED
  BY <1>1, <1>2, <1>3 DEF RegionInv, RegionInit

\* Every verb keeps the lists so.
LEMMA RegionInvStep ==
  ASSUME RegionInv, [RegionNext]_regionVars
  PROVE  RegionInv'
<1>0. IInv /\ MadeInv /\ NumberedInv /\ hierarchy \in Hierarchies[ncpus]
  BY DEF RegionInv
<1>1. IInv'
  BY <1>0, RegionStep, NextStep
<1>2. Rooted' /\ ~panicked'
  <2>1. ~panicked'
    BY <1>1 DEF IInv, TreeInv
  <2> QED
    BY <1>1, <2>1 DEF IInv, TypeOK, TreeInv, Rooted
<1>3. ncpus' \in 1 .. NumCpus - 1
  BY <1>1 DEF IInv, TypeOK
<1>4. CASE UNCHANGED regionVars
  <2>1. UNCHANGED <<made, dirs, numbered, policy, hierarchy, ncpus>>
    BY <1>4 DEF regionVars, vars, tree, machine
  <2> QED
    BY <1>0, <1>1, <2>1, MadeStays DEF RegionInv, NumberedInv
<1>5. ASSUME NEW n \in 1 .. NumCpus - 1, NEW h \in Hierarchies[n], topo(n, h) PROVE RegionInv'
  <2>1. UNCHANGED <<made, dirs, numbered, policy>> /\ ncpus' = n /\ hierarchy' = h
    BY <1>5 DEF topo, cmd_cpu_topo, tree
  <2> QED
    BY <1>0, <1>1, <1>3, <2>1, MadeStays DEF RegionInv, NumberedInv
<1>6. ASSUME NEW t \in Tasks, NEW g \in Groups \union {Root}, create(t, g) PROVE RegionInv'
  <2>1. UNCHANGED <<made, dirs, policy, hierarchy, ncpus>>
    BY <1>6 DEF create, cmd_create, tree
  <2>2. numbered' \in Seq(Tasks) /\ Len(numbered') <= MaxTasks
    <3>1. numbered \in Seq(Tasks) /\ Len(numbered) < MaxTasks /\ MaxTasks \in Nat
      BY <1>0, <1>6, RegionAssumption DEF NumberedInv, create
    <3>2. numbered' = Append(numbered, t) \/ numbered' = numbered
      BY <1>6 DEF create
    <3> QED
      BY <3>1, <3>2
  <2> QED
    BY <1>0, <1>1, <2>1, <2>2, MadeStays DEF RegionInv, NumberedInv
<1>7. ASSUME NEW g \in Groups, mkdir(g) PROVE RegionInv'
  <2>1. UNCHANGED <<numbered, policy, hierarchy, ncpus>> /\ made' = Append(made, g) /\ dirs' = dirs \union {g}
    BY <1>7 DEF mkdir, cmd_cgroup_create, kstep_mkdir
  <2>2. g \notin dirs /\ Parent[g] \in dirs \union {Root}
    BY <1>7 DEF mkdir, cmd_cgroup_create, kstep_cgroup_exists
  <2>3. MadeInv'
    BY <1>0, <1>2, <2>1, <2>2, MadeGrows
  <2> QED
    BY <1>0, <1>1, <2>1, <2>3 DEF RegionInv, NumberedInv
<1>8. ASSUME NEW g \in Groups, rmdir(g) PROVE RegionInv'
  <2>1. UNCHANGED <<numbered, policy, hierarchy, ncpus>> /\ made' = Only(made, dirs')
    BY <1>8 DEF rmdir, cmd_cgroup_destroy, configure
  <2>2. dirs' \subseteq dirs
    BY <1>8 DEF rmdir, cmd_cgroup_destroy, configure, kstep_rmdir
  <2>3. MadeInv'
    BY <1>0, <1>2, <2>1, <2>2, MadeShrinks
  <2> QED
    BY <1>0, <1>1, <2>1, <2>3 DEF RegionInv, NumberedInv
<1>9. ASSUME NEW t \in Tasks, NEW p \in {"fair", "rt"}, cmd_policy(t, p) PROVE RegionInv'
  <2>1. UNCHANGED <<made, dirs, numbered, hierarchy, ncpus>> /\ policy' = [policy EXCEPT ![t] = p]
    BY <1>9 DEF cmd_policy, vars, tree
  <2>2. policy' \in [Tasks -> {"fair", "rt"}]
    BY <1>0, <2>1 DEF NumberedInv
  <2> QED
    BY <1>0, <1>1, <2>1, <2>2, MadeStays DEF RegionInv, NumberedInv
<1>10. ASSUME NEW t \in Tasks, die(t) PROVE RegionInv'
  <2>1. UNCHANGED <<made, dirs, numbered, hierarchy, ncpus>> /\ policy' = [policy EXCEPT ![t] = "fair"]
    BY <1>10 DEF die, exit, tree
  <2>2. policy' \in [Tasks -> {"fair", "rt"}]
    BY <1>0, <2>1 DEF NumberedInv
  <2> QED
    BY <1>0, <1>1, <2>1, <2>2, MadeStays DEF RegionInv, NumberedInv
<1>11. CASE Other
  <2>1. UNCHANGED <<made, numbered, policy, hierarchy>>
    BY <1>11 DEF Other, machine
  <2>2. UNCHANGED <<dirs, ncpus>>
    <3>1. CASE \E t \in Tasks, list \in Lists : cmd_affinity(t, list)
      BY <3>1 DEF cmd_affinity, tree
    <3>2. CASE \E g \in Groups, list \in Lists : cmd_cgroup_cpus(g, list)
      BY <3>2 DEF cmd_cgroup_cpus
    <3>3. CASE \E t \in Tasks, g \in Groups \union {Root} : cmd_cgroup_attach(g, t)
      BY <3>3 DEF cmd_cgroup_attach, tree
    <3>4. CASE \E t \in Tasks : kill(t)
      BY <3>4 DEF kill, tree
    <3> QED
      BY <1>11, <3>1, <3>2, <3>3, <3>4 DEF Other
  <2> QED
    BY <1>0, <1>1, <2>1, <2>2, MadeStays DEF RegionInv, NumberedInv
<1> QED
  BY <1>4, <1>5, <1>6, <1>7, <1>8, <1>9, <1>10, <1>11 DEF RegionNext

\* The inductive invariant: the cgroups are listed once each and parents first, the tasks
\* are numbered within the table, and the domains are built from levels of the test CPUs.
THEOREM RegionInvariant == RegionSpec => []RegionInv
BY RegionInitInv, RegionInvStep, PTL DEF RegionSpec

\* After every verb, for tables of every size and every tree of cgroups: what the host reads
\* of kstep_shm_update()'s tables joins, with every living task once and at its cgroup.
THEOREM TablesAlwaysJoin == RegionSpec => []TablesJoin
<1>1. RegionInv => TablesJoin
  BY TablesDoJoin DEF RegionInv
<1> QED
  BY <1>1, RegionInvariant, PTL

-----------------------------------------------------------------------------
(* The domains, collected one by one. *)

\* A level's CPUs, and a built domain.
Cells == {Cell(i, c) : i \in Nat, c \in Nat}
BuiltDomain == [cpu : Nat, groups : Seq(Cells)]

\* What shm_collect_domains does with one domain.
Add(t, d) ==
  [rows |-> Append(t.rows, shm_domain(d.cpu, Len(t.groups), Len(Fit(d.groups, MaxGroups - Len(t.groups))))),
   groups |-> t.groups \o Fit(d.groups, MaxGroups - Len(t.groups))]

\* The rows and the flat table so far, within its size.
DomainRow == [cpu : Nat, group : Nat, ngroups : Nat]
Collected == {t \in [rows : Seq(DomainRow), groups : Seq(Cells)] : Len(t.groups) <= MaxGroups}
Nothing == [rows |-> <<>>, groups |-> <<>>]

\* t is the fold shm_collect_domains is defined by, domain by domain.
Collects(t, B) ==
  /\ t \in [0 .. Len(B) -> Collected]
  /\ t[0] = Nothing
  /\ \A k \in 1 .. Len(B) : t[k] = Add(t[k - 1], B[k])
  /\ shm_collect_domains = t[Len(B)]

\* One more domain still fits.
LEMMA AddType ==
  ASSUME NEW t \in Collected, NEW d \in BuiltDomain
  PROVE  Add(t, d) \in Collected
<1> DEFINE n == MaxGroups - Len(t.groups)
           run == Fit(d.groups, n)
<1>1. t.rows \in Seq(DomainRow) /\ t.groups \in Seq(Cells) /\ n \in Nat /\ d.cpu \in Nat /\ d.groups \in Seq(Cells)
      /\ Len(t.groups) \in Nat /\ MaxGroups \in Nat
  BY RegionAssumption DEF Collected, BuiltDomain
<1>2. run \in Seq(Cells) /\ Len(run) \in Nat /\ Len(run) <= n
  <2> HIDE DEF n
  <2>1. Fit(d.groups, n) \in Seq(Cells) /\ Len(Fit(d.groups, n)) = IF Len(d.groups) < n THEN Len(d.groups) ELSE n
    BY <1>1, FitIs
  <2> QED
    BY <1>1, <2>1
<1> HIDE DEF run
<1>3. shm_domain(d.cpu, Len(t.groups), Len(run)) \in DomainRow
  BY <1>1, <1>2 DEF shm_domain, DomainRow
<1>4. Append(t.rows, shm_domain(d.cpu, Len(t.groups), Len(run))) \in Seq(DomainRow)
  BY <1>1, <1>3
<1>5. t.groups \o run \in Seq(Cells) /\ Len(t.groups \o run) <= MaxGroups
  BY <1>1, <1>2
<1>6. Add(t, d) = [rows |-> Append(t.rows, shm_domain(d.cpu, Len(t.groups), Len(run))), groups |-> t.groups \o run]
  BY DEF Add, run
<1> QED
  BY <1>4, <1>5, <1>6 DEF Collected

\* The greatest of some numbers up to n is one of them.
LEMMA MaxIs ==
  ASSUME NEW n \in Nat, NEW s \in SUBSET (1 .. n), s # {}
  PROVE  Max(s) \in s /\ \A y \in s : y <= Max(s)
<1> DEFINE T == {n - y : y \in s}
<1>1. T \in SUBSET Nat /\ T # {}
  <2>1. ASSUME NEW y \in s PROVE n - y \in Nat
    <3>1. y \in 1 .. n
      OBVIOUS
    <3> QED
      BY <3>1
  <2>2. PICK y \in s : TRUE
    OBVIOUS
  <2>3. n - y \in T
    OBVIOUS
  <2> QED
    BY <2>1, <2>3
<1>2. PICK m \in T : \A k \in T : m <= k
  BY <1>1, LeastNat
<1>3. PICK x \in s : m = n - x
  OBVIOUS
<1>4. ASSUME NEW y \in s PROVE x >= y
  <2>1. n - y \in T /\ x \in 1 .. n /\ y \in 1 .. n
    OBVIOUS
  <2>2. n - x <= n - y
    BY <1>2, <1>3, <2>1
  <2> QED
    BY <2>1, <2>2
<1>5. Max(s) \in s /\ \A y \in s : Max(s) >= y
  BY <1>4 DEF Max
<1> QED
  BY <1>5

\* shm_collect_domains follows its rule.
LEMMA CollectIs ==
  ASSUME NEW B, B = Fit(Domains, MaxDomains), B \in Seq(BuiltDomain)
  PROVE  \E t : Collects(t, B)
<1> DEFINE n == Len(B)
           S == SUBSET (1 .. n)
           V == Collected
           R(s, f) == IF s = {} THEN Nothing ELSE Add(f[s \ {Max(s)}], B[Max(s)])
           G == [s \in S |-> [f \in [S -> V] |-> R(s, f)]]
           rank == [s \in S |-> IF s = {} THEN 0 ELSE Max(s)]
           Rule(f) == f = [s \in S |-> R(s, f)]
<1>0. n \in Nat /\ DOMAIN B = 1 .. n /\ \A k \in 1 .. n : B[k] \in BuiltDomain
  OBVIOUS
<1>1. Nothing \in V
  BY RegionAssumption DEF Nothing, Collected
<1>2. shm_collect_domains = (CHOOSE f : Rule(f))[DOMAIN B]
  BY <1>0, Zenon DEF shm_collect_domains, FoldLeft, MapThenFoldSet, Add, Nothing
<1>3. ASSUME NEW s \in S, s # {}
      PROVE  /\ Max(s) \in 1 .. n /\ s \ {Max(s)} \in S /\ B[Max(s)] \in BuiltDomain
             /\ rank[s \ {Max(s)}] < rank[s]
  <2> DEFINE r == s \ {Max(s)}
  <2>1. Max(s) \in s /\ \A y \in s : y <= Max(s)
    BY <1>0, <1>3, MaxIs
  <2>2. Max(s) \in 1 .. n /\ r \in S /\ rank[s] = Max(s)
    BY <1>3, <2>1
  <2>3. CASE r = {}
    <3>1. rank[r] = 0
      BY <2>2, <2>3
    <3> QED
      BY <1>0, <2>2, <3>1
  <2>4. CASE r # {}
    <3>1. rank[r] = Max(r) /\ Max(r) \in r
      BY <1>0, <2>2, <2>4, MaxIs
    <3>2. Max(r) \in 1 .. n /\ Max(r) # Max(s) /\ Max(r) <= Max(s)
      BY <2>1, <2>2, <3>1
    <3> QED
      BY <1>0, <2>2, <3>1, <3>2
  <2> QED
    BY <1>0, <2>2, <2>3, <2>4
<1>4. rank \in [S -> 0 .. n]
  <2>1. ASSUME NEW s \in S PROVE (IF s = {} THEN 0 ELSE Max(s)) \in 0 .. n
    <3>1. s # {} => Max(s) \in 1 .. n
      BY <1>3
    <3> QED
      BY <1>0, <3>1
  <2> QED
    BY <2>1
<1>5. ASSUME NEW s \in S, NEW f, NEW e, \A r \in S : rank[r] < rank[s] => f[r] = e[r] PROVE R(s, f) = R(s, e)
  BY <1>3, <1>5
<1>6. ASSUME NEW s \in S, NEW f, \A r \in S : rank[r] < rank[s] => f[r] \in V PROVE R(s, f) \in V
  <2>1. CASE s = {}
    BY <1>1, <2>1
  <2>2. CASE s # {}
    <3> DEFINE r == s \ {Max(s)}
               x == f[r]
               d == B[Max(s)]
    <3>1. x \in V /\ d \in BuiltDomain /\ R(s, f) = Add(x, d)
      BY <1>3, <1>6, <2>2
    <3> HIDE DEF x, d, R
    <3> QED
      BY <3>1, AddType
  <2> QED
    BY <2>1, <2>2
<1> HIDE DEF R, rank
<1>7. G \in [S -> [[S -> V] -> V]]
  BY <1>6
<1>8. \A s \in S, f \in [S -> V] : G[s][f] = R(s, f)
  OBVIOUS
<1> DEFINE v == Nothing
<1> HIDE DEF G, V, S, v, n
<1>9. \E f : Obeys(f, S, V, G)
  <2>1. Descends(S, rank, V, G)
    BY <1>5, <1>8 DEF Descends
  <2>2. v \in V
    BY <1>1 DEF v
  <2> QED
    BY <1>0, <1>4, <1>7, <2>1, <2>2, RankedRecursion
<1>10. PICK f \in [S -> V] : \A s \in S : f[s] = R(s, f)
  BY <1>8, <1>9 DEF Obeys
<1>11. Rule(f)
  BY <1>10
<1>12. Rule(CHOOSE e : Rule(e))
  BY <1>11, Zenon
<1>13. PICK e : e = CHOOSE x : Rule(x)
  OBVIOUS
<1>14. Rule(e)
  BY <1>12, <1>13, Zenon
<1>15. \A s \in S : e[s] = R(s, e)
  BY <1>14
<1>16. shm_collect_domains = e[1 .. n]
  BY <1>0, <1>2, <1>13, Zenon
<1> HIDE DEF Rule
<1> DEFINE t == [k \in 0 .. n |-> e[1 .. k]]
<1>17. \A k \in 0 .. n : 1 .. k \in S
  BY <1>0 DEF S
<1>18. ASSUME NEW k \in 1 .. n PROVE k - 1 \in 0 .. n /\ e[1 .. k] = Add(e[1 .. k - 1], B[k])
  <2> DEFINE s == 1 .. k
  <2>0. k \in 0 .. n /\ k - 1 \in 0 .. n
    BY <1>0
  <2>1. s \in S /\ s # {} /\ k \in s /\ \A y \in s : y <= k
    <3>1. s \in S
      BY <1>17, <2>0
    <3>2. k \in s /\ \A y \in s : y <= k
      BY <1>0
    <3> QED
      BY <3>1, <3>2
  <2>2. Max(s) \in s /\ \A y \in s : y <= Max(s)
    BY <1>0, <2>1, MaxIs DEF S
  <2>3. Max(s) = k
    BY <1>0, <2>1, <2>2
  <2>4. s \ {k} = 1 .. k - 1
    BY <1>0
  <2> HIDE DEF s
  <2>5. e[s] = Add(e[s \ {k}], B[k])
    BY <1>15, <2>1, <2>3 DEF R
  <2> QED
    BY <2>0, <2>4, <2>5 DEF s
<1>19. e[1 .. 0] = Nothing
  <2>1. 1 .. 0 = {} /\ {} \in S
    BY DEF S
  <2> QED
    BY <1>15, <2>1 DEF R
<1>20. \A k \in 0 .. n : e[1 .. k] \in V
  <2> DEFINE T == {k \in 0 .. n : e[1 .. k] \in V}
  <2>1. 0 \in T
    BY <1>0, <1>1, <1>19
  <2>2. ASSUME NEW k \in 0 .. n - 1, k \in T PROVE k + 1 \in T
    <3>1. k + 1 \in 1 .. n /\ (k + 1) - 1 = k /\ k + 1 \in 0 .. n
      BY <1>0
    <3>2. e[1 .. k + 1] = Add(e[1 .. k], B[k + 1])
      BY <1>18, <3>1
    <3>3. e[1 .. k] \in Collected /\ B[k + 1] \in BuiltDomain
      BY <1>0, <2>2, <3>1 DEF V
    <3>4. e[1 .. k + 1] \in V
      BY <3>2, <3>3, AddType DEF V
    <3> QED
      BY <3>1, <3>4
  <2> HIDE DEF T
  <2>3. \A k \in 0 .. n : k \in T
    BY <1>0, <2>1, <2>2, Upwards
  <2> QED
    BY <2>3 DEF T
<1>21. t \in [0 .. n -> V] /\ t[0] = Nothing /\ t[n] = shm_collect_domains
  BY <1>0, <1>16, <1>19, <1>20
<1>22. \A k \in 1 .. n : t[k] = Add(t[k - 1], B[k])
  BY <1>0, <1>18
<1> HIDE DEF t
<1>23. Collects(t, B)
  BY <1>21, <1>22 DEF Collects, n, V
<1> QED
  BY <1>23

-----------------------------------------------------------------------------
(* The domains that are built. *)

\* Count() counts.
LEMMA CountIs ==
  ASSUME NEW n \in Nat
  PROVE  Count(n) \in Seq(1 .. n) /\ Len(Count(n)) = n
BY DEF Count

\* A CPU has no more domains than there are levels.
LEMMA LevelsAre ==
  ASSUME hierarchy \in Hierarchies[ncpus], ncpus \in 1 .. NumCpus - 1, NEW c
  PROVE  /\ Len(hierarchy) \in Nat
         /\ Levels(c) \in Seq(1 .. Len(hierarchy)) /\ Len(Levels(c)) \in Nat /\ Len(Levels(c)) <= 5
<1> DEFINE n == Len(hierarchy)
           A == 1 .. n
           S == {i \in DOMAIN hierarchy : Cell(i, c) # Cell(i - 1, c)}
           s == Count(n)
<1>1. n \in Nat /\ n <= 5
  BY RegionAssumption
<1>2. Levels(c) = Only(s, S)
  BY DEF Levels
<1> HIDE DEF n, S
<1>3. s \in Seq(A) /\ Len(s) = n
  BY <1>1, CountIs
<1> HIDE DEF s, A
<1>4. Only(s, S) \in Seq(A) /\ Len(Only(s, S)) <= Len(s)
  BY <1>3, OnlyHolds
<1>5. Len(Only(s, S)) \in Nat
  BY <1>4
<1> QED
  BY <1>1, <1>2, <1>3, <1>4, <1>5 DEF A, n

\* The groups of a domain are a sequence of cells.
LEMMA GroupsOfType ==
  ASSUME ncpus \in 1 .. NumCpus - 1, NEW i \in Nat \ {0}, NEW c \in Nat \ {0}
  PROVE  GroupsOf(i, c) \in Seq(Cells)
<1> DEFINE round == [k \in 1 .. ncpus |-> 1 + ((c + k - 2) % ncpus)]
           leads(k) == /\ round[k] \in Cell(i, c)
                       /\ \A j \in 1 .. k - 1 : Cell(i - 1, round[j]) # Cell(i - 1, round[k])
           S == {k \in 1 .. ncpus : leads(k)}
           s == Count(ncpus)
           l == Only(s, S)
           A == 1 .. ncpus
<1>0. ncpus \in Nat /\ ncpus >= 1
  BY TreeAssumption
<1>1. GroupsOf(i, c) = [k \in DOMAIN l |-> Cell(i - 1, round[l[k]])]
  BY DEF GroupsOf
<1>2. \A k \in A : round[k] \in Nat
  <2> SUFFICES ASSUME NEW k \in A PROVE 1 + ((c + k - 2) % ncpus) \in Nat
    OBVIOUS
  <2>1. c + k - 2 \in Int
    BY <1>0
  <2> QED
    BY <1>0, <2>1
<1>3. s \in Seq(A)
  BY <1>0, CountIs
<1> HIDE DEF S, s, A, round
<1>4. l \in Seq(A)
  BY <1>3, OnlyHolds
<1> HIDE DEF l
<1>5. DOMAIN l = 1 .. Len(l) /\ Len(l) \in Nat /\ \A k \in 1 .. Len(l) : l[k] \in A
  BY <1>4
<1>6. ASSUME NEW k \in 1 .. Len(l) PROVE Cell(i - 1, round[l[k]]) \in Cells
  <2>1. i - 1 \in Nat /\ round[l[k]] \in Nat
    BY <1>2, <1>5
  <2> QED
    BY <2>1 DEF Cells
<1> QED
  BY <1>1, <1>5, <1>6

\* The machine's domains fit the table: five levels for every test CPU.
LEMMA DomainsAre ==
  ASSUME hierarchy \in Hierarchies[ncpus], ncpus \in 1 .. NumCpus - 1
  PROVE  Domains \in Seq(BuiltDomain) /\ Len(Domains) <= MaxDomains /\ MaxDomains \in Nat
<1> DEFINE n == ncpus
           of(c) == [k \in 1 .. Len(Levels(c)) |-> [cpu |-> c, groups |-> GroupsOf(Levels(c)[k], c)]]
           seqs == [c \in 1 .. n |-> of(c)]
<1>0. n \in Nat /\ n >= 1 /\ n <= NumCpus - 1 /\ NumCpus \in Nat
  BY TreeAssumption
<1>1. Domains = FlattenSeq(seqs)
  BY DEF Domains
<1>2. ASSUME NEW c \in 1 .. n PROVE of(c) \in Seq(BuiltDomain) /\ Len(of(c)) <= 5
  <2> DEFINE L == Levels(c)
             m == Len(L)
  <2>1. m \in Nat /\ m <= 5 /\ \A k \in 1 .. m : L[k] \in Nat \ {0}
    BY LevelsAre
  <2>2. ASSUME NEW k \in 1 .. m PROVE GroupsOf(L[k], c) \in Seq(Cells)
    <3>1. L[k] \in Nat \ {0} /\ c \in Nat \ {0}
      BY <1>0, <2>1
    <3> HIDE DEF L, n
    <3> QED
      BY <3>1, GroupsOfType
  <2> HIDE DEF L, m
  <2>3. \A k \in 1 .. m : [cpu |-> c, groups |-> GroupsOf(L[k], c)] \in BuiltDomain
    BY <1>0, <2>2 DEF BuiltDomain
  <2>4. of(c) = [k \in 1 .. m |-> [cpu |-> c, groups |-> GroupsOf(L[k], c)]]
    BY DEF L, m
  <2> HIDE DEF of
  <2> QED
    BY <2>1, <2>3, <2>4
<1> HIDE DEF of, n
<1>3. seqs \in Seq(Seq(BuiltDomain)) /\ Len(seqs) = n /\ \A c \in 1 .. n : seqs[c] = of(c)
  BY <1>0, <1>2
<1> HIDE DEF seqs
<1>4. PICK f : Flattens(f, BuiltDomain, seqs)
  BY <1>3, FlattenIs
<1>5. /\ f \in [0 .. n -> Seq(BuiltDomain)] /\ f[0] = <<>> /\ Domains = f[n]
      /\ \A c \in 1 .. n : f[c] = f[c - 1] \o of(c)
  BY <1>1, <1>3, <1>4 DEF Flattens
<1> DEFINE T == {c \in 0 .. n : Len(f[c]) <= 5 * c}
<1>6. 0 \in T
  BY <1>0, <1>5
<1>7. ASSUME NEW c \in 0 .. n - 1, c \in T PROVE c + 1 \in T
  <2>1. c + 1 \in 1 .. n /\ (c + 1) - 1 = c /\ c \in 0 .. n /\ c + 1 \in 0 .. n
    BY <1>0
  <2>2. f[c + 1] = f[c] \o of(c + 1) /\ f[c] \in Seq(BuiltDomain) /\ Len(f[c]) <= 5 * c
    BY <1>5, <1>7, <2>1
  <2>3. of(c + 1) \in Seq(BuiltDomain) /\ Len(of(c + 1)) <= 5
    BY <1>2, <2>1
  <2>4. Len(f[c + 1]) = Len(f[c]) + Len(of(c + 1)) /\ Len(f[c]) \in Nat /\ Len(of(c + 1)) \in Nat
    BY <2>2, <2>3
  <2>5. Len(f[c + 1]) <= 5 * (c + 1)
    <3> DEFINE x == Len(f[c])
               y == Len(of(c + 1))
    <3>1. x \in Nat /\ y \in Nat /\ x <= 5 * c /\ y <= 5 /\ Len(f[c + 1]) = x + y /\ c \in Nat
      BY <1>0, <2>2, <2>3, <2>4
    <3> HIDE DEF x, y
    <3>2. x + y <= 5 * (c + 1)
      BY <3>1
    <3> QED
      BY <3>1, <3>2
  <2> QED
    BY <2>1, <2>5
<1> HIDE DEF T
<1>8. \A c \in 0 .. n : c \in T
  BY <1>0, <1>6, <1>7, Upwards
<1>9. n \in 0 .. n
  BY <1>0
<1>10. Len(Domains) <= 5 * n /\ Domains \in Seq(BuiltDomain) /\ Len(Domains) \in Nat
  BY <1>5, <1>8, <1>9 DEF T
<1> QED
  BY <1>0, <1>10 DEF MaxDomains

\* Fitting a concatenation is fitting its parts one after the other.
LEMMA FitJoined ==
  ASSUME NEW A, NEW s \in Seq(A), NEW g \in Seq(A), NEW M \in Nat
  PROVE  /\ Fit(s \o g, M) = Fit(s, M) \o Fit(g, M - Len(Fit(s, M)))
         /\ M - Len(Fit(s, M)) \in Nat
<1> DEFINE a == Len(s)
           b == Len(g)
           F == Fit(s, M)
           m == M - Len(F)
           H == Fit(g, m)
           C == s \o g
<1>1. /\ F \in Seq(A) /\ Len(F) = IF a < M THEN a ELSE M
      /\ \A k \in 1 .. Len(F) : F[k] = s[k]
  BY FitIs
<1>2. a \in Nat /\ b \in Nat /\ Len(F) \in Nat /\ m \in Nat /\ Len(F) <= a
  BY <1>1
<1> HIDE DEF m
<1>3. /\ H \in Seq(A) /\ Len(H) = IF b < m THEN b ELSE m
      /\ \A k \in 1 .. Len(H) : H[k] = g[k]
  BY <1>2, FitIs
<1>4. /\ C \in Seq(A) /\ Len(C) = a + b
      /\ \A p \in 1 .. a : C[p] = s[p]
      /\ \A p \in 1 .. b : C[a + p] = g[p]
  OBVIOUS
<1> HIDE DEF C
<1>5. /\ Fit(C, M) \in Seq(A) /\ Len(Fit(C, M)) = IF a + b < M THEN a + b ELSE M
      /\ \A k \in 1 .. Len(Fit(C, M)) : Fit(C, M)[k] = C[k]
  BY <1>4, FitIs
<1> HIDE DEF F, H, a, b
<1>6. /\ F \o H \in Seq(A) /\ Len(F \o H) = Len(F) + Len(H) /\ Len(H) \in Nat
      /\ \A p \in 1 .. Len(F) : (F \o H)[p] = F[p]
      /\ \A p \in 1 .. Len(H) : (F \o H)[Len(F) + p] = H[p]
      /\ \A p \in 1 .. Len(F \o H) : p \in 1 .. Len(F) \/ \E q \in 1 .. Len(H) : p = Len(F) + q
  <2>1. F \in Seq(A) /\ H \in Seq(A)
    BY <1>1, <1>3
  <2>2. /\ F \o H \in Seq(A) /\ Len(F \o H) = Len(F) + Len(H) /\ Len(H) \in Nat
        /\ \A p \in 1 .. Len(F) : (F \o H)[p] = F[p]
        /\ \A p \in 1 .. Len(H) : (F \o H)[Len(F) + p] = H[p]
    BY <2>1
  <2>3. ASSUME NEW p \in 1 .. Len(F) + Len(H), p \notin 1 .. Len(F) PROVE \E q \in 1 .. Len(H) : p = Len(F) + q
    <3>1. p - Len(F) \in 1 .. Len(H) /\ p = Len(F) + (p - Len(F))
      BY <1>2, <2>2, <2>3
    <3> QED
      BY <3>1
  <2> QED
    BY <2>2, <2>3
<1> DEFINE X == F \o H
           Y == Fit(C, M)
<1>7. Len(X) = Len(Y) /\ (Len(H) > 0 => Len(F) = a) /\ Len(H) <= b
  BY <1>1, <1>2, <1>3, <1>5, <1>6 DEF m
<1>8. ASSUME NEW p \in 1 .. Len(X) PROVE X[p] = Y[p]
  <2>1. Y[p] = C[p]
    BY <1>5, <1>7
  <2>2. CASE p \in 1 .. Len(F)
    <3>1. p \in 1 .. a
      BY <1>2, <2>2
    <3> QED
      BY <1>1, <1>4, <1>6, <2>1, <2>2, <3>1
  <2>3. CASE \E q \in 1 .. Len(H) : p = Len(F) + q
    <3>1. PICK q \in 1 .. Len(H) : p = Len(F) + q
      BY <2>3
    <3>2. Len(F) = a /\ q \in 1 .. b
      BY <1>2, <1>6, <1>7
    <3>3. X[p] = g[q] /\ C[p] = g[q]
      BY <1>3, <1>4, <1>6, <3>1, <3>2
    <3> QED
      BY <2>1, <3>3
  <2> QED
    BY <1>6, <2>2, <2>3
<1>9. X = Y
  <2> HIDE DEF X, Y
  <2>1. X \in Seq(A) /\ Y \in Seq(A)
    BY <1>5, <1>6 DEF X, Y
  <2> QED
    BY <1>7, <1>8, <2>1
<1> QED
  BY <1>2, <1>9 DEF C, F, H, m

-----------------------------------------------------------------------------
(* What is stored of them. *)

\* The groups that are stored of the k-th domain.
Run(t, B, k) == Fit(B[k].groups, MaxGroups - Len(t[k - 1].groups))

\* What is collected keeps its type ...
LEMMA CollectedAre ==
  ASSUME NEW B \in Seq(BuiltDomain), NEW t, Collects(t, B), NEW k \in 0 .. Len(B)
  PROVE  /\ t[k].rows \in Seq(DomainRow) /\ t[k].groups \in Seq(Cells)
         /\ Len(t[k].groups) \in Nat /\ MaxGroups - Len(t[k].groups) \in Nat
<1>1. t[k] \in Collected
  BY DEF Collects
<1> QED
  BY <1>1, RegionAssumption DEF Collected

\* ... and grows by a row and a run.
LEMMA CollectStep ==
  ASSUME NEW B \in Seq(BuiltDomain), NEW t, Collects(t, B), NEW k \in 1 .. Len(B)
  PROVE  /\ t[k].rows = Append(t[k - 1].rows, shm_domain(B[k].cpu, Len(t[k - 1].groups), Len(Run(t, B, k))))
         /\ t[k].groups = t[k - 1].groups \o Run(t, B, k)
         /\ Run(t, B, k) \in Seq(Cells) /\ Len(Run(t, B, k)) \in Nat
         /\ Len(t[k].groups) = Len(t[k - 1].groups) + Len(Run(t, B, k))
         /\ \A p \in 1 .. Len(t[k - 1].groups) : t[k].groups[p] = t[k - 1].groups[p]
         /\ \A p \in 1 .. Len(Run(t, B, k)) : t[k].groups[Len(t[k - 1].groups) + p] = Run(t, B, k)[p]
<1> DEFINE x == t[k - 1]
           r == Run(t, B, k)
           G == x.groups
           n == MaxGroups - Len(G)
           g == B[k].groups
<1>0. k - 1 \in 0 .. Len(B)
  OBVIOUS
<1>1. x.rows \in Seq(DomainRow) /\ G \in Seq(Cells) /\ Len(G) \in Nat /\ n \in Nat
  BY <1>0, CollectedAre
<1>2. t[k] = Add(x, B[k])
  BY DEF Collects
<1>3. t[k].rows = Append(x.rows, shm_domain(B[k].cpu, Len(G), Len(r))) /\ t[k].groups = G \o r
  <2>1. r = Fit(B[k].groups, MaxGroups - Len(x.groups))
    BY DEF Run
  <2> HIDE DEF r, x
  <2>2. Add(x, B[k]) = [rows |-> Append(x.rows, shm_domain(B[k].cpu, Len(x.groups), Len(r))), groups |-> x.groups \o r]
    BY <2>1, Zenon DEF Add
  <2> QED
    BY <1>2, <2>2
<1>4. g \in Seq(Cells)
  <2>1. B[k] \in BuiltDomain
    OBVIOUS
  <2> QED
    BY <2>1 DEF BuiltDomain
<1>5. r \in Seq(Cells)
  <2>1. r = Fit(g, n)
    BY DEF Run
  <2> HIDE DEF n, g, r
  <2> QED
    BY <1>1, <1>4, <2>1, FitIs
<1> HIDE DEF r, G
<1>6. /\ Len(r) \in Nat /\ Len(G \o r) = Len(G) + Len(r)
      /\ \A p \in 1 .. Len(G) : (G \o r)[p] = G[p]
      /\ \A p \in 1 .. Len(r) : (G \o r)[Len(G) + p] = r[p]
  BY <1>1, <1>5
<1> QED
  BY <1>3, <1>5, <1>6 DEF r, G

\* The stored groups are what fits of all groups.
LEMMA StoredFit ==
  ASSUME NEW B \in Seq(BuiltDomain), NEW t, Collects(t, B),
         NEW f, Flattens(f, Cells, [k \in 1 .. Len(B) |-> B[k].groups])
  PROVE  \A k \in 0 .. Len(B) : t[k].groups = Fit(f[k], MaxGroups)
<1> DEFINE n == Len(B)
           T == {k \in 0 .. n : t[k].groups = Fit(f[k], MaxGroups)}
           gs == [k \in 1 .. n |-> B[k].groups]
<1>0. n \in Nat /\ MaxGroups \in Nat /\ \A k \in 1 .. n : B[k].groups \in Seq(Cells)
  <2>1. ASSUME NEW k \in 1 .. n PROVE B[k].groups \in Seq(Cells)
    <3>1. B[k] \in BuiltDomain
      OBVIOUS
    <3> QED
      BY <3>1 DEF BuiltDomain
  <2> QED
    BY <2>1, RegionAssumption
<1>1. Len(gs) = n /\ \A k \in 1 .. n : gs[k] = B[k].groups
  BY <1>0
<1>2. /\ f \in [0 .. n -> Seq(Cells)] /\ f[0] = <<>>
      /\ \A k \in 1 .. n : f[k] = f[k - 1] \o B[k].groups
  <2>1. /\ f \in [0 .. Len(gs) -> Seq(Cells)] /\ f[0] = <<>>
        /\ \A k \in 1 .. Len(gs) : f[k] = f[k - 1] \o gs[k]
    BY DEF Flattens
  <2> HIDE DEF gs, n
  <2> QED
    BY <1>1, <2>1
<1>3. 0 \in T
  <2>1. t[0].groups = <<>>
    BY DEF Collects, Nothing
  <2>2. f[0] \in Seq(Cells) /\ Len(f[0]) <= MaxGroups
    BY <1>0, <1>2
  <2>3. Fit(f[0], MaxGroups) = f[0]
    BY <1>0, <2>2, FitIs
  <2> QED
    BY <1>0, <1>2, <2>1, <2>3
<1>4. ASSUME NEW k \in 0 .. n - 1, k \in T PROVE k + 1 \in T
  <2>1. k + 1 \in 1 .. n /\ (k + 1) - 1 = k /\ k + 1 \in 0 .. n /\ k \in 0 .. n
    BY <1>0
  <2> DEFINE s == f[k]
             g == B[k + 1].groups
  <2>2. f[k + 1] = s \o g /\ s \in Seq(Cells) /\ g \in Seq(Cells) /\ t[k].groups = Fit(s, MaxGroups)
    BY <1>0, <1>2, <1>4, <2>1
  <2>3. t[k + 1].groups = t[k].groups \o Run(t, B, k + 1)
    <3>1. PICK l \in 1 .. Len(B) : l = k + 1
      BY <2>1
    <3>2. t[l].groups = t[l - 1].groups \o Run(t, B, l)
      BY CollectStep
    <3> QED
      BY <2>1, <3>1, <3>2
  <2>4. Run(t, B, k + 1) = Fit(g, MaxGroups - Len(t[k].groups))
    BY <2>1 DEF Run
  <2> HIDE DEF s, g
  <2>5. Fit(s \o g, MaxGroups) = Fit(s, MaxGroups) \o Fit(g, MaxGroups - Len(Fit(s, MaxGroups)))
    BY <1>0, <2>2, FitJoined
  <2>6. t[k + 1].groups = Fit(f[k + 1], MaxGroups)
    BY <2>2, <2>3, <2>4, <2>5
  <2> QED
    BY <2>1, <2>6
<1> HIDE DEF T, n
<1>5. \A k \in 0 .. n : k \in T
  BY <1>0, <1>3, <1>4, Upwards
<1> QED
  BY <1>5 DEF T, n

\* Every domain has its row.
LEMMA StoredRows ==
  ASSUME NEW B \in Seq(BuiltDomain), NEW t, Collects(t, B)
  PROVE  \A k \in 0 .. Len(B) :
           /\ Len(t[k].rows) = k
           /\ \A j \in 1 .. k : t[k].rows[j] = shm_domain(B[j].cpu, Len(t[j - 1].groups), Len(Run(t, B, j)))
<1> DEFINE n == Len(B)
           row(j) == shm_domain(B[j].cpu, Len(t[j - 1].groups), Len(Run(t, B, j)))
           T == {k \in 0 .. n : Len(t[k].rows) = k /\ \A j \in 1 .. k : t[k].rows[j] = row(j)}
<1>0. n \in Nat
  OBVIOUS
<1>1. 0 \in T
  <2>1. t[0].rows = <<>>
    BY DEF Collects, Nothing
  <2> QED
    BY <1>0, <2>1
<1>2. ASSUME NEW k \in 0 .. n - 1, k \in T PROVE k + 1 \in T
  <2>1. k + 1 \in 1 .. n /\ (k + 1) - 1 = k /\ k + 1 \in 0 .. n /\ k \in 0 .. n /\ k \in Nat
    BY <1>0
  <2>2. t[k + 1].rows = Append(t[k].rows, row(k + 1))
    BY <2>1, CollectStep
  <2>3. t[k].rows \in Seq(DomainRow)
    BY <2>1, CollectedAre
  <2> HIDE DEF row
  <2>4. Len(t[k].rows) = k /\ \A j \in 1 .. k : t[k].rows[j] = row(j)
    BY <1>2
  <2>5. /\ Len(t[k + 1].rows) = k + 1 /\ t[k + 1].rows[k + 1] = row(k + 1)
        /\ \A j \in 1 .. k : t[k + 1].rows[j] = t[k].rows[j]
    BY <2>1, <2>2, <2>3, <2>4
  <2>6. \A j \in 1 .. k + 1 : j \in 1 .. k \/ j = k + 1
    BY <2>1
  <2> QED
    BY <2>1, <2>4, <2>5, <2>6
<1> HIDE DEF T, n
<1>3. \A k \in 0 .. n : k \in T
  BY <1>0, <1>1, <1>2, Upwards
<1> QED
  BY <1>3 DEF T, n

\* What is stored stays where it is.
LEMMA StoredStays ==
  ASSUME NEW B \in Seq(BuiltDomain), NEW t, Collects(t, B), NEW j \in 0 .. Len(B)
  PROVE  /\ Len(t[j].groups) <= Len(t[Len(B)].groups)
         /\ \A p \in 1 .. Len(t[j].groups) : t[Len(B)].groups[p] = t[j].groups[p]
<1> DEFINE n == Len(B)
           G == t[j].groups
           Same(k) == Len(G) <= Len(t[k].groups) /\ \A p \in 1 .. Len(G) : t[k].groups[p] = G[p]
           T == {k \in 0 .. n : j <= k => Same(k)}
<1>0. n \in Nat /\ Len(G) \in Nat
  BY CollectedAre
<1>1. Same(j)
  BY <1>0
<1>2. 0 \in T
  <2>1. j <= 0 => j = 0
    BY <1>0
  <2> HIDE DEF Same
  <2> QED
    BY <1>0, <1>1, <2>1
<1>3. ASSUME NEW k \in 0 .. n - 1, k \in T PROVE k + 1 \in T
  <2>1. k + 1 \in 1 .. n /\ (k + 1) - 1 = k /\ k + 1 \in 0 .. n /\ k \in 0 .. n /\ k \in Nat
    BY <1>0
  <2>2. CASE k + 1 <= j
    <3>1. j <= k + 1 => j = k + 1
      BY <2>1, <2>2
    <3> HIDE DEF Same
    <3> QED
      BY <1>1, <2>1, <3>1
  <2>3. CASE j <= k
    <3>1. Same(k)
      BY <1>3, <2>3
    <3>2. /\ Len(t[k + 1].groups) = Len(t[k].groups) + Len(Run(t, B, k + 1)) /\ Len(Run(t, B, k + 1)) \in Nat
          /\ \A p \in 1 .. Len(t[k].groups) : t[k + 1].groups[p] = t[k].groups[p]
      <4>1. PICK l \in 1 .. Len(B) : l = k + 1
        BY <2>1
      <4>2. /\ Len(t[l].groups) = Len(t[l - 1].groups) + Len(Run(t, B, l)) /\ Len(Run(t, B, l)) \in Nat
            /\ \A p \in 1 .. Len(t[l - 1].groups) : t[l].groups[p] = t[l - 1].groups[p]
        BY CollectStep
      <4> QED
        BY <2>1, <4>1, <4>2
    <3>3. Len(t[k].groups) \in Nat
      BY <2>1, CollectedAre
    <3> HIDE DEF G
    <3>4. \A p \in 1 .. Len(G) : p \in 1 .. Len(t[k].groups)
      BY <1>0, <3>1, <3>3
    <3>5. Len(G) <= Len(t[k + 1].groups)
      <4>1. Len(G) <= Len(t[k].groups)
        BY <3>1
      <4> DEFINE a == Len(G)
                 b == Len(t[k].groups)
                 c == Len(Run(t, B, k + 1))
      <4>2. a \in Nat /\ b \in Nat /\ c \in Nat /\ a <= b /\ Len(t[k + 1].groups) = b + c
        BY <1>0, <3>2, <3>3, <4>1
      <4> HIDE DEF a, b, c
      <4>3. a <= b + c
        BY <4>2
      <4> QED
        BY <4>2, <4>3 DEF a
    <3>6. \A p \in 1 .. Len(G) : t[k + 1].groups[p] = G[p]
      BY <3>1, <3>2, <3>4
    <3>7. Same(k + 1)
      BY <3>5, <3>6
    <3> HIDE DEF Same
    <3> QED
      BY <2>1, <3>7
  <2> QED
    BY <2>1, <2>2, <2>3
<1> HIDE DEF T, n
<1>4. \A k \in 0 .. n : k \in T
  BY <1>0, <1>2, <1>3, Upwards
<1>5. n \in T /\ j <= n
  BY <1>0, <1>4 DEF n
<1> QED
  BY <1>5 DEF T, n

-----------------------------------------------------------------------------
(* What is read of them. *)

\* The run a row names is read back.
LEMMA RunRead ==
  ASSUME NEW B \in Seq(BuiltDomain), NEW t, Collects(t, B), NEW k \in 1 .. Len(B)
  PROVE  LET G == t[Len(B)].groups
             a == Len(t[k - 1].groups)
             r == Run(t, B, k)
         IN a + Len(r) <= Len(G) /\ SubSeq(G, a + 1, a + Len(r)) = r
<1> DEFINE G == t[Len(B)].groups
           a == Len(t[k - 1].groups)
           r == Run(t, B, k)
<1>0. k - 1 \in 0 .. Len(B) /\ k \in 0 .. Len(B) /\ Len(B) \in 0 .. Len(B)
  OBVIOUS
<1>1. G \in Seq(Cells) /\ Len(G) \in Nat
  BY <1>0, CollectedAre
<1>2. a \in Nat
  BY <1>0, CollectedAre
<1> DEFINE x == t[k].groups
<1>3. /\ r \in Seq(Cells) /\ Len(r) \in Nat /\ Len(x) = a + Len(r)
      /\ \A p \in 1 .. Len(r) : x[a + p] = r[p]
  BY CollectStep
<1>4. Len(x) <= Len(G) /\ \A p \in 1 .. Len(x) : G[p] = x[p]
  BY <1>0, StoredStays
<1> HIDE DEF x, G, a, r
<1> DEFINE b == Len(r)
           q == SubSeq(G, a + 1, a + b)
<1>5. b \in Nat /\ a + b <= Len(G)
  BY <1>3, <1>4
<1> HIDE DEF b
<1>6. q \in Seq(Cells) /\ Len(q) = b /\ \A p \in 1 .. b : q[p] = G[a + p]
  <2>1. a + 1 \in 1 .. Len(G) + 1 /\ a + b \in 0 .. Len(G)
    BY <1>1, <1>2, <1>5
  <2>2. q \in Seq(Cells)
    BY <1>1, <2>1
  <2>3. Len(q) = b
    BY <1>1, <1>2, <1>5, <2>1
  <2>4. ASSUME NEW p \in 1 .. b PROVE q[p] = G[a + p]
    <3>1. p \in 1 .. (a + b) - (a + 1) + 1 /\ (a + 1) + p - 1 = a + p
      BY <1>2, <1>5
    <3> QED
      BY <1>1, <2>1, <3>1
  <2> QED
    BY <2>2, <2>3, <2>4
<1>7. ASSUME NEW p \in 1 .. b PROVE q[p] = r[p]
  <2>1. a + p \in 1 .. Len(x)
    BY <1>2, <1>3, <1>5 DEF b
  <2>2. G[a + p] = x[a + p] /\ x[a + p] = r[p]
    BY <1>3, <1>4, <2>1 DEF b
  <2> QED
    BY <1>6, <2>2
<1> HIDE DEF q
<1>8. q = r
  BY <1>3, <1>6, <1>7 DEF b
<1> QED
  BY <1>5, <1>8 DEF b, q, G, a, r

\* Runs in a row make up what is stored.
LEMMA RunsFlatten ==
  ASSUME NEW B \in Seq(BuiltDomain), NEW t, Collects(t, B)
  PROVE  FlattenSeq([k \in 1 .. Len(B) |-> Run(t, B, k)]) = t[Len(B)].groups
<1> DEFINE n == Len(B)
           rs == [k \in 1 .. n |-> Run(t, B, k)]
<1>0. n \in Nat
  OBVIOUS
<1>1. \A k \in 1 .. n : Run(t, B, k) \in Seq(Cells) /\ t[k].groups = t[k - 1].groups \o Run(t, B, k)
  BY CollectStep
<1>2. t[0].groups = <<>>
  BY DEF Collects, Nothing
<1> HIDE DEF n
<1>3. rs \in Seq(Seq(Cells)) /\ Len(rs) = n /\ \A k \in 1 .. n : rs[k] = Run(t, B, k)
  BY <1>0, <1>1
<1> HIDE DEF rs
<1>4. PICK f : Flattens(f, Cells, rs)
  BY <1>3, FlattenIs
<1>5. f[0] = <<>> /\ FlattenSeq(rs) = f[n] /\ \A k \in 1 .. n : f[k] = f[k - 1] \o Run(t, B, k)
  BY <1>3, <1>4 DEF Flattens
<1> DEFINE T == {k \in 0 .. n : f[k] = t[k].groups}
<1>6. 0 \in T
  BY <1>0, <1>2, <1>5
<1>7. ASSUME NEW k \in 0 .. n - 1, k \in T PROVE k + 1 \in T
  <2>1. PICK l \in 1 .. n : l = k + 1 /\ l - 1 = k /\ l \in 0 .. n
    BY <1>0
  <2>2. f[l] = f[k] \o Run(t, B, l) /\ t[l].groups = t[k].groups \o Run(t, B, l)
    BY <1>1, <1>5, <2>1
  <2>3. f[l] = t[l].groups
    BY <1>7, <2>2
  <2> QED
    BY <2>1, <2>3
<1> HIDE DEF T
<1>8. \A k \in 0 .. n : k \in T
  BY <1>0, <1>6, <1>7, Upwards
<1>9. n \in T
  BY <1>0, <1>8
<1> QED
  BY <1>5, <1>9 DEF T, rs, n

\* A first part of a sequence is a prefix.
LEMMA FitIsPrefix ==
  ASSUME NEW A, NEW s \in Seq(A), NEW n \in Nat
  PROVE  IsPrefix(Fit(s, n), s)
<1> DEFINE r == Fit(s, n)
           m == Len(r)
<1>1. r \in Seq(A) /\ m \in Nat /\ m <= Len(s) /\ \A k \in 1 .. m : r[k] = s[k]
  BY FitIs
<1> HIDE DEF r
<1>2. SubSeq(r, 1, m) = r
  BY <1>1
<1>3. SubSeq(s, 1, m) \in Seq(A) /\ Len(SubSeq(s, 1, m)) = m /\ \A k \in 1 .. m : SubSeq(s, 1, m)[k] = s[k]
  BY <1>1
<1>4. SubSeq(s, 1, m) = r
  BY <1>1, <1>3
<1> QED
  BY <1>1, <1>2, <1>4 DEF IsPrefix, r

\* What the host reads of the domains.
LEMMA DomainsRead ==
  ASSUME NEW B \in Seq(BuiltDomain), Len(B) <= MaxDomains, MaxDomains \in Nat, NEW t, Collects(t, B)
  PROVE  decode_domains(kstep_shm_update_domains)
           = [k \in 1 .. Len(B) |-> [cpu |-> B[k].cpu, groups |-> Run(t, B, k)]]
<1> DEFINE n == Len(B)
           x == t[n]
           G == x.groups
           U == kstep_shm_update_domains
           named(d) == IF d.group + d.ngroups <= Len(G)
                       THEN SubSeq(G, d.group + 1, d.group + d.ngroups) ELSE <<>>
<1>0. n \in Nat /\ n \in 0 .. n
  OBVIOUS
<1>1. x.rows \in Seq(DomainRow) /\ G \in Seq(Cells) /\ Len(G) <= MaxGroups /\ MaxGroups \in Nat
  <2>1. x.rows \in Seq(DomainRow) /\ G \in Seq(Cells) /\ Len(G) \in Nat /\ MaxGroups - Len(G) \in Nat
    BY <1>0, CollectedAre
  <2> QED
    BY <2>1, RegionAssumption
<1>2. /\ Len(x.rows) = n
      /\ \A j \in 1 .. n : x.rows[j] = shm_domain(B[j].cpu, Len(t[j - 1].groups), Len(Run(t, B, j)))
  BY <1>0, StoredRows
<1>3. shm_collect_domains = x
  BY DEF Collects
<1> HIDE DEF x, n
<1>4. U = [domain |-> Table(x.rows, MaxDomains), group |-> Table(G, MaxGroups)]
  BY <1>3 DEF kstep_shm_update_domains
<1>5. table(U.domain) = x.rows /\ table(U.group) = G
  <2> HIDE DEF G
  <2>1. Len(x.rows) <= MaxDomains
    BY <1>2 DEF n
  <2>2. table(Table(x.rows, MaxDomains)) = x.rows
    BY <1>1, <2>1, TableRead
  <2>3. table(Table(G, MaxGroups)) = G
    BY <1>1, TableRead
  <2> HIDE DEF U
  <2> QED
    BY <1>4, <2>2, <2>3
<1>6. DOMAIN x.rows = 1 .. n
  BY <1>1, <1>2
<1> HIDE DEF U
<1>7. decode_domains(U) = [k \in DOMAIN x.rows |-> [cpu |-> x.rows[k].cpu, groups |-> named(x.rows[k])]]
  BY <1>5 DEF decode_domains
<1>8. ASSUME NEW k \in 1 .. n
      PROVE  x.rows[k].cpu = B[k].cpu /\ named(x.rows[k]) = Run(t, B, k)
  <2> DEFINE a == Len(t[k - 1].groups)
             r == Run(t, B, k)
  <2>1. x.rows[k] = shm_domain(B[k].cpu, a, Len(r))
    BY <1>2
  <2>2. a + Len(r) <= Len(G) /\ SubSeq(G, a + 1, a + Len(r)) = r
    BY RunRead DEF n, x
  <2> HIDE DEF a, r, G
  <2>3. x.rows[k].cpu = B[k].cpu /\ x.rows[k].group = a /\ x.rows[k].ngroups = Len(r)
    BY <2>1 DEF shm_domain
  <2> QED
    BY <2>2, <2>3 DEF r
<1> HIDE DEF named
<1>9. decode_domains(U) = [k \in 1 .. n |-> [cpu |-> B[k].cpu, groups |-> Run(t, B, k)]]
  BY <1>6, <1>7, <1>8
<1> QED
  BY <1>9 DEF U, n

\* With levels as cpu-topo may name them, every domain is shown.
LEMMA DomainsAreShown ==
  ASSUME hierarchy \in Hierarchies[ncpus], ncpus \in 1 .. NumCpus - 1
  PROVE  DomainsShown
<1> DEFINE B == Domains
           n == Len(B)
           gs == [k \in 1 .. n |-> B[k].groups]
           D == decode_domains(kstep_shm_update_domains)
<1>1. B \in Seq(BuiltDomain) /\ n <= MaxDomains /\ MaxDomains \in Nat
  BY DomainsAre
<1>2. B = Fit(Domains, MaxDomains)
  BY <1>1, FitIs
<1> HIDE DEF B
<1>3. PICK t : Collects(t, B)
  BY <1>1, <1>2, CollectIs
<1>4. n \in Nat /\ DOMAIN B = 1 .. n /\ \A k \in 1 .. n : B[k] \in BuiltDomain
  BY <1>1
<1>5. \A k \in 1 .. n : B[k].groups \in Seq(Cells)
  BY <1>4 DEF BuiltDomain
<1>6. gs \in Seq(Seq(Cells)) /\ Len(gs) = n
  BY <1>4, <1>5
<1>7. PICK f : Flattens(f, Cells, gs)
  <2> HIDE DEF gs
  <2> QED
    BY <1>6, FlattenIs
<1>8. f[n] = FlattenSeq(gs)
  <2> HIDE DEF gs
  <2> QED
    BY <1>6, <1>7 DEF Flattens
<1>9. t[n].groups = Fit(f[n], MaxGroups)
  <2>1. n \in 0 .. Len(B)
    BY <1>4
  <2> QED
    BY <1>1, <1>3, <1>7, <2>1, StoredFit
<1>10. D = [k \in 1 .. n |-> [cpu |-> B[k].cpu, groups |-> Run(t, B, k)]]
  BY <1>1, <1>3, DomainsRead
<1>11. FlattenSeq([k \in 1 .. n |-> Run(t, B, k)]) = t[n].groups
  BY <1>1, <1>3, RunsFlatten
<1>12. ASSUME NEW k \in 1 .. n PROVE IsPrefix(Run(t, B, k), B[k].groups)
  <2> DEFINE m == MaxGroups - Len(t[k - 1].groups)
             s == B[k].groups
  <2>1. k - 1 \in 0 .. Len(B)
    BY <1>4
  <2>2. m \in Nat
    BY <1>1, <1>3, <2>1, CollectedAre
  <2>3. s \in Seq(Cells)
    BY <1>5
  <2> HIDE DEF m, s
  <2>4. IsPrefix(Fit(s, m), s)
    BY <2>2, <2>3, FitIsPrefix
  <2> QED
    BY <2>4 DEF Run, m, s
<1> HIDE DEF D
<1>13. Len(D) = n /\ DOMAIN D = 1 .. n /\ \A k \in 1 .. n : D[k].cpu = B[k].cpu /\ D[k].groups = Run(t, B, k)
  BY <1>4, <1>10
<1>14. [k \in DOMAIN D |-> D[k].groups] = [k \in 1 .. n |-> Run(t, B, k)]
  BY <1>13
<1>15. FlattenSeq([k \in DOMAIN D |-> D[k].groups]) = Fit(FlattenSeq([k \in DOMAIN B |-> B[k].groups]), MaxGroups)
  BY <1>4, <1>8, <1>9, <1>11, <1>14
<1>16. \A k \in DOMAIN D : D[k].cpu = B[k].cpu /\ IsPrefix(D[k].groups, B[k].groups)
  BY <1>12, <1>13
<1>17. Len(D) = Len(B)
  BY <1>13
<1> QED
  BY <1>15, <1>16, <1>17, Zenon DEF DomainsShown, B, D

\* After every verb, for every hierarchy of levels and every table size: the host reads every
\* domain with its own groups, as many of them as the flat table holds.
THEOREM DomainsAlwaysShown == RegionSpec => []DomainsShown
<1>1. RegionInv => DomainsShown
  BY DomainsAreShown DEF RegionInv, NumberedInv
<1> QED
  BY <1>1, RegionInvariant, PTL

=============================================================================
