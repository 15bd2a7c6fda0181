--------------------------- MODULE TopologyProofs ---------------------------
(***************************************************************************)
(* Topology's invariants, for every machine, every sequence of specs and   *)
(* every place a spec may be refused.  MasksGrouped needs to know, while a *)
(* level is being read, that its CPUs not named so far are still alone:    *)
(* UnnamedAlone.                                                           *)
(***************************************************************************)
EXTENDS Topology, TLAPS

\* While a level is read, the test CPUs not yet named under it are alone, and
\* those named share their mask with named ones only.
UnnamedAlone ==
  key \in Levels =>
    /\ own
    /\ \A c \in TestCpus(ncpus) \ seen : masks[key][c] = {c}
    /\ \A c \in seen : masks[key][c] \subseteq seen

\* Reading a spec, or done with one, the table points at kstep's masks.
OwnOnceBooted == step # "boot" => own

\* A key is being read only while a spec is.
KeyInSpec ==
  /\ key # "none" => step \in {"spec", "key"}
  /\ step = "key" => key # "none"
  /\ step = "boot" => ~own /\ ncpus = NumCpus - 1 /\ spanned = 0 /\ key = "none" /\ seen = {}

Inv == TypeOK /\ MasksGrouped /\ DomainsGrouped /\ UnnamedAlone /\ OwnOnceBooted /\ KeyInSpec

-----------------------------------------------------------------------------
(* topo_init() *)

LEMMA OnlineFacts ==
  ASSUME NEW n \in 1..NumCpus-1
  PROVE  /\ TestCpus(n) \subseteq Online
         /\ 0 \notin TestCpus(n)
         /\ NumCpus - 1 \in 1..NumCpus-1
BY MachineAssumption DEF TestCpus, Online

\* What topo_init() leaves at a level is grouped and isolated, whatever the
\* level held, as long as that was grouped.
LEMMA InitGrouped ==
  ASSUME TypeOK, MasksGrouped, NEW n \in 1..NumCpus-1, NEW l \in KernelLevels
  PROVE  /\ topo_init(n) \in [Levels -> [Online -> SUBSET Online]]
         /\ Grouped(topo_init(n)[l])
         /\ Isolated(topo_init(n)[l], n)
<1> DEFINE T == TestCpus(n)
           m == topo_init(n)[l]
<1>1. l \in Levels /\ T \subseteq Online
  BY MachineAssumption, OnlineFacts
<1>2. \A k \in KernelLevels, c \in Online : topo_mask(k, c) \in SUBSET Online
  BY MachineAssumption DEF topo_mask, TypeOK
<1>3. \A c \in Online : m[c] = IF c \in T THEN topo_mask(l, c) \intersect T ELSE {c}
  BY <1>1 DEF topo_init
<1>4. \A c \in Online : c \in topo_mask(l, c) /\ \A d \in topo_mask(l, c) : topo_mask(l, d) = topo_mask(l, c)
  <2>1. CASE own
    BY <2>1 DEF topo_mask, MasksGrouped, Grouped
  <2>2. CASE ~own
    BY <2>2, MachineAssumption DEF topo_mask
  <2> QED
    BY <2>1, <2>2
<1>5. topo_init(n) \in [Levels -> [Online -> SUBSET Online]]
  BY <1>2 DEF topo_init, TypeOK
<1>6. Isolated(m, n)
  BY <1>3 DEF Isolated
<1>7. Grouped(m)
  <2> SUFFICES ASSUME NEW c \in Online
               PROVE  c \in m[c] /\ \A d \in m[c] : m[d] = m[c]
    BY DEF Grouped
  <2>1. CASE c \in T
    <3>1. m[c] = topo_mask(l, c) \intersect T
      BY <1>3, <2>1
    <3>2. ASSUME NEW d \in m[c]
          PROVE  m[d] = m[c]
      <4>1. d \in T /\ d \in Online /\ topo_mask(l, d) = topo_mask(l, c)
        BY <1>1, <1>4, <3>1, <3>2
      <4> QED
        BY <1>3, <3>1, <4>1
    <3> QED
      BY <1>4, <2>1, <3>1, <3>2
  <2>2. CASE c \notin T
    BY <1>3, <2>2
  <2> QED
    BY <2>1, <2>2
<1> QED
  BY <1>5, <1>6, <1>7

-----------------------------------------------------------------------------
(* A level's groups *)

\* Making every test CPU of a level alone leaves it grouped and isolated.
LEMMA AloneGrouped ==
  ASSUME NEW n \in 1..NumCpus-1, NEW m \in [Online -> SUBSET Online],
         Grouped(m), Isolated(m, n)
  PROVE  LET a == [c \in Online |-> IF c \in TestCpus(n) THEN {c} ELSE m[c]]
         IN  Grouped(a) /\ Isolated(a, n)
BY OnlineFacts DEF Grouped, Isolated

\* A new group of CPUs that were alone leaves the level grouped and isolated.
LEMMA GroupGrouped ==
  ASSUME NEW n \in 1..NumCpus-1, NEW m \in [Online -> SUBSET Online],
         Grouped(m), Isolated(m, n),
         NEW g \in SUBSET TestCpus(n), NEW s \in SUBSET TestCpus(n),
         g \intersect s = {},
         \A c \in TestCpus(n) \ s : m[c] = {c},
         \A c \in s : m[c] \subseteq s
  PROVE  LET a == [c \in Online |-> IF c \in g THEN g ELSE m[c]]
         IN  Grouped(a) /\ Isolated(a, n)
<1> DEFINE a == [c \in Online |-> IF c \in g THEN g ELSE m[c]]
<1>1. g \subseteq Online
  BY OnlineFacts
<1>2. Isolated(a, n)
  BY <1>1 DEF Isolated
<1>3. ASSUME NEW c \in Online
      PROVE  c \in a[c] /\ \A d \in a[c] : a[d] = a[c]
  <2>1. CASE c \in g
    BY <1>1, <2>1
  <2>2. CASE c \notin g
    <3>1. a[c] = m[c] /\ c \in m[c]
      BY <2>2 DEF Grouped
    <3>2. m[c] \intersect g = {}
      BY <2>2 DEF Isolated
    <3>3. \A d \in m[c] : d \in Online /\ m[d] = m[c]
      BY DEF Grouped
    <3> QED
      BY <3>1, <3>2, <3>3
  <2> QED
    BY <2>1, <2>2
<1> QED
  BY <1>2, <1>3 DEF Grouped

-----------------------------------------------------------------------------
(* The invariant *)

LEMMA InitInv == Init => Inv
<1> SUFFICES ASSUME Init PROVE Inv
  OBVIOUS
<1>1. TypeOK
  <2>1. /\ ncpus \in 1..NumCpus-1 /\ spanned \in 0..NumCpus-1
        /\ caps \in [Online -> Nat] /\ capacity \in [Online -> Nat]
    BY MachineAssumption DEF Init
  <2>2. /\ masks \in [Levels -> [Online -> SUBSET Online]]
        /\ allowed \in [Tasks -> SUBSET Online]
    BY DEF Init
  <2>3. domains \in [KernelLevels -> [Online -> SUBSET Online]]
    BY MachineAssumption DEF Init
  <2>4. given \in Seq([key : Levels \union {"CAP"}, group : Lists])
    BY DEF Init
  <2> QED
    BY <2>1, <2>2, <2>3, <2>4 DEF Init, TypeOK
<1> QED
  BY <1>1, MachineAssumption
  DEF Init, Inv, MasksGrouped, DomainsGrouped, UnnamedAlone, OwnOnceBooted, KeyInSpec

LEMMA BootStep ==
  ASSUME Inv, kstep_cpu_init
  PROVE  Inv'
<1> USE DEF Inv
<1>1. NumCpus - 1 \in 1..NumCpus-1 /\ ncpus = NumCpus - 1
  BY MachineAssumption DEF kstep_cpu_init, KeyInSpec
<1>2. /\ topo_init(NumCpus - 1) \in [Levels -> [Online -> SUBSET Online]]
      /\ \A l \in KernelLevels : /\ Grouped(topo_init(NumCpus - 1)[l])
                                 /\ Isolated(topo_init(NumCpus - 1)[l], NumCpus - 1)
  <2>1. CASE KernelLevels = {}
    BY <2>1, MachineAssumption
  <2>2. CASE KernelLevels # {}
    BY <1>1, <2>2, InitGrouped
  <2> QED
    BY <2>1, <2>2
<1>3. TypeOK'
  BY <1>1, <1>2, MachineAssumption DEF kstep_cpu_init, specVars, TypeOK
<1>4. MasksGrouped' /\ DomainsGrouped'
  BY <1>1, <1>2 DEF kstep_cpu_init, MasksGrouped, DomainsGrouped, Grouped, Isolated
<1>5. UnnamedAlone' /\ OwnOnceBooted' /\ KeyInSpec'
  BY MachineAssumption DEF kstep_cpu_init, specVars, UnnamedAlone, OwnOnceBooted, KeyInSpec
<1> QED
  BY <1>3, <1>4, <1>5

LEMMA BeginStep ==
  ASSUME Inv, step = "idle", NEW n \in 1..NumCpus-1, TopoBegin(n)
  PROVE  Inv'
<1> USE DEF Inv
<1>1. /\ topo_init(n) \in [Levels -> [Online -> SUBSET Online]]
      /\ \A l \in KernelLevels : Grouped(topo_init(n)[l]) /\ Isolated(topo_init(n)[l], n)
  BY InitGrouped, MachineAssumption
<1>2. TypeOK'
  <2>1. given' \in Seq([key : Levels \union {"CAP"}, group : Lists])
    BY DEF TopoBegin
  <2>2. late' \in BOOLEAN
    BY DEF TopoBegin, TypeOK
  <2> QED
    BY <1>1, <2>1, <2>2, MachineAssumption DEF TopoBegin, kernelVars, TypeOK
<1>3. MasksGrouped'
  BY <1>1 DEF TopoBegin, MasksGrouped, Grouped, Isolated
<1>4. DomainsGrouped'
  BY DEF TopoBegin, kernelVars, DomainsGrouped, Grouped, Isolated
<1>5. UnnamedAlone' /\ OwnOnceBooted' /\ KeyInSpec'
  BY MachineAssumption DEF TopoBegin, UnnamedAlone, OwnOnceBooted, KeyInSpec
<1> QED
  BY <1>2, <1>3, <1>4, <1>5

LEMMA RefuseStep ==
  ASSUME Inv, Refuse, given' \in Seq([key : Levels \union {"CAP"}, group : Lists]),
         step \in {"spec", "key"}
  PROVE  Inv'
<1> USE DEF Inv
<1>1. TypeOK'
  BY DEF Refuse, kernelVars, TypeOK
<1>2. MasksGrouped' /\ DomainsGrouped'
  BY DEF Refuse, kernelVars, MasksGrouped, DomainsGrouped, Grouped, Isolated
<1>3. UnnamedAlone' /\ OwnOnceBooted' /\ KeyInSpec'
  BY MachineAssumption DEF Refuse, UnnamedAlone, OwnOnceBooted, KeyInSpec
<1> QED
  BY <1>1, <1>2, <1>3

LEMMA KeyStep ==
  ASSUME Inv, NEW k \in Levels \union {"CAP"}, topo_set_key(k)
  PROVE  Inv'
<1> USE DEF Inv
<1> DEFINE alone == [c \in Online |-> IF c \in TestCpus(ncpus) THEN {c} ELSE masks[k][c]]
<1>1. ncpus \in 1..NumCpus-1 /\ own /\ step = "spec"
  BY DEF topo_set_key, OwnOnceBooted, TypeOK
<1>2. CASE k \in Levels
  <2>1. k # "CAP" /\ masks' = [masks EXCEPT ![k] = alone]
    BY <1>2, MachineAssumption DEF topo_set_key
  <2>2. alone \in [Online -> SUBSET Online]
    BY <1>1, <1>2, OnlineFacts DEF TypeOK
  <2>3. TypeOK'
    BY <1>1, <1>2, <2>1, <2>2 DEF topo_set_key, kernelVars, TypeOK
  <2>4. ASSUME NEW l \in KernelLevels
        PROVE  Grouped(masks'[l]) /\ Isolated(masks'[l], ncpus)
    <3>1. l \in Levels /\ masks[l] \in [Online -> SUBSET Online]
      BY MachineAssumption DEF TypeOK
    <3>2. Grouped(masks[l]) /\ Isolated(masks[l], ncpus)
      BY <1>1 DEF MasksGrouped
    <3>3. CASE l = k
      <4>1. Grouped(alone) /\ Isolated(alone, ncpus)
        BY <1>1, <3>1, <3>2, <3>3, AloneGrouped
      <4> QED
        BY <2>1, <3>1, <3>3, <4>1 DEF TypeOK
    <3>4. CASE l # k
      <4>1. masks'[l] = masks[l]
        BY <2>1, <3>1, <3>4 DEF TypeOK
      <4> QED
        BY <3>2, <4>1
    <3> QED
      BY <3>3, <3>4
  <2>5. MasksGrouped'
    BY <2>4 DEF topo_set_key, MasksGrouped, Grouped, Isolated
  <2>6. DomainsGrouped'
    BY DEF topo_set_key, kernelVars, DomainsGrouped, Grouped, Isolated
  <2>7. UnnamedAlone'
    BY <1>1, <1>2, <2>1, OnlineFacts DEF topo_set_key, UnnamedAlone, TypeOK
  <2>8. OwnOnceBooted' /\ KeyInSpec'
    BY <1>1, MachineAssumption DEF topo_set_key, OwnOnceBooted, KeyInSpec
  <2> QED
    BY <2>3, <2>5, <2>6, <2>7, <2>8
<1>3. CASE k = "CAP"
  <2>1. UNCHANGED masks /\ key' = "CAP"
    BY <1>3, MachineAssumption DEF topo_set_key
  <2>2. TypeOK'
    BY <1>1, <2>1 DEF topo_set_key, kernelVars, TypeOK
  <2>3. MasksGrouped' /\ DomainsGrouped'
    BY <2>1 DEF topo_set_key, kernelVars, MasksGrouped, DomainsGrouped, Grouped, Isolated
  <2>4. UnnamedAlone' /\ OwnOnceBooted' /\ KeyInSpec'
    BY <1>1, <2>1, MachineAssumption DEF topo_set_key, UnnamedAlone, OwnOnceBooted, KeyInSpec
  <2> QED
    BY <2>2, <2>3, <2>4
<1> QED
  BY <1>2, <1>3

LEMMA GroupStep ==
  ASSUME Inv, NEW g \in Lists, NEW scale \in Scales \union {FullScale}, SetGroup(g, scale)
  PROVE  Inv'
<1> USE DEF Inv
<1>1. ncpus \in 1..NumCpus-1 /\ own /\ key \in Levels \union {"CAP"} /\ step # "boot"
  BY DEF SetGroup, OwnOnceBooted, TypeOK
<1>2. given' \in Seq([key : Levels \union {"CAP"}, group : Lists])
  BY <1>1 DEF SetGroup, TypeOK
<1>3. CASE ~topo_parse_group(g)
  BY <1>2, <1>3, RefuseStep DEF SetGroup
<1>4. CASE topo_parse_group(g) /\ key \in Levels
  <2> DEFINE put == [c \in Online |-> IF c \in g THEN g ELSE masks[key][c]]
  <2>1. g \subseteq TestCpus(ncpus) /\ g \intersect seen = {} /\ g \subseteq Online
    BY <1>1, <1>4, OnlineFacts DEF topo_parse_group, kstep_parse_cpus
  <2>2. /\ masks' = [masks EXCEPT ![key] = put]
        /\ seen' = seen \union g /\ step' = "spec"
        /\ UNCHANGED <<ncpus, own, key, caps, refused, kernelVars, allowed, late>>
    BY <1>4, MachineAssumption DEF SetGroup
  <2>3. put \in [Online -> SUBSET Online]
    BY <1>4, <2>1 DEF TypeOK
  <2>4. TypeOK'
    BY <1>1, <1>2, <1>4, <2>1, <2>2, <2>3 DEF kernelVars, TypeOK
  <2>5. /\ \A c \in TestCpus(ncpus) \ seen : masks[key][c] = {c}
        /\ \A c \in seen : masks[key][c] \subseteq seen
    BY <1>4 DEF UnnamedAlone
  <2>6. ASSUME NEW l \in KernelLevels
        PROVE  Grouped(masks'[l]) /\ Isolated(masks'[l], ncpus)
    <3>1. l \in Levels /\ masks[l] \in [Online -> SUBSET Online]
      BY MachineAssumption DEF TypeOK
    <3>2. Grouped(masks[l]) /\ Isolated(masks[l], ncpus)
      BY <1>1 DEF MasksGrouped
    <3>3. CASE l = key
      <4>1. seen \in SUBSET TestCpus(ncpus)
        BY DEF TypeOK
      <4>2. Grouped(put) /\ Isolated(put, ncpus)
        BY <1>1, <2>1, <2>5, <3>1, <3>2, <3>3, <4>1, GroupGrouped
      <4> QED
        BY <2>2, <3>1, <3>3, <4>2 DEF TypeOK
    <3>4. CASE l # key
      <4>1. masks'[l] = masks[l]
        BY <2>2, <3>1, <3>4 DEF TypeOK
      <4> QED
        BY <3>2, <4>1
    <3> QED
      BY <3>3, <3>4
  <2>7. MasksGrouped'
    BY <2>2, <2>6 DEF MasksGrouped, Grouped, Isolated
  <2>8. DomainsGrouped'
    BY <2>2 DEF kernelVars, DomainsGrouped, Grouped, Isolated
  <2>9. UnnamedAlone'
    <3>1. masks'[key] = put
      BY <1>4, <2>2 DEF TypeOK
    <3>2. TestCpus(ncpus) \subseteq Online /\ seen \subseteq Online
      BY <1>1, OnlineFacts DEF TypeOK
    <3>3. \A c \in TestCpus(ncpus) \ (seen \union g) : put[c] = {c}
      BY <2>5, <3>2
    <3>4. \A c \in seen \union g : put[c] \subseteq seen \union g
      BY <2>1, <2>5, <3>2
    <3> QED
      BY <1>1, <2>2, <3>1, <3>3, <3>4 DEF UnnamedAlone
  <2>10. OwnOnceBooted' /\ KeyInSpec'
    BY <1>1, <2>2 DEF OwnOnceBooted, KeyInSpec
  <2> QED
    BY <2>4, <2>7, <2>8, <2>9, <2>10
<1>5. CASE topo_parse_group(g) /\ key = "CAP"
  <2>1. g \subseteq TestCpus(ncpus)
    BY <1>5 DEF topo_parse_group, kstep_parse_cpus
  <2>2. /\ caps' = [c \in Online |-> IF c \in g THEN scale ELSE caps[c]]
        /\ seen' = seen \union g /\ step' = "spec"
        /\ UNCHANGED <<masks, ncpus, own, key, refused, kernelVars, allowed, late>>
    BY <1>5, MachineAssumption DEF SetGroup
  <2>3. TypeOK'
    <3>1. scale \in Nat
      BY MachineAssumption
    <3> QED
      BY <1>1, <1>2, <2>1, <2>2, <3>1 DEF kernelVars, TypeOK
  <2>4. MasksGrouped' /\ DomainsGrouped'
    BY <2>2 DEF kernelVars, MasksGrouped, DomainsGrouped, Grouped, Isolated
  <2>5. UnnamedAlone' /\ OwnOnceBooted' /\ KeyInSpec'
    BY <1>1, <1>5, <2>2, MachineAssumption DEF UnnamedAlone, OwnOnceBooted, KeyInSpec
  <2> QED
    BY <2>3, <2>4, <2>5
<1> QED
  BY <1>1, <1>3, <1>4, <1>5

LEMMA ApplyStep ==
  ASSUME Inv, TopoApply
  PROVE  Inv'
<1> USE DEF Inv
<1>1. ncpus \in 1..NumCpus-1 /\ own
  BY DEF TopoApply, OwnOnceBooted, TypeOK
<1>2. TypeOK'
  <2>1. domains' \in [KernelLevels -> [Online -> SUBSET Online]]
    BY MachineAssumption DEF TopoApply, TypeOK
  <2>2. capacity' \in [Online -> Nat]
    BY DEF TopoApply, set_cap, TypeOK
  <2>3. given' \in Seq([key : Levels \union {"CAP"}, group : Lists])
    BY DEF TopoApply
  <2>4. spanned' \in 0..NumCpus-1
    BY <1>1 DEF TopoApply
  <2> QED
    BY <1>1, <2>1, <2>2, <2>3, <2>4 DEF TopoApply, TypeOK
<1>3. MasksGrouped'
  BY DEF TopoApply, MasksGrouped, Grouped, Isolated
<1>4. DomainsGrouped'
  BY <1>1 DEF TopoApply, MasksGrouped, DomainsGrouped, Grouped, Isolated
<1>5. UnnamedAlone' /\ OwnOnceBooted' /\ KeyInSpec'
  BY <1>1, MachineAssumption DEF TopoApply, UnnamedAlone, OwnOnceBooted, KeyInSpec
<1> QED
  BY <1>2, <1>3, <1>4, <1>5

\* A change of the CPUs a task is allowed, within the test CPUs.
LEMMA TaskStep ==
  ASSUME Inv, NEW t \in Tasks, NEW g \in SUBSET TestCpus(ncpus),
         allowed' = [allowed EXCEPT ![t] = g],
         UNCHANGED <<step, ncpus, own, masks, specVars, refused, kernelVars, late>>
  PROVE  Inv'
<1> USE DEF Inv
<1>1. g \subseteq Online
  BY OnlineFacts DEF TypeOK
<1>2. TypeOK'
  BY <1>1 DEF specVars, kernelVars, TypeOK
<1> QED
  BY <1>2
  DEF specVars, kernelVars, MasksGrouped, DomainsGrouped, Grouped, Isolated,
      UnnamedAlone, OwnOnceBooted, KeyInSpec

LEMMA StepInv == Inv /\ [Next]_vars => Inv'
<1> SUFFICES ASSUME Inv, [Next]_vars PROVE Inv'
  OBVIOUS
<1>1. CASE kstep_cpu_init
  BY <1>1, BootStep
<1>2. ASSUME NEW n \in 0..NumCpus, cmd_cpu_topo(n)
      PROVE  Inv'
  <2>1. CASE n \in 1..NumCpus-1
    BY <1>2, <2>1, BeginStep DEF cmd_cpu_topo, topo_cpus
  <2>2. CASE n \notin 1..NumCpus-1
    <3>1. /\ refused' = TRUE
          /\ UNCHANGED <<step, ncpus, own, masks, specVars, kernelVars, allowed, late>>
      BY <1>2, <2>2 DEF cmd_cpu_topo, topo_cpus
    <3>2. TypeOK'
      BY <3>1 DEF specVars, kernelVars, Inv, TypeOK
    <3> QED
      BY <3>1, <3>2
      DEF specVars, kernelVars, Inv, MasksGrouped, DomainsGrouped,
          Grouped, Isolated, UnnamedAlone, OwnOnceBooted, KeyInSpec
  <2> QED
    BY <2>1, <2>2
<1>3. ASSUME NEW k \in Levels \union {"CAP"}, topo_set_key(k)
      PROVE  Inv'
  BY <1>3, KeyStep
<1>4. ASSUME NEW g \in Lists, NEW scale \in Scales \union {FullScale}, SetGroup(g, scale)
      PROVE  Inv'
  BY <1>4, GroupStep
<1>5. CASE Malformed
  <2>1. given' \in Seq([key : Levels \union {"CAP"}, group : Lists])
    BY <1>5 DEF Malformed
  <2> QED
    BY <1>5, <2>1, RefuseStep DEF Malformed
<1>6. CASE TopoApply
  BY <1>6, ApplyStep
<1>7. ASSUME NEW t \in Tasks, kstep_task_create(t)
      PROVE  Inv'
  BY <1>7, TaskStep DEF kstep_task_create
<1>8. ASSUME NEW t \in Tasks, NEW g \in Lists, kstep_task_set_affinity(t, g)
      PROVE  Inv'
  BY <1>8, TaskStep DEF kstep_task_set_affinity, kstep_parse_cpus
<1>9. CASE UNCHANGED vars
  BY <1>9
  DEF vars, specVars, kernelVars, Inv, TypeOK, MasksGrouped, DomainsGrouped,
      Grouped, Isolated, UnnamedAlone, OwnOnceBooted, KeyInSpec
<1> QED
  BY <1>1, <1>2, <1>3, <1>4, <1>5, <1>6, <1>7, <1>8, <1>9 DEF Next

\* At every point of every spec, refused ones included, kstep_masks cut each of
\* the kernel's levels into groups of test CPUs, every other CPU alone
\* (topo_init, topo_set_key and topo_parse_group in kmod/cpu.c).
THEOREM MasksAlwaysGrouped == Spec => []MasksGrouped
<1>1. Inv => MasksGrouped
  BY DEF Inv
<1> QED
  BY InitInv, StepInv, <1>1, PTL DEF Spec

\* The kernel's domains are built from such groups (the rebuild that ends
\* kstep_topo_set), of the CPUs that were test CPUs at the time.
THEOREM DomainsAlwaysGrouped == Spec => []DomainsGrouped
<1>1. Inv => DomainsGrouped
  BY DEF Inv
<1> QED
  BY InitInv, StepInv, <1>1, PTL DEF Spec

\* Topology is type correct.
THEOREM TopologyTypeCorrect == Spec => []TypeOK
<1>1. Inv => TypeOK
  BY DEF Inv
<1> QED
  BY InitInv, StepInv, <1>1, PTL DEF Spec

-----------------------------------------------------------------------------
(* The tasks' CPUs *)

LEMMA TasksInit == Init => TasksOnTestCpus
BY DEF Init, TasksOnTestCpus

LEMMA TasksStep == Inv /\ TasksOnTestCpus /\ [Next]_vars => TasksOnTestCpus'
<1> SUFFICES ASSUME Inv, TasksOnTestCpus, [Next]_vars PROVE TasksOnTestCpus'
  OBVIOUS
<1>1. CASE UNCHANGED <<ncpus, allowed, late>>
  BY <1>1 DEF TasksOnTestCpus, TestCpus
<1>2. ASSUME NEW n \in 0..NumCpus, cmd_cpu_topo(n)
      PROVE  TasksOnTestCpus'
  <2>1. CASE n \in 1..NumCpus-1
    <3>1. late' = (late \/ \E t \in Tasks : allowed[t] # {}) /\ allowed' = allowed
      BY <1>2, <2>1 DEF cmd_cpu_topo, topo_cpus, TopoBegin
    <3> QED
      BY <3>1 DEF TasksOnTestCpus
  <2>2. CASE n \notin 1..NumCpus-1
    BY <1>1, <1>2, <2>2 DEF cmd_cpu_topo, topo_cpus
  <2> QED
    BY <2>1, <2>2
<1>3. ASSUME NEW t \in Tasks, kstep_task_create(t)
      PROVE  TasksOnTestCpus'
  BY <1>3 DEF kstep_task_create, TasksOnTestCpus, Inv, TypeOK
<1>4. ASSUME NEW t \in Tasks, NEW g \in Lists, kstep_task_set_affinity(t, g)
      PROVE  TasksOnTestCpus'
  BY <1>4 DEF kstep_task_set_affinity, kstep_parse_cpus, TasksOnTestCpus, Inv, TypeOK
<1>5. kstep_cpu_init => UNCHANGED <<ncpus, allowed, late>>
  BY DEF kstep_cpu_init
<1>6. \A k \in Levels \union {"CAP"} : topo_set_key(k) => UNCHANGED <<ncpus, allowed, late>>
  BY DEF topo_set_key
<1>7. \A g \in Lists, scale \in Scales \union {FullScale} :
        SetGroup(g, scale) => UNCHANGED <<ncpus, allowed, late>>
  BY DEF SetGroup, Refuse
<1>8. Malformed \/ TopoApply => UNCHANGED <<ncpus, allowed, late>>
  BY DEF Malformed, Refuse, TopoApply
<1>9. UNCHANGED vars => UNCHANGED <<ncpus, allowed, late>>
  BY DEF vars
<1> QED
  BY <1>1, <1>2, <1>3, <1>4, <1>5, <1>6, <1>7, <1>8, <1>9 DEF Next

\* Until a spec comes after the first task, a task may run on test CPUs only
\* (kstep_task_create and kstep_task_set_affinity in kmod/task.c, whose lists
\* kstep_parse_cpus bounds).
THEOREM TasksStayOnTestCpus == Spec => []TasksOnTestCpus
BY InitInv, StepInv, TasksInit, TasksStep, PTL DEF Spec
=============================================================================
