------------------------------ MODULE Topology ------------------------------
(***************************************************************************)
(* The machine under test (kmod/cpu.c): which CPUs are test CPUs, the      *)
(* topology masks kSTEP points the kernel's table at, and what the kernel  *)
(* reads of them.  kstep_topo_set() parses its spec while it changes the   *)
(* masks, so the spec is met here a piece at a time: the caller's next key *)
(* or group is any, and each may be the one that is refused.  Tasks are    *)
(* here for the CPUs they may run on (kmod/task.c).                        *)
(***************************************************************************)
EXTENDS Integers, Sequences

CONSTANTS
  NumCpus,       \* num_online_cpus(); CPU 0 is the controller's
  Levels,        \* topo_level_names
  KernelLevels,  \* those in this kernel's table, for_each_tl
  Machine,       \* the machine's own mask of a kernel level and a CPU
  Scales,        \* the capacities a CAP group may ask for
  FullScale,     \* SCHED_CAPACITY_SCALE
  Lists,         \* the cpulists a spec's groups and `affinity' may hold
  MaxGroups,     \* bound on the groups of a spec
  Tasks          \* the session's tasks

Online == 0..NumCpus-1

ASSUME MachineAssumption ==
  /\ NumCpus \in Nat \ {0, 1}
  /\ KernelLevels \subseteq Levels /\ "SMT" \in KernelLevels
  /\ Machine \in [KernelLevels -> [Online -> SUBSET Online]]
  /\ \A l \in KernelLevels, c \in Online :
       c \in Machine[l][c] /\ \A d \in Machine[l][c] : Machine[l][d] = Machine[l][c]
  /\ "CAP" \notin Levels /\ "bad" \notin Levels /\ "none" \notin Levels
  /\ FullScale \in Nat /\ Scales \subseteq Nat
  /\ Lists \subseteq SUBSET Nat
  /\ MaxGroups \in Nat

VARIABLES
  step,      \* boot, idle, or where kstep_topo_set() is in its spec
  ncpus,     \* kstep_test_ncpus
  own,       \* the kernel's table points at kstep_masks
  masks,     \* kstep_masks
  key,       \* the key being read
  seen,      \* CPUs named under it so far
  caps,      \* kstep_topo_set()'s local array
  given,     \* history: the groups read of the spec, one that is refused included
  refused,   \* the last spec was answered with an error
  domains,   \* the masks the kernel's domains were last built from
  spanned,   \* history: kstep_test_ncpus when they were; 0 before
  capacity,  \* each CPU's capacity
  allowed,   \* the CPUs each task may run on; none before it is created
  late       \* history: a spec came after the first task

specVars   == <<key, seen, caps, given>>
kernelVars == <<domains, spanned, capacity>>
vars == <<step, ncpus, own, masks, specVars, refused, kernelVars, allowed, late>>

TestCpus(n) == 1..n

Init ==
  /\ step = "boot"
  /\ ncpus = NumCpus - 1
  /\ own = FALSE
  /\ masks = [l \in Levels |-> [c \in Online |-> {}]]
  /\ key = "none" /\ seen = {} /\ given = <<>>
  /\ caps = [c \in Online |-> FullScale]
  /\ refused = FALSE
  /\ domains = Machine
  /\ spanned = 0
  /\ capacity = [c \in Online |-> FullScale]
  /\ allowed = [t \in Tasks |-> {}]
  /\ late = FALSE

-----------------------------------------------------------------------------
(* kstep_topo_set() *)

\* The kernel's mask of a level: the machine's until the table is repointed.
topo_mask(l, c) == IF own THEN masks[l][c] ELSE Machine[l][c]

\* Mutant: the spare CPUs keep what they had.
topo_init_NoSpare(n) ==
  [l \in Levels |->
     IF l \notin KernelLevels THEN masks[l]
     ELSE [c \in Online |-> IF c = 0 THEN {0} ELSE topo_mask(l, c)]]

\* topo_init() for n test CPUs: what the kernel reads now, over the test CPUs;
\* every other CPU alone.
topo_init(n) ==
  [l \in Levels |->
     IF l \notin KernelLevels THEN masks[l]
     ELSE [c \in Online |->
             IF c \in TestCpus(n) THEN topo_mask(l, c) \intersect TestCpus(n) ELSE {c}]]

\* kstep_topo_set() up to its loop, the spec asking for n test CPUs.
TopoBegin(n) ==
  /\ step' = "spec"
  /\ ncpus' = n
  /\ masks' = topo_init(n)
  /\ own' = TRUE
  /\ key' = "none" /\ seen' = {} /\ given' = <<>>
  /\ caps' = [c \in Online |-> FullScale]
  /\ late' = (late \/ \E t \in Tasks : allowed[t] # {})
  /\ refused' = FALSE
  /\ UNCHANGED <<kernelVars, allowed>>

\* kstep_topo_set(""), whole: the machine's own topology, CPU 0 alone.
kstep_cpu_init ==
  /\ step = "boot"
  /\ step' = "idle"
  /\ masks' = topo_init(NumCpus - 1)
  /\ own' = TRUE
  /\ domains' = [l \in KernelLevels |-> topo_init(NumCpus - 1)[l]]
  /\ spanned' = NumCpus - 1
  /\ UNCHANGED <<ncpus, specVars, refused, capacity, allowed, late>>

\* The test CPUs a spec asks for, CPUS=n (all of them when absent), checked first.
topo_cpus(n) == n \in 1..NumCpus-1

cmd_cpu_topo(n) ==
  /\ step = "idle"
  /\ \/ topo_cpus(n) /\ TopoBegin(n)
     \/ /\ ~topo_cpus(n)
        /\ refused' = TRUE
        /\ UNCHANGED <<step, ncpus, own, masks, specVars, kernelVars, allowed, late>>

\* An error return: what was done so far stays.
Refuse ==
  /\ step' = "idle"
  /\ refused' = TRUE
  /\ key' = "none" /\ seen' = {}
  /\ UNCHANGED <<ncpus, own, masks, caps, kernelVars, allowed, late>>

\* topo_set_key() up to its loop: at a level, every test CPU is alone until named.
topo_set_key(k) ==
  /\ step = "spec" /\ Len(given) < MaxGroups
  /\ step' = "key"
  /\ key' = k /\ seen' = {}
  /\ \/ /\ k \in Levels
        /\ masks' = [masks EXCEPT ![k] =
                       [c \in Online |-> IF c \in TestCpus(ncpus) THEN {c} ELSE masks[k][c]]]
     \/ /\ k = "CAP"
        /\ UNCHANGED masks
  /\ UNCHANGED <<ncpus, own, caps, given, refused, kernelVars, allowed, late>>

\* An unknown key, a key without groups, a group without a scale or with one out
\* of range.
Malformed == step \in {"spec", "key"} /\ given' = <<>> /\ Refuse

\* Mutant: the bound is the machine's, not the spec's.
kstep_parse_cpus_Machine(g) == g # {} /\ 0 \notin g /\ g \subseteq Online

\* A nonempty list of test CPUs.
kstep_parse_cpus(g) == g # {} /\ g \subseteq TestCpus(ncpus)

\* Mutant: a CPU may be named twice.
topo_parse_group_Twice(g) == kstep_parse_cpus(g)

topo_parse_group(g) == kstep_parse_cpus(g) /\ g \intersect seen = {}

\* One group of the key, for CAP with its scale.
SetGroup(g, scale) ==
  /\ step \in {"key", "spec"} /\ key # "none" /\ Len(given) < MaxGroups
  /\ given' = Append(given, [key |-> key, group |-> g])
  /\ \/ /\ topo_parse_group(g)
        /\ step' = "spec"
        /\ seen' = seen \union g
        /\ \/ /\ key = "CAP"
              /\ caps' = [c \in Online |-> IF c \in g THEN scale ELSE caps[c]]
              /\ UNCHANGED masks
           \/ /\ key \in Levels /\ scale = FullScale
              /\ masks' = [masks EXCEPT ![key] =
                             [c \in Online |-> IF c \in g THEN g ELSE masks[key][c]]]
              /\ UNCHANGED caps
        /\ UNCHANGED <<ncpus, own, key, refused, kernelVars, allowed, late>>
     \/ ~topo_parse_group(g) /\ Refuse

\* set_cap() of every test CPU.
set_cap == [c \in Online |-> IF c \in TestCpus(ncpus) THEN caps[c] ELSE capacity[c]]

\* The whole spec was good: capacities, the sibling masks and the rebuild.
TopoApply ==
  /\ step = "spec"
  /\ step' = "idle"
  /\ refused' = FALSE
  /\ capacity' = set_cap
  /\ domains' = [l \in KernelLevels |-> masks[l]]
  /\ spanned' = ncpus
  /\ key' = "none" /\ seen' = {} /\ given' = <<>>
  /\ UNCHANGED <<ncpus, own, masks, caps, allowed, late>>

-----------------------------------------------------------------------------
(* The tasks' CPUs *)

\* kstep_task_create() allows a new task every test CPU.
kstep_task_create(t) ==
  /\ step = "idle" /\ allowed[t] = {}
  /\ allowed' = [allowed EXCEPT ![t] = TestCpus(ncpus)]
  /\ UNCHANGED <<step, ncpus, own, masks, specVars, refused, kernelVars, late>>

kstep_task_set_affinity(t, g) ==
  /\ step = "idle" /\ allowed[t] # {}
  /\ kstep_parse_cpus(g)
  /\ allowed' = [allowed EXCEPT ![t] = g]
  /\ UNCHANGED <<step, ncpus, own, masks, specVars, refused, kernelVars, late>>

-----------------------------------------------------------------------------

Next ==
  \/ kstep_cpu_init
  \/ \E n \in 0..NumCpus : cmd_cpu_topo(n)
  \/ \E k \in Levels \union {"CAP"} : topo_set_key(k)
  \/ \E g \in Lists, scale \in Scales \union {FullScale} : SetGroup(g, scale)
  \/ Malformed
  \/ TopoApply
  \/ \E t \in Tasks : kstep_task_create(t)
  \/ \E t \in Tasks, g \in Lists : kstep_task_set_affinity(t, g)

Spec == Init /\ [][Next]_vars

-----------------------------------------------------------------------------
(* Properties *)

\* Every variable keeps to its type.
TypeOK ==
  /\ step \in {"boot", "idle", "spec", "key"}
  /\ ncpus \in 1..NumCpus-1 /\ spanned \in 0..NumCpus-1
  /\ own \in BOOLEAN /\ refused \in BOOLEAN /\ late \in BOOLEAN
  /\ masks \in [Levels -> [Online -> SUBSET Online]]
  /\ domains \in [KernelLevels -> [Online -> SUBSET Online]]
  /\ key \in Levels \union {"CAP", "none"}
  /\ seen \in SUBSET TestCpus(ncpus)
  /\ given \in Seq([key : Levels \union {"CAP"}, group : Lists])
  /\ caps \in [Online -> Nat] /\ capacity \in [Online -> Nat]
  /\ allowed \in [Tasks -> SUBSET Online]

\* The masks m cut the CPUs into groups: a CPU is in its own mask, and those in
\* it share it.
Grouped(m) ==
  \A c \in Online : c \in m[c] /\ \A d \in m[c] : m[d] = m[c]

\* Only test CPUs share a mask: the controller's CPU and the spares are alone.
Isolated(m, n) ==
  \A c \in Online : IF c \in TestCpus(n) THEN m[c] \subseteq TestCpus(n) ELSE m[c] = {c}

\* At every point of every spec, refused ones included, the masks of each level
\* are groups of test CPUs with every other CPU alone.
MasksGrouped ==
  own => \A l \in KernelLevels : Grouped(masks[l]) /\ Isolated(masks[l], ncpus)

\* What the kernel builds its domains from is groups of the CPUs that were test
\* CPUs then, whatever specs were refused since.
DomainsGrouped ==
  spanned > 0 =>
    \A l \in KernelLevels : Grouped(domains[l]) /\ Isolated(domains[l], spanned)

\* A task may run on test CPUs only, as long as no spec came after the first
\* task: on a CPU a later one made spare it would run unticked.
TasksOnTestCpus ==
  ~late => \A t \in Tasks : allowed[t] \subseteq TestCpus(ncpus)
=============================================================================
