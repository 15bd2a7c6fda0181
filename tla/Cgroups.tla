------------------------------ MODULE Cgroups ------------------------------
(***************************************************************************)
(* The cgroup verbs (kmod/cli.c) and what they do to the tree under        *)
(* /sys/fs/cgroup (kmod/kernel.c), together with what bounds the CPUs of a *)
(* task: its own affinity (kmod/task.c), the cpusets above it and the      *)
(* number of test CPUs (kmod/cpu.c).                                       *)
(*                                                                         *)
(* The kernel's side is what the code relies on: the no-internal-process   *)
(* rule, rmdir's refusal of a group in use, the effective cpuset, and that *)
(* a task keeps to the affinity it was given wherever its cpuset allows.   *)
(***************************************************************************)
EXTENDS Naturals

CONSTANTS
  Tasks,
  Groups,    \* the cgroups that may be made
  Root,      \* "/"
  Parent,    \* the cgroup a path is under
  None,      \* no cgroup is being made
  NumCpus,   \* the machine's CPUs, 0 the controller's
  Lists      \* the cpulists a command may name

CPUs == 0 .. NumCpus - 1

ASSUME TreeAssumption ==
  /\ NumCpus \in Nat \ {0, 1}
  /\ Root \notin Groups /\ None \notin Groups \union {Root}
  /\ Parent \in [Groups -> Groups \union {Root}]
  /\ \A S \in SUBSET Groups : S # {} => \E g \in S : Parent[g] \notin S   \* climbs end
  /\ Lists \subseteq SUBSET CPUs

VARIABLES
  ncpus,     \* kstep_test_ncpus
  dirs,      \* the cgroups there are, the root apart
  control,   \* those with cgroup.subtree_control written
  cpuset,    \* cpuset.cpus; empty where it was never written
  making,    \* the cgroup kstep_cgroup_create() has made and not configured
  life,      \* of a task
  cgroup,    \* a task's cgroup
  affinity,  \* what sched_setaffinity() was last given for a task
  panicked,
  late       \* history: the test CPUs changed after the first cgroup or task

tasks == <<life, cgroup, affinity>>
tree  == <<dirs, control, cpuset, making>>
vars  == <<ncpus, tree, tasks, panicked, late>>

TestCpus == 1 .. ncpus
\* A refused task is one cmd_create() told to exit in its park; it never does.
Present == {t \in Tasks : life[t] \in {"live", "dying", "refused"}}

Init ==
  /\ ncpus = NumCpus - 1
  /\ dirs = {} /\ control = {} /\ cpuset = [g \in Groups |-> {}] /\ making = None
  /\ life = [t \in Tasks |-> "none"]
  /\ cgroup = [t \in Tasks |-> Root]
  /\ affinity = [t \in Tasks |-> {}]
  /\ panicked = FALSE /\ late = FALSE

----------------------------------------------------------------------------
(* The kernel *)

\* The proper ancestors of a group, the root left out.
Above(g) ==
  LET up[h \in Groups \union {Root}] ==
        IF h = Root THEN {} ELSE ({Parent[h]} \union up[Parent[h]]) \ {Root}
  IN up[g]

Inside(g) == {t \in Present : cgroup[t] = g}
Below(g)  == {h \in dirs : g \in Above(h)}
Populated(g) == \E h \in Below(g) \union {g} : Inside(h) # {}

\* A group under one that holds tasks can neither control children nor hold
\* tasks itself (EOPNOTSUPP); one with populated children can hold none (EBUSY).
ValidDomain(g) == \A h \in Above(g) : Inside(h) = {}
CanHost(g) == ValidDomain(g) /\ \A h \in Below(g) : Inside(h) = {}

\* cpuset.cpus.effective: its own CPUs among the parent's, or else the parent's.
Effective(g) ==
  LET eff[h \in Groups \union {Root}] ==
        IF h = Root THEN CPUs
        ELSE LET up == eff[Parent[h]]
             IN IF cpuset[h] \intersect up = {} THEN up ELSE cpuset[h] \intersect up
  IN eff[g]

\* The CPUs a task may run on.
cpus_mask(t) ==
  LET eff == Effective(cgroup[t])
  IN IF affinity[t] \intersect eff = {} THEN eff ELSE affinity[t] \intersect eff

----------------------------------------------------------------------------
(* kernel.c *)

\* Any path is taken for a cgroup.
kstep_cgroup_exists_Any(g) == TRUE

\* The path is there.
kstep_cgroup_exists(g) == g \in dirs \union {Root}

\* rmdir fails on a group in use, and that is a panic.
kstep_rmdir(g) ==
  IF Populated(g) \/ Below(g) # {} THEN panicked' = TRUE /\ UNCHANGED <<dirs, control, cpuset>>
  ELSE /\ dirs' = dirs \ {g}
       /\ control' = control \ {g}
       /\ cpuset' = [cpuset EXCEPT ![g] = {}]
       /\ UNCHANGED panicked

\* mkdir; the rest of kstep_cgroup_create() is configure().
kstep_mkdir(g) ==
  /\ dirs' = dirs \union {g}
  /\ making' = g

\* cpuset.cpus takes any list.
kstep_cgroup_set_cpuset(g, list) == cpuset' = [cpuset EXCEPT ![g] = list]

\* cgroup.procs takes the task, or nothing changes.
kstep_cgroup_move_task(g, t) ==
  cgroup' = IF CanHost(g) THEN [cgroup EXCEPT ![t] = g] ELSE cgroup

\* subtree_control and the cpuset, or the group is removed again.
configure ==
  /\ making # None
  /\ IF ValidDomain(making)
     THEN /\ control' = control \union {making}
          /\ kstep_cgroup_set_cpuset(making, TestCpus)
          /\ UNCHANGED <<dirs, panicked>>
     ELSE kstep_rmdir(making)
  /\ making' = None
  /\ UNCHANGED <<ncpus, tasks, late>>

----------------------------------------------------------------------------
(* The verbs.  One that is refused before it does anything is no step.      *)

Idle == making = None /\ ~panicked

\* cpu-topo, for the number of test CPUs it sets.
cmd_cpu_topo(n) ==
  /\ Idle
  /\ ncpus' = n
  /\ late' = (late \/ dirs # {} \/ \E t \in Tasks : life[t] # "none")
  /\ UNCHANGED <<tree, tasks, panicked>>

\* Every CPU of the machine is let through, the controller's too.
kstep_parse_cpus_Machine(list) == list # {}

\* Test CPUs only, and at least one.
kstep_parse_cpus(list) == list # {} /\ list \subseteq TestCpus

\* A new task is allowed every test CPU and moved, parked, to the cgroup named.
cmd_create(t, g) ==
  /\ Idle /\ life[t] = "none" /\ kstep_cgroup_exists(g)
  /\ affinity' = [affinity EXCEPT ![t] = TestCpus]
  /\ kstep_cgroup_move_task(g, t)
  /\ life' = [life EXCEPT ![t] = IF CanHost(g) THEN "live" ELSE "refused"]
  /\ UNCHANGED <<ncpus, tree, panicked, late>>

\* A list disjoint from the task's cpuset is refused by sched_setaffinity().
cmd_affinity(t, list) ==
  /\ Idle /\ life[t] \in {"live", "dying"}
  /\ kstep_parse_cpus(list)
  /\ list \intersect Effective(cgroup[t]) # {}
  /\ affinity' = [affinity EXCEPT ![t] = list]
  /\ UNCHANGED <<ncpus, tree, life, cgroup, panicked, late>>

cmd_cgroup_create(g) ==
  /\ Idle /\ ~kstep_cgroup_exists(g) /\ kstep_cgroup_exists(Parent[g])
  /\ kstep_mkdir(g)
  /\ UNCHANGED <<ncpus, control, cpuset, tasks, panicked, late>>

cmd_cgroup_cpus(g, list) ==
  /\ Idle /\ g \in dirs
  /\ kstep_parse_cpus(list)
  /\ kstep_cgroup_set_cpuset(g, list)
  /\ UNCHANGED <<ncpus, dirs, control, making, tasks, panicked, late>>

\* Tasks are looked for, children are not.
busy_Tasks(g) == Inside(g) # {}

\* Populated, itself or below, or with children.
busy(g) == Populated(g) \/ Below(g) # {}

cmd_cgroup_destroy(g) ==
  /\ Idle /\ g \in dirs /\ ~busy(g)
  /\ kstep_rmdir(g)
  /\ UNCHANGED <<ncpus, making, tasks, late>>

cmd_cgroup_attach(g, t) ==
  /\ Idle /\ kstep_cgroup_exists(g) /\ life[t] \in {"live", "dying"}
  /\ kstep_cgroup_move_task(g, t)
  /\ UNCHANGED <<ncpus, tree, life, affinity, panicked, late>>

\* The exit is queued ...
kill(t) ==
  /\ Idle /\ life[t] = "live"
  /\ life' = [life EXCEPT ![t] = "dying"]
  /\ UNCHANGED <<ncpus, tree, cgroup, affinity, panicked, late>>

\* ... and the task exits when it next runs, in the middle of a verb too; the
\* dead have no cgroup and no affinity.
exit(t) ==
  /\ life[t] = "dying"
  /\ life' = [life EXCEPT ![t] = "dead"]
  /\ cgroup' = [cgroup EXCEPT ![t] = Root] /\ affinity' = [affinity EXCEPT ![t] = {}]
  /\ UNCHANGED <<ncpus, tree, panicked, late>>

Next ==
  \/ \E n \in 1 .. NumCpus - 1 : cmd_cpu_topo(n)
  \/ \E t \in Tasks, g \in Groups \union {Root} : cmd_create(t, g)
  \/ \E t \in Tasks, list \in Lists : cmd_affinity(t, list)
  \/ \E g \in Groups : cmd_cgroup_create(g) \/ cmd_cgroup_destroy(g)
  \/ configure
  \/ \E g \in Groups, list \in Lists : cmd_cgroup_cpus(g, list)
  \/ \E t \in Tasks, g \in Groups \union {Root} : cmd_cgroup_attach(g, t)
  \/ \E t \in Tasks : kill(t) \/ exit(t)

Spec == Init /\ [][Next]_vars

----------------------------------------------------------------------------
(* Properties *)

\* Only groups that are there have settings, and tasks are in groups that are.
TypeOK ==
  /\ ncpus \in 1 .. NumCpus - 1
  /\ dirs \subseteq Groups /\ control \subseteq dirs
  /\ cpuset \in [Groups -> SUBSET CPUs] /\ \A g \in Groups \ dirs : cpuset[g] = {}
  /\ making \in dirs \union {None}
  /\ life \in [Tasks -> {"none", "live", "dying", "dead", "refused"}]
  /\ cgroup \in [Tasks -> Groups \union {Root}] /\ \A t \in Present : cgroup[t] \in dirs \union {Root}
  /\ affinity \in [Tasks -> SUBSET CPUs]
  /\ panicked \in BOOLEAN /\ late \in BOOLEAN

\* The removals of cgroup-destroy and of a create that could not be configured
\* never find the group in use, where kstep_rmdir() would panic the guest; and
\* between two verbs every cgroup is configured and its parent is there: a create
\* refused half-way leaves no half-configured cgroup behind.
TreeSound ==
  /\ ~panicked
  /\ making = None => \A g \in dirs : /\ g \in control
                                     /\ cpuset[g] # {}
                                     /\ Parent[g] \in dirs \union {Root}

\* No CPU but the test CPUs, and above all not the controller's, is ever open
\* to a task, whatever its affinity and the cpusets of its cgroup and of those
\* above are set to and in whatever order; the test CPUs having been set first.
TasksOnTestCpus ==
  ~late => \A t \in Present : cpus_mask(t) # {} /\ cpus_mask(t) \subseteq TestCpus

============================================================================
