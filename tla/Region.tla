------------------------------- MODULE Region -------------------------------
(***************************************************************************)
(* What the shared region (kmod/shm.h) tells of the machine: the tables    *)
(* kstep_shm_update() (kmod/shm.c) writes at the end of every verb, each   *)
(* of a fixed size and joined with the others by index, and what the host  *)
(* (crates/core/src/shm.rs) reads out of them.                             *)
(*                                                                         *)
(* The machine is that of Cgroups, with the tasks' numbers and classes and *)
(* the hierarchy the scheduler's domains are built from.  A row holds what *)
(* identifies a thing and what joins it to others; the counters beside     *)
(* those are left out.  That a reader never meets the region half-written  *)
(* is Session's.                                                           *)
(***************************************************************************)
EXTENDS Cgroups, SequencesExt

CONSTANTS
  Long,         \* cgroups whose path does not fit a row
  Hierarchies,  \* by the number of test CPUs, the levels a cpu-topo may name:
                \* partitions of them, innermost first
  MaxTasks, MaxCgroups, MaxGroups   \* KSTEP_SHM_TASKS, _CGROUPS, _GROUPS

\* A row that the last update did not write: what an earlier one left, or zeros.
Stale == "stale"

ASSUME RegionAssumption ==
  /\ Stale \notin Groups \union {Root}
  /\ Long \subseteq Groups /\ \A g \in Groups : Above(g) \intersect Long # {} => g \in Long
  /\ \A n \in 1 .. NumCpus - 1 : \A h \in Hierarchies[n] :
       /\ h \in Seq(SUBSET SUBSET CPUs) /\ Len(h) <= 5   \* KSTEP_TOPO_NR
       /\ \A i \in DOMAIN h : UNION h[i] = 1 .. n /\ \A S, T \in h[i] : S # T => S \intersect T = {}
  /\ MaxTasks \in Nat /\ MaxCgroups \in Nat \ {0} /\ MaxGroups \in Nat

MaxEntities == MaxTasks + MaxCgroups * (NumCpus - 1)
MaxDomains  == 5 * (NumCpus - 1)

VARIABLES
  made,      \* the cgroups in the order they were made
  numbered,  \* tasks[]: the session's tasks, by number
  policy,    \* fair or rt
  hierarchy  \* what the domains were last built from

machine == <<made, numbered, policy, hierarchy>>
regionVars == <<vars, machine>>

\* What of s fits n rows.
Fit(s, n) == SubSeq(s, 1, IF Len(s) < n THEN Len(s) ELSE n)

\* What of s is in S: SelectSeq with the test as a set, which a lemma can speak of.
Only(s, S) ==
  LET only[i \in 0 .. Len(s)] ==
        IF i = 0 THEN <<>> ELSE IF s[i] \in S THEN Append(only[i - 1], s[i]) ELSE only[i - 1]
  IN only[Len(s)]

\* 1 to n.
Count(n) == [i \in 1 .. n |-> i]

-----------------------------------------------------------------------------
(* What there is to tell *)

\* css_for_each_descendant_pre(): a cgroup, then those below it, in the order
\* they were made.
Preorder ==
  LET kids(g) == Only(made, {h \in dirs : Parent[h] = g})
      walk[g \in Groups \union {Root}] ==
        <<g>> \o FlattenSeq([i \in 1 .. Len(kids(g)) |-> walk[kids(g)[i]]])
  IN walk[Root]

\* The CPUs a level puts c together with.
Cell(i, c) == IF i = 0 THEN {c} ELSE CHOOSE S \in hierarchy[i] : c \in S

\* The domains of a CPU: the levels that add to the one before (external).
Levels(c) == Only(Count(Len(hierarchy)), {i \in DOMAIN hierarchy : Cell(i, c) # Cell(i - 1, c)})

\* The groups of a domain, the CPU's own first and then round the CPUs.
GroupsOf(i, c) ==
  LET round == [k \in 1 .. ncpus |-> 1 + ((c + k - 2) % ncpus)]
      leads(k) == /\ round[k] \in Cell(i, c)
                  /\ \A j \in 1 .. k - 1 : Cell(i - 1, round[j]) # Cell(i - 1, round[k])
      leaders == Only(Count(ncpus), {k \in 1 .. ncpus : leads(k)})
  IN [k \in DOMAIN leaders |-> Cell(i - 1, round[leaders[k]])]

Domains ==
  FlattenSeq([c \in 1 .. ncpus |->
    [k \in 1 .. Len(Levels(c)) |-> [cpu |-> c, groups |-> GroupsOf(Levels(c)[k], c)]]])

-----------------------------------------------------------------------------
(* The rows, as far as they identify something or join tables. *)

shm_task(i, g)             == [task |-> i, cgroup |-> g]
shm_entity(i, g, c)        == [task |-> i, cgroup |-> g, cpu |-> c]
shm_rt_entity(i)           == [task |-> i]
shm_domain(c, first, size) == [cpu |-> c, group |-> first, ngroups |-> size]

-----------------------------------------------------------------------------
(* shm.c *)

\* The cgroups that have rows: the first ones whose paths fit.
shm_collect_cgroups == Fit(Only(Preorder, (Groups \union {Root}) \ Long), MaxCgroups)

\* Mutant: a cgroup is known by its place in the walk.
shm_group_entities_Walk(rows) ==
  [k \in 1 .. ncpus * (Len(rows) - 1) |->
     LET g == rows[2 + ((k - 1) \div ncpus)]
     IN shm_entity(0, (CHOOSE i \in DOMAIN Preorder : Preorder[i] = g) - 1, 1 + ((k - 1) % ncpus))]

\* For each row but the root's, which is number 0, an entity per test CPU.
shm_group_entities(rows) ==
  [k \in 1 .. ncpus * (Len(rows) - 1) |->
     shm_entity(0, 1 + ((k - 1) \div ncpus), 1 + ((k - 1) % ncpus))]

\* The row of a task's cgroup, counted from 0; without one, the root's.
cgroup_index(rows, g) ==
  IF \E i \in DOMAIN rows : rows[i] = g THEN (CHOOSE i \in DOMAIN rows : rows[i] = g) - 1 ELSE 0

\* The numbers of the tasks that have rows.
shm_tasks ==
  Fit(Only(Count(Len(numbered)), {i \in DOMAIN numbered : life[numbered[i]] # "dead"}), MaxTasks)

\* Mutant: a domain's groups are looked for at the domain's own number.
shm_collect_domains_ByDomain ==
  LET add(t, d) ==
        LET run == Fit(d.groups, MaxGroups - Len(t.groups))
        IN [rows |-> Append(t.rows, shm_domain(d.cpu, Len(t.rows), Len(run))),
            groups |-> t.groups \o run]
  IN FoldLeft(add, [rows |-> <<>>, groups |-> <<>>], Fit(Domains, MaxDomains))

\* The domain rows, and the flat table each names a run of; a domain whose groups
\* do not fit has those that do.
shm_collect_domains ==
  LET add(t, d) ==
        LET run == Fit(d.groups, MaxGroups - Len(t.groups))
        IN [rows |-> Append(t.rows, shm_domain(d.cpu, Len(t.groups), Len(run))),
            groups |-> t.groups \o run]
  IN FoldLeft(add, [rows |-> <<>>, groups |-> <<>>], Fit(Domains, MaxDomains))

\* A table of a given size with these rows at its head, and their number in the
\* header; the size is not looked at.
Table(rows, size) ==
  [n |-> Len(rows), rows |-> [i \in 1 .. size |-> IF i <= Len(rows) THEN rows[i] ELSE Stale]]

\* kstep_shm_update(): the cgroups, the tasks and their classes' tables (where a
\* task's entity is queued is left out: CPU 0, which no group's is on) ...
kstep_shm_update ==
  LET cgroups == shm_collect_cgroups
      grouped == shm_group_entities(cgroups)
      index(i) == cgroup_index(cgroups, cgroup[numbered[i]])
      alive == shm_tasks
      of(p) == Only(alive, {i \in DOMAIN numbered : policy[numbered[i]] = p})
      fair == Fit(of("fair"), MaxEntities - Len(grouped))
      ents == grouped \o [k \in 1 .. Len(fair) |-> shm_entity(fair[k], index(fair[k]), 0)]
  IN [cgroup |-> Table(cgroups, MaxCgroups),
      task   |-> Table([k \in 1 .. Len(alive) |-> shm_task(alive[k], index(alive[k]))], MaxTasks),
      entity |-> Table(ents, MaxEntities),
      rt     |-> Table([k \in 1 .. Len(of("rt")) |-> shm_rt_entity(of("rt")[k])], MaxTasks)]

\* ... and the domains and their groups.
kstep_shm_update_domains ==
  LET dom == shm_collect_domains
  IN [domain |-> Table(dom.rows, MaxDomains), group |-> Table(dom.groups, MaxGroups)]

-----------------------------------------------------------------------------
(* shm.rs *)

\* A table sliced by its count; a count over its size is an error.
table(t) == IF t.n <= Len(t.rows) THEN SubSeq(t.rows, 1, t.n) ELSE <<"error">>

\* decode(): a cgroup by its path, the root's where the index is no row's ...
decode(shm) ==
  LET cgroups == table(shm.cgroup)
      group_path(i) == IF i < Len(cgroups) THEN cgroups[i + 1] ELSE Root
      named(t) == [k \in DOMAIN t |-> [t[k] EXCEPT !.cgroup = group_path(@)]]
  IN [cgroups  |-> cgroups,
      tasks    |-> named(table(shm.task)),
      entities |-> named(table(shm.entity)),
      rt       |-> table(shm.rt)]

\* ... and a domain's run of the groups where it is within the table, else nothing.
decode_domains(shm) ==
  LET groups == table(shm.group)
      named(d) == IF d.group + d.ngroups <= Len(groups)
                  THEN SubSeq(groups, d.group + 1, d.group + d.ngroups) ELSE <<>>
      dom == table(shm.domain)
  IN [k \in DOMAIN dom |-> [cpu |-> dom[k].cpu, groups |-> named(dom[k])]]

-----------------------------------------------------------------------------
(* The verbs, with what they do beside Cgroups.  The region is rewritten at  *)
(* the end of each, so what it then says is a function of the machine.       *)

RegionInit ==
  /\ Init
  /\ made = <<>> /\ numbered = <<>> /\ policy = [t \in Tasks |-> "fair"]
  /\ hierarchy \in Hierarchies[ncpus]

topo(n, h) ==
  /\ cmd_cpu_topo(n)
  /\ hierarchy' = h
  /\ UNCHANGED <<made, numbered, policy>>

\* Only as many as there are rows for; a task refused its cgroup gets no number.
create(t, g) ==
  /\ Len(numbered) < MaxTasks
  /\ cmd_create(t, g)
  /\ numbered' = IF life'[t] = "live" THEN Append(numbered, t) ELSE numbered
  /\ UNCHANGED <<made, policy, hierarchy>>

mkdir(g) ==
  /\ cmd_cgroup_create(g)
  /\ made' = Append(made, g)
  /\ UNCHANGED <<numbered, policy, hierarchy>>

\* cgroup-destroy, and the end of a create, which may remove the group again.
rmdir(g) ==
  /\ cmd_cgroup_destroy(g) \/ (making = g /\ configure)
  /\ made' = Only(made, dirs')
  /\ UNCHANGED <<numbered, policy, hierarchy>>

\* policy-fair and policy-rt.
cmd_policy(t, p) ==
  /\ Idle /\ life[t] \in {"live", "dying"} /\ policy[t] # p
  /\ policy' = [policy EXCEPT ![t] = p]
  /\ UNCHANGED <<vars, made, numbered, hierarchy>>

die(t) ==
  /\ exit(t)
  /\ policy' = [policy EXCEPT ![t] = "fair"]
  /\ UNCHANGED <<made, numbered, hierarchy>>

Other ==
  /\ \/ \E t \in Tasks, list \in Lists : cmd_affinity(t, list)
     \/ \E g \in Groups, list \in Lists : cmd_cgroup_cpus(g, list)
     \/ \E t \in Tasks, g \in Groups \union {Root} : cmd_cgroup_attach(g, t)
     \/ \E t \in Tasks : kill(t)
  /\ UNCHANGED machine

RegionNext ==
  \/ \E n \in 1 .. NumCpus - 1 : \E h \in Hierarchies[n] : topo(n, h)
  \/ \E t \in Tasks, g \in Groups \union {Root} : create(t, g)
  \/ \E g \in Groups : mkdir(g) \/ rmdir(g)
  \/ \E t \in Tasks, p \in {"fair", "rt"} : cmd_policy(t, p)
  \/ \E t \in Tasks : die(t)
  \/ Other

RegionSpec == RegionInit /\ [][RegionNext]_regionVars

-----------------------------------------------------------------------------
(* Properties *)

\* A verb is done: its reply is sent, and the host copies the region.
Told == making = None /\ ~panicked

\* What the host reads after a verb, with each table cut off where it is full.
\* Every cgroup whose path fits has a row, or all rows are taken.
\* Every numbered task that lives is there once, and in its class's table once;
\* both rows and the machine agree on its cgroup, or put it at the root if that
\* cgroup has no row.  A cgroup's parent has a row before it, and it has a group
\* entity on every test CPU.
TablesJoin ==
  Told =>
    LET d == decode(kstep_shm_update)
        shown == Range(d.cgroups)
        place(t) == IF cgroup[t] \in shown THEN cgroup[t] ELSE Root
        alive == {i \in 1 .. Len(numbered) : life[numbered[i]] # "dead"}
    IN /\ Stale \notin shown /\ d.cgroups[1] = Root /\ IsInjective(d.cgroups)
       /\ Len(d.cgroups) < MaxCgroups => shown = (dirs \union {Root}) \ Long
       /\ \A i \in 2 .. Len(d.cgroups) : Parent[d.cgroups[i]] \in Range(SubSeq(d.cgroups, 1, i - 1))
       /\ Len(d.tasks) = Cardinality(alive)
       /\ Range(d.tasks) = {shm_task(i, place(numbered[i])) : i \in alive}
       /\ \A i \in alive :
            LET fair == policy[numbered[i]] = "fair"
            IN /\ Cardinality({k \in DOMAIN d.entities : d.entities[k].task = i}) = IF fair THEN 1 ELSE 0
               /\ Cardinality({k \in DOMAIN d.rt : d.rt[k].task = i}) = IF fair THEN 0 ELSE 1
       /\ \A k \in DOMAIN d.entities :
            d.entities[k].task # 0 => d.entities[k].cgroup = place(numbered[d.entities[k].task])
       /\ {<<d.entities[k].cgroup, d.entities[k].cpu>> : k \in {j \in DOMAIN d.entities : d.entities[j].task = 0}}
            = (shown \ {Root}) \X TestCpus

\* Every domain the kernel built is there, CPU by CPU and innermost first, with
\* its own groups: all of them while the flat table lasts, then a first part,
\* then none, but never another domain's.
DomainsShown ==
  Told =>
    LET built == Domains
        d == decode_domains(kstep_shm_update_domains)
        flat == FlattenSeq([k \in DOMAIN built |-> built[k].groups])
    IN /\ Len(d) = Len(built)
       /\ \A k \in DOMAIN d : d[k].cpu = built[k].cpu /\ IsPrefix(d[k].groups, built[k].groups)
       /\ FlattenSeq([k \in DOMAIN d |-> d[k].groups])
            = Fit(flat, MaxGroups)

=============================================================================
