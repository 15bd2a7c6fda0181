------------------------------ MODULE Checkers ------------------------------
(***************************************************************************)
(* The rules that judge at the end of a tick (checkers/work_conserve.c,    *)
(* checkers/util_decay.c) or at a freeze (checkers/frozen.c), over the     *)
(* tasks they judge, and the freezer behind the freeze and thaw verbs      *)
(* (kernel.c).                                                             *)
(*                                                                         *)
(* A verb acts and is then settled; a tick lets the kernel balance, and the*)
(* rules look.  The freezer is in smaller steps, because a task acts on    *)
(* its signal on its own CPU, while the controller goes on.                *)
(***************************************************************************)
EXTENDS Naturals, FiniteSets

CONSTANTS
  Tasks,
  NCpus,      \* kstep_test_ncpus
  MaxSpares,  \* the machine may have up to so many CPUs more
  IdleTicks,  \* KSTEP_IDLE_TICKS
  Lists,      \* the cpulists an affinity verb names
  None        \* no task; a slot of util_seen that was never used

ASSUME CheckersAssumption ==
  /\ NCpus \in Nat \ {0} /\ MaxSpares \in Nat /\ IdleTicks \in Nat \ {0}
  /\ Lists \subseteq SUBSET (1 .. NCpus) \ {{}} /\ IsFiniteSet(Tasks)
  /\ None \notin Tasks
  /\ None \notin [cpu : 1 .. NCpus, policy : {"fair", "rt"}]
  /\ None \notin [cpu : 1 .. NCpus, policy : {"fair", "rt"}, exited : BOOLEAN]

Cpus     == 1 .. NCpus
Policies == {"fair", "rt"}
Rules    == {"work_conserve", "util_decay"}

VARIABLES
  pc,        \* ready, settle, verdict (a tick's end), or in kstep_freeze_task()
  spares,    \* CPUs beside the controller's and the test CPUs
  st,        \* of a task: none, run, pause, block (freezable), frozen, dead
  back,      \* the sleep a task goes back to when it was not a wakeup that ended it, or run
  cpu, allowed, policy,
  sig,       \* tasks with TIF_SIGPENDING, from a wakeup or the freezer
  enabled,   \* the tick rules that have registered
  idle_streak,
  valid,     \* last_util[cpu].valid
  seen,      \* util_seen[]
  pm_freezing,
  tgt,       \* the task of the freeze under way
  before,    \* state_before
  \* history
  stated,    \* tick ends in a row at which the rule as its comment has it was broken
  snap       \* the tasks as they were at the verdict before

tasks   == <<st, back, cpu, allowed, policy, sig>>
rules   == <<enabled, idle_streak, valid, seen, stated, snap>>
freezer == <<pm_freezing, tgt, before>>
vars    == <<pc, spares, tasks, rules, freezer>>

num_online_cpus == 1 + NCpus + spares
Session == {t \in Tasks : st[t] # "none"}     \* kstep_session_tasks()
Runnable == {t \in Tasks : st[t] = "run"}
OnRq(c) == {t \in Runnable : cpu[t] = c}      \* what nr_running counts

Now(t) == [cpu |-> cpu[t], policy |-> policy[t], exited |-> st[t] = "dead"]

Init ==
  /\ pc = "ready" /\ spares \in 0 .. MaxSpares
  /\ st = [t \in Tasks |-> "none"] /\ back = [t \in Tasks |-> "run"]
  /\ cpu = [t \in Tasks |-> 1] /\ allowed = [t \in Tasks |-> Cpus]
  /\ policy = [t \in Tasks |-> "fair"] /\ sig = {}
  /\ enabled = {} /\ idle_streak = 0
  /\ valid = [c \in Cpus |-> FALSE] /\ seen = [t \in Tasks |-> None]
  /\ pm_freezing = FALSE /\ tgt = None /\ before = "none"
  /\ stated = 0 /\ snap = [t \in Tasks |-> None]

-----------------------------------------------------------------------------
(* The verbs that the rules see the effect of. *)

Verb == pc = "ready" /\ pc' = "settle" /\ UNCHANGED <<spares, rules, freezer>>

\* A task is made parked, and woken with a signal to take.
cmd_create(t) ==
  /\ Verb /\ st[t] = "none"
  /\ st' = [st EXCEPT ![t] = "run"] /\ sig' = sig \union {t}
  /\ \E c \in Cpus : cpu' = [cpu EXCEPT ![t] = c]
  /\ UNCHANGED <<back, allowed, policy>>

\* send_sig(): a sleeper runs again, where the scheduler puts it, and takes the
\* signal there; one that is frozen keeps it.
kstep_task_wakeup(t) ==
  /\ Verb /\ st[t] \notin {"none", "dead"}
  /\ sig' = sig \union {t} /\ back' = [back EXCEPT ![t] = "run"]
  /\ IF st[t] \in {"pause", "block"}
       THEN /\ st' = [st EXCEPT ![t] = "run"]
            /\ \E c \in allowed[t] : cpu' = [cpu EXCEPT ![t] = c]
       ELSE UNCHANGED <<st, cpu>>
  /\ UNCHANGED <<allowed, policy>>

\* pause, block and kill, of a task that runs: it acts on them at its next read.
Sleep(t, s) ==
  /\ Verb /\ st[t] = "run" /\ t \notin sig
  /\ st' = [st EXCEPT ![t] = s]
  /\ UNCHANGED <<back, cpu, allowed, policy, sig>>

cmd_affinity(t, list) ==
  /\ Verb /\ st[t] \notin {"none", "dead"}
  /\ allowed' = [allowed EXCEPT ![t] = list]
  /\ IF cpu[t] \in list THEN UNCHANGED cpu
     ELSE \E c \in list : cpu' = [cpu EXCEPT ![t] = c]
  /\ UNCHANGED <<st, back, policy, sig>>

\* policy-fair and policy-rt.
cmd_policy(t, p) ==
  /\ Verb /\ st[t] \notin {"none", "dead"} /\ policy[t] # p
  /\ policy' = [policy EXCEPT ![t] = p]
  /\ UNCHANGED <<st, back, cpu, allowed, sig>>

\* check: the rule joins the tick's callbacks.
cmd_check(r) ==
  /\ pc = "ready" /\ pc' = "settle"
  /\ enabled' = enabled \union {r}
  /\ UNCHANGED <<spares, tasks, idle_streak, valid, seen, stated, snap, freezer>>

-----------------------------------------------------------------------------
(* The freezer *)

\* Mutant: the freezer is started before the task is looked at.
kstep_freeze_task_StartFirst(t) ==
  /\ pc = "ready" /\ st[t] \notin {"none", "dead"}
  /\ pm_freezing' = TRUE
  /\ IF st[t] = "frozen"
       THEN pc' = "settle" /\ UNCHANGED tgt
       ELSE /\ pc' = "freeze" /\ tgt' = t
  /\ UNCHANGED <<spares, tasks, rules, before>>

\* A frozen task is left alone; else the freezer is started.
kstep_freeze_task(t) ==
  /\ pc = "ready" /\ st[t] \notin {"none", "dead"}
  /\ IF st[t] = "frozen"
       THEN pc' = "settle" /\ UNCHANGED <<pm_freezing, tgt>>
       ELSE /\ pm_freezing' = TRUE
            /\ pc' = "freeze" /\ tgt' = t
  /\ UNCHANGED <<spares, tasks, rules, before>>

\* freeze_task() (external): a freezable sleeper is frozen in place; any other is
\* sent a signal that is none, which wakes a sleeper.
freeze_task ==
  /\ pc = "freeze" /\ pc' = "emit"
  /\ before' = st[tgt]
  /\ IF st[tgt] = "block"
       THEN /\ st' = [st EXCEPT ![tgt] = "frozen"] /\ back' = [back EXCEPT ![tgt] = "block"]
            /\ UNCHANGED <<cpu, sig>>
       ELSE /\ sig' = sig \union {tgt}
            /\ IF st[tgt] = "pause"
                 THEN /\ st' = [st EXCEPT ![tgt] = "run"] /\ back' = [back EXCEPT ![tgt] = "pause"]
                      /\ \E c \in allowed[tgt] : cpu' = [cpu EXCEPT ![tgt] = c]
                 ELSE UNCHANGED <<st, back, cpu>>
  /\ UNCHANGED <<spares, allowed, policy, rules, pm_freezing, tgt>>

\* Mutant: any sleeper is taken for a freezable one.
on_freeze_AnySleeper == before \in {"pause", "block"} => st[tgt] = "frozen"

\* What the frozen rule says of the task, or else warns.
on_freeze == before = "block" => st[tgt] = "frozen"

\* Mutant: the freezer is not stopped.
kstep_freezer_stop_Never == UNCHANGED pm_freezing

kstep_freezer_stop == pm_freezing' = FALSE

\* The event, and the end of the freezer's time.
FreezeReturns ==
  /\ pc = "emit" /\ pc' = "settle"
  /\ kstep_freezer_stop
  /\ tgt' = None /\ before' = "none"
  /\ UNCHANGED <<spares, tasks, rules>>

\* A task takes its signal on the way to user mode (external): it freezes if
\* the freezer is at work, whomever it was started for; else it goes on, and
\* one that the freezer woke for nothing goes back to its sleep.
TakeSignal(t) ==
  /\ st[t] = "run" /\ t \in sig
  /\ IF pm_freezing
       THEN st' = [st EXCEPT ![t] = "frozen"] /\ UNCHANGED <<sig, back>>
       ELSE /\ st' = [st EXCEPT ![t] = back[t]]
            /\ back' = [back EXCEPT ![t] = "run"]
            /\ sig' = sig \ {t}
  /\ UNCHANGED <<pc, spares, cpu, allowed, policy, rules, freezer>>

\* __thaw_task() (external): back to the sleep it was frozen in or, with a
\* signal pending, to take that first.
kstep_thaw_task(t) ==
  /\ Verb /\ st[t] \notin {"none", "dead"}
  /\ IF st[t] = "frozen"
       THEN /\ st' = [st EXCEPT ![t] = IF t \in sig THEN "run" ELSE back[t]]
            /\ back' = [back EXCEPT ![t] = IF t \in sig THEN @ ELSE "run"]
       ELSE UNCHANGED <<st, back>>
  /\ UNCHANGED <<cpu, allowed, policy, sig>>

\* kstep_settle(): on every CPU the task that runs has no signal left to take;
\* one queued behind it may.
kstep_settle ==
  /\ pc = "settle" /\ pc' = "ready"
  /\ \A c \in Cpus : OnRq(c) = {} \/ ~ OnRq(c) \subseteq sig
  /\ UNCHANGED <<spares, tasks, rules, freezer>>

-----------------------------------------------------------------------------
(* The tick and the rules at its end. *)

\* The tick's balance may move a task that shares its CPU (external).
kstep_tick ==
  /\ pc = "ready" /\ pc' = "verdict"
  /\ \/ UNCHANGED cpu
     \/ \E t \in Runnable : \E c \in allowed[t] :
          /\ Cardinality(OnRq(cpu[t])) > 1
          /\ cpu' = [cpu EXCEPT ![t] = c]
  /\ UNCHANGED <<spares, st, back, allowed, policy, sig, rules, freezer>>

Idle == {c \in Cpus : OnRq(c) = {}}
Waiting == {t \in Runnable : Cardinality(OnRq(cpu[t])) > 1 /\ allowed[t] \intersect Idle # {}}

Bump(k) == IF k < IdleTicks THEN k + 1 ELSE k

\* Mutant: the streak is not reset.
work_conserve_Sticky ==
  idle_streak' = IF Idle = {} \/ Waiting = {} \/ Cardinality(Runnable) < num_online_cpus - 1
                 THEN idle_streak ELSE Bump(idle_streak)

\* work_conserve's on_tick_end(): how long it has been so.  It warns from
\* IdleTicks on, so that longer streaks are alike.
work_conserve ==
  idle_streak' = IF Idle = {} \/ Waiting = {} \/ Cardinality(Runnable) < num_online_cpus - 1
                 THEN 0 ELSE Bump(idle_streak)

\* A task seen before is elsewhere, in another class, or has exited.
moved(t) ==
  seen[t] # None /\ (seen[t].cpu # cpu[t] \/ seen[t].policy # policy[t] \/ st[t] = "dead")

\* Mutant: only the CPU a task is on now is voided.
voided_Here ==
  {cpu[t] : t \in {u \in Session : seen[u] = None \/ moved(u)}}

\* The CPUs whose baseline is void.
voided ==
  {cpu[t] : t \in {u \in Session : seen[u] = None \/ moved(u)}}
    \union {seen[t].cpu : t \in {u \in Session : moved(u)}}

\* The CPUs whose util is compared with the last tick's.
judged == {c \in Cpus : valid[c]} \ voided

\* util_decay's on_tick_end(): those judged, every baseline is renewed.
util_decay ==
  /\ valid' = [c \in Cpus |-> TRUE]
  /\ seen' = [t \in Tasks |-> IF t \in Session THEN [cpu |-> cpu[t], policy |-> policy[t]] ELSE None]

\* The rule as work_conserve.c's comment has it, test CPUs counted.
AsStated == Idle # {} /\ Waiting # {} /\ Cardinality(Runnable) >= NCpus

\* kstep_emit(tick_end).
Verdict ==
  /\ pc = "verdict" /\ pc' = "ready"
  /\ IF "work_conserve" \in enabled
       THEN /\ work_conserve
            /\ stated' = IF AsStated THEN Bump(stated) ELSE 0
       ELSE UNCHANGED <<idle_streak, stated>>
  /\ IF "util_decay" \in enabled
       THEN util_decay /\ snap' = [t \in Tasks |-> IF t \in Session THEN Now(t) ELSE None]
       ELSE UNCHANGED <<valid, seen, snap>>
  /\ UNCHANGED <<spares, tasks, enabled, freezer>>

Next ==
  \/ \E t \in Tasks : cmd_create(t)
  \/ \E t \in Tasks : kstep_task_wakeup(t)
  \/ \E t \in Tasks, s \in {"pause", "block", "dead"} : Sleep(t, s)
  \/ \E t \in Tasks, list \in Lists : cmd_affinity(t, list)
  \/ \E t \in Tasks, p \in Policies : cmd_policy(t, p)
  \/ \E r \in Rules : cmd_check(r)
  \/ \E t \in Tasks : kstep_freeze_task(t)
  \/ freeze_task
  \/ FreezeReturns
  \/ \E t \in Tasks : TakeSignal(t)
  \/ \E t \in Tasks : kstep_thaw_task(t)
  \/ kstep_settle
  \/ kstep_tick
  \/ Verdict

Spec == Init /\ [][Next]_vars

-----------------------------------------------------------------------------
(* Properties *)

TypeOK ==
  /\ pc \in {"ready", "settle", "verdict", "freeze", "emit"} /\ spares \in 0 .. MaxSpares
  /\ st \in [Tasks -> {"none", "run", "pause", "block", "frozen", "dead"}]
  /\ back \in [Tasks -> {"run", "pause", "block"}]
  /\ cpu \in [Tasks -> Cpus] /\ allowed \in [Tasks -> SUBSET Cpus] /\ policy \in [Tasks -> Policies]
  /\ sig \subseteq Tasks /\ enabled \subseteq Rules
  /\ idle_streak \in 0 .. IdleTicks /\ stated \in 0 .. IdleTicks
  /\ valid \in [Cpus -> BOOLEAN]
  /\ pm_freezing \in BOOLEAN /\ (pm_freezing <=> pc \in {"freeze", "emit"})
  /\ tgt \in Tasks \union {None} /\ (tgt # None <=> pm_freezing)

\* work_conserve warns only when what its comment says has been so at each of
\* the last IdleTicks tick ends, and always then if the machine has no spare
\* CPU: it counts the machine's CPUs where the comment counts the test CPUs.
WorkConserveAsStated ==
  pc = "ready" /\ "work_conserve" \in enabled =>
    /\ idle_streak = IdleTicks => stated = IdleTicks
    /\ stated = IdleTicks /\ spares = 0 => idle_streak = IdleTicks

\* util_decay compares a CPU with its last tick's util only if every task that
\* was there then is there still, in its class and alive: whoever left took its
\* share of the util along.  And it leaves a CPU out only when a task has come,
\* left, or changed class there since, or a task that exited is still counted
\* there: the baseline is not lost to anything else.  (An exited task voids its
\* CPU's baseline at every tick from then on.)
JudgedExactly ==
  [][pc = "verdict" /\ pc' = "ready" /\ "util_decay" \in enabled =>
       /\ \A c \in judged, t \in Tasks :
            snap[t] # None /\ snap[t].cpu = c /\ ~snap[t].exited => Now(t) = snap[t]
       /\ \A c \in Cpus \ judged :
            \/ ~valid[c]
            \/ \E t \in Session : snap[t] # Now(t) /\ (cpu[t] = c \/ (snap[t] # None /\ snap[t].cpu = c))
            \/ \E t \in Session : st[t] = "dead" /\ cpu[t] = c]_vars

\* A freezable sleeper that is told to freeze is frozen when the frozen rule
\* looks, whatever else was pending: on a kernel that does as it should the rule
\* is silent.
NoFalseAlarm == pc = "emit" => on_freeze

\* A task freezes only while a freeze is under way, and only the one it is for
\* or one that had a signal yet to take: the freezer is global while it is at
\* work, so it must be at work no longer than the call.
FrozenOnlyInFreeze ==
  [][\A t \in Tasks : st[t] # "frozen" /\ st'[t] = "frozen" =>
       tgt # None /\ (t = tgt \/ t \in sig)]_vars

=============================================================================
