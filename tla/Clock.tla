------------------------------- MODULE Clock -------------------------------
(***************************************************************************)
(* How the module takes the machine over and what it then steps: the order *)
(* of kstep_main() (kmod/main.c), the isolation of the test CPUs           *)
(* (kmod/isolation.c), the mocked jiffies and scheduler clock              *)
(* (kmod/tick_jiffies.c, kmod/tick_clock.c), the reset of what the kernel  *)
(* had stamped with the real ones (kmod/reset.c), and the tick with the    *)
(* bandwidth period timers it drives (kmod/tick.c).                        *)
(*                                                                         *)
(* The kernel's side (external) goes on meanwhile: sched timers, kworkers  *)
(* and kernel threads stamp runqueues and update jiffies until they have   *)
(* been stopped, CPU 0 for ever.  Time is in ticks; a real stamp is later  *)
(* than any mocked one, and one real stamp is as good as another (Real).   *)
(***************************************************************************)
EXTENDS Naturals, Sequences

CONSTANTS
  Tasks,     \* the driver's
  NCpus,     \* kstep_test_ncpus
  Periods,   \* the bandwidth timers: each one's period in ticks
  MaxTicks,  \* bound on the ticks taken
  Real,      \* a time of the real clock and of the real jiffies
  None       \* no CPU

ASSUME ClockAssumption ==
  /\ NCpus \in Nat \ {0} /\ MaxTicks \in Nat /\ Real \in Nat /\ Real > MaxTicks + 2
  /\ \A k \in DOMAIN Periods : Periods[k] \in Nat
  /\ None \notin 0 .. NCpus

TestCpus == 1 .. NCpus
AllCpus  == 0 .. NCpus
Timers   == DOMAIN Periods

VARIABLES
  pc,            \* the step of kstep_main(), of kstep_tick(), or ready
  panicked,      \* why, or "no"
  \* isolation: where the kernel may still act by itself
  sched_timer,   \* CPUs with a tick of their own
  nworkers,      \* kworkers of each CPU's pool, counted up to 2
  worker_mask,   \* the CPUs that the workers of a pool may run on
  bound,         \* pools that are tied to their CPU
  kthreads,      \* CPUs that any other kernel thread may run on
  \* clocks
  timekeeper,    \* tick_do_timer_cpu is a CPU
  next_period,   \* tick_next_period is a real time, not KTIME_MAX
  updating,      \* test CPUs inside tick_do_update_jiffies64()
  jiffies,       \* the kernel's, less INITIAL_JIFFIES
  kstep_jiffies,
  offset,        \* kstep_jiffies_offset, less INITIAL_JIFFIES
  mocked,        \* sched_clock() is kstep_sched_clock_get()
  kstep_sched_clock,
  \* stamps
  rq_clock,      \* rq->clock and its kin
  next_balance,  \* rq->next_balance, and sd->last_balance
  rq_avg,        \* last_update_time of the runqueue's own averages
  \* tasks
  st, cpu,
  avg,           \* se.avg.last_update_time; 0 is detached
  load,          \* the CPU whose cfs_rq's load the task's is part of
  \* the tick
  scan,          \* for_each_test_cpu
  moving,        \* test CPUs that have yet to act on something
  active,        \* period timers in use: period_active
  armed,         \* those whose hrtimer is queued
  todo,          \* kstep_bandwidth_tick()'s walk of the task groups
  \* history
  early,         \* tasks that were runnable when they were reset
  twice,         \* a load was added that was there
  fresh,         \* timers the kernel armed since the last walk
  off,           \* a timer went off by itself that was not fresh
  fired          \* timers that went off or were fired since the last settle

isolation == <<sched_timer, nworkers, worker_mask, bound, kthreads>>
timekeeping == <<timekeeper, next_period, updating>>
counters  == <<jiffies, kstep_jiffies, offset>>
clock     == <<mocked, kstep_sched_clock>>
stamps    == <<rq_clock, next_balance, rq_avg>>
tasks     == <<st, cpu, avg, load, early, twice>>
bandwidth == <<active, armed, fresh, off, fired>>
vars == <<pc, panicked, isolation, timekeeping, counters, clock, stamps, tasks,
          scan, moving, bandwidth, todo>>

\* What the scheduler reads, and what update_rq_clock() makes of it: a step back
\* is dropped.
sched_clock == IF mocked THEN kstep_sched_clock ELSE Real
Stamp(c) == IF sched_clock > rq_clock[c] THEN sched_clock ELSE rq_clock[c]

Init ==
  /\ pc = "kstep_sym_init" /\ panicked = "no"
  /\ sched_timer = AllCpus /\ kthreads = AllCpus
  /\ nworkers = [c \in AllCpus |-> 1] /\ worker_mask = [c \in AllCpus |-> {c}] /\ bound = AllCpus
  /\ timekeeper = TRUE /\ next_period = TRUE /\ updating = {}
  /\ jiffies = Real /\ kstep_jiffies = 0 /\ offset = 0
  /\ mocked = FALSE /\ kstep_sched_clock = 1
  /\ rq_clock = [c \in AllCpus |-> Real] /\ next_balance = [c \in AllCpus |-> Real]
  /\ rq_avg = [c \in AllCpus |-> Real]
  /\ st = [t \in Tasks |-> "none"] /\ cpu = [t \in Tasks |-> 0]
  /\ avg = [t \in Tasks |-> 0] /\ load = [t \in Tasks |-> None]
  /\ scan = 1 /\ moving = {} /\ todo = {}
  /\ active \in SUBSET Timers /\ armed = active /\ fresh = active /\ off = FALSE /\ fired = {}
  /\ early = {} /\ twice = FALSE

-----------------------------------------------------------------------------
(* kstep_main() *)

\* Mutant: the reset comes before the clock is mocked.
kstep_main_ResetFirst ==
  <<"kstep_sym_init", "kstep_prealloc_kworkers", "kstep_disable_workqueue", "kstep_move_kthreads",
    "setup", "kstep_tick_init", "tick_do_timer_cpu", "tick_next_period", "kstep_jiffies_set",
    "kstep_reset_runqueues", "kstep_reset_tasks", "kstep_sched_clock_init", "ready">>

\* Mutant: the kernel threads are moved before the workqueues are let go of.
kstep_main_MoveFirst ==
  <<"kstep_sym_init", "kstep_prealloc_kworkers", "kstep_move_kthreads", "kstep_disable_workqueue",
    "setup", "kstep_tick_init", "tick_do_timer_cpu", "tick_next_period", "kstep_jiffies_set",
    "kstep_sched_clock_init", "kstep_reset_runqueues", "kstep_reset_tasks", "ready">>

\* The steps that matter here, kstep_jiffies_init() in its three stores.
kstep_main ==
  <<"kstep_sym_init", "kstep_prealloc_kworkers", "kstep_disable_workqueue", "kstep_move_kthreads",
    "setup", "kstep_tick_init", "tick_do_timer_cpu", "tick_next_period", "kstep_jiffies_set",
    "kstep_sched_clock_init", "kstep_reset_runqueues", "kstep_reset_tasks", "ready">>

\* kstep_driver->run().
Running ==
  pc \in {"ready", "settles", "kstep_tick", "kstep_sched_clock_tick", "kstep_jiffies_tick",
          "kstep_do_sched_tick", "tick settles", "kstep_bandwidth_tick"}

Step(name) ==
  /\ panicked = "no" /\ pc = name
  /\ \E i \in 1 .. Len(kstep_main) : kstep_main[i] = name /\ pc' = kstep_main[i + 1]

\* One driver of the name, and an address for every KSYM_ symbol, or a panic.
kstep_sym_init(drivers, resolved) ==
  /\ IF drivers = 1 /\ resolved THEN Step("kstep_sym_init") /\ UNCHANGED panicked
     ELSE panicked = "no" /\ pc = "kstep_sym_init" /\ panicked' = "symbol" /\ UNCHANGED pc
  /\ UNCHANGED <<isolation, timekeeping, counters, clock, stamps, tasks, scan, moving, bandwidth, todo>>

\* Two works at once on each CPU: the pool has two workers from then on.
kstep_prealloc_kworkers ==
  /\ Step("kstep_prealloc_kworkers")
  /\ nworkers' = [c \in AllCpus |-> 2]
  /\ UNCHANGED <<panicked, sched_timer, worker_mask, bound, kthreads, timekeeping, counters, clock,
                 stamps, tasks, scan, moving, bandwidth, todo>>

\* workqueue_offline_cpu(): the pool is no longer tied to its CPU, and its
\* workers may be anywhere.
kstep_disable_workqueue ==
  /\ Step("kstep_disable_workqueue")
  /\ bound' = bound \ TestCpus
  /\ worker_mask' = [c \in AllCpus |-> IF c \in TestCpus THEN AllCpus ELSE worker_mask[c]]
  /\ UNCHANGED <<panicked, sched_timer, nworkers, kthreads, timekeeping, counters, clock,
                 stamps, tasks, scan, moving, bandwidth, todo>>

\* Every kernel thread there is goes to CPU 0, the workers included; not the
\* threads that serve the CPU itself, which act only for others.
kstep_move_kthreads ==
  /\ Step("kstep_move_kthreads")
  /\ kthreads' = {0} /\ worker_mask' = [c \in AllCpus |-> {0}]
  /\ UNCHANGED <<panicked, sched_timer, nworkers, bound, timekeeping, counters, clock,
                 stamps, tasks, scan, moving, bandwidth, todo>>

\* hrtimer_cancel() waits for a timer that is being handled.
kstep_tick_init ==
  /\ updating = {}
  /\ Step("kstep_tick_init")
  /\ sched_timer' = sched_timer \ TestCpus
  /\ UNCHANGED <<panicked, nworkers, worker_mask, bound, kthreads, timekeeping, counters, clock,
                 stamps, tasks, scan, moving, bandwidth, todo>>

\* kstep_jiffies_init(): no CPU is the timekeeper ...
tick_do_timer_cpu ==
  /\ Step("tick_do_timer_cpu")
  /\ timekeeper' = FALSE
  /\ UNCHANGED <<panicked, isolation, next_period, updating, counters, clock, stamps, tasks, scan,
                 moving, bandwidth, todo>>

\* Mutant: tick_next_period is left as it is.
tick_next_period_Kept ==
  /\ Step("tick_next_period")
  /\ UNCHANGED <<panicked, isolation, timekeeping, counters, clock, stamps, tasks,
                 scan, moving, bandwidth, todo>>

\* ... no other CPU steps in for it ...
tick_next_period ==
  /\ Step("tick_next_period")
  /\ next_period' = FALSE
  /\ UNCHANGED <<panicked, isolation, timekeeper, updating, counters, clock, stamps, tasks, scan,
                 moving, bandwidth, todo>>

\* ... and the count begins.
kstep_jiffies_set ==
  /\ Step("kstep_jiffies_set")
  /\ offset' = 1 /\ kstep_jiffies' = 0 /\ jiffies' = 1
  /\ UNCHANGED <<panicked, isolation, timekeeping, clock, stamps, tasks, scan, moving, bandwidth, todo>>

kstep_sched_clock_init ==
  /\ Step("kstep_sched_clock_init")
  /\ mocked' = TRUE
  /\ UNCHANGED <<panicked, isolation, timekeeping, counters, kstep_sched_clock, stamps, tasks, scan,
                 moving, bandwidth, todo>>

\* The test CPUs' runqueues, without their locks: clocks, balance stamps, and
\* the averages with all the load in them; of CPU 0's only the clocks.
kstep_reset_runqueues ==
  /\ Step("kstep_reset_runqueues")
  /\ rq_clock' = [c \in AllCpus |-> 1]
  /\ next_balance' = [c \in AllCpus |-> IF c = 0 THEN next_balance[c] ELSE jiffies]
  /\ rq_avg' = [c \in AllCpus |-> IF c = 0 THEN rq_avg[c] ELSE 0]
  /\ load' = [t \in Tasks |-> IF load[t] = 0 THEN 0 ELSE None]
  /\ UNCHANGED <<panicked, isolation, timekeeping, counters, clock, st, cpu, avg, early, twice,
                 scan, moving, bandwidth, todo>>

\* Mutant: last_update_time is set to the epoch.
reset_sched_avg_Epoch == 1

\* An average that is reset is detached.
reset_sched_avg == 0

\* Every process that is not on CPU 0.
kstep_reset_tasks ==
  /\ Step("kstep_reset_tasks")
  /\ avg' = [t \in Tasks |-> IF cpu[t] = 0 THEN avg[t] ELSE reset_sched_avg]
  /\ early' = {t \in Tasks : st[t] = "run"}
  /\ UNCHANGED <<panicked, isolation, timekeeping, counters, clock, stamps, st, cpu, load, twice,
                 scan, moving, bandwidth, todo>>

-----------------------------------------------------------------------------
(* The kernel by itself (external) *)

\* Real time passes for a jiffies count: a mocked one would be one too many.
Later(j) == IF j < Real THEN j + 1 ELSE j

Runs(t, c) == st[t] = "run" /\ cpu[t] = c

\* What a tick on CPU c does to its runqueue and to the averages of those there.
Ticked(c) ==
  /\ rq_clock' = [rq_clock EXCEPT ![c] = Stamp(c)]
  /\ next_balance' = [next_balance EXCEPT ![c] = IF jiffies >= @ THEN Later(jiffies) ELSE @]
  /\ rq_avg' = [rq_avg EXCEPT ![c] = IF Stamp(c) > @ THEN Stamp(c) ELSE @]
  /\ avg' = [t \in Tasks |-> IF Runs(t, c) /\ avg[t] # 0 THEN Stamp(c) ELSE avg[t]]

\* A CPU's own tick.  The timekeeper (CPU 0) updates jiffies; any CPU that has
\* seen them stand still for a few ticks does too, once tick_next_period has
\* come.  On CPU 0 all of it interrupts the controller; a test CPU may go on to
\* switch tasks.
tick_sched_timer(c) ==
  /\ panicked = "no" /\ c \in sched_timer \ updating
  /\ Ticked(c)
  /\ moving' = moving \/ ((\E t \in Tasks : Runs(t, c)) /\ moving' = moving \union {c})
  /\ \/ UNCHANGED <<jiffies, updating>>
     \/ (timekeeper \/ next_period) /\ c = 0 /\ jiffies' = Later(jiffies) /\ UNCHANGED updating
     \/ next_period /\ c # 0 /\ updating' = updating \union {c} /\ UNCHANGED jiffies
  /\ UNCHANGED <<pc, panicked, isolation, timekeeper, next_period, kstep_jiffies, offset, clock,
                 st, cpu, load, early, twice, scan, bandwidth, todo>>

\* The update ends by setting the next period.
tick_do_update_jiffies64(c) ==
  /\ c \in updating
  /\ updating' = updating \ {c} /\ jiffies' = Later(jiffies) /\ next_period' = TRUE
  /\ UNCHANGED <<pc, panicked, isolation, timekeeper, kstep_jiffies, offset, clock, stamps, tasks,
                 scan, moving, bandwidth, todo>>

\* A work of CPU c's pool blocks: with no second worker, one is made, tied to the
\* CPU if the pool is, free to be anywhere if not.
BlockingWork(c) ==
  /\ panicked = "no" /\ nworkers[c] = 1
  /\ nworkers' = [nworkers EXCEPT ![c] = 2]
  /\ worker_mask' = [worker_mask EXCEPT ![c] = @ \union (IF c \in bound THEN {c} ELSE AllCpus)]
  /\ UNCHANGED <<pc, panicked, sched_timer, bound, kthreads, timekeeping, counters, clock, stamps,
                 tasks, scan, moving, bandwidth, todo>>

-----------------------------------------------------------------------------
(* The driver's tasks, in setup() and in run() *)

Driver(p) == panicked = "no" /\ pc = p /\ p \in {"setup", "ready"}

\* Where a call that settles waits.
Waiting == IF pc = "setup" THEN "setup settles" ELSE "settles"

\* t is enqueued on c: one that has changed CPU was detached, and one that is
\* detached is attached (external).
Enqueue(t, c) ==
  LET a == IF c = cpu[t] THEN avg[t] ELSE 0
      l == IF c = cpu[t] THEN load[t] ELSE None
  IN /\ avg'  = [avg EXCEPT ![t] = IF a = 0 THEN Stamp(c) ELSE a]
     /\ load' = [load EXCEPT ![t] = IF a = 0 THEN c ELSE l]
     /\ twice' = (twice \/ (a = 0 /\ l # None))
     /\ cpu'  = [cpu EXCEPT ![t] = c]
     /\ rq_clock' = [rq_clock EXCEPT ![c] = Stamp(c)]
     /\ early' = early \ {t}

\* The task parks on CPU 0, where it has run; it is reset and keeps its CPU
\* until it is woken, which is never on CPU 0.
kstep_task_create(t) ==
  /\ Driver(pc) /\ st[t] = "none"
  /\ st' = [st EXCEPT ![t] = "sleep"]
  /\ load' = [load EXCEPT ![t] = 0]
  /\ avg' = [avg EXCEPT ![t] = reset_sched_avg]
  /\ UNCHANGED <<pc, panicked, isolation, timekeeping, counters, clock, stamps, cpu, early, twice,
                 scan, moving, bandwidth, todo>>

kstep_task_wakeup(t, c) ==
  /\ Driver(pc) /\ st[t] = "sleep" /\ pc' = Waiting
  /\ st' = [st EXCEPT ![t] = "run"]
  /\ Enqueue(t, c)
  /\ moving' = moving \union {c}
  /\ UNCHANGED <<panicked, isolation, timekeeping, counters, clock, next_balance, rq_avg, scan, bandwidth, todo>>

kstep_task_pause(t) ==
  /\ Driver(pc) /\ st[t] = "run" /\ pc' = Waiting
  /\ st' = [st EXCEPT ![t] = "sleep"]
  /\ moving' = moving \union {cpu[t]}
  /\ early' = early \ {t}
  /\ UNCHANGED <<panicked, isolation, timekeeping, counters, clock, stamps, cpu, avg, load, twice,
                 scan, bandwidth, todo>>

\* setup() returns.
setup ==
  /\ Step("setup")
  /\ UNCHANGED <<panicked, isolation, timekeeping, counters, clock, stamps, tasks, scan, moving, bandwidth, todo>>

\* A balance moves a runnable task, in the tick that kstep makes or, as long as
\* they are on, in the CPUs' own.
Balance(t, c) ==
  /\ panicked = "no" /\ st[t] = "run" /\ c # cpu[t]
  /\ pc = "kstep_do_sched_tick" \/ c \in sched_timer
  /\ Enqueue(t, c)
  /\ moving' = moving \union {c}
  /\ UNCHANGED <<pc, panicked, isolation, timekeeping, counters, clock, next_balance, rq_avg, st,
                 scan, bandwidth, todo>>

\* A test CPU acts on what it was asked (external).
Act(c) ==
  /\ c \in moving
  /\ moving' = moving \ {c}
  /\ rq_clock' = [rq_clock EXCEPT ![c] = Stamp(c)]
  /\ UNCHANGED <<pc, panicked, isolation, timekeeping, counters, clock, next_balance, rq_avg, tasks,
                 scan, bandwidth, todo>>

-----------------------------------------------------------------------------
(* kstep_tick() *)

\* The step after a settle.
AfterSettle ==
  [x \in {"setup settles", "settles", "kstep_tick", "tick settles"} |->
     CASE x = "setup settles" -> "setup"
       [] x = "settles" -> "ready"
       [] x = "kstep_tick" -> "kstep_sched_clock_tick"
       [] OTHER -> "kstep_bandwidth_tick"]

\* Mutant: the tick does not wait for what it asked of the CPUs.
kstep_settle_NotInTick ==
  /\ panicked = "no" /\ pc \in DOMAIN AfterSettle /\ (moving = {} \/ pc = "tick settles")
  /\ pc' = AfterSettle[pc]
  /\ fired' = {}
  /\ todo' = Timers
  /\ UNCHANGED <<panicked, isolation, timekeeping, counters, clock, stamps, tasks, scan, moving,
                 active, armed, fresh, off>>

\* (How it looks at the CPUs one by one is TaskControl's.)
kstep_settle ==
  /\ panicked = "no" /\ pc \in DOMAIN AfterSettle /\ moving = {}
  /\ pc' = AfterSettle[pc]
  /\ fired' = {}
  /\ todo' = Timers
  /\ UNCHANGED <<panicked, isolation, timekeeping, counters, clock, stamps, tasks, scan, moving,
                 active, armed, fresh, off>>

kstep_tick ==
  /\ Driver("ready") /\ kstep_jiffies < MaxTicks
  /\ pc' = "kstep_tick"
  /\ UNCHANGED <<panicked, isolation, timekeeping, counters, clock, stamps, tasks, scan, moving, bandwidth, todo>>

kstep_sched_clock_tick ==
  /\ panicked = "no" /\ pc = "kstep_sched_clock_tick" /\ pc' = "kstep_jiffies_tick"
  /\ kstep_sched_clock' = kstep_sched_clock + 1
  /\ UNCHANGED <<panicked, isolation, timekeeping, counters, mocked, stamps, tasks, scan, moving, bandwidth, todo>>

kstep_jiffies_tick ==
  /\ panicked = "no" /\ pc = "kstep_jiffies_tick" /\ pc' = "kstep_do_sched_tick"
  /\ IF jiffies # kstep_jiffies + offset
       THEN panicked' = "jiffies" /\ UNCHANGED <<jiffies, kstep_jiffies>>
       ELSE /\ kstep_jiffies' = kstep_jiffies + 1
            /\ jiffies' = kstep_jiffies' + offset
            /\ UNCHANGED panicked
  /\ scan' = 1
  /\ UNCHANGED <<isolation, timekeeping, offset, clock, stamps, tasks, moving, bandwidth, todo>>

\* The tick on one CPU after the other, with the balance it asks for; each may
\* be asked to reschedule.
kstep_do_sched_tick ==
  /\ panicked = "no" /\ pc = "kstep_do_sched_tick"
  /\ Ticked(scan)
  /\ moving' \in {moving, moving \union {scan}}
  /\ IF scan < NCpus THEN scan' = scan + 1 /\ UNCHANGED pc
                     ELSE pc' = "tick settles" /\ UNCHANGED scan
  /\ UNCHANGED <<panicked, isolation, timekeeping, counters, clock, st, cpu, load, early, twice, bandwidth, todo>>

\* What the callback of a period timer does (external): a period that saw no
\* use ends, another is renewed, and whoever waited for it goes on.
PeriodCallback(k, idle, S) ==
  /\ active' = IF idle THEN active \ {k} ELSE active
  /\ fired' = fired \union {k}
  /\ moving' = moving \union S

\* Mutant: the hrtimer is left queued.
hrtimer_cancel_Not(k) == armed

hrtimer_cancel(k) == armed \ {k}

\* The hrtimer is suppressed and its callback run at the mocked boundaries.
kstep_period_timer_tick(k) ==
  /\ armed' = hrtimer_cancel(k) /\ fresh' = fresh \ {k}
  /\ IF Periods[k] = 0 \/ kstep_jiffies % Periods[k] = 0
       THEN \E idle \in BOOLEAN, S \in SUBSET TestCpus : PeriodCallback(k, idle, S)
       ELSE UNCHANGED <<active, fired, moving>>
  /\ UNCHANGED off

\* One timer of one task group.
kstep_bandwidth_tick(k) ==
  /\ panicked = "no" /\ pc = "kstep_bandwidth_tick" /\ k \in todo
  /\ todo' = todo \ {k}
  /\ IF k \in active THEN kstep_period_timer_tick(k) ELSE UNCHANGED <<moving, bandwidth>>
  /\ UNCHANGED <<pc, panicked, isolation, timekeeping, counters, clock, stamps, tasks, scan>>

\* The callbacks at the tick's end, and its return.
tick_end ==
  /\ panicked = "no" /\ pc = "kstep_bandwidth_tick" /\ todo = {}
  /\ pc' = "ready"
  /\ UNCHANGED <<panicked, isolation, timekeeping, counters, clock, stamps, tasks, scan, moving, bandwidth, todo>>

\* A CPU at work finds a group with a limit and starts its period (external).
start_bandwidth(k) ==
  /\ panicked = "no" /\ k \notin active
  /\ moving # {} \/ pc = "kstep_do_sched_tick"
  /\ active' = active \union {k} /\ armed' = armed \union {k} /\ fresh' = fresh \union {k}
  /\ UNCHANGED <<pc, panicked, isolation, timekeeping, counters, clock, stamps, tasks, scan, moving,
                 off, fired, todo>>

\* A queued hrtimer goes off in real time, and is queued again if it restarts.
PeriodGoesOff(k) ==
  /\ panicked = "no" /\ k \in armed
  /\ \E idle \in BOOLEAN, S \in SUBSET TestCpus :
       PeriodCallback(k, idle, S) /\ armed' = IF idle THEN armed \ {k} ELSE armed
  /\ off' = (off \/ k \notin fresh)
  /\ UNCHANGED <<pc, panicked, isolation, timekeeping, counters, clock, stamps, tasks, scan, fresh, todo>>

-----------------------------------------------------------------------------
Boot ==
  \/ \E drivers \in 0 .. 2, resolved \in BOOLEAN : kstep_sym_init(drivers, resolved)
  \/ kstep_prealloc_kworkers
  \/ kstep_disable_workqueue
  \/ kstep_move_kthreads
  \/ setup
  \/ kstep_tick_init
  \/ tick_do_timer_cpu
  \/ tick_next_period
  \/ kstep_jiffies_set
  \/ kstep_sched_clock_init
  \/ kstep_reset_runqueues
  \/ kstep_reset_tasks

Tick ==
  \/ kstep_settle
  \/ kstep_tick
  \/ kstep_sched_clock_tick
  \/ kstep_jiffies_tick
  \/ kstep_do_sched_tick
  \/ \E k \in Timers : kstep_bandwidth_tick(k)
  \/ tick_end

\* The guest stays where it panicked.
Stopped == panicked # "no" /\ UNCHANGED vars

Next ==
  \/ Boot
  \/ Tick
  \/ \E t \in Tasks : kstep_task_create(t)
  \/ \E t \in Tasks, c \in TestCpus : kstep_task_wakeup(t, c)
  \/ \E t \in Tasks : kstep_task_pause(t)
  \/ \E t \in Tasks, c \in TestCpus : Balance(t, c)
  \/ \E c \in TestCpus : Act(c)
  \/ \E c \in AllCpus : tick_sched_timer(c)
  \/ \E c \in TestCpus : tick_do_update_jiffies64(c)
  \/ \E c \in AllCpus : BlockingWork(c)
  \/ \E k \in Timers : start_bandwidth(k)
  \/ \E k \in Timers : PeriodGoesOff(k)
  \/ Stopped

Spec == Init /\ [][Next]_vars

-----------------------------------------------------------------------------
(* Properties *)

Times == 0 .. Real

TypeOK ==
  /\ panicked \in {"no", "symbol", "jiffies"}
  /\ sched_timer \subseteq AllCpus /\ kthreads \subseteq AllCpus /\ bound \subseteq AllCpus
  /\ nworkers \in [AllCpus -> 1 .. 2] /\ worker_mask \in [AllCpus -> SUBSET AllCpus]
  /\ timekeeper \in BOOLEAN /\ next_period \in BOOLEAN /\ updating \subseteq TestCpus
  /\ jiffies \in Times /\ kstep_jiffies \in 0 .. MaxTicks /\ offset \in 0 .. 1
  /\ mocked \in BOOLEAN /\ kstep_sched_clock \in 1 .. MaxTicks + 1
  /\ rq_clock \in [AllCpus -> Times] /\ next_balance \in [AllCpus -> Times] /\ rq_avg \in [AllCpus -> Times]
  /\ st \in [Tasks -> {"none", "sleep", "run"}] /\ cpu \in [Tasks -> AllCpus]
  /\ avg \in [Tasks -> Times] /\ load \in [Tasks -> AllCpus \union {None}]
  /\ scan \in TestCpus /\ moving \subseteq TestCpus
  /\ armed \subseteq active /\ active \subseteq Timers /\ todo \subseteq Timers
  /\ early \subseteq Tasks /\ fresh \subseteq Timers /\ fired \subseteq Timers

\* The test CPUs' runqueues are reset without their locks: by then, and from then
\* on, nothing of the kernel's own is left to run there.  It takes the worker
\* that was made before its pool was let go of, and the move that came after.
\* What may yet be at work at the reset is a task the driver has made runnable in
\* its setup, or a bandwidth period.
QuietAtReset ==
  pc = "kstep_reset_runqueues" \/ Running =>
    \A c \in TestCpus :
      /\ c \notin sched_timer \union kthreads
      /\ \A d \in AllCpus : c \notin worker_mask[d]
      /\ pc = "kstep_reset_runqueues" /\ c \in moving => fired # {} \/ \E t \in Tasks : st[t] = "run"

\* Once the driver runs, no runqueue, CPU 0's included, and no task has a stamp
\* from after the mocked time: such a clock would stand still, and such a
\* balance not come due, for as long as the machine had been up.
InEpoch ==
  Running =>
    /\ \A c \in AllCpus : rq_clock[c] <= kstep_sched_clock
    /\ \A c \in TestCpus : next_balance[c] <= jiffies + 1 /\ rq_avg[c] <= rq_clock[c]
    /\ \A t \in Tasks : avg[t] <= kstep_sched_clock

\* No interrupt between any two stores of kstep_jiffies_init(), nor any later,
\* makes jiffies drift from the mocked count, which the next tick would panic on.
NoDrift == panicked # "jiffies"

\* The load of a runnable task is part of its CPU's, once: a reset neither loses
\* it nor has it added again.  The exception are the tasks that a driver has
\* made runnable in its setup, for as long as they are left so.
LoadCountedOnce ==
  /\ ~twice
  /\ Running => \A t \in Tasks \ early : st[t] = "run" => load[t] = cpu[t]

\* Whoever is called at a tick's begin and end finds the test CPUs held, unless a
\* bandwidth period has gone off since they settled; and a period goes off by
\* itself only if the kernel started it after the last tick looked.
HeldUnlessPeriod ==
  /\ pc = "kstep_sched_clock_tick" \/ (pc = "kstep_bandwidth_tick" /\ todo = {}) =>
       moving = {} \/ fired # {}
  /\ ~off

=============================================================================
