---------------------------- MODULE ClockProofs ----------------------------
(***************************************************************************)
(* Clock, proved for every number of CPUs, tasks, period timers and ticks: *)
(* the test CPUs are the driver's when they are reset, the mocked counts   *)
(* never drift apart, no stamp is later than the mocked time, and no load  *)
(* is counted twice.                                                       *)
(***************************************************************************)
EXTENDS Clock, TLAPS

-----------------------------------------------------------------------------
(* The inductive invariant. *)

\* The places pc can be at, from each step of kstep_main() on.
InRun   == {"ready", "settles", "kstep_tick", "kstep_sched_clock_tick", "kstep_jiffies_tick",
            "kstep_do_sched_tick", "tick settles", "kstep_bandwidth_tick"}
Reset   == InRun \union {"kstep_reset_tasks"}
Mocked  == Reset \union {"kstep_reset_runqueues"}
Counted == Mocked \union {"kstep_sched_clock_init"}
NoNext  == Counted \union {"kstep_jiffies_set"}
NoKeeper == NoNext \union {"tick_next_period"}
NoTimer == NoKeeper \union {"tick_do_timer_cpu"}
InSetup == {"setup", "setup settles"}
Moved   == NoTimer \union {"kstep_tick_init"} \union InSetup
Staffed == Moved \union {"kstep_move_kthreads", "kstep_disable_workqueue"}
Pcs     == Staffed \union {"kstep_sym_init", "kstep_prealloc_kworkers"}

\* What kstep_main() has turned off stays off.
IsolationInv ==
  /\ pc \in Pcs
  /\ pc \in Staffed => \A c \in AllCpus : nworkers[c] = 2
  /\ pc \in Moved => kthreads = {0} /\ \A c \in AllCpus : worker_mask[c] = {0}
  /\ pc \in NoTimer => sched_timer \intersect TestCpus = {} /\ updating = {}
  /\ pc \in NoKeeper => ~timekeeper
  /\ pc \in NoNext => ~next_period

\* The mocked counts go together.
CountInv ==
  /\ pc \in Counted => offset = 1 /\ jiffies = kstep_jiffies + 1
  /\ kstep_sched_clock = IF pc = "kstep_jiffies_tick" THEN kstep_jiffies + 2 ELSE kstep_jiffies + 1
  /\ pc \notin InRun => kstep_jiffies = 0
  /\ pc \in {"kstep_tick", "kstep_sched_clock_tick", "kstep_jiffies_tick"} => kstep_jiffies < MaxTicks
  /\ mocked <=> pc \in Mocked
  /\ panicked # "jiffies"

\* Once reset, no stamp is later than the mocked time.
StampInv ==
  pc \in Reset =>
    /\ \A c \in AllCpus : rq_clock[c] <= kstep_sched_clock
    /\ \A c \in TestCpus : next_balance[c] <= jiffies + 1 /\ rq_avg[c] <= rq_clock[c]

\* A task that has never been woken is CPU 0's and detached; any other one's load is
\* its CPU's exactly if it is attached.
TaskInv ==
  /\ ~twice
  /\ \A t \in Tasks :
       /\ cpu[t] = 0 => avg[t] = 0
       /\ st[t] = "none" => cpu[t] = 0
       /\ st[t] = "run" => cpu[t] # 0
       /\ cpu[t] # 0 /\ avg[t] = 0 => load[t] = None
       /\ cpu[t] # 0 => load[t] \in {cpu[t], None}
       /\ cpu[t] # 0 /\ avg[t] # 0 /\ pc # "kstep_reset_tasks" => load[t] = cpu[t]
       /\ cpu[t] # 0 /\ pc = "kstep_reset_tasks" => load[t] = None
       /\ pc \in InRun => avg[t] <= kstep_sched_clock
       /\ pc \in InRun /\ st[t] = "run" /\ t \notin early => avg[t] # 0

\* What is at work, and why; and the hrtimers that are queued.
MoveInv ==
  /\ pc \in Pcs \ (InRun \union {"setup settles"}) =>
       moving = {} \/ fired # {} \/ \E t \in Tasks : st[t] = "run"
  /\ pc \in {"kstep_sched_clock_tick", "kstep_bandwidth_tick"} => moving = {} \/ fired # {}
  /\ armed \subseteq fresh /\ ~off

\* TypeOK, in the same parts.
IsolationType ==
  /\ sched_timer \subseteq AllCpus /\ kthreads \subseteq AllCpus /\ bound \subseteq AllCpus
  /\ nworkers \in [AllCpus -> 1 .. 2] /\ worker_mask \in [AllCpus -> SUBSET AllCpus]
  /\ timekeeper \in BOOLEAN /\ next_period \in BOOLEAN /\ updating \subseteq TestCpus
CountType ==
  /\ panicked \in {"no", "symbol", "jiffies"}
  /\ jiffies \in Times /\ kstep_jiffies \in 0 .. MaxTicks /\ offset \in 0 .. 1
  /\ mocked \in BOOLEAN /\ kstep_sched_clock \in 1 .. MaxTicks + 1
StampType ==
  /\ rq_clock \in [AllCpus -> Times] /\ next_balance \in [AllCpus -> Times] /\ rq_avg \in [AllCpus -> Times]
TaskType ==
  /\ st \in [Tasks -> {"none", "sleep", "run"}] /\ cpu \in [Tasks -> AllCpus]
  /\ avg \in [Tasks -> Times] /\ load \in [Tasks -> AllCpus \union {None}] /\ early \subseteq Tasks
MoveType ==
  /\ scan \in TestCpus /\ moving \subseteq TestCpus
  /\ armed \subseteq active /\ active \subseteq Timers /\ todo \subseteq Timers
  /\ fresh \subseteq Timers /\ fired \subseteq Timers

IInv ==
  /\ IsolationType /\ CountType /\ StampType /\ TaskType /\ MoveType
  /\ IsolationInv /\ CountInv /\ StampInv /\ TaskInv /\ MoveInv

-----------------------------------------------------------------------------
(* Constants, phases, and what a step leaves alone. *)

\* What is assumed of the constants; and what of it is arithmetic.
LEMMA Sizes ==
  /\ NCpus \in Nat \ {0} /\ MaxTicks \in Nat /\ Real \in Nat /\ Real > MaxTicks + 2 /\ None \notin AllCpus
  /\ TestCpus \subseteq AllCpus /\ 0 \in AllCpus /\ 0 \notin TestCpus /\ AllCpus \subseteq Nat
  /\ \A c \in AllCpus : c # 0 => c \in TestCpus
BY ClockAssumption DEF AllCpus, TestCpus

LEMMA Bounds ==
  NCpus \in Nat \ {0} /\ MaxTicks \in Nat /\ Real \in Nat /\ Real > MaxTicks + 2
BY ClockAssumption

\* kstep_main() is a list without repetitions: where a step is and goes.
LEMMA StepIs ==
  ASSUME NEW p, Step(p)
  PROVE  /\ pc = p /\ panicked = "no"
         /\ p = "kstep_sym_init" => pc' = "kstep_prealloc_kworkers"
         /\ p = "kstep_prealloc_kworkers" => pc' = "kstep_disable_workqueue"
         /\ p = "kstep_disable_workqueue" => pc' = "kstep_move_kthreads"
         /\ p = "kstep_move_kthreads" => pc' = "setup"
         /\ p = "setup" => pc' = "kstep_tick_init"
         /\ p = "kstep_tick_init" => pc' = "tick_do_timer_cpu"
         /\ p = "tick_do_timer_cpu" => pc' = "tick_next_period"
         /\ p = "tick_next_period" => pc' = "kstep_jiffies_set"
         /\ p = "kstep_jiffies_set" => pc' = "kstep_sched_clock_init"
         /\ p = "kstep_sched_clock_init" => pc' = "kstep_reset_runqueues"
         /\ p = "kstep_reset_runqueues" => pc' = "kstep_reset_tasks"
         /\ p = "kstep_reset_tasks" => pc' = "ready"
<1>1. PICK i \in 1 .. 13 : kstep_main[i] = p /\ pc' = kstep_main[i + 1]
  BY DEF Step, kstep_main
<1>2. /\ kstep_main[1] = "kstep_sym_init" /\ kstep_main[2] = "kstep_prealloc_kworkers"
      /\ kstep_main[3] = "kstep_disable_workqueue" /\ kstep_main[4] = "kstep_move_kthreads"
      /\ kstep_main[5] = "setup" /\ kstep_main[6] = "kstep_tick_init"
      /\ kstep_main[7] = "tick_do_timer_cpu" /\ kstep_main[8] = "tick_next_period"
      /\ kstep_main[9] = "kstep_jiffies_set" /\ kstep_main[10] = "kstep_sched_clock_init"
      /\ kstep_main[11] = "kstep_reset_runqueues" /\ kstep_main[12] = "kstep_reset_tasks"
      /\ kstep_main[13] = "ready"
  BY DEF kstep_main
<1>3. \/ i = 1 \/ i = 2 \/ i = 3 \/ i = 4 \/ i = 5 \/ i = 6 \/ i = 7 \/ i = 8 \/ i = 9
      \/ i = 10 \/ i = 11 \/ i = 12 \/ i = 13
  OBVIOUS
<1>4. \/ p = "kstep_sym_init" /\ pc' = "kstep_prealloc_kworkers"
      \/ p = "kstep_prealloc_kworkers" /\ pc' = "kstep_disable_workqueue"
      \/ p = "kstep_disable_workqueue" /\ pc' = "kstep_move_kthreads"
      \/ p = "kstep_move_kthreads" /\ pc' = "setup"
      \/ p = "setup" /\ pc' = "kstep_tick_init"
      \/ p = "kstep_tick_init" /\ pc' = "tick_do_timer_cpu"
      \/ p = "tick_do_timer_cpu" /\ pc' = "tick_next_period"
      \/ p = "tick_next_period" /\ pc' = "kstep_jiffies_set"
      \/ p = "kstep_jiffies_set" /\ pc' = "kstep_sched_clock_init"
      \/ p = "kstep_sched_clock_init" /\ pc' = "kstep_reset_runqueues"
      \/ p = "kstep_reset_runqueues" /\ pc' = "kstep_reset_tasks"
      \/ p = "kstep_reset_tasks" /\ pc' = "ready"
      \/ p = "ready"
  <2>1. CASE i = 1
    BY <1>1, <1>2, <2>1
  <2>2. CASE i = 2
    BY <1>1, <1>2, <2>2
  <2>3. CASE i = 3
    BY <1>1, <1>2, <2>3
  <2>4. CASE i = 4
    BY <1>1, <1>2, <2>4
  <2>5. CASE i = 5
    BY <1>1, <1>2, <2>5
  <2>6. CASE i = 6
    BY <1>1, <1>2, <2>6
  <2>7. CASE i = 7
    BY <1>1, <1>2, <2>7
  <2>8. CASE i = 8
    BY <1>1, <1>2, <2>8
  <2>9. CASE i = 9
    BY <1>1, <1>2, <2>9
  <2>10. CASE i = 10
    BY <1>1, <1>2, <2>10
  <2>11. CASE i = 11
    BY <1>1, <1>2, <2>11
  <2>12. CASE i = 12
    BY <1>1, <1>2, <2>12
  <2>13. CASE i = 13
    BY <1>1, <1>2, <2>13
  <2> QED
    BY <1>3, <2>1, <2>2, <2>3, <2>4, <2>5, <2>6, <2>7, <2>8, <2>9, <2>10, <2>11, <2>12, <2>13
<1>5. pc = p /\ panicked = "no"
  BY DEF Step
<1> QED
  BY <1>4, <1>5

LEMMA RunningIs == Running <=> pc \in InRun
BY DEF Running, InRun

\* update_rq_clock() does not go back, and after the reset not past the mocked time.
LEMMA StampIs ==
  ASSUME CountType, StampType, CountInv, StampInv, NEW c \in AllCpus
  PROVE  /\ Stamp(c) \in Times /\ Stamp(c) > 0 /\ Stamp(c) >= rq_clock[c]
         /\ pc \in Reset => Stamp(c) <= kstep_sched_clock
<1>1. rq_clock[c] \in 0 .. Real /\ kstep_sched_clock \in 1 .. MaxTicks + 1
  BY DEF StampType, CountType, Times
<1>2. pc \in Reset => mocked /\ rq_clock[c] <= kstep_sched_clock
  BY DEF CountInv, StampInv, Mocked
<1>3. PICK a : a = sched_clock
  OBVIOUS
<1>4. a \in 1 .. Real /\ (pc \in Reset => a = kstep_sched_clock)
  <2>1. CASE mocked
    <3>1. a = kstep_sched_clock
      BY <1>3, <2>1 DEF sched_clock
    <3> QED
      BY <1>1, <3>1, Bounds
  <2>2. CASE ~mocked
    <3>1. a = Real
      BY <1>3, <2>2 DEF sched_clock
    <3>2. pc \notin Reset
      BY <1>2, <2>2
    <3>3. Real \in 1 .. Real
      BY Bounds
    <3> QED
      BY <3>1, <3>2, <3>3
  <2> QED
    BY <2>1, <2>2
<1>5. Stamp(c) = IF a > rq_clock[c] THEN a ELSE rq_clock[c]
  BY <1>3 DEF Stamp
<1>6. PICK r \in 0 .. Real : r = rq_clock[c]
  BY <1>1
<1>7. PICK k \in 1 .. MaxTicks + 1 : k = kstep_sched_clock
  BY <1>1
<1>8. PICK s : s = Stamp(c)
  OBVIOUS
<1>9. s = (IF a > r THEN a ELSE r) /\ (pc \in Reset => a = k /\ r <= k)
  BY <1>2, <1>4, <1>5, <1>6, <1>7, <1>8
<1>10. s \in 0 .. Real /\ s > 0 /\ s >= r
  <2>1. s = (IF a > r THEN a ELSE r) /\ a \in 1 .. Real /\ r \in 0 .. Real /\ Real \in Nat
    BY <1>4, <1>9, Bounds
  <2> QED
    BY <2>1
<1>11. pc \in Reset => s <= k
  <2>1. MaxTicks \in Nat /\ k \in 1 .. MaxTicks + 1 /\ r \in 0 .. Real /\ Real \in Nat
    BY Bounds
  <2> QED
    BY <1>9, <2>1
<1> QED
  BY <1>6, <1>7, <1>8, <1>10, <1>11 DEF Times

USE DEF InRun, Reset, Mocked, Counted, NoNext, NoKeeper, NoTimer, InSetup, Moved, Staffed, Pcs

\* What a step leaves alone.
SamePhase ==
  \/ pc' = pc
  \/ pc \in InRun /\ pc' \in InRun
  \/ pc \in InSetup /\ pc' \in InSetup

LEMMA IsolationFrame ==
  ASSUME IsolationType, IsolationInv, UNCHANGED <<isolation, timekeeping>>, SamePhase
  PROVE  IsolationType' /\ IsolationInv'
<1>1. UNCHANGED <<sched_timer, nworkers, worker_mask, bound, kthreads, timekeeper, next_period, updating>>
  BY DEF isolation, timekeeping
<1>2. IsolationType'
  BY <1>1 DEF IsolationType
<1>3. IsolationInv'
  BY <1>1 DEF IsolationInv, SamePhase
<1> QED
  BY <1>2, <1>3

LEMMA CountFrame ==
  ASSUME CountType, CountInv, UNCHANGED <<panicked, counters, clock>>, SamePhase,
         pc' # pc => /\ pc # "kstep_jiffies_tick"
                     /\ pc' \notin {"kstep_tick", "kstep_sched_clock_tick", "kstep_jiffies_tick"}
  PROVE  CountType' /\ CountInv'
<1>1. UNCHANGED <<panicked, jiffies, kstep_jiffies, offset, mocked, kstep_sched_clock>>
  BY DEF counters, clock
<1>2. CountType'
  BY <1>1 DEF CountType
<1>3. CountInv'
  BY <1>1 DEF CountInv, SamePhase
<1> QED
  BY <1>2, <1>3

LEMMA StampFrame ==
  ASSUME StampType, StampInv, UNCHANGED <<stamps, jiffies, kstep_sched_clock>>, SamePhase
  PROVE  StampType' /\ StampInv'
<1>1. UNCHANGED <<rq_clock, next_balance, rq_avg>>
  BY DEF stamps
<1>2. StampType'
  BY <1>1 DEF StampType
<1>3. StampInv'
  BY <1>1 DEF StampInv, SamePhase
<1> QED
  BY <1>2, <1>3

LEMMA TaskFrame ==
  ASSUME TaskType, TaskInv, UNCHANGED <<tasks, kstep_sched_clock>>, SamePhase
  PROVE  TaskType' /\ TaskInv'
<1>1. UNCHANGED <<st, cpu, avg, load, early, twice>>
  BY DEF tasks
<1>2. TaskType'
  BY <1>1 DEF TaskType
<1>3. TaskInv'
  BY <1>1 DEF TaskInv, SamePhase
<1> QED
  BY <1>2, <1>3

LEMMA MoveFrame ==
  ASSUME MoveType, MoveInv, UNCHANGED <<st, scan, moving, bandwidth, todo>>, SamePhase,
         pc' # pc => pc' \notin {"kstep_sched_clock_tick", "kstep_bandwidth_tick", "setup"}
  PROVE  MoveType' /\ MoveInv'
<1>1. UNCHANGED <<st, scan, moving, active, armed, fresh, off, fired, todo>>
  BY DEF bandwidth
<1>2. MoveType'
  BY <1>1 DEF MoveType
<1>3. MoveInv'
  BY <1>1 DEF MoveInv, SamePhase
<1> QED
  BY <1>2, <1>3

\* The invariant holds at first.
LEMMA InitInv ==
  ASSUME Init
  PROVE  IInv
<1>1. IsolationType
  <2>1. nworkers \in [AllCpus -> 1 .. 2]
    <3>1. nworkers = [c \in AllCpus |-> 1]
      BY DEF Init
    <3>2. 1 \in 1 .. 2
      OBVIOUS
    <3> QED
      BY <3>1, <3>2
  <2>2. worker_mask \in [AllCpus -> SUBSET AllCpus]
    BY DEF Init
  <2> QED
    BY <2>1, <2>2, Sizes DEF Init, IsolationType
<1>2. IsolationInv
  BY DEF Init, IsolationInv
<1>3. CountType
  <2>1. jiffies = Real /\ kstep_jiffies = 0 /\ offset = 0 /\ mocked = FALSE /\ kstep_sched_clock = 1 /\ panicked = "no"
    BY DEF Init
  <2>2. Real \in 0 .. Real /\ 0 \in 0 .. MaxTicks /\ 0 \in 0 .. 1 /\ 1 \in 1 .. MaxTicks + 1
    BY Bounds
  <2> QED
    BY <2>1, <2>2 DEF CountType, Times
<1>4. CountInv
  <2>1. kstep_jiffies = 0 /\ ~mocked /\ kstep_sched_clock = 1 /\ panicked = "no" /\ pc = "kstep_sym_init"
    BY DEF Init
  <2>2. pc \notin Counted /\ pc \notin Mocked /\ pc # "kstep_jiffies_tick"
        /\ pc \notin {"kstep_tick", "kstep_sched_clock_tick", "kstep_jiffies_tick"}
    BY <2>1
  <2>3. kstep_sched_clock = kstep_jiffies + 1
    BY <2>1
  <2> HIDE DEF Counted, Mocked
  <2> QED
    BY <2>1, <2>2, <2>3 DEF CountInv
<1>5. StampType
  <2>1. Real \in Times
    BY Sizes DEF Times
  <2> QED
    BY <2>1 DEF Init, StampType
<1>6. StampInv
  BY DEF Init, StampInv
<1>7. TaskType
  <2>1. 0 \in Times /\ 0 \in AllCpus
    BY Sizes DEF Times
  <2>2. /\ st \in [Tasks -> {"none", "sleep", "run"}] /\ cpu \in [Tasks -> AllCpus]
        /\ avg \in [Tasks -> Times] /\ load \in [Tasks -> AllCpus \union {None}]
    BY <2>1 DEF Init
  <2> QED
    BY <2>2 DEF Init, TaskType
<1>8. TaskInv
  <2>1. pc = "kstep_sym_init" /\ ~twice /\ \A t \in Tasks : cpu[t] = 0 /\ avg[t] = 0 /\ st[t] = "none"
    BY DEF Init
  <2> QED
    BY <2>1 DEF TaskInv
<1>9. MoveType
  <2>1. 1 \in TestCpus
    BY Sizes DEF TestCpus
  <2>2. scan = 1 /\ moving = {} /\ armed = active /\ active \subseteq Timers /\ todo = {} /\ fresh = active /\ fired = {}
    BY DEF Init
  <2> QED
    BY <2>1, <2>2 DEF MoveType
<1>10. MoveInv
  BY DEF Init, MoveInv
<1> QED
  BY <1>1, <1>2, <1>3, <1>4, <1>5, <1>6, <1>7, <1>8, <1>9, <1>10 DEF IInv

-----------------------------------------------------------------------------
(* The boot. *)

\* The same, step by step.
LEMMA Steps ==
  /\ Step("kstep_sym_init") => pc = "kstep_sym_init" /\ pc' = "kstep_prealloc_kworkers"
  /\ Step("kstep_prealloc_kworkers") => pc = "kstep_prealloc_kworkers" /\ pc' = "kstep_disable_workqueue"
  /\ Step("kstep_disable_workqueue") => pc = "kstep_disable_workqueue" /\ pc' = "kstep_move_kthreads"
  /\ Step("kstep_move_kthreads") => pc = "kstep_move_kthreads" /\ pc' = "setup"
  /\ Step("setup") => pc = "setup" /\ pc' = "kstep_tick_init"
  /\ Step("kstep_tick_init") => pc = "kstep_tick_init" /\ pc' = "tick_do_timer_cpu"
  /\ Step("tick_do_timer_cpu") => pc = "tick_do_timer_cpu" /\ pc' = "tick_next_period"
  /\ Step("tick_next_period") => pc = "tick_next_period" /\ pc' = "kstep_jiffies_set"
  /\ Step("kstep_jiffies_set") => pc = "kstep_jiffies_set" /\ pc' = "kstep_sched_clock_init"
  /\ Step("kstep_sched_clock_init") => pc = "kstep_sched_clock_init" /\ pc' = "kstep_reset_runqueues"
  /\ Step("kstep_reset_runqueues") => pc = "kstep_reset_runqueues" /\ pc' = "kstep_reset_tasks"
  /\ Step("kstep_reset_tasks") => pc = "kstep_reset_tasks" /\ pc' = "ready"
<1>1. Step("kstep_sym_init") => pc = "kstep_sym_init" /\ pc' = "kstep_prealloc_kworkers"
  BY StepIs
<1>2. Step("kstep_prealloc_kworkers") => pc = "kstep_prealloc_kworkers" /\ pc' = "kstep_disable_workqueue"
  BY StepIs
<1>3. Step("kstep_disable_workqueue") => pc = "kstep_disable_workqueue" /\ pc' = "kstep_move_kthreads"
  BY StepIs
<1>4. Step("kstep_move_kthreads") => pc = "kstep_move_kthreads" /\ pc' = "setup"
  BY StepIs
<1>5. Step("setup") => pc = "setup" /\ pc' = "kstep_tick_init"
  BY StepIs
<1>6. Step("kstep_tick_init") => pc = "kstep_tick_init" /\ pc' = "tick_do_timer_cpu"
  BY StepIs
<1>7. Step("tick_do_timer_cpu") => pc = "tick_do_timer_cpu" /\ pc' = "tick_next_period"
  BY StepIs
<1>8. Step("tick_next_period") => pc = "tick_next_period" /\ pc' = "kstep_jiffies_set"
  BY StepIs
<1>9. Step("kstep_jiffies_set") => pc = "kstep_jiffies_set" /\ pc' = "kstep_sched_clock_init"
  BY StepIs
<1>10. Step("kstep_sched_clock_init") => pc = "kstep_sched_clock_init" /\ pc' = "kstep_reset_runqueues"
  BY StepIs
<1>11. Step("kstep_reset_runqueues") => pc = "kstep_reset_runqueues" /\ pc' = "kstep_reset_tasks"
  BY StepIs
<1>12. Step("kstep_reset_tasks") => pc = "kstep_reset_tasks" /\ pc' = "ready"
  BY StepIs
<1> QED
  BY <1>1, <1>2, <1>3, <1>4, <1>5, <1>6, <1>7, <1>8, <1>9, <1>10, <1>11, <1>12

\* What the boot leaves alone before the runqueues are reset.
LEMMA EarlyFrame ==
  ASSUME pc \in Pcs \ (Reset \union {"setup settles"}), pc' \in Pcs \ (Reset \union {"setup settles"}),
         UNCHANGED <<stamps, tasks, scan, moving, bandwidth, todo>>,
         StampType, TaskType, TaskInv, MoveType, MoveInv
  PROVE  StampType' /\ StampInv' /\ TaskType' /\ TaskInv' /\ MoveType' /\ MoveInv'
<1>1. /\ UNCHANGED <<rq_clock, next_balance, rq_avg>> /\ UNCHANGED <<st, cpu, avg, load, early, twice>>
      /\ UNCHANGED <<scan, moving, active, armed, fresh, off, fired, todo>>
  BY DEF stamps, tasks, bandwidth
<1>2. StampType' /\ StampInv'
  BY <1>1 DEF StampType, StampInv
<1>3. TaskType'
  BY <1>1 DEF TaskType
<1>4. TaskInv'
  BY <1>1 DEF TaskInv
<1>5. MoveType'
  BY <1>1 DEF MoveType
<1>6. MoveInv'
  BY <1>1 DEF MoveInv
<1> QED
  BY <1>2, <1>3, <1>4, <1>5, <1>6

\* The counts, before kstep_jiffies_set().
LEMMA EarlyCount ==
  ASSUME pc \in Pcs \ Counted, pc' \in Pcs \ Counted,
         UNCHANGED <<counters, clock>>, panicked' \in {panicked, "symbol"}, CountType, CountInv
  PROVE  CountType' /\ CountInv'
<1>1. UNCHANGED <<jiffies, kstep_jiffies, offset, mocked, kstep_sched_clock>>
  BY DEF counters, clock
<1>2. CountType'
  BY <1>1 DEF CountType
<1>3. CountInv'
  BY <1>1 DEF CountInv
<1> QED
  BY <1>2, <1>3

\* kstep_sym_init(), which may panic.
LEMMA SymStep ==
  ASSUME IInv, NEW d, NEW r, kstep_sym_init(d, r)
  PROVE  IInv'
<1>1. /\ pc = "kstep_sym_init" /\ pc' \in {pc, "kstep_prealloc_kworkers"} /\ panicked' \in {panicked, "symbol"}
      /\ UNCHANGED <<isolation, timekeeping, counters, clock, stamps, tasks, scan, moving, bandwidth, todo>>
  BY Steps DEF kstep_sym_init
<1>2. StampType' /\ StampInv' /\ TaskType' /\ TaskInv' /\ MoveType' /\ MoveInv'
  BY <1>1, EarlyFrame DEF IInv
<1>3. CountType' /\ CountInv'
  BY <1>1, EarlyCount DEF IInv
<1>4. IsolationType' /\ IsolationInv'
  <2>1. UNCHANGED <<sched_timer, nworkers, worker_mask, bound, kthreads, timekeeper, next_period, updating>>
    BY <1>1 DEF isolation, timekeeping
  <2> QED
    BY <1>1, <2>1 DEF IInv, IsolationType, IsolationInv
<1> QED
  BY <1>2, <1>3, <1>4 DEF IInv

\* The steps that turn something off, and setup().
LEMMA IsolateStep ==
  ASSUME IInv,
         \/ kstep_prealloc_kworkers \/ kstep_disable_workqueue \/ kstep_move_kthreads \/ setup
         \/ kstep_tick_init \/ tick_do_timer_cpu \/ tick_next_period
  PROVE  IInv'
<1>0. IsolationType /\ IsolationInv
  BY DEF IInv
<1>1. /\ pc \in Pcs \ (Counted \union {"setup settles"}) /\ pc' \in Pcs \ (Counted \union {"setup settles"})
      /\ panicked' = panicked
      /\ UNCHANGED <<counters, clock, stamps, tasks, scan, moving, bandwidth, todo>>
  BY Steps DEF kstep_prealloc_kworkers, kstep_disable_workqueue, kstep_move_kthreads, setup,
                kstep_tick_init, tick_do_timer_cpu, tick_next_period
<1>2. StampType' /\ StampInv' /\ TaskType' /\ TaskInv' /\ MoveType' /\ MoveInv'
  BY <1>1, EarlyFrame DEF IInv
<1>3. CountType' /\ CountInv'
  BY <1>1, EarlyCount DEF IInv
<1>4. IsolationType' /\ IsolationInv'
  <2>1. CASE kstep_prealloc_kworkers
    <3>1. /\ pc = "kstep_prealloc_kworkers" /\ pc' = "kstep_disable_workqueue"
          /\ nworkers' = [c \in AllCpus |-> 2]
          /\ UNCHANGED <<sched_timer, worker_mask, bound, kthreads, timekeeper, next_period, updating>>
      BY <2>1, Steps DEF kstep_prealloc_kworkers, timekeeping
    <3>2. 2 \in 1 .. 2
      OBVIOUS
    <3>3. IsolationType'
      BY <1>0, <3>1, <3>2 DEF IsolationType
    <3>4. IsolationInv'
      BY <1>0, <3>1 DEF IsolationInv
    <3> QED
      BY <3>3, <3>4
  <2>2. CASE kstep_disable_workqueue
    <3>1. /\ pc = "kstep_disable_workqueue" /\ pc' = "kstep_move_kthreads"
          /\ bound' = bound \ TestCpus
          /\ worker_mask' = [c \in AllCpus |-> IF c \in TestCpus THEN AllCpus ELSE worker_mask[c]]
          /\ UNCHANGED <<sched_timer, nworkers, kthreads, timekeeper, next_period, updating>>
      BY <2>2, Steps DEF kstep_disable_workqueue, timekeeping
    <3>2. worker_mask' \in [AllCpus -> SUBSET AllCpus]
      BY <1>0, <3>1 DEF IsolationType
    <3>3. IsolationType'
      BY <1>0, <3>1, <3>2 DEF IsolationType
    <3>4. IsolationInv'
      BY <1>0, <3>1 DEF IsolationInv
    <3> QED
      BY <3>3, <3>4
  <2>3. CASE kstep_move_kthreads
    <3>1. /\ pc = "kstep_move_kthreads" /\ pc' = "setup"
          /\ kthreads' = {0} /\ worker_mask' = [c \in AllCpus |-> {0}]
          /\ UNCHANGED <<sched_timer, nworkers, bound, timekeeper, next_period, updating>>
      BY <2>3, Steps DEF kstep_move_kthreads, timekeeping
    <3>2. 0 \in AllCpus
      BY Sizes
    <3>3. IsolationType'
      BY <1>0, <3>1, <3>2 DEF IsolationType
    <3>4. IsolationInv'
      BY <1>0, <3>1 DEF IsolationInv
    <3> QED
      BY <3>3, <3>4
  <2>4. CASE setup
    <3>1. /\ pc = "setup" /\ pc' = "kstep_tick_init"
          /\ UNCHANGED <<sched_timer, nworkers, worker_mask, bound, kthreads, timekeeper, next_period, updating>>
      BY <2>4, Steps DEF setup, isolation, timekeeping
    <3>3. IsolationType'
      BY <1>0, <3>1 DEF IsolationType
    <3>4. IsolationInv'
      BY <1>0, <3>1 DEF IsolationInv
    <3> QED
      BY <3>3, <3>4
  <2>5. CASE kstep_tick_init
    <3>1. /\ pc = "kstep_tick_init" /\ pc' = "tick_do_timer_cpu" /\ updating = {}
          /\ sched_timer' = sched_timer \ TestCpus
          /\ UNCHANGED <<nworkers, worker_mask, bound, kthreads, timekeeper, next_period, updating>>
      BY <2>5, Steps DEF kstep_tick_init, timekeeping
    <3>3. IsolationType'
      BY <1>0, <3>1 DEF IsolationType
    <3>4. IsolationInv'
      BY <1>0, <3>1 DEF IsolationInv
    <3> QED
      BY <3>3, <3>4
  <2>6. CASE tick_do_timer_cpu
    <3>1. /\ pc = "tick_do_timer_cpu" /\ pc' = "tick_next_period" /\ timekeeper' = FALSE
          /\ UNCHANGED <<sched_timer, nworkers, worker_mask, bound, kthreads, next_period, updating>>
      BY <2>6, Steps DEF tick_do_timer_cpu, isolation
    <3>3. IsolationType'
      BY <1>0, <3>1 DEF IsolationType
    <3>4. IsolationInv'
      BY <1>0, <3>1 DEF IsolationInv
    <3> QED
      BY <3>3, <3>4
  <2>7. CASE tick_next_period
    <3>1. /\ pc = "tick_next_period" /\ pc' = "kstep_jiffies_set" /\ next_period' = FALSE
          /\ UNCHANGED <<sched_timer, nworkers, worker_mask, bound, kthreads, timekeeper, updating>>
      BY <2>7, Steps DEF tick_next_period, isolation
    <3>3. IsolationType'
      BY <1>0, <3>1 DEF IsolationType
    <3>4. IsolationInv'
      BY <1>0, <3>1 DEF IsolationInv
    <3> QED
      BY <3>3, <3>4
  <2> QED
    BY <2>1, <2>2, <2>3, <2>4, <2>5, <2>6, <2>7
<1> QED
  BY <1>2, <1>3, <1>4 DEF IInv

\* The steps past the timers: what is off stays off.
LEMMA IsolationLater ==
  ASSUME IsolationType, IsolationInv, UNCHANGED <<isolation, timekeeping>>,
         pc \in NoNext, pc' \in NoNext
  PROVE  IsolationType' /\ IsolationInv'
<1>1. UNCHANGED <<sched_timer, nworkers, worker_mask, bound, kthreads, timekeeper, next_period, updating>>
  BY DEF isolation, timekeeping
<1>2. IsolationType'
  BY <1>1 DEF IsolationType
<1>3. IsolationInv'
  BY <1>1 DEF IsolationInv
<1> QED
  BY <1>2, <1>3

\* The two that take the clocks over.
LEMMA MockStep ==
  ASSUME IInv, kstep_jiffies_set \/ kstep_sched_clock_init
  PROVE  IInv'
<1>1. /\ pc \in NoNext \ Mocked /\ pc' \in Counted \ Reset
      /\ UNCHANGED <<isolation, timekeeping, stamps, tasks, scan, moving, bandwidth, todo>>
  BY Steps DEF kstep_jiffies_set, kstep_sched_clock_init
<1>2. StampType' /\ StampInv' /\ TaskType' /\ TaskInv' /\ MoveType' /\ MoveInv'
  BY <1>1, EarlyFrame DEF IInv
<1>3. IsolationType' /\ IsolationInv'
  BY <1>1, IsolationLater DEF IInv
<1>4. CountType' /\ CountInv'
  <2>0. CountType /\ CountInv
    BY DEF IInv
  <2>1. CASE kstep_jiffies_set
    <3>1. /\ pc = "kstep_jiffies_set" /\ pc' = "kstep_sched_clock_init"
          /\ offset' = 1 /\ kstep_jiffies' = 0 /\ jiffies' = 1
          /\ UNCHANGED <<panicked, mocked, kstep_sched_clock>>
      BY <2>1, Steps DEF kstep_jiffies_set, clock
    <3>2. 1 \in Times /\ 0 \in 0 .. MaxTicks /\ 1 \in 0 .. 1
      BY Bounds DEF Times
    <3>3. CountType'
      BY <2>0, <3>1, <3>2 DEF CountType
    <3>4. CountInv'
      BY <2>0, <3>1 DEF CountInv
    <3> QED
      BY <3>3, <3>4
  <2>2. CASE kstep_sched_clock_init
    <3>1. /\ pc = "kstep_sched_clock_init" /\ pc' = "kstep_reset_runqueues" /\ mocked' = TRUE
          /\ UNCHANGED <<panicked, jiffies, kstep_jiffies, offset, kstep_sched_clock>>
      BY <2>2, Steps DEF kstep_sched_clock_init, counters
    <3>3. CountType'
      BY <2>0, <3>1 DEF CountType
    <3>4. CountInv'
      BY <2>0, <3>1 DEF CountInv
    <3> QED
      BY <3>3, <3>4
  <2> QED
    BY <2>1, <2>2
<1> QED
  BY <1>2, <1>3, <1>4 DEF IInv

-----------------------------------------------------------------------------
(* The reset, and a task enqueued. *)

\* kstep_reset_runqueues(): a test CPU's stamps are in the epoch, and it has no load.
LEMMA ResetRunqueuesStep ==
  ASSUME IInv, kstep_reset_runqueues
  PROVE  IInv'
<1>0. /\ IsolationType /\ IsolationInv /\ CountType /\ CountInv /\ StampType /\ TaskType /\ TaskInv
      /\ MoveType /\ MoveInv
  BY DEF IInv
<1>1. /\ pc = "kstep_reset_runqueues" /\ pc' = "kstep_reset_tasks"
      /\ rq_clock' = [c \in AllCpus |-> 1]
      /\ next_balance' = [c \in AllCpus |-> IF c = 0 THEN next_balance[c] ELSE jiffies]
      /\ rq_avg' = [c \in AllCpus |-> IF c = 0 THEN rq_avg[c] ELSE 0]
      /\ load' = [t \in Tasks |-> IF load[t] = 0 THEN 0 ELSE None]
      /\ UNCHANGED <<isolation, timekeeping>>
      /\ UNCHANGED <<panicked, jiffies, kstep_jiffies, offset, mocked, kstep_sched_clock>>
      /\ UNCHANGED <<st, cpu, avg, early, twice>>
      /\ UNCHANGED <<scan, moving, active, armed, fresh, off, fired, todo>>
  BY Steps DEF kstep_reset_runqueues, counters, clock, bandwidth
<1>2. IsolationType' /\ IsolationInv'
  BY <1>0, <1>1, IsolationLater
<1>3. CountType'
  BY <1>0, <1>1 DEF CountType
<1>4. CountInv'
  BY <1>0, <1>1 DEF CountInv
<1>5. kstep_sched_clock = 1
  BY <1>0, <1>1 DEF CountInv
<1>6. StampType'
  <2>1. 1 \in Times /\ 0 \in Times /\ jiffies \in Times
    BY <1>0, Bounds DEF CountType, Times
  <2> QED
    BY <1>0, <1>1, <2>1 DEF StampType
<1>7. StampInv'
  <2>1. \A c \in AllCpus : rq_clock'[c] = 1
    BY <1>1
  <2>2. \A c \in TestCpus : c \in AllCpus /\ c # 0
    BY Sizes
  <2>3. \A c \in TestCpus : next_balance'[c] = jiffies /\ rq_avg'[c] = 0
    BY <1>1, <2>2
  <2>4. jiffies \in Nat
    BY <1>0, Bounds DEF CountType, Times
  <2> QED
    BY <1>1, <1>5, <2>1, <2>2, <2>3, <2>4 DEF StampInv
<1>8. TaskType'
  BY <1>0, <1>1, Sizes DEF TaskType
<1>9. \A t \in Tasks : cpu[t] # 0 => load'[t] = None
  <2> SUFFICES ASSUME NEW t \in Tasks, cpu[t] # 0 PROVE load'[t] = None
    OBVIOUS
  <2>1. load[t] \in {cpu[t], None} /\ None # 0
    BY <1>0, Sizes DEF TaskInv
  <2> QED
    BY <1>1, <2>1
<1>10. TaskInv'
  BY <1>0, <1>1, <1>9 DEF TaskInv
<1>11. MoveType'
  BY <1>0, <1>1 DEF MoveType
<1>12. MoveInv'
  BY <1>0, <1>1 DEF MoveInv
<1> QED
  BY <1>2, <1>3, <1>4, <1>6, <1>7, <1>8, <1>10, <1>11, <1>12 DEF IInv

\* kstep_reset_tasks(): nobody is attached, so nobody is counted twice.
LEMMA ResetTasksStep ==
  ASSUME IInv, kstep_reset_tasks
  PROVE  IInv'
<1>0. /\ IsolationType /\ IsolationInv /\ CountType /\ CountInv /\ StampType /\ StampInv /\ TaskType /\ TaskInv
      /\ MoveType /\ MoveInv
  BY DEF IInv
<1>1. /\ pc = "kstep_reset_tasks" /\ pc' = "ready"
      /\ avg' = [t \in Tasks |-> IF cpu[t] = 0 THEN avg[t] ELSE 0]
      /\ early' = {t \in Tasks : st[t] = "run"}
      /\ UNCHANGED <<isolation, timekeeping>>
      /\ UNCHANGED <<panicked, jiffies, kstep_jiffies, offset, mocked, kstep_sched_clock>>
      /\ UNCHANGED <<rq_clock, next_balance, rq_avg, st, cpu, load, twice>>
      /\ UNCHANGED <<scan, moving, active, armed, fresh, off, fired, todo>>
  BY Steps DEF kstep_reset_tasks, reset_sched_avg, counters, clock, stamps, bandwidth
<1>2. IsolationType' /\ IsolationInv'
  BY <1>0, <1>1, IsolationLater
<1>3. CountType'
  BY <1>0, <1>1 DEF CountType
<1>4. CountInv'
  BY <1>0, <1>1 DEF CountInv
<1>5. StampType'
  BY <1>0, <1>1 DEF StampType
<1>6. StampInv'
  BY <1>0, <1>1 DEF StampInv
<1>7. \A t \in Tasks : avg'[t] = 0
  BY <1>0, <1>1 DEF TaskInv
<1>8. TaskType'
  <2>1. 0 \in Times
    BY Bounds DEF Times
  <2> QED
    BY <1>0, <1>1, <2>1 DEF TaskType
<1>9. TaskInv'
  <2>1. kstep_sched_clock >= 0
    BY <1>0, Bounds DEF CountType
  <2> QED
    BY <1>0, <1>1, <1>7, <2>1 DEF TaskInv
<1>10. MoveType'
  BY <1>0, <1>1 DEF MoveType
<1>11. MoveInv'
  BY <1>0, <1>1 DEF MoveInv
<1> QED
  BY <1>2, <1>3, <1>4, <1>5, <1>6, <1>8, <1>9, <1>10, <1>11 DEF IInv

\* A clock that moves to Stamp(c).
LEMMA ClockStep ==
  ASSUME CountType, CountInv, StampType, StampInv, NEW c \in AllCpus,
         rq_clock' = [rq_clock EXCEPT ![c] = Stamp(c)],
         UNCHANGED <<next_balance, rq_avg, jiffies, kstep_sched_clock>>, SamePhase
  PROVE  StampType' /\ StampInv'
<1>1. /\ Stamp(c) \in Times /\ Stamp(c) >= rq_clock[c] /\ (pc \in Reset => Stamp(c) <= kstep_sched_clock)
  BY StampIs
<1>2. StampType'
  BY <1>1 DEF StampType
<1>3. pc' \in Reset => pc \in Reset
  BY DEF SamePhase
<1>4. \A d \in AllCpus : rq_clock'[d] = IF d = c THEN Stamp(c) ELSE rq_clock[d]
  BY DEF StampType
<1>5. ASSUME pc' \in Reset, NEW d \in AllCpus PROVE rq_clock'[d] <= kstep_sched_clock'
  BY <1>1, <1>3, <1>4, <1>5 DEF StampInv
<1>6. ASSUME pc' \in Reset, NEW d \in TestCpus PROVE next_balance'[d] <= jiffies' + 1 /\ rq_avg'[d] <= rq_clock'[d]
  <2>0. d \in AllCpus
    BY Sizes
  <2>1. PICK a \in 0 .. Real, r \in 0 .. Real, s \in 0 .. Real : a = rq_avg[d] /\ r = rq_clock[d] /\ s = Stamp(c)
    BY <1>1, <2>0 DEF StampType, Times
  <2>2. next_balance[d] <= jiffies + 1 /\ rq_avg[d] <= rq_clock[d]
    BY <1>3, <1>6 DEF StampInv
  <2>3. PICK q : q = rq_clock'[d]
    OBVIOUS
  <2>4. q = IF d = c THEN s ELSE r
    BY <1>4, <2>0, <2>1, <2>3
  <2>5. d = c => s >= r
    BY <1>1, <2>1
  <2>6. a <= q
    BY <2>1, <2>2, <2>4, <2>5, Bounds
  <2> QED
    BY <2>1, <2>2, <2>3, <2>6
<1>7. StampInv'
  BY <1>5, <1>6 DEF StampInv
<1> QED
  BY <1>2, <1>7

\* A task is enqueued: detached and part of no load, or attached and part of its own.
LEMMA EnqueueStep ==
  ASSUME CountType, CountInv, StampType, StampInv, TaskType, TaskInv,
         NEW t \in Tasks, NEW c \in TestCpus, Enqueue(t, c),
         st' = [st EXCEPT ![t] = "run"],
         UNCHANGED <<next_balance, rq_avg, jiffies, kstep_sched_clock>>, SamePhase,
         pc # "kstep_reset_tasks"
  PROVE  StampType' /\ StampInv' /\ TaskType' /\ TaskInv'
<1> DEFINE a == IF c = cpu[t] THEN avg[t] ELSE 0
           l == IF c = cpu[t] THEN load[t] ELSE None
<1>0. c \in AllCpus /\ c # 0 /\ AllCpus \subseteq Nat /\ None \notin AllCpus
  BY Sizes
<1>1. /\ avg'  = [avg EXCEPT ![t] = IF a = 0 THEN Stamp(c) ELSE a]
      /\ load' = [load EXCEPT ![t] = IF a = 0 THEN c ELSE l]
      /\ twice' = (twice \/ (a = 0 /\ l # None))
      /\ cpu'  = [cpu EXCEPT ![t] = c]
      /\ rq_clock' = [rq_clock EXCEPT ![c] = Stamp(c)]
      /\ early' = early \ {t}
  BY DEF Enqueue
<1>2. StampType' /\ StampInv'
  BY <1>0, <1>1, ClockStep
<1>3. /\ Stamp(c) \in Times /\ Stamp(c) > 0 /\ (pc \in Reset => Stamp(c) <= kstep_sched_clock)
  BY <1>0, StampIs
<1>4. /\ a = 0 => l = None
      /\ a # 0 => l = c /\ a = avg[t]
  <2>1. CASE c = cpu[t]
    <3>1. a = avg[t] /\ l = load[t]
      BY <2>1
    <3>2. cpu[t] # 0 /\ avg[t] = 0 => load[t] = None
      BY DEF TaskInv
    <3>3. cpu[t] # 0 /\ avg[t] # 0 => load[t] = cpu[t]
      BY DEF TaskInv
    <3> HIDE DEF a, l
    <3> QED
      BY <1>0, <2>1, <3>1, <3>2, <3>3
  <2>2. CASE c # cpu[t]
    BY <2>2
  <2> QED
    BY <2>1, <2>2
<1>5. a \in Times
  <2>1. 0 \in Times
    BY Bounds DEF Times
  <2> QED
    BY <2>1 DEF TaskType
<1>6. ~twice'
  BY <1>1, <1>4, Zenon DEF TaskInv
<1> HIDE DEF a, l
<1>7. /\ avg'[t] \in Times /\ avg'[t] # 0 /\ load'[t] = c /\ cpu'[t] = c /\ st'[t] = "run"
  <2>1. /\ avg'[t] = (IF a = 0 THEN Stamp(c) ELSE a) /\ load'[t] = (IF a = 0 THEN c ELSE l)
        /\ cpu'[t] = c /\ st'[t] = "run"
    BY <1>1 DEF TaskType
  <2>2. Stamp(c) # 0
    <3>1. PICK s \in 0 .. Real : s = Stamp(c)
      BY <1>3 DEF Times
    <3>2. s > 0
      BY <1>3, <3>1
    <3>3. s # 0
      BY <3>2, Bounds
    <3> QED
      BY <3>1, <3>3
  <2> QED
    BY <1>3, <1>4, <1>5, <2>1, <2>2
<1>8. \A u \in Tasks : u # t => avg'[u] = avg[u] /\ load'[u] = load[u] /\ cpu'[u] = cpu[u] /\ st'[u] = st[u]
  BY <1>1 DEF TaskType
<1>9. TaskType'
  <2>1. avg' \in [Tasks -> Times]
    BY <1>1, <1>3, <1>5 DEF TaskType
  <2>2. load' \in [Tasks -> AllCpus \union {None}]
    <3>1. (IF a = 0 THEN c ELSE l) \in AllCpus
      BY <1>0, <1>4
    <3> QED
      BY <1>1, <3>1 DEF TaskType
  <2> QED
    BY <1>0, <1>1, <2>1, <2>2 DEF TaskType
<1>10. (pc' \in InRun <=> pc \in InRun) /\ pc' # "kstep_reset_tasks"
  BY DEF SamePhase
<1>11. pc \in InRun => avg'[t] <= kstep_sched_clock
  <2> SUFFICES ASSUME pc \in InRun PROVE avg'[t] <= kstep_sched_clock
    OBVIOUS
  <2>1. Stamp(c) <= kstep_sched_clock /\ avg[t] <= kstep_sched_clock
    BY <1>3 DEF TaskInv
  <2>2. avg'[t] = (IF a = 0 THEN Stamp(c) ELSE a)
    BY <1>1 DEF TaskType
  <2> QED
    BY <1>4, <2>1, <2>2
<1>12. ASSUME NEW u \in Tasks
       PROVE  /\ cpu'[u] = 0 => avg'[u] = 0
              /\ st'[u] = "none" => cpu'[u] = 0
              /\ st'[u] = "run" => cpu'[u] # 0
              /\ cpu'[u] # 0 /\ avg'[u] = 0 => load'[u] = None
              /\ cpu'[u] # 0 => load'[u] \in {cpu'[u], None}
              /\ cpu'[u] # 0 /\ avg'[u] # 0 /\ pc' # "kstep_reset_tasks" => load'[u] = cpu'[u]
              /\ cpu'[u] # 0 /\ pc' = "kstep_reset_tasks" => load'[u] = None
              /\ pc' \in InRun => avg'[u] <= kstep_sched_clock'
              /\ pc' \in InRun /\ st'[u] = "run" /\ u \notin early' => avg'[u] # 0
  <2>1. CASE u = t
    BY <1>0, <1>7, <1>10, <1>11, <2>1
  <2>2. CASE u # t
    <3>1. avg'[u] = avg[u] /\ load'[u] = load[u] /\ cpu'[u] = cpu[u] /\ st'[u] = st[u] /\ (u \in early' <=> u \in early)
      BY <1>1, <1>8, <2>2
    <3> QED
      BY <1>10, <3>1 DEF TaskInv
  <2> QED
    BY <2>1, <2>2
<1>13. TaskInv'
  BY <1>6, <1>12 DEF TaskInv
<1> QED
  BY <1>2, <1>9, <1>13

-----------------------------------------------------------------------------
(* The tick of a CPU, and the driver. *)

LEMMA LaterIs ==
  ASSUME NEW j \in Times
  PROVE  Later(j) \in Times /\ Later(j) <= j + 1
BY Bounds DEF Later, Times

LEMMA LaterOf ==
  ASSUME NEW a \in 0 .. Real, NEW r \in 0 .. Real, NEW s \in 0 .. Real, s >= r, a <= r
  PROVE  (IF s > a THEN s ELSE a) <= s
BY Bounds

\* A tick on a CPU.
LEMMA TickedStamps ==
  ASSUME CountType, CountInv, StampType, StampInv, NEW c \in AllCpus, Ticked(c),
         UNCHANGED kstep_sched_clock, SamePhase, pc \in Reset => jiffies' = jiffies
  PROVE  StampType' /\ StampInv'
<1>1. /\ Stamp(c) \in Times /\ Stamp(c) >= rq_clock[c] /\ (pc \in Reset => Stamp(c) <= kstep_sched_clock)
  BY StampIs
<1>2. PICK s \in 0 .. Real : s = Stamp(c)
  BY <1>1 DEF Times
<1>3. jiffies \in Times
  BY DEF CountType
<1>4. PICK j \in 0 .. Real : j = Later(jiffies) /\ j <= jiffies + 1
  BY <1>3, LaterIs DEF Times
<1>5. /\ rq_clock' = [rq_clock EXCEPT ![c] = s]
      /\ next_balance' = [next_balance EXCEPT ![c] = IF jiffies >= next_balance[c] THEN j ELSE next_balance[c]]
      /\ rq_avg' = [rq_avg EXCEPT ![c] = IF s > rq_avg[c] THEN s ELSE rq_avg[c]]
  BY <1>2, <1>4 DEF Ticked
<1>6. StampType'
  BY <1>5 DEF StampType, Times
<1>7. pc' \in Reset => pc \in Reset
  BY DEF SamePhase
<1>8. ASSUME pc' \in Reset, NEW d \in AllCpus PROVE rq_clock'[d] <= kstep_sched_clock'
  <2>1. rq_clock'[d] = IF d = c THEN s ELSE rq_clock[d]
    BY <1>5 DEF StampType
  <2>2. s <= kstep_sched_clock /\ rq_clock[d] <= kstep_sched_clock
    BY <1>1, <1>2, <1>7, <1>8 DEF StampInv
  <2> QED
    BY <2>1, <2>2
<1>9. ASSUME pc' \in Reset, NEW d \in TestCpus PROVE next_balance'[d] <= jiffies' + 1
  <2>1. d \in AllCpus
    BY Sizes
  <2>2. next_balance'[d] = IF d = c THEN IF jiffies >= next_balance[c] THEN j ELSE next_balance[c] ELSE next_balance[d]
    BY <1>5, <2>1 DEF StampType
  <2>3. next_balance[d] <= jiffies + 1 /\ jiffies' = jiffies
    BY <1>7, <1>9 DEF StampInv
  <2> QED
    BY <1>4, <2>2, <2>3
<1>10. ASSUME pc' \in Reset, NEW d \in TestCpus PROVE rq_avg'[d] <= rq_clock'[d]
  <2>1. d \in AllCpus
    BY Sizes
  <2>2. rq_avg[d] <= rq_clock[d]
    BY <1>7, <1>10 DEF StampInv
  <2>3. CASE d # c
    <3>1. rq_avg'[d] = rq_avg[d] /\ rq_clock'[d] = rq_clock[d]
      BY <1>5, <2>1, <2>3 DEF StampType
    <3> QED
      BY <2>2, <3>1
  <2>4. CASE d = c
    <3>1. PICK a \in 0 .. Real, r \in 0 .. Real : a = rq_avg[d] /\ r = rq_clock[d]
      BY <2>1 DEF StampType, Times
    <3>2. rq_clock'[d] = s /\ rq_avg'[d] = IF s > a THEN s ELSE a
      BY <1>5, <2>1, <2>4, <3>1 DEF StampType
    <3>3. s >= r /\ a <= r
      BY <1>1, <1>2, <2>2, <2>4, <3>1
    <3>4. (IF s > a THEN s ELSE a) <= s
      BY <3>3, LaterOf
    <3> QED
      BY <3>2, <3>4
  <2> QED
    BY <2>3, <2>4
<1>11. StampInv'
  BY <1>8, <1>9, <1>10 DEF StampInv
<1> QED
  BY <1>6, <1>11

LEMMA TickedTasks ==
  ASSUME CountType, CountInv, StampType, StampInv, TaskType, TaskInv, NEW c \in AllCpus, Ticked(c),
         UNCHANGED <<kstep_sched_clock, st, cpu, load, early, twice>>, SamePhase
  PROVE  TaskType' /\ TaskInv'
<1>1. /\ Stamp(c) \in Times /\ Stamp(c) > 0 /\ (pc \in Reset => Stamp(c) <= kstep_sched_clock)
  BY StampIs
<1>2. PICK s \in Times : s = Stamp(c)
  BY <1>1
<1>3. s # 0
  <2>1. s \in Nat
    BY Bounds DEF Times
  <2>2. s > 0
    BY <1>1, <1>2
  <2> QED
    BY <2>1, <2>2
<1>4. avg' = [t \in Tasks |-> IF Runs(t, c) /\ avg[t] # 0 THEN s ELSE avg[t]]
  BY <1>2 DEF Ticked
<1>5. TaskType'
  BY <1>4 DEF TaskType
<1>6. ASSUME NEW t \in Tasks
      PROVE  /\ avg'[t] = 0 <=> avg[t] = 0
             /\ pc \in InRun => avg'[t] <= kstep_sched_clock
  <2>1. CASE Runs(t, c) /\ avg[t] # 0
    <3>1. avg'[t] = s
      BY <1>4, <2>1
    <3> QED
      BY <1>1, <1>2, <1>3, <2>1, <3>1
  <2>2. CASE ~(Runs(t, c) /\ avg[t] # 0)
    <3>1. avg'[t] = avg[t]
      BY <1>4, <2>2
    <3> QED
      BY <3>1 DEF TaskInv
  <2> QED
    BY <2>1, <2>2
<1>7. (pc' \in InRun <=> pc \in InRun) /\ (pc' = "kstep_reset_tasks" <=> pc = "kstep_reset_tasks")
  BY DEF SamePhase
<1>8. TaskInv'
  BY <1>6, <1>7 DEF TaskInv
<1> QED
  BY <1>5, <1>8

\* The driver's calls.
LEMMA CreateStep ==
  ASSUME IInv, NEW t \in Tasks, kstep_task_create(t)
  PROVE  IInv'
<1>0. TaskType /\ TaskInv /\ MoveType /\ MoveInv
  BY DEF IInv
<1>1. /\ st[t] = "none" /\ st' = [st EXCEPT ![t] = "sleep"]
      /\ load' = [load EXCEPT ![t] = 0] /\ avg' = [avg EXCEPT ![t] = 0]
      /\ UNCHANGED <<isolation, timekeeping, counters, clock, stamps>>
      /\ UNCHANGED <<pc, panicked, cpu, early, twice, scan, moving, bandwidth, todo>>
  BY DEF kstep_task_create, reset_sched_avg
<1>2. UNCHANGED <<jiffies, kstep_sched_clock>>
  BY <1>1 DEF counters, clock
<1>3. SamePhase
  BY <1>1 DEF SamePhase
<1>4. IsolationType' /\ IsolationInv'
  BY <1>1, <1>3, IsolationFrame DEF IInv
<1>5. CountType' /\ CountInv'
  BY <1>1, <1>3, CountFrame DEF IInv
<1>6. StampType' /\ StampInv'
  BY <1>1, <1>2, <1>3, StampFrame DEF IInv
<1>7. TaskType'
  <2>1. 0 \in Times /\ 0 \in AllCpus
    BY Sizes DEF Times
  <2> QED
    BY <1>0, <1>1, <2>1 DEF TaskType
<1>8. \A u \in Tasks : u # t => st'[u] = st[u] /\ load'[u] = load[u] /\ avg'[u] = avg[u]
  BY <1>0, <1>1 DEF TaskType
<1>9. st'[t] = "sleep" /\ load'[t] = 0 /\ avg'[t] = 0 /\ cpu'[t] = 0
  BY <1>0, <1>1 DEF TaskType, TaskInv
<1>10. TaskInv'
  <2>1. kstep_sched_clock' >= 0
    BY <1>2, Bounds DEF IInv, CountType
  <2>2. ~twice'
    BY <1>0, <1>1 DEF TaskInv
  <2>3. ASSUME NEW u \in Tasks
        PROVE  /\ cpu'[u] = 0 => avg'[u] = 0
               /\ st'[u] = "none" => cpu'[u] = 0
               /\ st'[u] = "run" => cpu'[u] # 0
               /\ cpu'[u] # 0 /\ avg'[u] = 0 => load'[u] = None
               /\ cpu'[u] # 0 => load'[u] \in {cpu'[u], None}
               /\ cpu'[u] # 0 /\ avg'[u] # 0 /\ pc' # "kstep_reset_tasks" => load'[u] = cpu'[u]
               /\ cpu'[u] # 0 /\ pc' = "kstep_reset_tasks" => load'[u] = None
               /\ pc' \in InRun => avg'[u] <= kstep_sched_clock'
               /\ pc' \in InRun /\ st'[u] = "run" /\ u \notin early' => avg'[u] # 0
    <3>1. CASE u = t
      BY <1>9, <2>1, <3>1
    <3>2. CASE u # t
      BY <1>0, <1>1, <1>2, <1>8, <3>2 DEF TaskInv
    <3> QED
      BY <3>1, <3>2
  <2> QED
    BY <2>2, <2>3 DEF TaskInv
<1>11. MoveType'
  BY <1>0, <1>1 DEF MoveType, bandwidth
<1>12. MoveInv'
  <2>1. \A u \in Tasks : st[u] = "run" => st'[u] = "run"
    BY <1>1, <1>8
  <2> QED
    BY <1>0, <1>1, <2>1 DEF MoveInv, bandwidth
<1> QED
  BY <1>4, <1>5, <1>6, <1>7, <1>10, <1>11, <1>12 DEF IInv

LEMMA WaitingIs ==
  ASSUME Driver(pc), pc' = Waiting
  PROVE  /\ pc \in {"setup", "ready"} /\ pc' \in {"setup settles", "settles"} /\ SamePhase
BY DEF Driver, Waiting, SamePhase

LEMMA WakeupStep ==
  ASSUME IInv, NEW t \in Tasks, NEW c \in TestCpus, kstep_task_wakeup(t, c)
  PROVE  IInv'
<1>0. /\ CountType /\ CountInv /\ StampType /\ StampInv /\ TaskType /\ TaskInv /\ MoveType /\ MoveInv
  BY DEF IInv
<1>1. /\ pc \in {"setup", "ready"} /\ pc' \in {"setup settles", "settles"} /\ SamePhase
  BY WaitingIs DEF kstep_task_wakeup
<1>2. /\ st' = [st EXCEPT ![t] = "run"] /\ Enqueue(t, c) /\ moving' = moving \union {c}
      /\ UNCHANGED <<isolation, timekeeping, counters, clock>>
      /\ UNCHANGED <<panicked, next_balance, rq_avg, scan, bandwidth, todo>>
  BY DEF kstep_task_wakeup
<1>3. UNCHANGED <<jiffies, kstep_sched_clock>>
  BY <1>2 DEF counters, clock
<1>4. IsolationType' /\ IsolationInv'
  BY <1>1, <1>2, IsolationFrame DEF IInv
<1>5. CountType' /\ CountInv'
  BY <1>0, <1>1, <1>2, CountFrame
<1>6. StampType' /\ StampInv' /\ TaskType' /\ TaskInv'
  BY <1>0, <1>1, <1>2, <1>3, EnqueueStep
<1>7. MoveType'
  BY <1>0, <1>2 DEF MoveType, bandwidth
<1>8. MoveInv'
  BY <1>0, <1>1, <1>2 DEF MoveInv, bandwidth
<1> QED
  BY <1>4, <1>5, <1>6, <1>7, <1>8 DEF IInv

LEMMA PauseStep ==
  ASSUME IInv, NEW t \in Tasks, kstep_task_pause(t)
  PROVE  IInv'
<1>0. /\ CountType /\ CountInv /\ StampType /\ StampInv /\ TaskType /\ TaskInv /\ MoveType /\ MoveInv
  BY DEF IInv
<1>1. /\ pc \in {"setup", "ready"} /\ pc' \in {"setup settles", "settles"} /\ SamePhase
  BY WaitingIs DEF kstep_task_pause
<1>2. /\ st[t] = "run" /\ st' = [st EXCEPT ![t] = "sleep"]
      /\ moving' = moving \union {cpu[t]} /\ early' = early \ {t}
      /\ UNCHANGED <<isolation, timekeeping, counters, clock, stamps>>
      /\ UNCHANGED <<panicked, cpu, avg, load, twice, scan, bandwidth, todo>>
  BY DEF kstep_task_pause
<1>3. UNCHANGED <<jiffies, kstep_sched_clock>>
  BY <1>2 DEF counters, clock
<1>4. IsolationType' /\ IsolationInv'
  BY <1>1, <1>2, IsolationFrame DEF IInv
<1>5. CountType' /\ CountInv'
  BY <1>0, <1>1, <1>2, CountFrame
<1>6. StampType' /\ StampInv'
  BY <1>0, <1>1, <1>2, <1>3, StampFrame
<1>7. TaskType'
  BY <1>0, <1>2 DEF TaskType
<1>8. \A u \in Tasks : st'[u] = IF u = t THEN "sleep" ELSE st[u]
  BY <1>0, <1>2 DEF TaskType
<1>9. TaskInv'
  <2>1. (pc' \in InRun <=> pc \in InRun) /\ pc' # "kstep_reset_tasks" /\ pc # "kstep_reset_tasks"
    BY <1>1 DEF SamePhase
  <2>2. ~twice'
    BY <1>0, <1>2 DEF TaskInv
  <2>3. ASSUME NEW u \in Tasks
        PROVE  /\ cpu'[u] = 0 => avg'[u] = 0
               /\ st'[u] = "none" => cpu'[u] = 0
               /\ st'[u] = "run" => cpu'[u] # 0
               /\ cpu'[u] # 0 /\ avg'[u] = 0 => load'[u] = None
               /\ cpu'[u] # 0 => load'[u] \in {cpu'[u], None}
               /\ cpu'[u] # 0 /\ avg'[u] # 0 /\ pc' # "kstep_reset_tasks" => load'[u] = cpu'[u]
               /\ cpu'[u] # 0 /\ pc' = "kstep_reset_tasks" => load'[u] = None
               /\ pc' \in InRun => avg'[u] <= kstep_sched_clock'
               /\ pc' \in InRun /\ st'[u] = "run" /\ u \notin early' => avg'[u] # 0
    <3>1. st'[u] = "run" \/ st'[u] = "none" => st'[u] = st[u] /\ u # t
      BY <1>2, <1>8
    <3> QED
      BY <1>0, <1>2, <1>3, <2>1, <3>1 DEF TaskInv
  <2> QED
    BY <2>2, <2>3 DEF TaskInv
<1>10. MoveType'
  <2>1. cpu[t] \in TestCpus
    <3>1. cpu[t] # 0 /\ cpu[t] \in AllCpus
      BY <1>0, <1>2 DEF TaskInv, TaskType
    <3> QED
      BY <3>1, Sizes
  <2> QED
    BY <1>0, <1>2, <2>1 DEF MoveType, bandwidth
<1>11. MoveInv'
  BY <1>0, <1>1, <1>2 DEF MoveInv, bandwidth
<1> QED
  BY <1>4, <1>5, <1>6, <1>7, <1>9, <1>10, <1>11 DEF IInv

\* What the kernel does by itself.
LEMMA BalanceStep ==
  ASSUME IInv, NEW t \in Tasks, NEW c \in TestCpus, Balance(t, c)
  PROVE  IInv'
<1>0. /\ CountType /\ CountInv /\ StampType /\ StampInv /\ TaskType /\ TaskInv /\ MoveType /\ MoveInv
      /\ IsolationInv
  BY DEF IInv
<1>1. /\ st[t] = "run" /\ (pc = "kstep_do_sched_tick" \/ c \in sched_timer) /\ Enqueue(t, c)
      /\ moving' = moving \union {c}
      /\ UNCHANGED <<isolation, timekeeping, counters, clock>>
      /\ UNCHANGED <<pc, panicked, st, next_balance, rq_avg, scan, bandwidth, todo>>
  BY DEF Balance
<1>2. UNCHANGED <<jiffies, kstep_sched_clock>>
  BY <1>1 DEF counters, clock
<1>3. SamePhase
  BY <1>1 DEF SamePhase
<1>4. pc = "kstep_do_sched_tick" \/ pc \notin NoTimer
  BY <1>0, <1>1 DEF IsolationInv
<1>5. st' = [st EXCEPT ![t] = "run"]
  BY <1>0, <1>1 DEF TaskType
<1>6. IsolationType' /\ IsolationInv'
  BY <1>1, <1>3, IsolationFrame DEF IInv
<1>7. CountType' /\ CountInv'
  BY <1>0, <1>1, <1>3, CountFrame
<1>8. pc # "kstep_reset_tasks"
  BY <1>4
<1>9. StampType' /\ StampInv' /\ TaskType' /\ TaskInv'
  BY <1>0, <1>1, <1>2, <1>3, <1>5, <1>8, EnqueueStep
<1>10. MoveType'
  BY <1>0, <1>1 DEF MoveType, bandwidth
<1>11. MoveInv'
  BY <1>0, <1>1, <1>4 DEF MoveInv, bandwidth
<1> QED
  BY <1>6, <1>7, <1>9, <1>10, <1>11 DEF IInv

LEMMA ActStep ==
  ASSUME IInv, NEW c \in TestCpus, Act(c)
  PROVE  IInv'
<1>0. /\ CountType /\ CountInv /\ StampType /\ StampInv /\ TaskType /\ TaskInv /\ MoveType /\ MoveInv
  BY DEF IInv
<1>1. /\ c \in moving /\ moving' = moving \ {c} /\ rq_clock' = [rq_clock EXCEPT ![c] = Stamp(c)]
      /\ UNCHANGED <<isolation, timekeeping, counters, clock>>
      /\ UNCHANGED <<pc, panicked, next_balance, rq_avg, tasks, scan, bandwidth, todo>>
  BY DEF Act
<1>2. UNCHANGED <<jiffies, kstep_sched_clock>>
  BY <1>1 DEF counters, clock
<1>3. SamePhase
  BY <1>1 DEF SamePhase
<1>4. IsolationType' /\ IsolationInv'
  BY <1>1, <1>3, IsolationFrame DEF IInv
<1>5. CountType' /\ CountInv'
  BY <1>0, <1>1, <1>3, CountFrame
<1>6. c \in AllCpus
  BY Sizes
<1>7. StampType' /\ StampInv'
  BY <1>0, <1>1, <1>2, <1>3, <1>6, ClockStep
<1>8. TaskType' /\ TaskInv'
  BY <1>0, <1>1, <1>2, <1>3, TaskFrame
<1>9. MoveType'
  BY <1>0, <1>1 DEF MoveType, bandwidth
<1>10. MoveInv'
  BY <1>0, <1>1 DEF MoveInv, bandwidth, tasks
<1> QED
  BY <1>4, <1>5, <1>7, <1>8, <1>9, <1>10 DEF IInv

-----------------------------------------------------------------------------
(* The kernel by itself, and the settles. *)

\* jiffies may move by themselves as long as nobody counts.
LEMMA RealJiffies ==
  ASSUME CountType, CountInv, UNCHANGED <<pc, panicked, kstep_jiffies, offset, clock>>,
         jiffies' \in {jiffies, Later(jiffies)}, jiffies' # jiffies => pc \notin Counted
  PROVE  CountType' /\ CountInv'
<1>1. UNCHANGED <<pc, panicked, kstep_jiffies, offset, mocked, kstep_sched_clock>>
  BY DEF clock
<1>2. jiffies' \in Times
  BY LaterIs DEF CountType
<1>3. CountType'
  BY <1>1, <1>2 DEF CountType
<1>4. CountInv'
  <2>1. pc \in Counted => jiffies' = jiffies
    OBVIOUS
  <2> HIDE DEF Counted, Mocked, InRun
  <2> QED
    BY <1>1, <2>1 DEF CountInv
<1> QED
  BY <1>3, <1>4

\* A tick of its own: past kstep_tick_init() only on CPU 0, where no task of the driver runs.
LEMMA SchedTimerStep ==
  ASSUME IInv, NEW c \in AllCpus, tick_sched_timer(c)
  PROVE  IInv'
<1>0. /\ CountType /\ CountInv /\ StampType /\ StampInv /\ TaskType /\ TaskInv /\ MoveType /\ MoveInv
      /\ IsolationType /\ IsolationInv
  BY DEF IInv
<1>1. /\ c \in sched_timer /\ Ticked(c)
      /\ moving' = moving \/ ((\E t \in Tasks : Runs(t, c)) /\ moving' = moving \union {c})
      /\ UNCHANGED <<sched_timer, nworkers, worker_mask, bound, kthreads, timekeeper, next_period>>
      /\ UNCHANGED <<pc, panicked, kstep_jiffies, offset, clock, st, cpu, load, early, twice, scan>>
      /\ UNCHANGED <<active, armed, fresh, off, fired, todo>>
  BY DEF tick_sched_timer, isolation, bandwidth
<1>2. /\ jiffies' \in {jiffies, Later(jiffies)} /\ (jiffies' # jiffies => timekeeper \/ next_period)
      /\ updating' = updating \/ (c # 0 /\ updating' = updating \union {c})
  BY DEF tick_sched_timer
<1>3. SamePhase
  BY <1>1 DEF SamePhase
<1>4. c # 0 => c \in TestCpus /\ pc \notin NoTimer
  BY <1>0, <1>1, Sizes DEF IsolationInv
<1>5. jiffies' # jiffies => pc \notin NoNext
  BY <1>0, <1>2 DEF IsolationInv
<1>6. IsolationType'
  BY <1>0, <1>1, <1>2, <1>4 DEF IsolationType
<1>7. IsolationInv'
  <2>1. pc \in NoTimer => updating' = updating
    BY <1>2, <1>4
  <2> HIDE DEF InRun, Reset, Mocked, Counted, NoNext, NoKeeper, NoTimer, InSetup, Moved, Staffed, Pcs
  <2> QED
    BY <1>0, <1>1, <2>1 DEF IsolationInv
<1>8. CountType' /\ CountInv'
  BY <1>0, <1>1, <1>2, <1>5, RealJiffies
<1>9. kstep_sched_clock' = kstep_sched_clock
  BY <1>1 DEF clock
<1>10. pc \in Reset => jiffies' = jiffies
  BY <1>5
<1>11. StampType' /\ StampInv'
  BY <1>0, <1>1, <1>3, <1>9, <1>10, TickedStamps
<1>12. TaskType' /\ TaskInv'
  BY <1>0, <1>1, <1>3, <1>9, TickedTasks
<1>13. moving' # moving => /\ \E t \in Tasks : st[t] = "run"
                           /\ pc \notin NoTimer /\ c \in TestCpus /\ moving' = moving \union {c}
  <2> SUFFICES ASSUME moving' # moving
               PROVE  /\ \E t \in Tasks : st[t] = "run"
                      /\ pc \notin NoTimer /\ c \in TestCpus /\ moving' = moving \union {c}
    OBVIOUS
  <2>1. moving' = moving \union {c}
    BY <1>1
  <2>2. PICK t \in Tasks : Runs(t, c)
    BY <1>1
  <2>3. st[t] = "run" /\ cpu[t] = c
    BY <2>2 DEF Runs
  <2>4. c # 0
    BY <1>0, <2>3 DEF TaskInv
  <2> QED
    BY <1>4, <2>1, <2>3, <2>4
<1>14. MoveType'
  BY <1>0, <1>1, <1>13 DEF MoveType
<1>15. MoveInv'
  BY <1>0, <1>1, <1>13 DEF MoveInv
<1> QED
  BY <1>6, <1>7, <1>8, <1>11, <1>12, <1>14, <1>15 DEF IInv

LEMMA UpdateStep ==
  ASSUME IInv, NEW c \in TestCpus, tick_do_update_jiffies64(c)
  PROVE  IInv'
<1>0. /\ CountType /\ CountInv /\ StampType /\ StampInv /\ TaskType /\ TaskInv /\ MoveType /\ MoveInv
      /\ IsolationType /\ IsolationInv
  BY DEF IInv
<1>1. /\ c \in updating /\ updating' = updating \ {c} /\ jiffies' = Later(jiffies) /\ next_period' = TRUE
      /\ UNCHANGED <<sched_timer, nworkers, worker_mask, bound, kthreads, timekeeper>>
      /\ UNCHANGED <<pc, panicked, kstep_jiffies, offset, clock, stamps, tasks, scan, moving, bandwidth, todo>>
  BY DEF tick_do_update_jiffies64, isolation
<1>2. pc \notin NoTimer
  BY <1>0, <1>1 DEF IsolationInv
<1>3. SamePhase
  BY <1>1 DEF SamePhase
<1>4. IsolationType'
  BY <1>0, <1>1 DEF IsolationType
<1>5. IsolationInv'
  BY <1>0, <1>1, <1>2 DEF IsolationInv
<1>6. CountType' /\ CountInv'
  BY <1>0, <1>1, <1>2, RealJiffies
<1>7. StampType' /\ StampInv'
  <2>1. StampType'
    BY <1>0, <1>1 DEF StampType, stamps
  <2>2. StampInv'
    BY <1>1, <1>2 DEF StampInv
  <2> QED
    BY <2>1, <2>2
<1>8. kstep_sched_clock' = kstep_sched_clock /\ st' = st
  BY <1>1 DEF clock, tasks
<1>9. TaskType' /\ TaskInv'
  BY <1>0, <1>1, <1>3, <1>8, TaskFrame
<1>10. MoveType' /\ MoveInv'
  BY <1>0, <1>1, <1>3, <1>8, MoveFrame
<1> QED
  BY <1>4, <1>5, <1>6, <1>7, <1>9, <1>10 DEF IInv

\* The other steps that leave the clocks and the stamps alone.
LEMMA OutsideFrame ==
  ASSUME IInv, UNCHANGED <<counters, clock, stamps, tasks, pc, panicked>>
  PROVE  CountType' /\ CountInv' /\ StampType' /\ StampInv' /\ TaskType' /\ TaskInv'
<1>1. SamePhase /\ UNCHANGED <<jiffies, kstep_sched_clock>>
  BY DEF SamePhase, counters, clock
<1>2. CountType' /\ CountInv'
  BY <1>1, CountFrame DEF IInv
<1>3. StampType' /\ StampInv'
  BY <1>1, StampFrame DEF IInv
<1>4. TaskType' /\ TaskInv'
  BY <1>1, TaskFrame DEF IInv
<1> QED
  BY <1>2, <1>3, <1>4

LEMMA BlockingStep ==
  ASSUME IInv, NEW c \in AllCpus, BlockingWork(c)
  PROVE  IInv'
<1>0. IsolationType /\ IsolationInv /\ MoveType /\ MoveInv
  BY DEF IInv
<1>1. /\ nworkers[c] = 1 /\ nworkers' = [nworkers EXCEPT ![c] = 2]
      /\ worker_mask' = [worker_mask EXCEPT ![c] = @ \union (IF c \in bound THEN {c} ELSE AllCpus)]
      /\ UNCHANGED <<sched_timer, bound, kthreads, timekeeper, next_period, updating>>
      /\ UNCHANGED <<counters, clock, stamps, tasks, pc, panicked>>
      /\ UNCHANGED <<scan, moving, bandwidth, todo>>
  BY DEF BlockingWork, timekeeping
<1>2. CountType' /\ CountInv' /\ StampType' /\ StampInv' /\ TaskType' /\ TaskInv'
  BY <1>1, OutsideFrame
<1>3. pc \notin Staffed
  <2> HIDE DEF InRun, Reset, Mocked, Counted, NoNext, NoKeeper, NoTimer, InSetup, Moved, Staffed, Pcs
  <2>1. pc \in Staffed => nworkers[c] = 2
    BY <1>0 DEF IsolationInv
  <2> QED
    BY <1>1, <2>1
<1>4. IsolationType'
  <2>1. 2 \in 1 .. 2
    OBVIOUS
  <2>2. nworkers' \in [AllCpus -> 1 .. 2]
    BY <1>0, <1>1, <2>1 DEF IsolationType
  <2>3. worker_mask' \in [AllCpus -> SUBSET AllCpus]
    BY <1>0, <1>1 DEF IsolationType
  <2> QED
    BY <1>0, <1>1, <2>2, <2>3 DEF IsolationType
<1>5. IsolationInv'
  BY <1>0, <1>1, <1>3 DEF IsolationInv
<1>6. SamePhase /\ st' = st
  BY <1>1 DEF SamePhase, tasks
<1>7. MoveType' /\ MoveInv'
  BY <1>0, <1>1, <1>6, MoveFrame
<1> QED
  BY <1>2, <1>4, <1>5, <1>7 DEF IInv

\* kstep_tick(), from settle to settle.
LEMMA SettleStep ==
  ASSUME IInv, kstep_settle
  PROVE  IInv'
<1>0. /\ CountType /\ CountInv /\ StampType /\ StampInv /\ TaskType /\ TaskInv /\ MoveType /\ MoveInv
  BY DEF IInv
<1>1. /\ moving = {} /\ fired' = {} /\ todo' = Timers
      /\ UNCHANGED <<isolation, timekeeping, counters, clock, stamps, tasks>>
      /\ UNCHANGED <<panicked, scan, moving, active, armed, fresh, off>>
  BY DEF kstep_settle
<1>2. \/ pc = "setup settles" /\ pc' = "setup"
      \/ pc = "settles" /\ pc' = "ready"
      \/ pc = "kstep_tick" /\ pc' = "kstep_sched_clock_tick"
      \/ pc = "tick settles" /\ pc' = "kstep_bandwidth_tick"
  BY DEF kstep_settle, AfterSettle
<1>3. SamePhase
  BY <1>2 DEF SamePhase
<1>4. UNCHANGED <<jiffies, kstep_sched_clock, kstep_jiffies, offset, mocked>>
  BY <1>1 DEF counters, clock
<1>5. IsolationType' /\ IsolationInv'
  BY <1>1, <1>3, IsolationFrame DEF IInv
<1>6. CountType'
  BY <1>0, <1>1, <1>4 DEF CountType
<1>7. CountInv'
  BY <1>0, <1>1, <1>2, <1>4 DEF CountInv
<1>8. StampType' /\ StampInv'
  BY <1>0, <1>1, <1>3, <1>4, StampFrame
<1>9. TaskType' /\ TaskInv'
  BY <1>0, <1>1, <1>3, <1>4, TaskFrame
<1>10. MoveType'
  BY <1>0, <1>1 DEF MoveType
<1>11. MoveInv'
  BY <1>0, <1>1 DEF MoveInv
<1> QED
  BY <1>5, <1>6, <1>7, <1>8, <1>9, <1>10, <1>11 DEF IInv

LEMMA TickBeginStep ==
  ASSUME IInv, kstep_tick
  PROVE  IInv'
<1>0. /\ CountType /\ CountInv /\ StampType /\ StampInv /\ TaskType /\ TaskInv /\ MoveType /\ MoveInv
  BY DEF IInv
<1>1. /\ pc = "ready" /\ pc' = "kstep_tick" /\ kstep_jiffies < MaxTicks
      /\ UNCHANGED <<isolation, timekeeping, counters, clock, stamps, tasks>>
      /\ UNCHANGED <<panicked, scan, moving, bandwidth, todo>>
  BY DEF kstep_tick, Driver
<1>2. SamePhase
  BY <1>1 DEF SamePhase
<1>3. UNCHANGED <<jiffies, kstep_sched_clock, kstep_jiffies, offset, mocked, st>>
  BY <1>1 DEF counters, clock, tasks
<1>4. IsolationType' /\ IsolationInv'
  BY <1>1, <1>2, IsolationFrame DEF IInv
<1>5. CountType'
  BY <1>0, <1>1, <1>3 DEF CountType
<1>6. CountInv'
  BY <1>0, <1>1, <1>3 DEF CountInv
<1>7. StampType' /\ StampInv'
  BY <1>0, <1>1, <1>2, <1>3, StampFrame
<1>8. TaskType' /\ TaskInv'
  BY <1>0, <1>1, <1>2, <1>3, TaskFrame
<1>9. MoveType' /\ MoveInv'
  BY <1>0, <1>1, <1>2, <1>3, MoveFrame
<1> QED
  BY <1>4, <1>5, <1>6, <1>7, <1>8, <1>9 DEF IInv

LEMMA TickEndStep ==
  ASSUME IInv, tick_end
  PROVE  IInv'
<1>0. /\ CountType /\ CountInv /\ StampType /\ StampInv /\ TaskType /\ TaskInv /\ MoveType /\ MoveInv
  BY DEF IInv
<1>1. /\ pc = "kstep_bandwidth_tick" /\ pc' = "ready"
      /\ UNCHANGED <<isolation, timekeeping, counters, clock, stamps, tasks>>
      /\ UNCHANGED <<panicked, scan, moving, bandwidth, todo>>
  BY DEF tick_end
<1>2. SamePhase
  BY <1>1 DEF SamePhase
<1>3. UNCHANGED <<jiffies, kstep_sched_clock, st>>
  BY <1>1 DEF counters, clock, tasks
<1>4. IsolationType' /\ IsolationInv'
  BY <1>1, <1>2, IsolationFrame DEF IInv
<1>5. CountType' /\ CountInv'
  BY <1>0, <1>1, <1>2, CountFrame
<1>6. StampType' /\ StampInv'
  BY <1>0, <1>1, <1>2, <1>3, StampFrame
<1>7. TaskType' /\ TaskInv'
  BY <1>0, <1>1, <1>2, <1>3, TaskFrame
<1>8. MoveType' /\ MoveInv'
  BY <1>0, <1>1, <1>2, <1>3, MoveFrame
<1> QED
  BY <1>4, <1>5, <1>6, <1>7, <1>8 DEF IInv

-----------------------------------------------------------------------------
(* The tick. *)

LEMMA SchedClockTickStep ==
  ASSUME IInv, kstep_sched_clock_tick
  PROVE  IInv'
<1>0. /\ CountType /\ CountInv /\ StampType /\ StampInv /\ TaskType /\ TaskInv /\ MoveType /\ MoveInv
  BY DEF IInv
<1>1. /\ pc = "kstep_sched_clock_tick" /\ pc' = "kstep_jiffies_tick"
      /\ kstep_sched_clock' = kstep_sched_clock + 1
      /\ UNCHANGED <<isolation, timekeeping>>
      /\ UNCHANGED <<panicked, jiffies, kstep_jiffies, offset, mocked>>
      /\ UNCHANGED <<rq_clock, next_balance, rq_avg, st, cpu, avg, load, early, twice>>
      /\ UNCHANGED <<scan, moving, bandwidth, todo>>
  BY DEF kstep_sched_clock_tick, counters, stamps, tasks
<1>2. SamePhase
  BY <1>1 DEF SamePhase
<1>3. IsolationType' /\ IsolationInv'
  BY <1>1, <1>2, IsolationFrame DEF IInv
<1>4. PICK k \in 0 .. MaxTicks : k = kstep_jiffies
  BY <1>0 DEF CountType
<1>5. kstep_sched_clock = k + 1 /\ k < MaxTicks
  BY <1>0, <1>1, <1>4 DEF CountInv
<1>6. kstep_sched_clock' = k + 2 /\ k + 2 \in 1 .. MaxTicks + 1
  BY <1>1, <1>5, Bounds
<1>7. CountType'
  BY <1>0, <1>1, <1>6 DEF CountType
<1>8. CountInv'
  <2>1. kstep_jiffies' = k /\ kstep_sched_clock' = k + 2 /\ k < MaxTicks
    BY <1>1, <1>4, <1>5, <1>6
  <2> QED
    BY <1>0, <1>1, <2>1 DEF CountInv
<1>9. StampType'
  BY <1>0, <1>1 DEF StampType
<1>10. StampInv'
  <2>1. ASSUME NEW c \in AllCpus PROVE rq_clock[c] <= k + 2
    <3>1. PICK r \in 0 .. Real : r = rq_clock[c]
      BY <1>0 DEF StampType, Times
    <3>2. r <= k + 1
      BY <1>0, <1>1, <1>5, <3>1 DEF StampInv
    <3>3. r <= k + 2
      BY <3>2, Bounds
    <3> QED
      BY <3>1, <3>3
  <2> QED
    BY <1>0, <1>1, <1>6, <2>1 DEF StampInv
<1>11. TaskType'
  BY <1>0, <1>1 DEF TaskType
<1>12. TaskInv'
  <2>1. ASSUME NEW t \in Tasks PROVE avg[t] <= k + 2
    <3>1. PICK r \in 0 .. Real : r = avg[t]
      BY <1>0 DEF TaskType, Times
    <3>2. r <= k + 1
      BY <1>0, <1>1, <1>5, <3>1 DEF TaskInv
    <3>3. r <= k + 2
      BY <3>2, Bounds
    <3> QED
      BY <3>1, <3>3
  <2> QED
    BY <1>0, <1>1, <1>6, <2>1 DEF TaskInv
<1>13. MoveType' /\ MoveInv'
  BY <1>0, <1>1, <1>2, MoveFrame
<1> QED
  BY <1>3, <1>7, <1>8, <1>9, <1>10, <1>11, <1>12, <1>13 DEF IInv

\* The check of jiffies never fails.
LEMMA JiffiesTickStep ==
  ASSUME IInv, kstep_jiffies_tick
  PROVE  IInv'
<1>0. /\ CountType /\ CountInv /\ StampType /\ StampInv /\ TaskType /\ TaskInv /\ MoveType /\ MoveInv
  BY DEF IInv
<1>1. pc = "kstep_jiffies_tick" /\ pc' = "kstep_do_sched_tick"
  BY DEF kstep_jiffies_tick
<1>2. PICK k \in 0 .. MaxTicks : k = kstep_jiffies
  BY <1>0 DEF CountType
<1>3. offset = 1 /\ jiffies = k + 1 /\ k < MaxTicks /\ kstep_sched_clock = k + 2
  BY <1>0, <1>1, <1>2 DEF CountInv
<1>4. /\ kstep_jiffies' = k + 1 /\ jiffies' = k + 1 + 1 /\ scan' = 1
      /\ UNCHANGED <<isolation, timekeeping, stamps, tasks>>
      /\ UNCHANGED <<panicked, offset, mocked, kstep_sched_clock, moving>>
      /\ UNCHANGED <<active, armed, fresh, off, fired, todo>>
  BY <1>2, <1>3 DEF kstep_jiffies_tick, clock, bandwidth
<1>5. /\ k + 1 \in 0 .. MaxTicks /\ k + 1 + 1 \in Times /\ k + 2 = k + 1 + 1
  BY <1>3, Bounds DEF Times
<1>6. SamePhase
  BY <1>1 DEF SamePhase
<1>7. IsolationType' /\ IsolationInv'
  BY <1>4, <1>6, IsolationFrame DEF IInv
<1>8. CountType'
  BY <1>0, <1>4, <1>5 DEF CountType
<1>9. CountInv'
  <2>1. kstep_sched_clock' = kstep_jiffies' + 1 /\ jiffies' = kstep_jiffies' + 1
    BY <1>3, <1>4, <1>5
  <2> QED
    BY <1>0, <1>1, <1>3, <1>4, <2>1 DEF CountInv
<1>10. StampType'
  BY <1>0, <1>4 DEF StampType, stamps
<1>11. StampInv'
  <2>1. ASSUME NEW c \in TestCpus PROVE next_balance[c] <= k + 1 + 1 + 1
    <3>0. c \in AllCpus
      BY Sizes
    <3>1. PICK r \in 0 .. Real : r = next_balance[c]
      BY <1>0, <3>0 DEF StampType, Times
    <3>2. r <= k + 1 + 1
      BY <1>0, <1>1, <1>3, <3>1 DEF StampInv
    <3>3. r <= k + 1 + 1 + 1
      BY <3>2, Bounds
    <3> QED
      BY <3>1, <3>3
  <2> QED
    BY <1>0, <1>1, <1>4, <2>1 DEF StampInv, stamps
<1>12. TaskType' /\ TaskInv'
  BY <1>0, <1>4, <1>6, TaskFrame
<1>13. MoveType'
  <2>1. 1 \in TestCpus
    BY Bounds DEF TestCpus
  <2> QED
    BY <1>0, <1>4, <2>1 DEF MoveType
<1>14. MoveInv'
  BY <1>0, <1>1, <1>4 DEF MoveInv
<1> QED
  BY <1>7, <1>8, <1>9, <1>10, <1>11, <1>12, <1>13, <1>14 DEF IInv

LEMMA DoSchedTickStep ==
  ASSUME IInv, kstep_do_sched_tick
  PROVE  IInv'
<1>0. /\ CountType /\ CountInv /\ StampType /\ StampInv /\ TaskType /\ TaskInv /\ MoveType /\ MoveInv
  BY DEF IInv
<1>1. /\ pc = "kstep_do_sched_tick" /\ pc' \in {pc, "tick settles"} /\ Ticked(scan)
      /\ moving' \in {moving, moving \union {scan}}
      /\ scan' = scan \/ (scan < NCpus /\ scan' = scan + 1)
      /\ UNCHANGED <<isolation, timekeeping, counters, clock>>
      /\ UNCHANGED <<panicked, st, cpu, load, early, twice>>
      /\ UNCHANGED <<active, armed, fresh, off, fired, todo>>
  BY DEF kstep_do_sched_tick, bandwidth
<1>2. SamePhase
  BY <1>1 DEF SamePhase
<1>3. UNCHANGED <<jiffies, kstep_sched_clock>>
  BY <1>1 DEF counters, clock
<1>4. scan \in TestCpus /\ scan \in AllCpus
  BY <1>0, Sizes DEF MoveType
<1>5. scan' \in TestCpus
  <2>1. PICK n \in 1 .. NCpus : n = scan
    BY <1>4 DEF TestCpus
  <2>2. CASE scan' = scan
    BY <1>4, <2>2
  <2>3. CASE scan < NCpus /\ scan' = scan + 1
    <3>1. n < NCpus /\ scan' = n + 1
      BY <2>1, <2>3
    <3>2. n + 1 \in 1 .. NCpus
      BY <3>1, Bounds
    <3> QED
      BY <3>1, <3>2 DEF TestCpus
  <2> QED
    BY <1>1, <2>2, <2>3
<1>6. IsolationType' /\ IsolationInv'
  BY <1>1, <1>2, IsolationFrame DEF IInv
<1>7. CountType' /\ CountInv'
  BY <1>0, <1>1, <1>2, CountFrame
<1>8. StampType' /\ StampInv'
  BY <1>0, <1>1, <1>2, <1>3, <1>4, TickedStamps
<1>9. TaskType' /\ TaskInv'
  BY <1>0, <1>1, <1>2, <1>3, <1>4, TickedTasks
<1>10. MoveType'
  BY <1>0, <1>1, <1>4, <1>5 DEF MoveType
<1>11. MoveInv'
  BY <1>0, <1>1 DEF MoveInv
<1> QED
  BY <1>6, <1>7, <1>8, <1>9, <1>10, <1>11 DEF IInv

\* The steps of the period timers alone.
LEMMA BandwidthFrame ==
  ASSUME IInv, UNCHANGED <<isolation, timekeeping, counters, clock, stamps, tasks, pc, panicked, scan>>,
         MoveType', MoveInv'
  PROVE  IInv'
<1>1. SamePhase
  BY DEF SamePhase
<1>2. IsolationType' /\ IsolationInv'
  BY <1>1, IsolationFrame DEF IInv
<1>3. CountType' /\ CountInv' /\ StampType' /\ StampInv' /\ TaskType' /\ TaskInv'
  BY OutsideFrame
<1> QED
  BY <1>2, <1>3 DEF IInv

LEMMA BandwidthTickStep ==
  ASSUME IInv, NEW k \in Timers, kstep_bandwidth_tick(k)
  PROVE  IInv'
<1>0. MoveType /\ MoveInv
  BY DEF IInv
<1>1. /\ todo' = todo \ {k}
      /\ UNCHANGED <<isolation, timekeeping, counters, clock, stamps, tasks, pc, panicked, scan>>
      /\ st' = st
  BY DEF kstep_bandwidth_tick, tasks
<1>2. \/ UNCHANGED <<moving, active, armed, fresh, off, fired>>
      \/ /\ armed' = armed \ {k} /\ fresh' = fresh \ {k} /\ off' = off
         /\ UNCHANGED <<active, fired, moving>>
      \/ /\ armed' = armed \ {k} /\ fresh' = fresh \ {k} /\ off' = off
         /\ active' \in {active, active \ {k}} /\ fired' = fired \union {k}
         /\ \E S \in SUBSET TestCpus : moving' = moving \union S
  BY DEF kstep_bandwidth_tick, kstep_period_timer_tick, hrtimer_cancel, PeriodCallback, bandwidth
<1>3. MoveType'
  BY <1>0, <1>1, <1>2 DEF MoveType
<1>4. MoveInv'
  <2>0. armed \subseteq fresh /\ ~off
    BY <1>0 DEF MoveInv
  <2>1. armed' \subseteq fresh' /\ ~off'
    <3>1. \/ armed' = armed /\ fresh' = fresh /\ off' = off
          \/ armed' = armed \ {k} /\ fresh' = fresh \ {k} /\ off' = off
      BY <1>2, Zenon
    <3> QED
      BY <2>0, <3>1
  <2>2. (moving' = moving /\ fired' = fired) \/ fired' = fired \union {k}
    BY <1>2, Zenon
  <2>3. (moving' = moving /\ fired' = fired) \/ fired' # {}
    BY <2>2
  <2> HIDE DEF InRun, Reset, Mocked, Counted, NoNext, NoKeeper, NoTimer, InSetup, Moved, Staffed, Pcs
  <2> QED
    BY <1>0, <1>1, <2>1, <2>3 DEF MoveInv
<1> QED
  BY <1>1, <1>3, <1>4, BandwidthFrame

LEMMA StartStep ==
  ASSUME IInv, NEW k \in Timers, start_bandwidth(k)
  PROVE  IInv'
<1>0. MoveType /\ MoveInv
  BY DEF IInv
<1>1. /\ active' = active \union {k} /\ armed' = armed \union {k} /\ fresh' = fresh \union {k}
      /\ UNCHANGED <<isolation, timekeeping, counters, clock, stamps, tasks, pc, panicked, scan>>
      /\ UNCHANGED <<st, moving, off, fired, todo>>
  BY DEF start_bandwidth, tasks
<1>2. MoveType'
  BY <1>0, <1>1 DEF MoveType
<1>3. MoveInv'
  BY <1>0, <1>1 DEF MoveInv
<1> QED
  BY <1>1, <1>2, <1>3, BandwidthFrame

\* A queued hrtimer is always a fresh one.
LEMMA GoesOffStep ==
  ASSUME IInv, NEW k \in Timers, PeriodGoesOff(k)
  PROVE  IInv'
<1>0. MoveType /\ MoveInv
  BY DEF IInv
<1>1. /\ k \in armed /\ off' = (off \/ k \notin fresh) /\ fired' = fired \union {k}
      /\ UNCHANGED <<isolation, timekeeping, counters, clock, stamps, tasks, pc, panicked, scan>>
      /\ UNCHANGED <<st, fresh, todo>>
  BY DEF PeriodGoesOff, PeriodCallback, tasks
<1>2. PICK idle \in BOOLEAN, S \in SUBSET TestCpus :
        /\ active' = IF idle THEN active \ {k} ELSE active
        /\ armed' = IF idle THEN armed \ {k} ELSE armed
        /\ moving' = moving \union S
  BY DEF PeriodGoesOff, PeriodCallback
<1>3. MoveType'
  <2>1. armed' \subseteq active' /\ active' \subseteq Timers
    BY <1>0, <1>2 DEF MoveType
  <2> QED
    BY <1>0, <1>1, <1>2, <2>1 DEF MoveType
<1>4. MoveInv'
  <2>1. armed' \subseteq fresh'
    BY <1>0, <1>1, <1>2 DEF MoveInv
  <2>2. ~off'
    BY <1>0, <1>1 DEF MoveInv
  <2>3. fired' # {}
    BY <1>1
  <2> QED
    BY <2>1, <2>2, <2>3 DEF MoveInv
<1> QED
  BY <1>1, <1>3, <1>4, BandwidthFrame

LEMMA StutterStep ==
  ASSUME IInv, UNCHANGED vars
  PROVE  IInv'
<1>1. UNCHANGED <<isolation, timekeeping, counters, clock, stamps, tasks, pc, panicked, scan>>
  BY DEF vars
<1>2. UNCHANGED <<st, scan, moving, bandwidth, todo>> /\ SamePhase
  BY DEF vars, tasks, SamePhase
<1>3. MoveType' /\ MoveInv'
  BY <1>2, MoveFrame DEF IInv, vars
<1> QED
  BY <1>1, <1>3, BandwidthFrame

\* Every step keeps the invariant.
LEMMA NextStep ==
  ASSUME IInv, [Next]_vars
  PROVE  IInv'
<1>1. CASE Boot
  BY <1>1, SymStep, IsolateStep, MockStep, ResetRunqueuesStep, ResetTasksStep DEF Boot
<1>2. CASE Tick
  BY <1>2, SettleStep, TickBeginStep, SchedClockTickStep, JiffiesTickStep, DoSchedTickStep,
     BandwidthTickStep, TickEndStep DEF Tick
<1>3. CASE \/ \E t \in Tasks : kstep_task_create(t)
           \/ \E t \in Tasks, c \in TestCpus : kstep_task_wakeup(t, c)
           \/ \E t \in Tasks : kstep_task_pause(t)
           \/ \E t \in Tasks, c \in TestCpus : Balance(t, c)
           \/ \E c \in TestCpus : Act(c)
  BY <1>3, CreateStep, WakeupStep, PauseStep, BalanceStep, ActStep
<1>4. CASE \/ \E c \in AllCpus : tick_sched_timer(c)
           \/ \E c \in TestCpus : tick_do_update_jiffies64(c)
           \/ \E c \in AllCpus : BlockingWork(c)
           \/ \E k \in Timers : start_bandwidth(k)
           \/ \E k \in Timers : PeriodGoesOff(k)
  BY <1>4, SchedTimerStep, UpdateStep, BlockingStep, StartStep, GoesOffStep
<1>5. CASE Stopped \/ UNCHANGED vars
  BY <1>5, StutterStep DEF Stopped
<1> QED
  BY <1>1, <1>2, <1>3, <1>4, <1>5 DEF Next

-----------------------------------------------------------------------------
(* The theorems. *)

\* The inductive invariant: for each place of kstep_main(), what has been turned off,
\* how the two counts of jiffies and the clock stand to each other, how late a stamp
\* may be, and which load a task is part of.
THEOREM Invariant == Spec => []IInv
BY InitInv, NextStep, PTL DEF Spec

\* Every variable keeps to its type: in particular no time of jiffies or of a
\* runqueue passes the real one.
THEOREM TypeCorrect == Spec => []TypeOK
<1>1. IInv => TypeOK
  BY DEF IInv, IsolationType, CountType, StampType, TaskType, MoveType, TypeOK
<1> QED
  BY <1>1, Invariant, PTL

\* When kstep_reset_runqueues() writes to the test CPUs' runqueues without their
\* locks, and ever after, no timer, worker or kernel thread of the kernel's own can
\* run there, on any number of CPUs.
THEOREM ResetFindsQuiet == Spec => []QuietAtReset
<1>1. IInv => QuietAtReset
  <2> SUFFICES ASSUME IInv, pc = "kstep_reset_runqueues" \/ Running, NEW c \in TestCpus
               PROVE  /\ c \notin sched_timer \union kthreads
                      /\ \A d \in AllCpus : c \notin worker_mask[d]
                      /\ pc = "kstep_reset_runqueues" /\ c \in moving => fired # {} \/ \E t \in Tasks : st[t] = "run"
    BY DEF QuietAtReset
  <2>1. pc \in Mocked
    BY RunningIs
  <2>2. c # 0
    BY Sizes
  <2>3. sched_timer \intersect TestCpus = {} /\ kthreads = {0} /\ \A d \in AllCpus : worker_mask[d] = {0}
    BY <2>1 DEF IInv, IsolationInv
  <2>4. pc = "kstep_reset_runqueues" => moving = {} \/ fired # {} \/ \E t \in Tasks : st[t] = "run"
    BY DEF IInv, MoveInv
  <2> QED
    BY <2>2, <2>3, <2>4
<1> QED
  BY <1>1, Invariant, PTL

\* While the driver runs, no runqueue and no task has a stamp from after the mocked
\* time: what kstep_reset_runqueues() and kstep_reset_tasks() left was not stamped
\* anew with the real one.
THEOREM StampsInEpoch == Spec => []InEpoch
<1>1. IInv => InEpoch
  <2> SUFFICES ASSUME IInv, Running
               PROVE  /\ \A c \in AllCpus : rq_clock[c] <= kstep_sched_clock
                      /\ \A c \in TestCpus : next_balance[c] <= jiffies + 1 /\ rq_avg[c] <= rq_clock[c]
                      /\ \A t \in Tasks : avg[t] <= kstep_sched_clock
    BY DEF InEpoch
  <2>1. pc \in InRun /\ pc \in Reset
    BY RunningIs
  <2> QED
    BY <2>1 DEF IInv, StampInv, TaskInv
<1> QED
  BY <1>1, Invariant, PTL

\* The check of kstep_jiffies_tick() never panics, whatever interrupts come between
\* the stores of kstep_jiffies_init(), for any number of ticks.
THEOREM JiffiesNeverDrift == Spec => []NoDrift
<1>1. IInv => NoDrift
  BY DEF IInv, CountInv, NoDrift
<1> QED
  BY <1>1, Invariant, PTL

\* The load of a runnable task is part of its CPU's cfs_rq exactly once, whatever was
\* woken, moved or ticked before the reset; but for those left runnable over it.
THEOREM LoadsCountedOnce == Spec => []LoadCountedOnce
<1>1. IInv => LoadCountedOnce
  <2> SUFFICES ASSUME IInv PROVE LoadCountedOnce
    OBVIOUS
  <2>1. ~twice
    BY DEF IInv, TaskInv
  <2>2. ASSUME Running, NEW t \in Tasks \ early, st[t] = "run" PROVE load[t] = cpu[t]
    <3>1. pc \in InRun /\ pc # "kstep_reset_tasks"
      BY <2>2, RunningIs
    <3> HIDE DEF InRun
    <3>2. cpu[t] # 0 /\ avg[t] # 0
      BY <2>2, <3>1 DEF IInv, TaskInv
    <3> QED
      BY <3>1, <3>2 DEF IInv, TaskInv
  <2> QED
    BY <2>1, <2>2 DEF LoadCountedOnce
<1> QED
  BY <1>1, Invariant, PTL

\* At a tick's begin and end the test CPUs are held, or a bandwidth period has gone
\* off; and none goes off by itself that kstep_bandwidth_tick() has suppressed.
THEOREM TickFindsCpusHeld == Spec => []HeldUnlessPeriod
<1>1. IInv => HeldUnlessPeriod
  BY DEF IInv, MoveInv, HeldUnlessPeriod
<1> QED
  BY <1>1, Invariant, PTL

=============================================================================
