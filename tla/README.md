# kSTEP in TLA+

kSTEP steps the Linux scheduler by hand.  A kernel module runs inside a QEMU
guest: a *controller* on CPU 0 takes commands from the host, makes tasks on
the other CPUs act, drives their clock ticks, waits until nothing is left to
happen and only then answers.  A scheduler bug is found by comparing what the
host is then shown; so the project checks, above all, that *when the answer
goes out nothing is still happening*, that the answer is the right command's,
and that the machine it was given on is the one that was asked for.

## 1. Inventory

| part | code | state | operations | what makes it correct |
|---|---|---|---|---|
| task control | `kmod/task.c`, `user/user.c` | per task: a ring of 8 asks, the flag `settled`, a pending signal | create and park, put an ask, wake; the task's own loop: read the control file, act, halt | no ask is lost; asks are done in order; the ring never overflows |
| settle and tick | `kmod/tick.c` | none of its own: reads `rq->curr`, `ttwu_pending`, `need_resched` and the flag of every CPU | `kstep_settle`, `kstep_tick` | a settle that returns has left every CPU with nothing to do; it returns |
| command loop | `kmod/cli.c` | the numbered tasks, the reply being built | one function per verb; read, execute, settle, write the region, reply | every command is answered once, after it took effect, whatever it did |
| channel | `kmod/io.c` | transmit pool and virtqueue, receive buffers, byte ring | write from any context, reclaim, two interrupts, read a line | records neither lost nor mixed up; lines whole |
| host session | `crates/kstep/src/session.rs` | socket, child process, RAM file | start, cmd, read_reply, state, exit, drop, snapshot | a reply is the command's own; the state read is the state it left |
| shared region | `kmod/shm.c`, `crates/core/src/shm.rs` | tables in guest memory | written in place after every command, read by the host without a lock | never read while being written; tables agree |
| topology | `kmod/cpu.c` | the number of test CPUs, one mask per level and CPU, capacities | parse and apply a spec | masks are groups; CPU 0 and spares alone; a refused spec changes nothing |
| cgroups | `kmod/kernel.c` | the cgroup tree and its cpusets | create, destroy, weight, cpus, attach | no half-made group stays; a removal never fails; tasks keep to the test CPUs |
| freezer | `kmod/kernel.c` | the kernel's global freezing flag | freeze, thaw | only the task asked for, or one caught with a signal, freezes, and only during the call |
| events, tracing | `kmod/event.c`, `trace.c` | subscriber lists, the hook table, the ftrace filter, a stash per CPU | add a subscriber and arm its hooks, dispatch, emit | a list read by another CPU never shows an empty entry; who has registered is called, once; a balance is reported as its own |
| checkers | `kmod/checkers/` | one small record each | hooks, a verdict at a settle, tick or freeze | a verdict is about state that was complete, and about what the rule says |
| boot: isolation, mocked clock, reset | `main.c`, `isolation.c`, `tick_clock.c`, `tick_jiffies.c`, `reset.c`, `sym.c` | where kworkers and threads may run, the clock and jiffies, every stamp in a runqueue or task | the fixed order of `kstep_main()`; advance by one tick | nothing runs beside the unlocked reset; no real time is left in a stamp; time moves only in ticks; every load is counted once |
| fuzzer | `crates/fuzz` | corpus, findings | decode bytes to a program, run it, vet a candidate on the fixed kernel | a decoded program names live tasks; a finding is silent on the fixed kernel |
| build, snapshots | `crates/kstep/src/build.rs` | kernel image and copy, kmod mirror, archive, boot snapshot with sidecar and log, their mtimes | build Linux, build the rest, take a snapshot unless a fresh one is there | what mtimes call up to date is whole and fits together, whatever was killed |
| rest | `cov.c`, `kmod/drivers`, host command line, plots | | a map of counters, straight-line programs, I/O | not modelled, see `PROJECT.json` |

The parts meet as follows.  The host writes a line to a socket; QEMU's
virtio console hands it to `io.c`, whose ring `cli.c` reads a line from;
`execute()` calls into `task.c`, `tick.c`, `cpu.c` or `kernel.c`; `run()` then
settles, has `shm.c` rewrite the region and writes the reply, which travels
back among the trace records that hooks on the other CPUs raise at any time.
The host reads the region out of the guest's RAM file after the reply.

What is hard about it: the controller and the tasks share the ring and the
flag without a lock; wakeups cross CPUs while the controller looks at one CPU
after another; records are sent with interrupts off from any CPU; a spec is
parsed while it is applied; rules register while CPUs are inside the functions
they trace; runqueues are reset without their locks while the kernel's own timers
and workers are being stopped; a host that gives up leaves a reply in flight.
`PROJECT.json` lists these at their lines under `hazards`, with the properties
that cover each.

## 2. Modules

`TaskControl` (with `MCTaskControl`, `TaskControlProofs`): `task.c`, `user.c`,
`tick.c` and `cli.c` together, because the property that matters is about all
four.  A task's `loc` says where it is in `task_main()` and `kstep_ctrl_read()`:
in user mode, past a take that found nothing (`taken`), halted (`halt`), out of
the halt with the flag still set (`left`), asleep, exited.  The flag `settled` is
therefore not a variable: it is set exactly in `halt` and `left`.  `queue` is
the ring, `hand` the ask that the read returned and whose syscall is not over,
`sig` a pending SIGUSR1.  The controller's `pc` follows `run()`: a command puts
an ask, perhaps interrupts (`kick`), settles CPU by CPU (`settle`, `scan`, and
`ret` for where to go on), settles once more (`finish`), and replies.  The
steps that the code does not make atomic are separate: the take, the test with
interrupts off, leaving the halt, clearing the flag; on the other side the put,
the test of the flag with its IPI, and each CPU of the settle's loop.

Of the kernel's scheduler only what the code relies on is modelled, as a
nondeterministic environment: a woken task goes to any test CPU, at once or
through that CPU's wake list; an enqueue or a tick may ask for a reschedule; a
balance may pull a queued task; under `CONFIG_PREEMPT_NONE` a task is switched
out only on its way to user mode or when it sleeps.

`Session`, `SessionSpec` (with `MCSession`, `SessionProofs`): the way of a command to the driver
and back.  `SessionSpec` is the promise: commands one at a time, in order, once
each; a state read shows exactly the commands answered.  `Session` is how it is
kept: the transmit stack, virtqueue and `content` of the buffers, the receive
buffers and byte ring with wrapping `rx_head`/`rx_tail`, `kstep_io_readline()` a
byte at a time, `run()`, the region written in two halves, and the host.  What a
command does is in `TaskControl`; here it is a number.

`Topology` (with `MCTopology`, `TopologyProofs`): `kstep_topo_set()` one key and
one group at a time, so that each early return is a step of its own and leaves
what the code leaves.  The groups may be any of `Lists`, the empty list, CPU 0
and CPUs past the bound included.  `domains` is what the kernel was last told to
build its domains from.

`Cgroups` (with `CgroupsProofs`): the cgroup verbs, `create` and `affinity` over the tree.  The kernel's
rules are operators of their own (`ValidDomain`, `CanHost`, `Effective`,
`cpus_mask`), marked external; `kstep_cgroup_create()` is two steps, since it makes
the directory before it knows whether it can be configured.  A task that was
killed exits at any later step.

`Region` (with `MCRegion`; proved in `CgroupsProofs`) extends `Cgroups`, adding to its verbs the tasks' numbers
and classes and the hierarchy the domains were built from.  The region itself is
no variable: `kstep_shm_update()` rewrites all of it after every verb, so it is an
operator of the machine's state, `decode()` one of the region's, and the
properties compare the two ends.  A table is its header count and its fixed number
of rows, those not written being `Stale`.  `Cgroups` is checked through this module.

`Events` (with `MCEvents`, `EventsProofs`): a registration is the list of its stores (`todo`), taken
one at a time by the controller, while each test CPU walks a kernel path of traced
functions (`run`); `kstep_dispatch()` looks a function up in what has been
published, `call` is the event being raised, entry by entry.  `sync_wakeup`'s
sampling on the test CPUs is split where the code is not atomic (the count, then
the reference and the entry), and so is its verdict on CPU 0.

`Checkers` (with `MCCheckers`, `CheckersProofs`): the rules that look at a tick's end or a freeze, over
tasks that are made, woken, moved, put to sleep and killed, and the freezer, whose
flag is global between `kstep_freeze_task` and `FreezeReturns` while tasks take their
signals on their own CPUs (`TakeSignal`).  `snap` and `stated` are history: what the
rules' comments speak of.

`Clock` (with `MCClock`, `ClockProofs`): `kstep_main` is the sequence of the boot's steps; the kernel
acts beside it through `sched_timer`, `worker_mask` and `kthreads` as long as they let
it.  A time is a number of mocked ticks, or `Real`.  The tick then runs in the code's
order (settle, clock, jiffies, one CPU after the other, settle, period timers);
`moving` are the CPUs that have something left to do.

`Build` (with `MCBuild`, `BuildProofs`): one build directory and the tools run on
it one after the other, a step per file written.  `now` is the clock the mtimes
are read from; a file's `of` says what it was made from, and `Kill` may leave
the file being written `Partial` with a fresh mtime.  An error of a step, after
which `?` skips the rest, is a `Kill` too.

Operators whose name ends in a suffix after the code's name
(`kstep_ctrl_put_Unchecked`) are the mutants `PROJECT.json` lists: each is what a
plausible slip in that function would make of it, and the run named there fails
with it.

## 3. Runs

Passing runs:

| run | instance | shows |
|---|---|---|
| `control_one_cpu` | 2 tasks, 1 CPU, queue of 2, every command (700 000 states) | `TypeOK`, `LostOnlyByOverlap` |
| `control_two_cpus` | 2 tasks, 2 CPUs, no channel write, fair (215 000 states) | `QuietAtReply` across CPUs, `RepliedUnlessLost` |
| `session` | 2 transmit buffers, ring of 4 bytes, indices modulo 8, lines of 1 and 3 bytes against a limit of 3, 2 commands and exit, trace records, fair | `PoolConserved`, `RecordsInOrder`, `LineIntact`, `OwnReply`, `PanicOnlyBehind` (a panic of the channel means the host is a whole pool behind), `PromiseSpec` (the refinement of `SessionSpec`), `Answered` |
| `topology` | 4 CPUs, one level the kernel has and one it has not, up to 2 groups a spec, good and bad lists, 1 task | `TypeOK`, `MasksGrouped`, `DomainsGrouped`, `TasksOnTestCpus` |
| `region` | 2 tasks, 3 cgroups of which one is nested and one has a path that fits no row, 1 or 3 test CPUs, rows for 2 cgroups and 5 groups (580 000 states) | `TypeOK`, `TreeSound`, `TasksOnTestCpus`, `TablesJoin`, `DomainsShown` |
| `events` | 2 CPUs, 2 entries an event, 5 hooks, 1 sample slot, 3 wakeups (920 000 states) | `PublishedFirst`, `HeardOnce`, `BalanceIsOwn`, `TornOnlyByChain`, `RefsReturned` |
| `checkers` | 2 tasks, 2 test CPUs with and without a spare, streaks of 2 (1.5 million states) | `WorkConserveAsStated`, `NoFalseAlarm`, `JudgedExactly`, `FrozenOnlyInFreeze` |
| `clock` | 2 tasks, 2 test CPUs, the boot and 2 ticks, one period timer of 2 ticks and one of less than a tick (990 000 states) | `QuietAtReset`, `InEpoch`, `NoDrift`, `LoadCountedOnce`, `HeldUnlessPeriod` |
| `build` | 2 edits, 11 writes (more than two whole fuzzer starts), 2 clients, kills everywhere (2.9 million states) | `StaleOnlyByCut`, `SnapshotUsable` |

Runs that find what the repository says of itself violated; each is a finding
in `PROJECT.json`, with the line it contradicts:

| run | property | what happens |
|---|---|---|
| `lost_ask` | `NoLostAsk` | a tick ends the halt, the settle after it passes on the flag that is still set, and the next ask falls between the task's take and its halt: nobody interrupts it, the controller spins for ever |
| `settle_chain` | `QuietAtReply` | a channel write on CPU 2 wakes a task to CPU 1 after the settle has left CPU 1 |
| `cut_build` | `ModuleMatchesKernel` | a build killed after make wrote a new image leaves the kmod mirror; the next build's make has nothing to do, so a module of the old kernel is packed |

Read off the models while they were written, and worth knowing:
* a refused `cpu-topo` has already changed the number of test CPUs (`TopoBegin`), so
  the domains still span the old ones; a second spec starts from the masks of the
  first; a cgroup made before a spec keeps a cpuset of the old test CPUs, which is
  why `Cgroups!TasksOnTestCpus` excuses a spec after the first cgroup;
* an ask of a runnable task that is not on its CPU is still queued when its verb
  returns; nine verbs to a task that sleeps fill its queue of eight and panic the
  guest (`task.c:42`; the depth is called "deeper than any driver asks for" at `:9`);
* the task of a refused `create` is told to exit but is parked, and nobody can wake
  it (`cli.c:203` means to "let it out of its park"): `refused` in `Cgroups`;
* `bugs.yaml:68` and `:105` set topologies up that name CPU 0, which
  `kstep_parse_cpus()` refuses (`cpu.c:224`);
* `cli.c` takes cgroup paths of up to 47 characters where a row of the region holds
  39: a cgroup in between has no row ("one no kSTEP driver made", `shm.c:230`), and
  its tasks are shown at the root;
* a driver that wakes tasks in `setup()` (long_balance does) has them reset while they
  are runnable: their load is missing from their CPU until they sleep or move,
  although `main.c:39` speaks of a reset "before the driver creates anything";
* a bandwidth period may go off between a tick's last settle and `tick_end`, so its
  callbacks do not always find the CPUs held (`event.h:32`);
* `work_conserve` counts the machine's CPUs, so on a machine with spare CPUs it waits
  for more runnable tasks than its comment says; an exited task voids the util
  baseline of its last CPU at every later tick (`util_decay.c:44`);
* a coverage count called saturating can wrap, since two CPUs may both find 254
  (`cov.c:29`).

*Bounds.*  `Tasks`, `NCpus`, `QueueDepth`, `TxBuf`, `RingSize`, `NumCpus` scale
the code's sizes down; `MaxRepeat`, `MaxBytes`, `MaxCmds`, `MaxEvents` and
`MaxGroups` bound what the host asks,
`MaxEdits` and `MaxTime` what happens to a build directory; `Subs`, `HookSlots`,
`Wakeups`, `MaxTasks`, `MaxCgroups`, `MaxGroups` and `IdleTicks` are sizes of the code's
tables and streaks, `MaxWork`, `MaxSpares` and `MaxTicks` bound the kernel's work, the
spare CPUs and the ticks, and `Real` is any time later than every mocked one.  Two tasks are what a CPU needs for one
to be preempted with an ask in its queue and for one to wake the other; two
CPUs are what the settle's order needs; a queue of two fills and holds an ask
behind another.  A ring of 4 bytes with indices modulo 8 wraps twice in one
session and is filled by one long line; two buffers are exhausted by a reply
and a trace record.  Two groups suffice for an overlap, an accepted group
followed by a refused one, and a key repeated.  One nested group shows every relation of
two groups; two versions and a kill are what a stale module takes.  Rows for two
cgroups and five groups are outgrown by the tree and by the second CPU's domains,
so that every cut is reached; two entries an event are exactly the watchers there
are, one sample slot is overrun by the second wakeup; a streak of two ticks can be
broken after one; two ticks reach a period boundary and a tick that is none.  The proofs
remove these bounds for all of the invariants and action properties.

`CHECK_DEADLOCK FALSE` is set where the system may really stop: the driver
after `exit` or a panic, the host that closes, the CPUs of `Events` once the bound on
their work is used up.  `Topology`, `Region`, `Checkers` and `Clock` are checked for
deadlock (a guest that panicked in its boot stays so: `Clock!Stopped`).

*Fairness.*  `TaskControl!Fairness` says that the controller, every task that
has its CPU, every pending wake-list interrupt and every pending reschedule
eventually goes on: each is a vCPU that QEMU runs, and no step waits for another
but through the states modelled.  The host need not send another command.
`Session!FairSpec` says the same of the guest's interrupts, the driver's loop,
QEMU's two queues and the host's reading loop; the host need not send, and
trace records need not come.

## 4. Proofs

All constants are arbitrary, subject to the named assumptions of each module:
* `ConstantsAssumption`: at least one CPU and queue slot, `Idle` not a task;
* `MachineAssumption`: at least two CPUs, the kernel has an SMT level, the
  machine's own masks cut its CPUs into groups;
* `SizesAssumption`: the ring's size divides the range of its indices (4096 and
  2^32), a line has room for a character (`LINE_MAX` is 128), no empty line is sent;
* `RoomAssumption`: an event has room for two callbacks and there are five hooks, the
  most any set of rules enters (`event.h` and `trace.c` have room for 8);
* `CheckersAssumption`: finitely many tasks, at least one CPU, a streak of at least one
  tick, `cpus` lists that are not empty;
* `ClockAssumption`: the real time is later than every mocked one;
* `TreeAssumption`: every set of cgroups has one whose parent is not in it, that is,
  climbing from a path ends at the root;
* `RegionAssumption`: below a path that does not fit a row no path fits; a hierarchy is at
  most five levels (`KSTEP_TOPO_NR`), each cutting the test CPUs into groups; there is a row
  for the root; the mark for a row not written (`Stale`) is no cgroup.

`TaskControlProofs`
* `TypeCorrect`: `Spec => []TypeOK`.  The length of the queue is part of it.
* `AskLostOnlyByOverlap`: `Spec => []LostOnlyByOverlap`.  Alone it is not
  inductive: that a halted task's queue is empty unless the put came in the
  window needs to know where the put's target may be while its interrupt is
  due.  `HomeInv` says what being current, queued and woken have to do with
  each other (a task is current on its own CPU only, a halted one is current,
  one on a wake list is not) so that an interrupt sent to a task's CPU reaches
  the task; `LostInv` adds the window.
* `SettleSuffices`: without channel writes, `Spec => []QuietAtReply` for any
  number of CPUs.  `QuietInv` says that the CPUs the scan has passed stay
  quiet: whatever acts on another CPU is either the controller, which is
  spinning, or a task that can wake nobody.  It is the argument the comment on
  `kstep_settle()` makes, and `settle_chain` shows that a channel write breaks
  exactly this.

`SessionProofs`
* `TypeCorrect`, `BuffersConserved`, `RecordsArriveInOrder`, `LinesIntact`,
  `RepliesAreOwn`, `PanicsOnlyBehind`, and `KeepsPromise`, that `Session` implements
  `SessionSpec`: the initial state maps to the initial state, and every step to a step
  or a stutter.
* The invariant speaks of two sequences that are nowhere in memory as such: the
  records a host that reads on will get (`Way`: the socket, then the contents of the
  buffers with the device) and the bytes a driver that reads on will get (`Bytes`: the
  ring between its two wrapping indices, the filled buffers, the wire).  A transmit or a
  receive interrupt changes neither, whatever it does to buffers and indices; a write
  appends to one and a read takes from its front.  `WayInv` then says that the records
  are numbered without a gap, `LineInv` that the bytes are the rest of the line the host
  sent last, whose beginning the driver holds, and `HostInv` that a reply is under way
  only when no byte is.  None of the three is inductive alone: the ring does not
  overflow because one line at most is outstanding, which holds because the host waits
  for its reply, which is written only when the whole line has been taken.
* `PanicsOnlyBehind` has the hypothesis `ChannelRoom`: the virtqueue is as large as the
  pool (`TX_BUFS` is 256) and a line with its newline fits `rx_ring`.  Without it the
  panics of `virtqueue_add_outbuf()` and of the receive ring are possible.

`EventsProofs`
* `TypeCorrect`, `RegistrationSafe` (`PublishedFirst`), `HeardExactlyOnce`,
  `BalanceReportedRight`, `JudgedSamples` (`TornOnlyByChain`), `SamplesReturned`.
* A registration is a list of stores, and `RInv` reads off its head how far the tables
  are ahead of their counts and of the ftrace filter; `KInv` says what a CPU in the
  middle of a traced function may rely on (the entries it has yet to call are stored,
  and each was once); `SInv` that the CPUs the settle has passed hold no sample, which a
  chained wakeup may break.

`CheckersProofs`
* `TypeCorrect`, `WarnsAsStated`, `FrozenRuleSilent` (`NoFalseAlarm`), and the action
  properties `FreezesOnlyInFreeze` and `UtilJudgedExactly`.  `Streaks` relates the rule's
  count of idle ticks to the history its comment speaks of; `SeenIsSnap` says that what
  the util rule remembers of a task is what was true of it at the last tick's end.

`ClockProofs`
* `TypeCorrect`, `ResetFindsQuiet`, `StampsInEpoch`, `JiffiesNeverDrift`,
  `LoadsCountedOnce`, `TickFindsCpusHeld`, for any number of CPUs, tasks, period timers
  and ticks.
* The invariant is indexed by how far `kstep_main()` has come: `IsolationInv` says what
  has been turned off by then and that nothing turns it on again, `CountInv` how
  jiffies, the mocked count and the clock stand to each other (the clock is one ahead
  between `kstep_sched_clock_tick()` and `kstep_jiffies_tick()`), `StampInv` bounds what
  the runqueues carry once they are reset.  `TaskInv` is what `LoadCountedOnce` needs:
  a task that has run on a test CPU is part of its CPU's load exactly if its average is
  attached, but between the two resets, when all loads are gone and the averages are
  not; nothing can enqueue a task there, since the CPUs' own ticks have stopped.
  `MoveInv` says why a CPU may be at work, and that a queued period timer is one that
  was started after the last walk.

`CgroupsProofs`
* `TypeCorrect`, `TreeStaysSound`, `TasksStayOnTestCpus`, for trees of any depth, and
  `RegionKeepsTheRules`: `RegionSpec => Spec`, so that they hold of what the `region` run
  checks.
* `TreeInv` adds that a cgroup which is made and not configured is nobody's parent and
  nobody's cgroup, so that taking it back cannot fail; `MaskInv` that every cpuset and
  affinity set since the test CPUs were is among them.  Ancestors and effective cpusets
  climb the tree.  `Recursion` derives from `TreeAssumption` that a function defined from
  the root on exists, which gives both their equations; that the effective cpuset of a
  configured cgroup is not empty and has test CPUs only follows by looking at the
  highest cgroup of which it would be false.
* `TablesAlwaysJoin` and `DomainsAlwaysShown`: `RegionSpec => []TablesJoin` and
  `RegionSpec => []DomainsShown`, for tables of any size.  The invariant, `RegionInv`, is
  about the machine only, since the region is written anew after every verb: the cgroups
  are listed once each and parents first (`MadeInv`), the tasks are numbered within the
  table (`NumberedInv`), the levels are some the number of test CPUs allows.  The rest is
  what the tables are for any machine like that, by induction over lists.  `LeastNat`
  takes from `NatLessThanWellFounded` that a set of numbers has a least element, and
  `Upwards` is induction with the property given as a set.  `OnlyIs`, `FlattenIs`, `WalkIs`
  and `CollectIs` show that the recursive definitions (the filter, the flattening, the
  preorder walk, the fold of `shm_collect_domains()`) follow their rules; the walk's is by
  rank, a child being made after its parent.
* For the tables: the walk visits every cgroup once and parents first (`PreorderInOrder`);
  a filter that drops only paths with nothing shown below them, and a cut at the table's
  end, keep that (`CgroupRowsAre`), so that a cgroup's row is found where its index says
  (`IndexRead`).  The entity table has room for every task and for each cgroup on each
  test CPU (`RoomForTasks`), so that no task falls out of it.
* For the domains: at most five a test CPU fit the table; the groups stored after each
  step are what fits of all the groups so far (`StoredFit`), rows once stored stay
  (`StoredStays`), and a domain's run of them reads back a first part of its own groups
  (`RunRead`), also where the table ends inside it.

`TopologyProofs`
* `MasksAlwaysGrouped`, `DomainsAlwaysGrouped`, `TopologyTypeCorrect`,
  `TasksStayOnTestCpus`.  The inductive invariant adds to the properties that
  a CPU not yet named under the current key is alone at it (`UnnamedAlone`:
  without it a group could be cut out of a larger one), that the table points
  at kSTEP's masks once booted (`OwnOnceBooted`), and that a key is being read
  only inside a spec (`KeyInSpec`).

`BuildProofs`
* `ModuleStaleOnlyByCut`, `SnapshotAlwaysUsable`, `BuildTypeCorrect`.  `MirrorInv`
  says that only a new image makes the mirror stale and that its mtime then
  differs from the one remembered; `KernelInv` that while make runs the kernel
  is older than the .config, so that a build killed there is redone; `SnapInv`
  that a stream newer than the archive was taken by the run that wrote the
  archive.

Every inductive invariant was checked by TLC on the instance of its run before it was
proved.

Only model-checked: the liveness properties (`RepliedUnlessLost`, `Answered`), since
fairness and ENABLED are beyond the prover.

## 5. What is left out

In `TaskControl`: real-time policies, freezing (see `Checkers`), bandwidth
throttling (its timers are in `Clock`) and a `set affinity` that moves a running task;
`create` starts from CPU 0 with the controller blocked, as the code has it.  A pending
reschedule or signal is acted on before the task's next syscall.  In `Session`: the
JSON text (a record is its kind and number), blank and comment lines (the host's
front-ends filter them), resuming from a snapshot, and the coverage map.  In
`Cgroups`: weights and bandwidth, and kernels before 6.2, which forget a task's
affinity when its cpuset changes.  In `Region`: the counters of a row, the CPU tables
(one row per test CPU, nothing to join), and tasks of other processes.  In `Events`:
the group-alloc hook's handler, the tick and softirq events, which only CPU 0 and
the tick's own calls raise; a rule cannot be disabled, so nothing is ever removed.  In
`Checkers`: `pelt` and `vruntime`, which compare the scheduler's numbers with a formula,
and the numbers `util_decay` compares (which CPUs it compares is modelled);
a pause, block or kill is of a task that runs, as one queued for a sleeper is
`TaskControl`'s.  In `Clock`:
the deadline server and cpumask resets, the scheduler feature that is switched off,
fields that are only zeroed.  In `Build`: two tools at once (they share `build/user`
without a lock), the vmlinux copy, and the fixed kernel's directory, which is another
instance.  In `Topology`: `cpu-freq`, the slice scaling, the panic on kernels that cannot
set capacities.

*Not modelled*: the coverage map (an unlocked hint), the reproduction drivers
(straight-line programs over the operations modelled), the fuzzer, the host command
line and the plots; the archive under `docs/`, which is not built.

## 6. Plan

1. *(done)* `TaskControl`, `Session`, `Topology`, `Cgroups`, `Build` and the proofs above.
2. *(done)* `Events`, `Checkers` with the freezer, `Clock` with the boot and the bandwidth
   timers, `Region` with the decoder.
3. *(done)* The safety properties of `Session` with its refinement, `Events`, `Checkers`,
   `Clock`, `Cgroups` and `Region`, proved.
4. `Fuzz`: decode's idea of which tasks and cgroups live against the driver's, and the
   vetting on the fixed kernel.
