----------------------------- MODULE TaskControl -----------------------------
(***************************************************************************)
(* How kSTEP's controller makes its tasks act, and how it knows that they  *)
(* have: the control file and its per-task queue (kmod/task.c), the task   *)
(* program that reads it (user/user.c), the wait for every test CPU to     *)
(* settle and the tick (kmod/tick.c), and the command loop that drives     *)
(* them all (kmod/cli.c).                                                  *)
(*                                                                         *)
(* The controller runs on CPU 0, the tasks on the test CPUs 1..NCpus.      *)
(* Every interleaving of the controller with the CPUs is a behaviour: the  *)
(* code takes no lock between the two.  What the kernel's own scheduler    *)
(* decides (which CPU a wakeup chooses, who preempts whom, what a balance  *)
(* pulls) is left open, within what a fair-class task can meet under       *)
(* CONFIG_PREEMPT_NONE: a task is switched out on its way back to user     *)
(* mode or when it sleeps, nowhere else.                                   *)
(***************************************************************************)
EXTENDS Integers, Sequences, FiniteSets

CONSTANTS
  Tasks,       \* the processes kstep_task_create() can make
  NCpus,       \* kstep_test_ncpus
  QueueDepth,  \* KSTEP_CTRL_QUEUE
  MaxTasks,    \* KSTEP_SHM_TASKS: how many the session numbers
  MaxRepeat,   \* bound on the n of `tick n' and `create n'
  MaxBytes,    \* bound on the bytes in the channel and the writes asked for
  Commands,    \* the commands the host sends, a subset of AllCommands
  Idle         \* what a CPU runs when it runs no task (CPU 0: the controller)

\* What the controller asks of a task through its queue: enum kstep_ctrl.
Verbs == {"pause", "block", "chan-read", "chan-write", "yield", "kill"}
None  == "none"                          \* KSTEP_CTRL_NONE
Asks  == Verbs \union {"park"}

AllCommands == Verbs \union {"wake", "tick", "create", "attr", "error", "exit"}

ASSUME ConstantsAssumption ==
  /\ NCpus \in Nat \ {0}
  /\ QueueDepth \in Nat \ {0}
  /\ MaxTasks \in Nat
  /\ MaxRepeat \in Nat \ {0}
  /\ MaxBytes \in Nat
  /\ Commands \subseteq AllCommands
  /\ Idle \notin Tasks

Cpus == 1..NCpus                         \* for_each_test_cpu

VARIABLES
  loc,         \* where each task is in its loop, see Locations
  hand,        \* the ask a task has taken and not finished, or None
  queue,       \* struct kstep_task: asked for, not yet taken, oldest first
  sig,         \* a SIGUSR1 is pending (TIF_SIGPENDING)
  cpu,         \* task_cpu()
  curr,        \* rq->curr of every CPU
  resched,     \* TIF_NEED_RESCHED of the CPU's current task
  waking,      \* tasks on their CPU's remote wake list (rq->ttwu_pending)
  bytes,       \* bytes in the channel, the FIFO at PIPE_PATH
  overlap,     \* history: tasks given an ask between their take and their halt
  pc,          \* where the controller is
  ret,         \* and where it goes once kstep_settle() returns
  scan,        \* the loop variable of for_each_test_cpu
  tgt,         \* the task of the current command
  left,        \* repetitions of the current command still to do
  numbered,    \* the tasks in cli.c's tasks[]
  more         \* run()'s loop flag

taskVars  == <<loc, hand, queue, sig>>
schedVars == <<cpu, curr, resched, waking>>
cmdVars   == <<tgt, left, numbered, more>>
ctlVars   == <<pc, ret, scan>>
vars == <<taskVars, schedVars, bytes, overlap, ctlVars, cmdVars>>

(***************************************************************************)
(* user: in user mode, or on the way back to it; with None in hand the     *)
(*   next thing is a read of the control file, else the syscall in hand.   *)
(* taken: in kstep_ctrl_read(), the take having found nothing.             *)
(* halt: halted there.   left: out of the halt, the flag not yet cleared.  *)
(* asleep: in the sleep in hand (pause, block, chan-read, or the park).    *)
(***************************************************************************)
Locations == {"absent", "user", "taken", "halt", "left", "asleep", "exited"}
Runnable  == {"user", "taken", "halt", "left"}

\* The flag kstep_ctrl_read() sets before the halt and clears after it.
settled(t) == loc[t] \in {"halt", "left"}

\* What a CPU may run: woken to it or pulled by it, the current task included.
OnRq(c) == {t \in Tasks : loc[t] \in Runnable /\ cpu[t] = c /\ t \notin waking}

Running(t) == curr[cpu[t]] = t

Init ==
  /\ loc      = [t \in Tasks |-> "absent"]
  /\ hand     = [t \in Tasks |-> None]
  /\ queue    = [t \in Tasks |-> <<>>]
  /\ sig      = [t \in Tasks |-> FALSE]
  /\ cpu      = [t \in Tasks |-> 0]
  /\ curr     = [c \in 0..NCpus |-> Idle]
  /\ resched  = [c \in 0..NCpus |-> FALSE]
  /\ waking   = {}
  /\ bytes    = 0
  /\ overlap  = {}
  /\ pc       = "ready"
  /\ ret      = "ready"
  /\ scan     = 1
  /\ tgt      = Idle
  /\ left     = 0
  /\ numbered = {}
  /\ more     = TRUE

-----------------------------------------------------------------------------
(* The kernel's scheduler (external). *)

\* An interrupt on CPU c ends the halt of the task it runs, if it halts; l says
\* where the tasks are.
Interrupt(l, c) ==
  [t \in Tasks |-> IF curr[c] = t /\ l[t] = "halt" THEN "left" ELSE l[t]]

\* A task enqueued on c: an idle CPU always reschedules for it, a busy one may.
\* Asking another CPU to reschedule interrupts it.
Enqueue(l, c) ==
  \E r \in IF curr[c] = Idle THEN {TRUE} ELSE {resched[c], TRUE} :
    /\ resched' = [resched EXCEPT ![c] = r]
    /\ loc' = IF r THEN Interrupt(l, c) ELSE l

\* try_to_wake_up(): a task not yet switched out just stays; any other goes to
\* a CPU of the scheduler's choice, at once or through that CPU's wake list.
WakeUp(t) ==
  LET woken == [loc EXCEPT ![t] = "user"] IN
  \/ /\ Running(t)
     /\ loc' = woken
     /\ UNCHANGED schedVars
  \/ /\ ~Running(t)
     /\ \E c \in Cpus :
          /\ cpu' = [cpu EXCEPT ![t] = c]
          /\ \/ Enqueue(woken, c) /\ UNCHANGED waking
             \/ waking' = waking \union {t} /\ loc' = woken /\ UNCHANGED resched
     /\ UNCHANGED curr

\* The wake list's own interrupt: the task is enqueued where it was sent.
Activate(t) ==
  /\ t \in waking
  /\ waking' = waking \ {t}
  /\ Enqueue(Interrupt(loc, cpu[t]), cpu[t])
  /\ UNCHANGED <<hand, queue, sig, cpu, curr, bytes, overlap, ctlVars, cmdVars>>

\* Queued tasks a balance on CPU c may pull: not running anywhere.
Pullable(c) ==
  {t \in Tasks : /\ loc[t] = "user" /\ cpu[t] \in Cpus \ {c}
                 /\ t \notin waking /\ ~Running(t)}

\* schedule() on a test CPU: the current task sleeps or has exited, or a
\* reschedule is pending and it is on its way to user mode (or is the idle
\* task).  A CPU left with nothing may pull a task (newidle balance).
Schedule(c) ==
  /\ \/ curr[c] = Idle /\ resched[c]
     \/ curr[c] \in Tasks /\ loc[curr[c]] \in {"asleep", "exited"}
     \/ curr[c] \in Tasks /\ loc[curr[c]] = "user" /\ resched[c]
  /\ resched' = [resched EXCEPT ![c] = FALSE]
  /\ \/ /\ OnRq(c) # {}
        /\ \E t \in OnRq(c) : curr' = [curr EXCEPT ![c] = t]
        /\ UNCHANGED cpu
     \/ /\ OnRq(c) = {}
        /\ curr' = [curr EXCEPT ![c] = Idle]
        /\ UNCHANGED cpu
     \/ /\ OnRq(c) = {}
        /\ \E t \in Pullable(c) : /\ curr' = [curr EXCEPT ![c] = t]
                                  /\ cpu'  = [cpu EXCEPT ![t] = c]
  /\ UNCHANGED <<taskVars, waking, bytes, overlap, ctlVars, cmdVars>>

-----------------------------------------------------------------------------
(* The task: user.c's loop and the control-file read. *)

\* In user mode with nothing to act on first.
InUser(t) == loc[t] = "user" /\ Running(t) /\ ~resched[cpu[t]] /\ ~sig[t]

\* kstep_ctrl_read() up to what the take returned: a park sleeps in the read
\* (and completes the creation), an ask is handed to user code.
kstep_ctrl_take(t) ==
  /\ InUser(t) /\ hand[t] = None
  /\ overlap' = overlap \ {t}
  /\ \/ /\ queue[t] = <<>>
        /\ loc' = [loc EXCEPT ![t] = "taken"]
        /\ UNCHANGED <<hand, queue, curr>>
     \/ /\ queue[t] # <<>>
        /\ queue' = [queue EXCEPT ![t] = Tail(@)]
        /\ hand'  = [hand EXCEPT ![t] = Head(queue[t])]
        /\ IF Head(queue[t]) = "park"
             THEN /\ loc'  = [loc EXCEPT ![t] = "asleep"]
                  /\ curr' = [curr EXCEPT ![cpu[t]] = Idle]
             ELSE UNCHANGED <<loc, curr>>
  /\ UNCHANGED <<sig, cpu, resched, waking, bytes, ctlVars, cmdVars>>

\* Mutant: halt whatever is pending.
kstep_ctrl_halt_Unchecked(t) ==
  /\ loc[t] = "taken"
  /\ loc' = [loc EXCEPT ![t] = "halt"]
  /\ UNCHANGED <<hand, queue, sig, schedVars, bytes, overlap, ctlVars, cmdVars>>

\* The rest of the read when nothing was asked: with interrupts off, return if
\* a reschedule or a signal is pending, else set the flag and halt.
kstep_ctrl_halt(t) ==
  /\ loc[t] = "taken"
  /\ loc' = [loc EXCEPT ![t] =
               IF resched[cpu[t]] \/ sig[t] THEN "user" ELSE "halt"]
  /\ UNCHANGED <<hand, queue, sig, schedVars, bytes, overlap, ctlVars, cmdVars>>

\* The flag is cleared and the read returns 0.
ReturnFromRead(t) ==
  /\ loc[t] = "left"
  /\ loc' = [loc EXCEPT ![t] = "user"]
  /\ UNCHANGED <<hand, queue, sig, schedVars, bytes, overlap, ctlVars, cmdVars>>

\* SIGUSR1's handler does nothing; taking the signal is the whole of it.
handler(t) ==
  /\ loc[t] = "user" /\ Running(t) /\ sig[t]
  /\ sig' = [sig EXCEPT ![t] = FALSE]
  /\ UNCHANGED <<loc, hand, queue, schedVars, bytes, overlap, ctlVars, cmdVars>>

\* The channel's two ends (external: pipe_read() and pipe_write()).  A reader
\* sleeps until there is a byte; a write leaves one and wakes one reader, which
\* then looks again.
ChanRead(t) ==
  /\ IF bytes > 0
       THEN /\ bytes' = bytes - 1
            /\ hand' = [hand EXCEPT ![t] = None]
            /\ UNCHANGED loc
       ELSE /\ loc' = [loc EXCEPT ![t] = "asleep"]
            /\ UNCHANGED <<bytes, hand>>
  /\ UNCHANGED schedVars

ChanReaders == {t \in Tasks : loc[t] = "asleep" /\ hand[t] = "chan-read"}

ChanWrite(t) ==
  /\ bytes' = bytes + 1
  /\ hand'  = [hand EXCEPT ![t] = None]
  /\ \/ ChanReaders = {} /\ UNCHANGED <<loc, schedVars>>
     \/ \E u \in ChanReaders : WakeUp(u)

\* task_main()'s switch: the syscall of the ask in hand.  Every sleep is left
\* by a wakeup; sched_yield() lets the scheduler choose again.
task_main(t) ==
  /\ InUser(t)
  /\ \/ /\ hand[t] \in {"pause", "block"}
        /\ loc' = [loc EXCEPT ![t] = "asleep"]
        /\ UNCHANGED <<hand, schedVars, bytes>>
     \/ /\ hand[t] = "kill"
        /\ loc'  = [loc EXCEPT ![t] = "exited"]
        /\ hand' = [hand EXCEPT ![t] = None]
        /\ UNCHANGED <<schedVars, bytes>>
     \/ /\ hand[t] = "yield"
        /\ hand'    = [hand EXCEPT ![t] = None]
        /\ resched' = [resched EXCEPT ![cpu[t]] = TRUE]
        /\ UNCHANGED <<loc, cpu, curr, waking, bytes>>
     \/ hand[t] = "chan-read" /\ ChanRead(t)
     \/ hand[t] = "chan-write" /\ ChanWrite(t)
  /\ UNCHANGED <<queue, sig, overlap, ctlVars, cmdVars>>

-----------------------------------------------------------------------------
(* The controller: kstep_settle() and what waits with it. *)

\* t->settled, an empty queue and no signal.
kstep_task_settled(t) == settled(t) /\ queue[t] = <<>> /\ ~sig[t]

\* Mutant: a pending remote wakeup is not looked at.
kstep_cpu_settled_NoPending(c) ==
  /\ ~resched[c]
  /\ IF curr[c] = Idle THEN OnRq(c) = {} ELSE kstep_task_settled(curr[c])

\* ttwu_pending, need_resched, and the idle task with an empty queue or a
\* settled task.
kstep_cpu_settled(c) ==
  /\ \A t \in waking : cpu[t] # c
  /\ ~resched[c]
  /\ IF curr[c] = Idle THEN OnRq(c) = {} ELSE kstep_task_settled(curr[c])

\* Call kstep_settle() and go on at k when it returns.
SettleThen(k) == pc' = "settle" /\ scan' = 1 /\ ret' = k

\* One CPU of the loop: the spin ends when it is seen settled, once.
kstep_settle ==
  /\ pc = "settle"
  /\ kstep_cpu_settled(scan)
  /\ IF scan < NCpus THEN scan' = scan + 1 /\ UNCHANGED pc
                     ELSE pc' = ret /\ UNCHANGED scan
  /\ UNCHANGED <<ret, taskVars, schedVars, bytes, overlap, cmdVars>>

\* Mutant: the queue's limit is not checked.
kstep_ctrl_put_Unchecked(t, a) ==
  /\ pc' = "kick"
  /\ tgt' = t
  /\ queue' = [queue EXCEPT ![t] = Append(@, a)]
  /\ overlap' = IF loc[t] = "taken" THEN overlap \union {t} ELSE overlap

\* kstep_ctrl_put(): a full queue panics.
kstep_ctrl_put(t, a) ==
  IF Len(queue[t]) >= QueueDepth
    THEN /\ pc' = "panic"
         /\ UNCHANGED <<queue, overlap, tgt>>
    ELSE /\ pc' = "kick"
         /\ tgt' = t
         /\ queue' = [queue EXCEPT ![t] = Append(@, a)]
         /\ overlap' = IF loc[t] = "taken" THEN overlap \union {t} ELSE overlap

\* Mutant: the task is left to find the ask by itself.
kstep_task_ctrl_NoInterrupt ==
  /\ pc = "kick"
  /\ SettleThen("finish")
  /\ UNCHANGED <<taskVars, schedVars, bytes, overlap, cmdVars>>

\* The rest of kstep_task_ctrl(): a task seen with its flag set is let out of
\* the halt by an interrupt, any other is left to reach its next read.
kstep_task_ctrl ==
  /\ pc = "kick"
  /\ loc' = IF settled(tgt) THEN Interrupt(loc, cpu[tgt]) ELSE loc
  /\ SettleThen("finish")
  /\ UNCHANGED <<hand, queue, sig, schedVars, bytes, overlap, cmdVars>>

\* send_sig(SIGUSR1) (external): the signal is pending; a sleeping task is woken
\* and a running one interrupted.
send_sig(t) ==
  /\ sig' = [sig EXCEPT ![t] = TRUE]
  /\ \/ /\ loc[t] = "asleep"
        /\ hand' = [hand EXCEPT ![t] = None]
        /\ WakeUp(t)
     \/ /\ loc[t] # "asleep"
        /\ loc' = Interrupt(loc, cpu[t])
        /\ UNCHANGED <<hand, schedVars>>

-----------------------------------------------------------------------------
(* The controller: the commands, run() and execute(). *)

\* parse_task(): a number given out, whose task has not exited.
parse_task(t) == t \in numbered /\ loc[t] # "exited"

Command(v) == pc = "ready" /\ v \in Commands

\* Bytes in the channel, and writes asked for: the host stops at MaxBytes.
Written ==
  bytes + Cardinality({t \in Tasks : hand[t] = "chan-write"})
        + Cardinality({p \in Tasks \X (1..QueueDepth) :
                         p[2] <= Len(queue[p[1]]) /\ queue[p[1]][p[2]] = "chan-write"})

\* pause, block, chan-read, chan-write, yield, kill.
TaskVerb(t, v) ==
  /\ Command(v) /\ parse_task(t)
  /\ v = "chan-write" => Written < MaxBytes
  /\ kstep_ctrl_put(t, v)
  /\ UNCHANGED <<loc, hand, sig, schedVars, bytes, ret, scan,
                 left, numbered, more>>

kstep_task_wakeup(t) ==
  /\ Command("wake") /\ parse_task(t)
  /\ send_sig(t)
  /\ SettleThen("finish")
  /\ UNCHANGED <<queue, bytes, overlap, cmdVars>>

\* policy-fair, cgroup-attach, cgroup-weight: done to a task where it stands,
\* they may ask its CPU to reschedule and do not wait for it.
SetAttr(t) ==
  /\ Command("attr") /\ parse_task(t)
  /\ \/ UNCHANGED <<loc, resched>>
     \/ /\ t \in OnRq(cpu[t])
        /\ resched' = [resched EXCEPT ![cpu[t]] = TRUE]
        /\ loc' = Interrupt(loc, cpu[t])
  /\ pc' = "finish"
  /\ UNCHANGED <<hand, queue, sig, cpu, curr, waking, bytes, overlap, ret, scan, cmdVars>>

\* A line execute() answers with an error: nothing is done.
reply_error ==
  /\ Command("error")
  /\ pc' = "finish"
  /\ UNCHANGED <<taskVars, schedVars, bytes, overlap, ret, scan, cmdVars>>

execute_exit ==
  /\ Command("exit")
  /\ more' = FALSE
  /\ pc' = "finish"
  /\ UNCHANGED <<taskVars, schedVars, bytes, overlap, ret, scan,
                 tgt, left, numbered>>

\* create n: refused when the session's table would overflow.  (Tasks bounds
\* how many processes there can be, numbered or not.)
cmd_create ==
  /\ Command("create")
  /\ \E n \in 1..MaxRepeat :
     /\ n <= Cardinality({t \in Tasks : loc[t] = "absent"})
     /\ IF Cardinality(numbered) + n > MaxTasks
          THEN pc' = "finish" /\ UNCHANGED left
          ELSE pc' = "create" /\ left' = n
  /\ UNCHANGED <<taskVars, schedVars, bytes, overlap, ret, scan,
                 tgt, numbered, more>>

\* kstep_task_create(): the new process starts on CPU 0 with a park queued, and
\* the controller waits there for the park to complete.
kstep_task_create(t) ==
  /\ pc = "create" /\ loc[t] = "absent"
  /\ loc'   = [loc EXCEPT ![t] = "user"]
  /\ queue' = [queue EXCEPT ![t] = <<"park">>]
  /\ curr'  = [curr EXCEPT ![0] = t]
  /\ tgt' = t
  /\ pc' = "park"
  /\ UNCHANGED <<hand, sig, cpu, resched, waking, bytes, overlap, ret, scan,
                 left, numbered, more>>

\* The park has completed and the cgroup took the task (or none was named): it
\* is numbered and woken for the first time.
CreateAccepted ==
  /\ pc = "park" /\ loc[tgt] = "asleep"
  /\ numbered' = numbered \union {tgt}
  /\ send_sig(tgt)
  /\ SettleThen("created")
  /\ UNCHANGED <<queue, bytes, overlap, tgt, left, more>>

\* kstep_cgroup_move_task() failed: the task is told to exit, and not numbered.
CreateRefused ==
  /\ pc = "park" /\ loc[tgt] = "asleep"
  /\ kstep_ctrl_put(tgt, "kill")
  /\ UNCHANGED <<loc, hand, sig, schedVars, bytes, ret, scan, left, numbered, more>>

\* Bottom of cmd_create()'s loop.
Created ==
  /\ pc = "created"
  /\ left' = left - 1
  /\ pc' = IF left > 1 THEN "create" ELSE "finish"
  /\ UNCHANGED <<taskVars, schedVars, bytes, overlap, ret, scan,
                 tgt, numbered, more>>

\* tick n, and kstep_tick() up to its first settle.
cmd_tick ==
  /\ Command("tick")
  /\ left' \in 1..MaxRepeat
  /\ SettleThen("tick")
  /\ UNCHANGED <<taskVars, schedVars, bytes, overlap, tgt, numbered, more>>

\* kstep_tick() between its settles: the clocks advance and the first CPU is due.
TickBegin ==
  /\ pc = "tick"
  /\ pc' = "ipi" /\ scan' = 1
  /\ UNCHANGED <<taskVars, schedVars, bytes, overlap, ret, cmdVars>>

\* kstep_do_sched_tick() on one CPU: sched_tick() may ask for a reschedule, and
\* the balance it drains may pull a queued task.
kstep_do_sched_tick ==
  /\ pc = "ipi"
  /\ LET interrupted == Interrupt(loc, scan) IN
     \/ \E r \in {resched[scan], TRUE} :
          /\ curr[scan] # Idle \/ r = resched[scan]
          /\ resched' = [resched EXCEPT ![scan] = r]
          /\ loc' = interrupted
          /\ UNCHANGED cpu
     \/ \E t \in Pullable(scan) : /\ cpu' = [cpu EXCEPT ![t] = scan]
                                  /\ Enqueue(interrupted, scan)
  /\ IF scan < NCpus THEN scan' = scan + 1 /\ UNCHANGED <<pc, ret>>
                     ELSE SettleThen("ticked")
  /\ UNCHANGED <<hand, queue, sig, curr, waking, bytes, overlap, cmdVars>>

\* Bottom of kstep_tick_repeat()'s loop; the next tick begins with a settle.
Ticked ==
  /\ pc = "ticked"
  /\ left' = left - 1
  /\ IF left > 1 THEN SettleThen("tick")
                 ELSE pc' = "finish" /\ UNCHANGED <<ret, scan>>
  /\ UNCHANGED <<taskVars, schedVars, bytes, overlap, tgt, numbered, more>>

\* run(): every command ends with a settle of its own,
Finish ==
  /\ pc = "finish"
  /\ SettleThen("reply")
  /\ UNCHANGED <<taskVars, schedVars, bytes, overlap, cmdVars>>

\* then the shared region is written and the reply sent.
Reply ==
  /\ pc = "reply"
  /\ pc' = IF more THEN "ready" ELSE "over"
  /\ tgt' = Idle
  /\ UNCHANGED <<taskVars, schedVars, bytes, overlap, ret, scan,
                 left, numbered, more>>

-----------------------------------------------------------------------------

Controller ==
  \/ kstep_settle \/ kstep_task_ctrl
  \/ CreateAccepted \/ CreateRefused \/ Created
  \/ TickBegin \/ kstep_do_sched_tick \/ Ticked
  \/ Finish \/ Reply
  \/ \E t \in Tasks : kstep_task_create(t)

Host ==
  \/ cmd_create \/ cmd_tick \/ reply_error \/ execute_exit
  \/ \E t \in Tasks : kstep_task_wakeup(t) \/ SetAttr(t)
  \/ \E t \in Tasks, v \in Verbs : TaskVerb(t, v)

TaskStep(t) ==
  \/ kstep_ctrl_take(t) \/ kstep_ctrl_halt(t) \/ ReturnFromRead(t)
  \/ handler(t) \/ task_main(t)

Next ==
  \/ Controller
  \/ Host
  \/ \E t \in Tasks : TaskStep(t) \/ Activate(t)
  \/ \E c \in Cpus : Schedule(c)

Spec == Init /\ [][Next]_vars

\* The controller and every CPU keep running; the host need not ask again.
Fairness ==
  /\ WF_vars(Controller)
  /\ \A t \in Tasks : WF_vars(TaskStep(t)) /\ WF_vars(Activate(t))
  /\ \A c \in Cpus : WF_vars(Schedule(c))

FairSpec == Spec /\ Fairness

-----------------------------------------------------------------------------
(* Properties *)

\* Every variable keeps to its type; no queue outgrows its ring.
TypeOK ==
  /\ loc \in [Tasks -> Locations]
  /\ hand \in [Tasks -> Asks \union {None}]
  /\ queue \in [Tasks -> Seq(Asks)]
  /\ \A t \in Tasks : Len(queue[t]) <= QueueDepth
  /\ sig \in [Tasks -> BOOLEAN]
  /\ cpu \in [Tasks -> 0..NCpus]
  /\ curr \in [0..NCpus -> Tasks \union {Idle}]
  /\ resched \in [0..NCpus -> BOOLEAN]
  /\ waking \subseteq Tasks
  /\ bytes \in Nat
  /\ overlap \subseteq Tasks
  /\ pc \in {"ready", "settle", "kick", "create", "park", "created", "tick",
             "ipi", "ticked", "finish", "reply", "panic", "over"}
  /\ ret \in {"ready", "finish", "created", "tick", "ticked", "reply"}
  /\ scan \in Cpus
  /\ tgt \in Tasks \union {Idle}
  /\ pc \in {"park", "kick"} => tgt \in Tasks
  /\ left \in Int
  /\ numbered \subseteq Tasks
  /\ more \in BOOLEAN

\* An ask no one will act on: its task halts with it in the queue, and the
\* controller is past the interrupt that would have let the task out.
Lost(t) == loc[t] = "halt" /\ queue[t] # <<>> /\ ~(pc = "kick" /\ tgt = t)

\* No ask is ever lost: whatever is queued for a halted task lets it out.
NoLostAsk == \A t \in Tasks : ~Lost(t)

\* The one way to lose an ask is for the two ends of a queue to run at once: a
\* put after the take that found nothing and before the halt sets the flag.
LostOnlyByOverlap == \A t \in Tasks : Lost(t) => t \in overlap

\* Nothing is left to happen on the CPU unless someone acts on it: no wakeup or
\* reschedule pending, and it is idle with nothing to run, or its task is in
\* its reading loop with nothing asked of it.
Quiet(c) ==
  /\ \A t \in waking : cpu[t] # c
  /\ ~resched[c]
  /\ IF curr[c] = Idle
       THEN OnRq(c) = {}
       ELSE /\ loc[curr[c]] \in Runnable
            /\ hand[curr[c]] = None
            /\ queue[curr[c]] = <<>>
            /\ ~sig[curr[c]]

\* When the shared region is written and the reply sent, the command has taken
\* effect on every CPU.
QuietAtReply == pc = "reply" => \A c \in Cpus : Quiet(c)

\* A command goes unanswered only because an ask was lost: the controller then
\* spins in kstep_settle() for ever.
RepliedUnlessLost ==
  (pc # "ready") ~> (pc \in {"ready", "over", "panic"} \/ \E t \in Tasks : Lost(t))
=============================================================================
