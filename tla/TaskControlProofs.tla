-------------------------- MODULE TaskControlProofs --------------------------
(***************************************************************************)
(* What TLAPS proves of TaskControl for every number of tasks, CPUs and    *)
(* queue slots: its types, that an ask is only ever lost when the two ends *)
(* of a queue run at once, and that without channel writes kstep_settle()  *)
(* leaves every CPU quiet although it looks at them one after another.     *)
(***************************************************************************)
EXTENDS TaskControl, TLAPS

USE DEF Locations, Runnable, Asks, Verbs, None, Cpus, taskVars, schedVars,
        cmdVars, ctlVars

-----------------------------------------------------------------------------
(* Types *)

LEMMA InterruptType ==
  ASSUME NEW l \in [Tasks -> Locations], NEW c
  PROVE  Interrupt(l, c) \in [Tasks -> Locations]
BY DEF Interrupt

LEMMA EnqueueType ==
  ASSUME TypeOK, NEW l \in [Tasks -> Locations], NEW c \in 0..NCpus, Enqueue(l, c)
  PROVE  /\ loc' \in [Tasks -> Locations]
         /\ resched' \in [0..NCpus -> BOOLEAN]
<1>1. PICK r \in BOOLEAN : /\ resched' = [resched EXCEPT ![c] = r]
                           /\ loc' = IF r THEN Interrupt(l, c) ELSE l
  BY DEF Enqueue, TypeOK
<1>2. Interrupt(l, c) \in [Tasks -> Locations]
  BY InterruptType
<1> QED
  BY <1>1, <1>2 DEF TypeOK

LEMMA WakeUpType ==
  ASSUME TypeOK, NEW t \in Tasks, WakeUp(t)
  PROVE  /\ loc' \in [Tasks -> Locations]
         /\ cpu' \in [Tasks -> 0..NCpus]
         /\ curr' = curr
         /\ resched' \in [0..NCpus -> BOOLEAN]
         /\ waking' \subseteq Tasks
<1> DEFINE woken == [loc EXCEPT ![t] = "user"]
<1>1. woken \in [Tasks -> Locations]
  BY DEF TypeOK
<1>2. CASE Running(t)
  BY <1>1, <1>2 DEF WakeUp, TypeOK
<1>3. CASE ~Running(t)
  <2>1. PICK c \in Cpus :
          /\ cpu' = [cpu EXCEPT ![t] = c]
          /\ \/ Enqueue(woken, c) /\ UNCHANGED waking
             \/ waking' = waking \union {t} /\ loc' = woken /\ UNCHANGED resched
    BY <1>3 DEF WakeUp
  <2>2. c \in 0..NCpus
    BY ConstantsAssumption
  <2> HIDE DEF woken
  <2>3. loc' \in [Tasks -> Locations] /\ resched' \in [0..NCpus -> BOOLEAN]
    BY <1>1, <2>1, <2>2, EnqueueType DEF TypeOK
  <2>4. curr' = curr
    BY <1>3 DEF WakeUp
  <2> QED
    BY <2>1, <2>2, <2>3, <2>4 DEF TypeOK
<1> QED
  BY <1>2, <1>3

LEMMA SettleThenType ==
  ASSUME NEW k \in {"ready", "finish", "created", "tick", "ticked", "reply"},
         SettleThen(k)
  PROVE  /\ pc' = "settle" /\ scan' \in Cpus
         /\ ret' \in {"ready", "finish", "created", "tick", "ticked", "reply"}
BY ConstantsAssumption DEF SettleThen

LEMMA SendSigType ==
  ASSUME TypeOK, NEW t \in Tasks, send_sig(t)
  PROVE  /\ loc' \in [Tasks -> Locations]
         /\ hand' \in [Tasks -> Asks \union {None}]
         /\ sig' \in [Tasks -> BOOLEAN]
         /\ cpu' \in [Tasks -> 0..NCpus]
         /\ curr' = curr
         /\ resched' \in [0..NCpus -> BOOLEAN]
         /\ waking' \subseteq Tasks
<1>1. CASE loc[t] = "asleep"
  BY <1>1, WakeUpType DEF send_sig, TypeOK
<1>2. CASE loc[t] # "asleep"
  <2>1. loc' = Interrupt(loc, cpu[t]) /\ UNCHANGED <<hand, schedVars>>
    BY <1>2 DEF send_sig
  <2>2. loc' \in [Tasks -> Locations]
    BY <2>1, InterruptType DEF TypeOK
  <2>3. sig' \in [Tasks -> BOOLEAN]
    BY DEF send_sig, TypeOK
  <2> QED
    BY <2>1, <2>2, <2>3 DEF TypeOK
<1> QED
  BY <1>1, <1>2

LEMMA PutType ==
  ASSUME TypeOK, NEW t \in Tasks, NEW a \in Asks, kstep_ctrl_put(t, a)
  PROVE  /\ queue' \in [Tasks -> Seq(Asks)]
         /\ \A u \in Tasks : Len(queue'[u]) <= QueueDepth
         /\ overlap' \subseteq Tasks
         /\ pc' \in {"panic", "kick"}
         /\ tgt' \in Tasks \union {Idle}
         /\ pc' = "kick" => tgt' \in Tasks
<1>1. CASE Len(queue[t]) >= QueueDepth
  BY <1>1 DEF kstep_ctrl_put, TypeOK
<1>2. CASE ~(Len(queue[t]) >= QueueDepth)
  <2>1. queue[t] \in Seq(Asks) /\ Len(queue[t]) \in Nat /\ QueueDepth \in Nat
    BY ConstantsAssumption DEF TypeOK
  <2>2. /\ Append(queue[t], a) \in Seq(Asks)
        /\ Len(Append(queue[t], a)) = Len(queue[t]) + 1
    BY <2>1
  <2>3. queue' = [queue EXCEPT ![t] = Append(queue[t], a)]
    BY <1>2 DEF kstep_ctrl_put
  <2>4. Len(Append(queue[t], a)) <= QueueDepth
    BY <1>2, <2>1, <2>2
  <2> QED
    BY <1>2, <2>2, <2>3, <2>4 DEF kstep_ctrl_put, TypeOK
<1> QED
  BY <1>1, <1>2

LEMMA TaskMainType ==
  ASSUME TypeOK, NEW t \in Tasks, task_main(t)
  PROVE  TypeOK'
<1>1. CASE hand[t] \in {"pause", "block"}
  BY <1>1 DEF task_main, ChanRead, ChanWrite, TypeOK
<1>2. CASE hand[t] = "kill"
  BY <1>2 DEF task_main, ChanRead, ChanWrite, TypeOK
<1>3. CASE hand[t] = "yield"
  BY <1>3 DEF task_main, ChanRead, ChanWrite, TypeOK
<1>4. CASE hand[t] = "chan-read"
  <2>1. ChanRead(t) /\ UNCHANGED <<queue, sig, overlap, ctlVars, cmdVars>>
    BY <1>4 DEF task_main
  <2>2. CASE bytes > 0
    <3>1. bytes' \in Nat
      BY <2>1, <2>2 DEF ChanRead, TypeOK
    <3>2. hand' \in [Tasks -> Asks \union {None}] /\ UNCHANGED <<loc, schedVars>>
      BY <2>1, <2>2 DEF ChanRead, TypeOK
    <3> QED
      BY <2>1, <3>1, <3>2 DEF TypeOK
  <2>3. CASE ~(bytes > 0)
    BY <2>1, <2>3 DEF ChanRead, TypeOK
  <2> QED
    BY <2>2, <2>3
<1>5. CASE hand[t] = "chan-write"
  <2>1. ChanWrite(t) /\ UNCHANGED <<queue, sig, overlap, ctlVars, cmdVars>>
    BY <1>5 DEF task_main
  <2>2. bytes' \in Nat /\ hand' \in [Tasks -> Asks \union {None}]
    BY <2>1 DEF ChanWrite, TypeOK
  <2>3. CASE UNCHANGED <<loc, schedVars>>
    BY <2>1, <2>2, <2>3 DEF TypeOK
  <2>4. CASE \E u \in ChanReaders : WakeUp(u)
    BY <2>1, <2>2, <2>4, WakeUpType DEF TypeOK, ChanReaders
  <2> QED
    BY <2>1, <2>3, <2>4 DEF ChanWrite
<1> QED
  BY <1>1, <1>2, <1>3, <1>4, <1>5 DEF task_main

LEMMA TakeType ==
  ASSUME TypeOK, NEW t \in Tasks, kstep_ctrl_take(t)
  PROVE  TypeOK'
<1>1. CASE queue[t] = <<>>
  BY <1>1 DEF kstep_ctrl_take, TypeOK
<1>2. CASE queue[t] # <<>>
  <2>1. queue[t] \in Seq(Asks)
    BY DEF TypeOK
  <2>2. /\ Head(queue[t]) \in Asks /\ Tail(queue[t]) \in Seq(Asks)
        /\ Len(Tail(queue[t])) = Len(queue[t]) - 1
    BY <1>2, <2>1
  <2>3. Len(queue[t]) \in Nat /\ Len(queue[t]) <= QueueDepth /\ QueueDepth \in Nat
    BY <2>1, ConstantsAssumption DEF TypeOK
  <2>4. queue' = [queue EXCEPT ![t] = Tail(queue[t])]
    BY <1>2 DEF kstep_ctrl_take
  <2>5. /\ queue' \in [Tasks -> Seq(Asks)]
        /\ \A u \in Tasks : Len(queue'[u]) <= QueueDepth
    BY <2>2, <2>3, <2>4 DEF TypeOK
  <2>6. hand' \in [Tasks -> Asks \union {None}]
    BY <1>2, <2>2 DEF kstep_ctrl_take, TypeOK
  <2>7. loc' \in [Tasks -> Locations] /\ curr' \in [0..NCpus -> Tasks \union {Idle}]
    <3>1. CASE Head(queue[t]) = "park"
      <4>1. loc' = [loc EXCEPT ![t] = "asleep"] /\ curr' = [curr EXCEPT ![cpu[t]] = Idle]
        BY <1>2, <3>1 DEF kstep_ctrl_take
      <4> QED
        BY <4>1 DEF TypeOK
    <3>2. CASE Head(queue[t]) # "park"
      BY <1>2, <3>2 DEF kstep_ctrl_take, TypeOK
    <3> QED
      BY <3>1, <3>2
  <2> QED
    BY <2>5, <2>6, <2>7 DEF kstep_ctrl_take, TypeOK
<1> QED
  BY <1>1, <1>2

LEMMA TaskStepType ==
  ASSUME TypeOK, NEW t \in Tasks, TaskStep(t)
  PROVE  TypeOK'
<1>1. CASE kstep_ctrl_take(t)
  BY <1>1, TakeType
<1>2. CASE kstep_ctrl_halt(t)
  BY <1>2 DEF kstep_ctrl_halt, TypeOK
<1>3. CASE ReturnFromRead(t)
  BY <1>3 DEF ReturnFromRead, TypeOK
<1>4. CASE handler(t)
  BY <1>4 DEF handler, TypeOK
<1>5. CASE task_main(t)
  BY <1>5, TaskMainType
<1> QED
  BY <1>1, <1>2, <1>3, <1>4, <1>5 DEF TaskStep

LEMMA SchedulerType ==
  ASSUME TypeOK
  PROVE  /\ \A t \in Tasks : Activate(t) => TypeOK'
         /\ \A c \in Cpus : Schedule(c) => TypeOK'
<1>1. ASSUME NEW t \in Tasks, Activate(t)
      PROVE  TypeOK'
  <2>1. Interrupt(loc, cpu[t]) \in [Tasks -> Locations] /\ cpu[t] \in 0..NCpus
    BY InterruptType DEF TypeOK
  <2>2. loc' \in [Tasks -> Locations] /\ resched' \in [0..NCpus -> BOOLEAN]
    BY <1>1, <2>1, EnqueueType DEF Activate
  <2> QED
    BY <1>1, <2>2 DEF Activate, TypeOK
<1>2. ASSUME NEW c \in Cpus, Schedule(c)
      PROVE  TypeOK'
  <2>1. c \in 0..NCpus
    BY ConstantsAssumption
  <2>2. OnRq(c) \subseteq Tasks /\ Pullable(c) \subseteq Tasks
    BY DEF OnRq, Pullable
  <2>3. curr' \in [0..NCpus -> Tasks \union {Idle}]
    BY <1>2, <2>1, <2>2 DEF Schedule, TypeOK
  <2>4. cpu' \in [Tasks -> 0..NCpus]
    BY <1>2, <2>1, <2>2 DEF Schedule, TypeOK
  <2>5. resched' \in [0..NCpus -> BOOLEAN]
    BY <1>2, <2>1 DEF Schedule, TypeOK
  <2> QED
    BY <1>2, <2>3, <2>4, <2>5 DEF Schedule, TypeOK
<1> QED
  BY <1>1, <1>2

LEMMA TickType ==
  ASSUME TypeOK, kstep_do_sched_tick
  PROVE  TypeOK'
<1> DEFINE interrupted == Interrupt(loc, scan)
<1>1. scan \in 0..NCpus /\ interrupted \in [Tasks -> Locations]
  <2>1. scan \in 0..NCpus
    BY ConstantsAssumption DEF TypeOK
  <2>2. interrupted \in [Tasks -> Locations]
    BY InterruptType DEF TypeOK
  <2> QED
    BY <2>1, <2>2
<1> HIDE DEF interrupted
<1>2. /\ loc' \in [Tasks -> Locations]
      /\ resched' \in [0..NCpus -> BOOLEAN]
      /\ cpu' \in [Tasks -> 0..NCpus]
  <2>1. CASE \E r \in {resched[scan], TRUE} :
               /\ resched' = [resched EXCEPT ![scan] = r]
               /\ loc' = interrupted
               /\ UNCHANGED cpu
    BY <1>1, <2>1 DEF TypeOK
  <2>2. CASE \E t \in Pullable(scan) : /\ cpu' = [cpu EXCEPT ![t] = scan]
                                       /\ Enqueue(interrupted, scan)
    <3>1. PICK t \in Pullable(scan) : /\ cpu' = [cpu EXCEPT ![t] = scan]
                                     /\ Enqueue(interrupted, scan)
      BY <2>2
    <3>2. loc' \in [Tasks -> Locations] /\ resched' \in [0..NCpus -> BOOLEAN]
      BY <1>1, <3>1, EnqueueType
    <3> QED
      BY <1>1, <3>1, <3>2 DEF TypeOK
  <2> QED
    BY <2>1, <2>2 DEF kstep_do_sched_tick, interrupted
<1>3. /\ pc' \in {"ipi", "settle"} /\ scan' \in Cpus
      /\ ret' \in {"ready", "finish", "created", "tick", "ticked", "reply"}
  BY ConstantsAssumption DEF kstep_do_sched_tick, SettleThen, TypeOK
<1> QED
  BY <1>2, <1>3 DEF kstep_do_sched_tick, TypeOK

LEMMA ControllerType ==
  ASSUME TypeOK, Controller
  PROVE  TypeOK'
<1>1. CASE kstep_settle
  BY <1>1, ConstantsAssumption DEF kstep_settle, TypeOK
<1>2. CASE kstep_task_ctrl
  <2>1. loc' \in [Tasks -> Locations]
    BY <1>2 DEF kstep_task_ctrl, Interrupt, TypeOK
  <2> QED
    BY <1>2, <2>1, SettleThenType DEF kstep_task_ctrl, TypeOK
<1>3. CASE CreateAccepted
  <2>1. tgt \in Tasks
    BY <1>3 DEF CreateAccepted, TypeOK
  <2> QED
    BY <1>3, <2>1, SendSigType, SettleThenType DEF CreateAccepted, TypeOK
<1>4. CASE CreateRefused
  <2>1. tgt \in Tasks
    BY <1>4 DEF CreateRefused, TypeOK
  <2> QED
    BY <1>4, <2>1, PutType DEF CreateRefused, TypeOK
<1>5. CASE Created
  BY <1>5 DEF Created, TypeOK
<1>6. CASE TickBegin
  BY <1>6, ConstantsAssumption DEF TickBegin, TypeOK
<1>7. CASE kstep_do_sched_tick
  BY <1>7, TickType
<1>8. CASE Ticked
  BY <1>8, ConstantsAssumption DEF Ticked, SettleThen, TypeOK
<1>9. CASE Finish
  BY <1>9, SettleThenType DEF Finish, TypeOK
<1>10. CASE Reply
  BY <1>10 DEF Reply, TypeOK
<1>11. ASSUME NEW t \in Tasks, kstep_task_create(t)
       PROVE  TypeOK'
  <2>1. <<"park">> \in Seq(Asks) /\ Len(<<"park">>) = 1 /\ QueueDepth >= 1
    BY ConstantsAssumption
  <2>2. /\ queue' \in [Tasks -> Seq(Asks)]
        /\ \A u \in Tasks : Len(queue'[u]) <= QueueDepth
    BY <1>11, <2>1 DEF kstep_task_create, TypeOK
  <2> QED
    BY <1>11, <2>2 DEF kstep_task_create, TypeOK
<1> QED
  BY <1>1, <1>2, <1>3, <1>4, <1>5, <1>6, <1>7, <1>8, <1>9, <1>10, <1>11
     DEF Controller

LEMMA HostType ==
  ASSUME TypeOK, Host
  PROVE  TypeOK'
<1>1. CASE cmd_create
  BY <1>1, ConstantsAssumption DEF cmd_create, TypeOK
<1>2. CASE cmd_tick
  BY <1>2, SettleThenType, ConstantsAssumption DEF cmd_tick, TypeOK
<1>3. CASE reply_error
  BY <1>3 DEF reply_error, TypeOK
<1>4. CASE execute_exit
  BY <1>4 DEF execute_exit, TypeOK
<1>5. ASSUME NEW t \in Tasks, kstep_task_wakeup(t)
      PROVE  TypeOK'
  BY <1>5, SendSigType, SettleThenType DEF kstep_task_wakeup, TypeOK
<1>6. ASSUME NEW t \in Tasks, SetAttr(t)
      PROVE  TypeOK'
  <2>1. loc' \in [Tasks -> Locations] /\ resched' \in [0..NCpus -> BOOLEAN]
    <3>1. Interrupt(loc, cpu[t]) \in [Tasks -> Locations]
      BY InterruptType DEF TypeOK
    <3> QED
      BY <1>6, <3>1 DEF SetAttr, TypeOK
  <2> QED
    BY <1>6, <2>1 DEF SetAttr, TypeOK
<1>7. ASSUME NEW t \in Tasks, NEW v \in Verbs, TaskVerb(t, v)
      PROVE  TypeOK'
  BY <1>7, PutType DEF TaskVerb, TypeOK
<1> QED
  BY <1>1, <1>2, <1>3, <1>4, <1>5, <1>6, <1>7 DEF Host

\* Every step of the session keeps TypeOK, so every reachable state has it: in
\* particular no control queue ever holds more than its QueueDepth slots.
THEOREM TypeCorrect == Spec => []TypeOK
<1>1. Init => TypeOK
  BY ConstantsAssumption DEF Init, TypeOK
<1>2. TypeOK /\ [Next]_vars => TypeOK'
  <2> SUFFICES ASSUME TypeOK, [Next]_vars
               PROVE  TypeOK'
    OBVIOUS
  <2>1. CASE Controller
    BY <2>1, ControllerType
  <2>2. CASE Host
    BY <2>2, HostType
  <2>3. CASE \E t \in Tasks : TaskStep(t) \/ Activate(t)
    BY <2>3, TaskStepType, SchedulerType
  <2>4. CASE \E c \in Cpus : Schedule(c)
    BY <2>4, SchedulerType
  <2>5. CASE UNCHANGED vars
    BY <2>5 DEF vars, TypeOK
  <2> QED
    BY <2>1, <2>2, <2>3, <2>4, <2>5 DEF Next
<1> QED
  BY <1>1, <1>2, PTL DEF Spec

-----------------------------------------------------------------------------
(* Where tasks run *)

\* A task inside the control-file read is the one its test CPU runs, which is
\* what makes task_cpu() the CPU to interrupt.  The rest is what that needs: a
\* task runs on CPU 0 only between its start and its park.
ReadersRun ==
  \A t \in Tasks : loc[t] \in {"taken", "halt", "left"} =>
                    cpu[t] \in Cpus /\ curr[cpu[t]] = t
AbsentAtCpu0 ==
  \A t \in Tasks : loc[t] = "absent" => cpu[t] = 0 /\ hand[t] = None
StartParks ==
  \A t \in Tasks : loc[t] = "user" /\ cpu[t] = 0 =>
                    queue[t] = <<"park">> /\ hand[t] = None
Cpu0RunsStarted ==
  \A t \in Tasks : curr[0] = t => loc[t] = "user" /\ cpu[t] = 0
NumberedPlaced ==
  \A t \in Tasks : t \in numbered => cpu[t] \in Cpus

HomeInv ==
  /\ TypeOK
  /\ ReadersRun
  /\ AbsentAtCpu0
  /\ StartParks
  /\ Cpu0RunsStarted
  /\ NumberedPlaced

\* The parts of HomeInv are about the same few variables and are used together.
USE DEF ReadersRun, AbsentAtCpu0, StartParks, Cpu0RunsStarted, NumberedPlaced

\* What the scheduler's operators leave of a task that they do not wake.
LEMMA InterruptHome ==
  ASSUME NEW l, NEW c, NEW t \in Tasks
  PROVE  \/ Interrupt(l, c)[t] = l[t]
         \/ l[t] = "halt" /\ Interrupt(l, c)[t] = "left"
BY DEF Interrupt

LEMMA EnqueueHome ==
  ASSUME NEW l, NEW c, Enqueue(l, c), NEW t \in Tasks
  PROVE  \/ loc'[t] = l[t]
         \/ l[t] = "halt" /\ loc'[t] = "left"
<1>1. PICK r : loc' = IF r THEN Interrupt(l, c) ELSE l
  BY DEF Enqueue
<1> QED
  BY <1>1, InterruptHome

LEMMA WakeUpHome ==
  ASSUME TypeOK, NEW t \in Tasks, WakeUp(t)
  PROVE  /\ loc'[t] = "user"
         /\ curr' = curr
         /\ \A u \in Tasks \ {t} :
              /\ cpu'[u] = cpu[u]
              /\ loc'[u] = loc[u] \/ (loc[u] = "halt" /\ loc'[u] = "left")
         /\ IF curr[cpu[t]] = t THEN cpu'[t] = cpu[t] ELSE cpu'[t] \in Cpus
<1> DEFINE woken == [loc EXCEPT ![t] = "user"]
<1>1. woken[t] = "user" /\ \A u \in Tasks \ {t} : woken[u] = loc[u]
  BY DEF TypeOK
<1>2. CASE Running(t)
  BY <1>1, <1>2 DEF WakeUp, Running
<1>3. CASE ~Running(t)
  <2>1. PICK c \in Cpus :
          /\ cpu' = [cpu EXCEPT ![t] = c]
          /\ loc' = woken \/ Enqueue(woken, c)
    BY <1>3 DEF WakeUp
  <2> HIDE DEF woken
  <2>2. \A u \in Tasks : \/ loc'[u] = woken[u]
                         \/ woken[u] = "halt" /\ loc'[u] = "left"
    BY <2>1, EnqueueHome
  <2>3. /\ cpu'[t] \in Cpus
        /\ \A u \in Tasks \ {t} : cpu'[u] = cpu[u]
    BY <2>1 DEF TypeOK
  <2>4. curr' = curr
    BY <1>3 DEF WakeUp
  <2> QED
    BY <1>1, <1>3, <2>2, <2>3, <2>4 DEF Running
<1> QED
  BY <1>2, <1>3

\* A step that moves no task and changes locations at most by an interrupt.
LEMMA HomeInvKept ==
  ASSUME HomeInv, TypeOK', UNCHANGED <<cpu, curr, numbered, queue, hand>>,
         \A t \in Tasks : loc'[t] = loc[t] \/ (loc[t] = "halt" /\ loc'[t] = "left")
  PROVE  HomeInv'
BY DEF HomeInv

\* A task that sleeps, not on CPU 0's account, is woken.
LEMMA HomeInvWakeUp ==
  ASSUME HomeInv, TypeOK', NEW t \in Tasks, loc[t] = "asleep", WakeUp(t),
         UNCHANGED queue, numbered' \subseteq numbered \union {t},
         \A u \in Tasks \ {t} : hand'[u] = None \/ hand'[u] = hand[u]
  PROVE  HomeInv'
<1>1. curr[0] # t
  BY DEF HomeInv
<1>2. cpu'[t] \in Cpus
  BY <1>1, WakeUpHome, ConstantsAssumption DEF HomeInv, TypeOK
<1>3. /\ loc'[t] = "user" /\ curr' = curr
      /\ \A u \in Tasks \ {t} :
           /\ cpu'[u] = cpu[u]
           /\ loc'[u] = loc[u] \/ (loc[u] = "halt" /\ loc'[u] = "left")
  BY WakeUpHome DEF HomeInv
<1>4. 0 \notin Cpus
  BY ConstantsAssumption
<1>5. ReadersRun' /\ AbsentAtCpu0'
  BY <1>3 DEF HomeInv
<1>6. StartParks' /\ Cpu0RunsStarted' /\ NumberedPlaced'
  BY <1>1, <1>2, <1>3, <1>4 DEF HomeInv
<1> QED
  BY <1>5, <1>6 DEF HomeInv

LEMMA HomeInvSendSig ==
  ASSUME HomeInv, TypeOK', NEW t \in Tasks, send_sig(t), UNCHANGED queue,
         \/ numbered' = numbered
         \/ loc[t] = "asleep" /\ numbered' = numbered \union {t}
  PROVE  HomeInv'
<1>1. CASE loc[t] = "asleep"
  <2>1. /\ WakeUp(t)
        /\ \A u \in Tasks \ {t} : hand'[u] = hand[u]
    BY <1>1 DEF send_sig, HomeInv, TypeOK
  <2> QED
    BY <1>1, <2>1, HomeInvWakeUp
<1>2. CASE loc[t] # "asleep"
  BY <1>2, InterruptHome, HomeInvKept DEF send_sig
<1> QED
  BY <1>1, <1>2

LEMMA HomeInvTask ==
  ASSUME HomeInv, TypeOK', NEW t \in Tasks, TaskStep(t)
  PROVE  HomeInv'
<1>1. CASE kstep_ctrl_take(t)
  <2>1. /\ loc[t] = "user" /\ curr[cpu[t]] = t
        /\ UNCHANGED <<cpu, numbered>>
        /\ \A u \in Tasks \ {t} : /\ loc'[u] = loc[u]
                                  /\ queue'[u] = queue[u]
                                  /\ hand'[u] = hand[u]
    BY <1>1 DEF kstep_ctrl_take, InUser, Running, HomeInv, TypeOK
  <2>2. CASE queue[t] = <<>>
    <3>1. loc'[t] = "taken" /\ UNCHANGED <<hand, queue, curr>>
      BY <1>1, <2>2 DEF kstep_ctrl_take, HomeInv, TypeOK
    <3>2. cpu[t] \in Cpus
      <4>1. cpu[t] # 0
        BY <2>1, <2>2 DEF HomeInv
      <4>2. cpu[t] \in 0..NCpus
        BY DEF HomeInv, TypeOK
      <4> QED
        BY <4>1, <4>2, ConstantsAssumption
    <3> QED
      BY <2>1, <3>1, <3>2, ConstantsAssumption DEF HomeInv
  <2>3. CASE queue[t] # <<>> /\ Head(queue[t]) = "park"
    <3>1. loc'[t] = "asleep" /\ curr' = [curr EXCEPT ![cpu[t]] = Idle]
      BY <1>1, <2>3 DEF kstep_ctrl_take, HomeInv, TypeOK
    <3>2. \A c \in 0..NCpus : curr'[c] = IF c = cpu[t] THEN Idle ELSE curr[c]
      BY <3>1 DEF HomeInv, TypeOK
    <3>3. \A u \in Tasks : cpu[u] \in 0..NCpus /\ 0 \in 0..NCpus /\ Idle # u
      BY ConstantsAssumption DEF HomeInv, TypeOK
    <3>4. ReadersRun'
      BY <2>1, <3>1, <3>2, <3>3 DEF HomeInv
    <3>5. AbsentAtCpu0' /\ StartParks' /\ NumberedPlaced'
      BY <2>1, <3>1 DEF HomeInv
    <3>6. Cpu0RunsStarted'
      BY <2>1, <3>1, <3>2, <3>3 DEF HomeInv
    <3> QED
      BY <3>4, <3>5, <3>6 DEF HomeInv
  <2>4. CASE queue[t] # <<>> /\ Head(queue[t]) # "park"
    <3>1. UNCHANGED <<loc, curr>>
      BY <1>1, <2>4 DEF kstep_ctrl_take
    <3>2. cpu[t] # 0
      BY <2>1, <2>4 DEF HomeInv
    <3> QED
      BY <2>1, <3>1, <3>2 DEF HomeInv
  <2> QED
    BY <2>2, <2>3, <2>4
<1>2. CASE kstep_ctrl_halt(t)
  BY <1>2, ConstantsAssumption DEF kstep_ctrl_halt, HomeInv, TypeOK
<1>3. CASE ReturnFromRead(t)
  BY <1>3, ConstantsAssumption DEF ReturnFromRead, HomeInv, TypeOK
<1>4. CASE handler(t)
  BY <1>4, HomeInvKept DEF handler
<1>5. CASE task_main(t)
  <2>1. loc[t] = "user" /\ UNCHANGED <<queue, numbered>>
    BY <1>5 DEF task_main, InUser
  <2>2. CASE hand[t] = "chan-write"
    <3>1. /\ ChanWrite(t)
          /\ \A u \in Tasks : hand'[u] = None \/ hand'[u] = hand[u]
      BY <1>5, <2>2 DEF task_main, ChanWrite, HomeInv, TypeOK
    <3>2. CASE \E u \in ChanReaders : WakeUp(u)
      BY <2>1, <3>1, <3>2, HomeInvWakeUp DEF ChanReaders
    <3>3. CASE UNCHANGED <<loc, schedVars>>
      BY <2>1, <3>1, <3>3 DEF HomeInv
    <3> QED
      BY <3>1, <3>2, <3>3 DEF ChanWrite
  <2>3. CASE hand[t] # "chan-write"
    <3>1. /\ hand[t] # None /\ cpu[t] # 0
          /\ UNCHANGED <<cpu, curr>>
          /\ loc'[t] \in {"user", "asleep", "exited"}
          /\ \A u \in Tasks \ {t} : loc'[u] = loc[u] /\ hand'[u] = hand[u]
      BY <1>5, <2>1, <2>3 DEF task_main, ChanRead, HomeInv, TypeOK
    <3> QED
      BY <2>1, <3>1 DEF HomeInv
  <2> QED
    BY <2>2, <2>3
<1> QED
  BY <1>1, <1>2, <1>3, <1>4, <1>5 DEF TaskStep

LEMMA HomeInvScheduler ==
  ASSUME HomeInv, TypeOK'
  PROVE  /\ \A t \in Tasks : Activate(t) => HomeInv'
         /\ \A c \in Cpus : Schedule(c) => HomeInv'
<1>1. ASSUME NEW t \in Tasks, Activate(t)
      PROVE  HomeInv'
  <2>1. Enqueue(Interrupt(loc, cpu[t]), cpu[t])
    BY <1>1 DEF Activate
  <2>2. \A u \in Tasks : loc'[u] = loc[u] \/ (loc[u] = "halt" /\ loc'[u] = "left")
    BY <2>1, EnqueueHome, InterruptHome
  <2> QED
    BY <1>1, <2>2, HomeInvKept DEF Activate
<1>2. ASSUME NEW c \in Cpus, Schedule(c)
      PROVE  HomeInv'
  <2>1. /\ UNCHANGED <<loc, hand, queue, numbered>>
        /\ c # 0 /\ c \in 0..NCpus
        /\ \A d \in 0..NCpus : d # c => curr'[d] = curr[d]
    BY <1>2, ConstantsAssumption DEF Schedule, HomeInv, TypeOK
  <2>2. \A t \in Tasks : cpu'[t] # cpu[t] => loc[t] = "user" /\ cpu[t] \in Cpus /\ cpu'[t] = c
    BY <1>2 DEF Schedule, Pullable, HomeInv, TypeOK
  <2>3. \A t \in Tasks : loc[t] \in {"taken", "halt", "left"} => cpu[t] # c
    BY <1>2, ConstantsAssumption DEF Schedule, HomeInv
  <2>4. \A t \in Tasks : cpu[t] \in 0..NCpus
    BY DEF HomeInv, TypeOK
  <2>5. 0 \notin Cpus /\ 0 \in 0..NCpus
    BY ConstantsAssumption
  <2>6. ReadersRun' /\ AbsentAtCpu0'
    BY <2>1, <2>2, <2>3, <2>4, <2>5 DEF HomeInv
  <2>7. StartParks' /\ Cpu0RunsStarted' /\ NumberedPlaced'
    BY <2>1, <2>2, <2>4, <2>5 DEF HomeInv
  <2> QED
    BY <2>6, <2>7 DEF HomeInv
<1> QED
  BY <1>1, <1>2

LEMMA HomeInvController ==
  ASSUME HomeInv, TypeOK', Controller
  PROVE  HomeInv'
<1>1. CASE kstep_settle
  BY <1>1, HomeInvKept DEF kstep_settle
<1>2. CASE kstep_task_ctrl
  BY <1>2, InterruptHome, HomeInvKept DEF kstep_task_ctrl
<1>3. CASE CreateAccepted
  <2>1. tgt \in Tasks
    BY <1>3 DEF CreateAccepted, HomeInv, TypeOK
  <2> QED
    BY <1>3, <2>1, HomeInvSendSig DEF CreateAccepted
<1>4. CASE CreateRefused
  <2>1. /\ tgt \in Tasks /\ loc[tgt] = "asleep"
        /\ UNCHANGED <<loc, hand, cpu, curr, numbered>>
        /\ \A u \in Tasks \ {tgt} : queue'[u] = queue[u]
    BY <1>4 DEF CreateRefused, kstep_ctrl_put, HomeInv, TypeOK
  <2> QED
    BY <2>1 DEF HomeInv
<1>5. CASE Created \/ TickBegin \/ Ticked \/ Finish \/ Reply
  BY <1>5, HomeInvKept DEF Created, TickBegin, Ticked, Finish, Reply
<1>6. CASE kstep_do_sched_tick
  <2>1. loc' = Interrupt(loc, scan) \/ Enqueue(Interrupt(loc, scan), scan)
    BY <1>6 DEF kstep_do_sched_tick
  <2>2. \A u \in Tasks : loc'[u] = loc[u] \/ (loc[u] = "halt" /\ loc'[u] = "left")
    BY <2>1, EnqueueHome, InterruptHome
  <2>3. \A t \in Tasks : cpu'[t] # cpu[t] => loc[t] = "user" /\ cpu[t] \in Cpus /\ cpu'[t] = scan
    <3>1. cpu' = cpu \/ \E t \in Pullable(scan) : cpu' = [cpu EXCEPT ![t] = scan]
      BY <1>6 DEF kstep_do_sched_tick
    <3>2. \A t \in Pullable(scan) : t \in Tasks /\ loc[t] = "user" /\ cpu[t] \in Cpus
      BY DEF Pullable
    <3> QED
      BY <3>1, <3>2 DEF HomeInv, TypeOK
  <2>4. UNCHANGED <<hand, queue, curr, numbered>> /\ scan \in Cpus
    BY <1>6 DEF kstep_do_sched_tick, HomeInv, TypeOK
  <2>5. 0 \notin Cpus
    BY ConstantsAssumption
  <2> QED
    BY <2>2, <2>3, <2>4, <2>5 DEF HomeInv
<1>7. ASSUME NEW t \in Tasks, kstep_task_create(t)
      PROVE  HomeInv'
  <2>1. /\ loc[t] = "absent" /\ loc'[t] = "user" /\ queue'[t] = <<"park">>
        /\ \A u \in Tasks \ {t} : loc'[u] = loc[u] /\ queue'[u] = queue[u]
        /\ curr'[0] = t /\ \A c \in Cpus : curr'[c] = curr[c]
        /\ UNCHANGED <<hand, cpu, numbered>>
    BY <1>7, ConstantsAssumption DEF kstep_task_create, HomeInv, TypeOK
  <2> QED
    BY <2>1, ConstantsAssumption DEF HomeInv
<1> QED
  BY <1>1, <1>2, <1>3, <1>4, <1>5, <1>6, <1>7 DEF Controller

LEMMA HomeInvHost ==
  ASSUME HomeInv, TypeOK', Host
  PROVE  HomeInv'
<1>1. CASE cmd_create \/ cmd_tick \/ reply_error \/ execute_exit
  BY <1>1, HomeInvKept DEF cmd_create, cmd_tick, reply_error, execute_exit
<1>2. ASSUME NEW t \in Tasks, kstep_task_wakeup(t)
      PROVE  HomeInv'
  BY <1>2, HomeInvSendSig DEF kstep_task_wakeup
<1>3. ASSUME NEW t \in Tasks, SetAttr(t)
      PROVE  HomeInv'
  BY <1>3, InterruptHome, HomeInvKept DEF SetAttr
<1>4. ASSUME NEW t \in Tasks, NEW v \in Verbs, TaskVerb(t, v)
      PROVE  HomeInv'
  <2>1. /\ t \in numbered
        /\ UNCHANGED <<loc, hand, cpu, curr, numbered>>
        /\ \A u \in Tasks \ {t} : queue'[u] = queue[u]
    BY <1>4 DEF TaskVerb, parse_task, kstep_ctrl_put, HomeInv, TypeOK
  <2> QED
    BY <2>1, ConstantsAssumption DEF HomeInv
<1> QED
  BY <1>1, <1>2, <1>3, <1>4 DEF Host

LEMMA HomeCorrect == Spec => []HomeInv
<1>1. Init => HomeInv
  BY TypeCorrect, ConstantsAssumption DEF Init, HomeInv, TypeOK
<1>2. HomeInv /\ TypeOK' /\ [Next]_vars => HomeInv'
  <2> SUFFICES ASSUME HomeInv, TypeOK', [Next]_vars
               PROVE  HomeInv'
    OBVIOUS
  <2>1. CASE Controller
    BY <2>1, HomeInvController
  <2>2. CASE Host
    BY <2>2, HomeInvHost
  <2>3. CASE \E t \in Tasks : TaskStep(t) \/ Activate(t)
    BY <2>3, HomeInvTask, HomeInvScheduler
  <2>4. CASE \E c \in Cpus : Schedule(c)
    BY <2>4, HomeInvScheduler
  <2>5. CASE UNCHANGED vars
    BY <2>5 DEF vars, HomeInv
  <2> QED
    BY <2>1, <2>2, <2>3, <2>4, <2>5 DEF Next
<1> QED
  BY <1>1, <1>2, TypeCorrect, PTL DEF Spec

-----------------------------------------------------------------------------
(* Lost asks *)

\* Strengthening: a task past an empty take that has since been asked for
\* something is one whose queue's two ends met.
LostInv ==
  /\ HomeInv
  /\ LostOnlyByOverlap
  /\ \A t \in Tasks : loc[t] = "taken" /\ queue[t] # <<>> => t \in overlap

\* No task enters the halt, or the stretch before it, in this step.
NoneEnters == \A t \in Tasks : loc'[t] \in {"halt", "taken"} => loc'[t] = loc[t]

LEMMA InterruptEnters ==
  ASSUME NEW l, NEW c, NEW t \in Tasks, Interrupt(l, c)[t] \in {"halt", "taken"}
  PROVE  Interrupt(l, c)[t] = l[t]
BY DEF Interrupt

LEMMA EnqueueEnters ==
  ASSUME NEW l, NEW c, Enqueue(l, c), NEW t \in Tasks, loc'[t] \in {"halt", "taken"}
  PROVE  loc'[t] = l[t]
<1>1. PICK r : loc' = IF r THEN Interrupt(l, c) ELSE l
  BY DEF Enqueue
<1>2. CASE loc' = Interrupt(l, c)
  BY <1>2, InterruptEnters
<1>3. CASE loc' = l
  BY <1>3
<1> QED
  BY <1>1, <1>2, <1>3

LEMMA WakeUpEnters ==
  ASSUME TypeOK, NEW t \in Tasks, WakeUp(t)
  PROVE  NoneEnters
<1> DEFINE woken == [loc EXCEPT ![t] = "user"]
<1>1. \A u \in Tasks : woken[u] \in {"halt", "taken"} => woken[u] = loc[u]
  BY DEF TypeOK
<1>2. loc' = woken \/ \E c \in Cpus : Enqueue(woken, c)
  BY DEF WakeUp
<1> HIDE DEF woken
<1>3. CASE loc' = woken
  BY <1>1, <1>3 DEF NoneEnters
<1>4. CASE \E c \in Cpus : Enqueue(woken, c)
  <2>1. PICK c \in Cpus : Enqueue(woken, c)
    BY <1>4
  <2>2. \A u \in Tasks : loc'[u] \in {"halt", "taken"} => loc'[u] = woken[u]
    BY <2>1, EnqueueEnters
  <2> QED
    BY <1>1, <2>2 DEF NoneEnters
<1> QED
  BY <1>2, <1>3, <1>4

LEMMA SendSigEnters ==
  ASSUME TypeOK, NEW t \in Tasks, send_sig(t)
  PROVE  NoneEnters
<1>1. CASE WakeUp(t)
  BY <1>1, WakeUpEnters
<1>2. CASE loc' = Interrupt(loc, cpu[t])
  BY <1>2, InterruptEnters DEF NoneEnters
<1> QED
  BY <1>1, <1>2 DEF send_sig

\* A step that touches no queue, sends no task into the halt and does not leave
\* the controller's interrupt unsent keeps the invariant.
LEMMA LostInvKept ==
  ASSUME LostInv, HomeInv', NoneEnters, UNCHANGED <<queue, overlap>>,
         pc = "kick" => pc' = "kick" /\ tgt' = tgt
  PROVE  LostInv'
BY DEF LostInv, LostOnlyByOverlap, Lost, NoneEnters

\* A put: the target is kicked next, or was between its take and its halt.
LEMMA LostInvPut ==
  ASSUME LostInv, HomeInv', NEW t \in Tasks, NEW a \in Asks, kstep_ctrl_put(t, a),
         loc' = loc, pc # "kick"
  PROVE  LostInv'
<1>1. CASE Len(queue[t]) >= QueueDepth
  BY <1>1 DEF kstep_ctrl_put, LostInv, LostOnlyByOverlap, Lost
<1>2. CASE ~(Len(queue[t]) >= QueueDepth)
  <2>1. /\ pc' = "kick" /\ tgt' = t
        /\ queue' = [queue EXCEPT ![t] = Append(queue[t], a)]
        /\ overlap' = IF loc[t] = "taken" THEN overlap \union {t} ELSE overlap
    BY <1>2 DEF kstep_ctrl_put
  <2>2. \A u \in Tasks : u # t => queue'[u] = queue[u]
    BY <2>1 DEF LostInv, HomeInv, TypeOK
  <2>3. overlap \subseteq overlap' /\ (loc[t] = "taken" => t \in overlap')
    BY <2>1
  <2>4. ASSUME NEW u \in Tasks, Lost(u)'
        PROVE  u \in overlap'
    BY <2>1, <2>2, <2>3, <2>4 DEF LostInv, LostOnlyByOverlap, Lost
  <2>5. ASSUME NEW u \in Tasks, loc'[u] = "taken", queue'[u] # <<>>
        PROVE  u \in overlap'
    BY <2>2, <2>3, <2>5 DEF LostInv
  <2> QED
    BY <2>4, <2>5 DEF LostInv, LostOnlyByOverlap
<1> QED
  BY <1>1, <1>2

LEMMA LostInvTask ==
  ASSUME LostInv, HomeInv', NEW t \in Tasks, TaskStep(t)
  PROVE  LostInv'
<1>1. CASE kstep_ctrl_take(t)
  <2>1. CASE queue[t] = <<>>
    <3>1. /\ loc' = [loc EXCEPT ![t] = "taken"]
          /\ UNCHANGED <<queue, pc, tgt>>
          /\ overlap' = overlap \ {t}
      BY <1>1, <2>1 DEF kstep_ctrl_take
    <3> QED
      BY <2>1, <3>1 DEF LostInv, LostOnlyByOverlap, Lost, HomeInv, TypeOK
  <2>2. CASE queue[t] # <<>>
    <3>1. /\ loc'[t] \in {"user", "asleep"}
          /\ \A u \in Tasks \ {t} : loc'[u] = loc[u] /\ queue'[u] = queue[u]
          /\ UNCHANGED <<pc, tgt>>
          /\ overlap' = overlap \ {t}
      BY <1>1, <2>2 DEF kstep_ctrl_take, InUser, LostInv, HomeInv, TypeOK
    <3> QED
      BY <3>1 DEF LostInv, LostOnlyByOverlap, Lost
  <2> QED
    BY <2>1, <2>2
<1>2. CASE kstep_ctrl_halt(t)
  BY <1>2 DEF kstep_ctrl_halt, LostInv, LostOnlyByOverlap, Lost, HomeInv, TypeOK
<1>3. CASE ReturnFromRead(t)
  <2>1. NoneEnters
    BY <1>3 DEF ReturnFromRead, NoneEnters, LostInv, HomeInv, TypeOK
  <2> QED
    BY <1>3, <2>1, LostInvKept DEF ReturnFromRead
<1>4. CASE handler(t)
  <2>1. NoneEnters
    BY <1>4 DEF handler, NoneEnters
  <2> QED
    BY <1>4, <2>1, LostInvKept DEF handler
<1>5. CASE task_main(t)
  <2>1. NoneEnters
    <3>1. CASE hand[t] = "chan-write"
      BY <1>5, <3>1, WakeUpEnters
         DEF task_main, ChanWrite, ChanReaders, NoneEnters, LostInv, HomeInv
    <3>2. CASE hand[t] # "chan-write"
      BY <1>5, <3>2 DEF task_main, ChanRead, NoneEnters, LostInv, HomeInv, TypeOK
    <3> QED
      BY <3>1, <3>2
  <2> QED
    BY <1>5, <2>1, LostInvKept DEF task_main
<1> QED
  BY <1>1, <1>2, <1>3, <1>4, <1>5 DEF TaskStep

LEMMA LostInvScheduler ==
  ASSUME LostInv, HomeInv'
  PROVE  /\ \A t \in Tasks : Activate(t) => LostInv'
         /\ \A c \in Cpus : Schedule(c) => LostInv'
<1>1. ASSUME NEW t \in Tasks, Activate(t)
      PROVE  LostInv'
  <2>1. Enqueue(Interrupt(loc, cpu[t]), cpu[t])
    BY <1>1 DEF Activate
  <2>2. \A u \in Tasks : loc'[u] \in {"halt", "taken"} => loc'[u] = Interrupt(loc, cpu[t])[u]
    BY <2>1, EnqueueEnters
  <2>3. NoneEnters
    BY <2>2, InterruptEnters DEF NoneEnters
  <2> QED
    BY <1>1, <2>3, LostInvKept DEF Activate
<1>2. ASSUME NEW c \in Cpus, Schedule(c)
      PROVE  LostInv'
  <2>1. NoneEnters
    BY <1>2 DEF Schedule, NoneEnters
  <2> QED
    BY <1>2, <2>1, LostInvKept DEF Schedule
<1> QED
  BY <1>1, <1>2

LEMMA LostInvController ==
  ASSUME LostInv, HomeInv', Controller
  PROVE  LostInv'
<1> USE DEF NoneEnters
<1>1. CASE kstep_settle
  BY <1>1, LostInvKept DEF kstep_settle
<1>2. CASE kstep_task_ctrl
  <2>1. tgt \in Tasks /\ UNCHANGED <<queue, overlap>> /\ pc' = "settle"
    BY <1>2 DEF kstep_task_ctrl, SettleThen, LostInv, HomeInv, TypeOK
  <2>2. NoneEnters
    BY <1>2, InterruptEnters DEF kstep_task_ctrl
  <2>3. loc'[tgt] # "halt"
    BY <1>2, <2>1 DEF kstep_task_ctrl, settled, Interrupt, LostInv, HomeInv
  <2> QED
    BY <1>2, <2>1, <2>2, <2>3 DEF LostInv, LostOnlyByOverlap, Lost
<1>3. CASE CreateAccepted
  <2>1. tgt \in Tasks
    BY <1>3 DEF CreateAccepted, LostInv, HomeInv, TypeOK
  <2> QED
    BY <1>3, <2>1, SendSigEnters, LostInvKept DEF CreateAccepted, LostInv, HomeInv
<1>4. CASE CreateRefused
  <2>1. tgt \in Tasks
    BY <1>4 DEF CreateRefused, LostInv, HomeInv, TypeOK
  <2> QED
    BY <1>4, <2>1, LostInvPut DEF CreateRefused
<1>5. CASE Created
  BY <1>5, LostInvKept DEF Created
<1>6. CASE TickBegin
  BY <1>6, LostInvKept DEF TickBegin
<1>7. CASE kstep_do_sched_tick
  <2>1. loc' = Interrupt(loc, scan) \/ Enqueue(Interrupt(loc, scan), scan)
    BY <1>7 DEF kstep_do_sched_tick
  <2>2. \A u \in Tasks : loc'[u] \in {"halt", "taken"} => loc'[u] = Interrupt(loc, scan)[u]
    BY <2>1, EnqueueEnters
  <2>3. NoneEnters
    BY <2>2, InterruptEnters
  <2> QED
    BY <1>7, <2>3, LostInvKept DEF kstep_do_sched_tick
<1>8. CASE Ticked
  BY <1>8, LostInvKept DEF Ticked
<1>9. CASE Finish
  BY <1>9, LostInvKept DEF Finish
<1>10. CASE Reply
  BY <1>10, LostInvKept DEF Reply
<1>11. ASSUME NEW t \in Tasks, kstep_task_create(t)
       PROVE  LostInv'
  <2>1. /\ loc'[t] = "user" /\ pc # "kick" /\ overlap' = overlap
        /\ \A u \in Tasks \ {t} : loc'[u] = loc[u] /\ queue'[u] = queue[u]
    BY <1>11 DEF kstep_task_create, LostInv, HomeInv, TypeOK
  <2> QED
    BY <2>1 DEF LostInv, LostOnlyByOverlap, Lost
<1> QED
  BY <1>1, <1>2, <1>3, <1>4, <1>5, <1>6, <1>7, <1>8, <1>9, <1>10, <1>11
     DEF Controller

LEMMA LostInvHost ==
  ASSUME LostInv, HomeInv', Host
  PROVE  LostInv'
<1> USE DEF NoneEnters
<1>1. CASE cmd_create \/ cmd_tick \/ reply_error \/ execute_exit
  BY <1>1, LostInvKept DEF cmd_create, cmd_tick, reply_error, execute_exit, Command
<1>2. ASSUME NEW t \in Tasks, kstep_task_wakeup(t)
      PROVE  LostInv'
  BY <1>2, SendSigEnters, LostInvKept
     DEF kstep_task_wakeup, Command, LostInv, HomeInv
<1>3. ASSUME NEW t \in Tasks, SetAttr(t)
      PROVE  LostInv'
  BY <1>3, InterruptEnters, LostInvKept DEF SetAttr, Command
<1>4. ASSUME NEW t \in Tasks, NEW v \in Verbs, TaskVerb(t, v)
      PROVE  LostInv'
  BY <1>4, LostInvPut DEF TaskVerb, Command
<1> QED
  BY <1>1, <1>2, <1>3, <1>4 DEF Host

\* For any tasks, CPUs, queue depth and commands: an ask is lost (its task halts
\* with it queued, the interrupt that would let it out already decided against)
\* only if it was put between the task's empty take and its halt.
THEOREM AskLostOnlyByOverlap == Spec => []LostOnlyByOverlap
<1>1. Init => LostInv
  <2>1. Init => HomeInv
    BY ConstantsAssumption DEF Init, HomeInv, TypeOK
  <2> QED
    BY <2>1 DEF Init, LostInv, LostOnlyByOverlap, Lost
<1>2. LostInv /\ HomeInv' /\ [Next]_vars => LostInv'
  <2> SUFFICES ASSUME LostInv, HomeInv', [Next]_vars
               PROVE  LostInv'
    OBVIOUS
  <2>1. CASE Controller
    BY <2>1, LostInvController
  <2>2. CASE Host
    BY <2>2, LostInvHost
  <2>3. CASE \E t \in Tasks : TaskStep(t) \/ Activate(t)
    BY <2>3, LostInvTask, LostInvScheduler
  <2>4. CASE \E c \in Cpus : Schedule(c)
    BY <2>4, LostInvScheduler
  <2>5. CASE UNCHANGED vars
    BY <2>5 DEF vars, LostInv, LostOnlyByOverlap, Lost
  <2> QED
    BY <2>1, <2>2, <2>3, <2>4, <2>5 DEF Next
<1>3. LostInv => LostOnlyByOverlap
  BY DEF LostInv
<1> QED
  BY <1>1, <1>2, <1>3, HomeCorrect, PTL DEF Spec

-----------------------------------------------------------------------------
(* Settling without channel writes *)

\* No task has been asked to write to the channel.
NoWrites ==
  \A t \in Tasks : /\ hand[t] # "chan-write"
                    /\ \A i \in 1..Len(queue[t]) : queue[t][i] # "chan-write"

\* A task in the read has nothing in hand.
ReadersFree ==
  \A t \in Tasks : loc[t] \in {"taken", "halt", "left"} => hand[t] = None

\* The CPUs kstep_settle() has passed are quiet, and stay so.
PassedQuiet == pc = "settle" => \A c \in Cpus : c < scan => Quiet(c)

QuietInv ==
  /\ TypeOK
  /\ NoWrites
  /\ ReadersFree
  /\ PassedQuiet
  /\ QuietAtReply

\* A settled CPU is quiet.
LEMMA SettledIsQuiet ==
  ASSUME QuietInv, NEW c \in Cpus, kstep_cpu_settled(c)
  PROVE  Quiet(c)
<1>1. c \in 0..NCpus
  BY ConstantsAssumption
<1>2. CASE curr[c] = Idle
  BY <1>2 DEF kstep_cpu_settled, Quiet
<1>3. CASE curr[c] # Idle
  <2>1. curr[c] \in Tasks
    BY <1>1, <1>3 DEF QuietInv, TypeOK
  <2> QED
    BY <1>3, <2>1 DEF kstep_cpu_settled, kstep_task_settled, settled, Quiet,
                      QuietInv, ReadersFree
<1> QED
  BY <1>2, <1>3

\* What keeps a CPU quiet: its current task and its flags stay, no task is
\* woken to it, and nothing is asked of its current task.
LEMMA QuietKept ==
  ASSUME NEW c \in Cpus, Quiet(c),
         curr'[c] = curr[c], resched'[c] = resched[c],
         \A t \in waking' : t \in waking /\ cpu'[t] = cpu[t],
         \A t \in Tasks : loc'[t] \in Runnable /\ cpu'[t] = c /\ t \notin waking' =>
                           loc[t] \in Runnable /\ cpu[t] = c /\ t \notin waking,
         curr[c] # Idle => /\ loc'[curr[c]] \in Runnable
                           /\ hand'[curr[c]] = None
                           /\ queue'[curr[c]] = <<>>
                           /\ ~sig'[curr[c]]
  PROVE  Quiet(c)'
<1>1. ~resched'[c] /\ \A t \in waking' : cpu'[t] # c
  BY DEF Quiet
<1>2. CASE curr[c] = Idle
  <2>1. OnRq(c) = {}
    BY <1>2 DEF Quiet
  <2>2. OnRq(c)' = {}
    BY <2>1 DEF OnRq
  <2> QED
    BY <1>1, <1>2, <2>2 DEF Quiet
<1>3. CASE curr[c] # Idle
  BY <1>1, <1>3 DEF Quiet
<1> QED
  BY <1>2, <1>3

\* A quiet CPU stays quiet whatever the tasks do, if none writes to the channel.
LEMMA QuietTask ==
  ASSUME QuietInv, NEW t \in Tasks, TaskStep(t), NEW c \in Cpus, Quiet(c)
  PROVE  Quiet(c)'
<1>1. c \in 0..NCpus /\ (curr[c] # Idle => curr[c] \in Tasks)
  BY ConstantsAssumption DEF QuietInv, TypeOK
<1>2. curr[c] # Idle => /\ loc[curr[c]] \in Runnable
                        /\ hand[curr[c]] = None
                        /\ queue[curr[c]] = <<>>
                        /\ ~sig[curr[c]]
  BY DEF Quiet
<1>3. CASE kstep_ctrl_take(t)
  <2>1. /\ UNCHANGED <<sig, cpu, resched, waking>>
        /\ loc[t] = "user" /\ loc'[t] \in {"taken", "user", "asleep"}
        /\ \A u \in Tasks \ {t} : /\ loc'[u] = loc[u]
                                  /\ queue'[u] = queue[u]
                                  /\ hand'[u] = hand[u]
    BY <1>3 DEF kstep_ctrl_take, InUser, QuietInv, TypeOK
  <2>2. CASE queue[t] = <<>>
    <3>1. loc'[t] = "taken" /\ UNCHANGED <<hand, queue, curr>>
      BY <1>3, <2>2 DEF kstep_ctrl_take, QuietInv, TypeOK
    <3> QED
      BY <1>1, <1>2, <2>1, <3>1, QuietKept
  <2>3. CASE queue[t] # <<>>
    <3>1. curr[c] # t
      BY <1>2, <2>3, ConstantsAssumption
    <3>2. curr'[c] = curr[c]
      BY <1>1, <1>3, <3>1 DEF kstep_ctrl_take, InUser, Running, QuietInv, TypeOK
    <3> QED
      BY <1>1, <1>2, <2>1, <3>1, <3>2, QuietKept
  <2> QED
    BY <2>2, <2>3
<1>4. CASE kstep_ctrl_halt(t)
  <2>1. /\ UNCHANGED <<hand, queue, sig, schedVars>>
        /\ loc[t] = "taken" /\ loc'[t] \in {"user", "halt"}
        /\ \A u \in Tasks \ {t} : loc'[u] = loc[u]
    BY <1>4 DEF kstep_ctrl_halt, QuietInv, TypeOK
  <2> QED
    BY <1>1, <1>2, <2>1, QuietKept
<1>5. CASE ReturnFromRead(t)
  <2>1. /\ UNCHANGED <<hand, queue, sig, schedVars>>
        /\ loc[t] = "left" /\ loc'[t] = "user"
        /\ \A u \in Tasks \ {t} : loc'[u] = loc[u]
    BY <1>5 DEF ReturnFromRead, QuietInv, TypeOK
  <2> QED
    BY <1>1, <1>2, <2>1, QuietKept
<1>6. CASE handler(t)
  <2>1. /\ UNCHANGED <<loc, hand, queue, schedVars>>
        /\ \A u \in Tasks : sig'[u] => sig[u]
    BY <1>6 DEF handler, QuietInv, TypeOK
  <2> QED
    BY <1>1, <1>2, <2>1, QuietKept
<1>7. CASE task_main(t)
  <2>1. /\ hand[t] # None /\ hand[t] # "chan-write" /\ loc[t] = "user"
        /\ UNCHANGED <<queue, sig>>
    BY <1>7 DEF task_main, InUser, QuietInv, NoWrites
  <2>2. curr[c] # t
    BY <1>2, <2>1, ConstantsAssumption
  <2>3. /\ UNCHANGED <<cpu, curr, waking>>
        /\ loc'[t] \in {"user", "asleep", "exited"}
        /\ \A u \in Tasks \ {t} : loc'[u] = loc[u] /\ hand'[u] = hand[u]
    BY <1>7, <2>1 DEF task_main, ChanRead, QuietInv, TypeOK
  <2>4. resched'[c] = resched[c]
    <3>1. CASE hand[t] = "yield"
      BY <1>1, <1>7, <2>2, <3>1 DEF task_main, InUser, Running, QuietInv, TypeOK
    <3>2. CASE hand[t] # "yield"
      BY <1>7, <2>1, <3>2 DEF task_main, ChanRead
    <3> QED
      BY <3>1, <3>2
  <2> QED
    BY <1>1, <1>2, <2>1, <2>2, <2>3, <2>4, QuietKept
<1> QED
  BY <1>3, <1>4, <1>5, <1>6, <1>7 DEF TaskStep

\* Nor does the scheduler disturb it from another CPU.
LEMMA QuietScheduler ==
  ASSUME QuietInv, NEW c \in Cpus, Quiet(c)
  PROVE  /\ \A t \in Tasks : Activate(t) => Quiet(c)'
         /\ \A d \in Cpus : Schedule(d) => Quiet(c)'
<1>1. c \in 0..NCpus /\ (curr[c] # Idle => curr[c] \in Tasks)
  BY ConstantsAssumption DEF QuietInv, TypeOK
<1>2. curr[c] # Idle => /\ loc[curr[c]] \in Runnable
                        /\ hand[curr[c]] = None
                        /\ queue[curr[c]] = <<>>
                        /\ ~sig[curr[c]]
  BY DEF Quiet
<1>3. ASSUME NEW t \in Tasks, Activate(t)
      PROVE  Quiet(c)'
  <2>1. /\ UNCHANGED <<hand, queue, sig, cpu, curr>>
        /\ waking' = waking \ {t} /\ t \in waking
        /\ Enqueue(Interrupt(loc, cpu[t]), cpu[t])
    BY <1>3 DEF Activate
  <2>2. cpu[t] # c
    BY <2>1 DEF Quiet
  <2>3. \A u \in Tasks : loc'[u] = loc[u] \/ (loc[u] = "halt" /\ loc'[u] = "left")
    BY <2>1, EnqueueHome, InterruptHome
  <2>4. resched'[c] = resched[c]
    BY <1>1, <2>1, <2>2 DEF Enqueue, QuietInv, TypeOK
  <2> QED
    BY <1>1, <1>2, <2>1, <2>2, <2>3, <2>4, QuietKept
<1>4. ASSUME NEW d \in Cpus, Schedule(d)
      PROVE  Quiet(c)'
  <2>1. d # c
    <3>1. SUFFICES ASSUME d = c
                   PROVE  FALSE
      OBVIOUS
    <3>2. ~resched[c]
      BY DEF Quiet
    <3>3. curr[c] \in Tasks /\ loc[curr[c]] \in {"asleep", "exited"}
      BY <1>4, <3>1, <3>2 DEF Schedule
    <3>4. curr[c] # Idle
      BY <3>3, ConstantsAssumption
    <3>5. loc[curr[c]] \in Runnable
      BY <1>2, <3>4
    <3> QED
      BY <3>3, <3>5 DEF Runnable
  <2>2. /\ UNCHANGED <<loc, hand, queue, sig, waking>>
        /\ curr'[c] = curr[c] /\ resched'[c] = resched[c]
    BY <1>1, <1>4, <2>1 DEF Schedule, QuietInv, TypeOK
  <2>3. \A u \in Tasks : cpu'[u] = cpu[u] \/ (cpu'[u] = d /\ u \notin waking)
    <3>1. cpu' = cpu \/ \E u \in Pullable(d) : cpu' = [cpu EXCEPT ![u] = d]
      BY <1>4 DEF Schedule
    <3>2. \A u \in Pullable(d) : u \in Tasks /\ u \notin waking
      BY DEF Pullable
    <3> QED
      BY <3>1, <3>2 DEF QuietInv, TypeOK
  <2>4. waking \subseteq Tasks
    BY DEF QuietInv, TypeOK
  <2>5. (\A u \in waking' : u \in waking /\ cpu'[u] = cpu[u])
    BY <2>2, <2>3, <2>4
  <2>6. \A u \in Tasks : cpu'[u] = c => cpu[u] = c
    BY <2>1, <2>3
  <2> QED
    BY <1>1, <1>2, <2>2, <2>5, <2>6, QuietKept
<1> QED
  BY <1>3, <1>4

\* The asks other than a write that a step may add to a task's queue.
LEMMA NoWritesPut ==
  ASSUME TypeOK, NoWrites, NEW t \in Tasks, NEW a \in Asks \ {"chan-write"},
         kstep_ctrl_put(t, a), UNCHANGED hand
  PROVE  NoWrites'
<1>1. queue[t] \in Seq(Asks)
  BY DEF TypeOK
<1>2. \A u \in Tasks \ {t} : queue'[u] = queue[u]
  BY DEF kstep_ctrl_put, TypeOK
<1>3. queue'[t] = queue[t] \/ queue'[t] = Append(queue[t], a)
  BY DEF kstep_ctrl_put, TypeOK
<1>4. \A i \in 1..Len(Append(queue[t], a)) : Append(queue[t], a)[i] # "chan-write"
  BY <1>1 DEF NoWrites
<1> QED
  BY <1>2, <1>3, <1>4 DEF NoWrites

LEMMA NoWritesTake ==
  ASSUME TypeOK, NoWrites, NEW t \in Tasks, kstep_ctrl_take(t)
  PROVE  NoWrites'
<1>1. CASE queue[t] = <<>>
  BY <1>1 DEF kstep_ctrl_take, NoWrites
<1>2. CASE queue[t] # <<>>
  <2>1. queue[t] \in Seq(Asks)
    BY DEF TypeOK
  <2>2. Head(queue[t]) # "chan-write"
    BY <1>2, <2>1 DEF NoWrites
  <2>3. \A i \in 1..Len(Tail(queue[t])) : Tail(queue[t])[i] # "chan-write"
    BY <1>2, <2>1 DEF NoWrites
  <2>4. /\ queue' = [queue EXCEPT ![t] = Tail(queue[t])]
        /\ hand'  = [hand EXCEPT ![t] = Head(queue[t])]
    BY <1>2 DEF kstep_ctrl_take
  <2> QED
    BY <2>2, <2>3, <2>4 DEF NoWrites, TypeOK
<1> QED
  BY <1>1, <1>2

\* The two supporting invariants, which do not depend on where the scan is.
LEMMA SupportKept ==
  ASSUME QuietInv, [Next]_vars, "chan-write" \notin Commands
  PROVE  NoWrites' /\ ReadersFree'
<1> USE DEF QuietInv
<1>1. ASSUME NEW t \in Tasks, TaskStep(t)
      PROVE  NoWrites' /\ ReadersFree'
  <2>1. CASE kstep_ctrl_take(t)
    <3>1. /\ hand[t] = None /\ loc[t] = "user"
          /\ \A u \in Tasks \ {t} : loc'[u] = loc[u] /\ hand'[u] = hand[u]
          /\ loc'[t] \in {"user", "asleep"} \/ (loc'[t] = "taken" /\ hand' = hand)
      BY <2>1 DEF kstep_ctrl_take, InUser, TypeOK
    <3> QED
      BY <2>1, <3>1, NoWritesTake DEF ReadersFree
  <2>2. CASE kstep_ctrl_halt(t)
    BY <2>2 DEF kstep_ctrl_halt, NoWrites, ReadersFree, TypeOK
  <2>3. CASE ReturnFromRead(t)
    BY <2>3 DEF ReturnFromRead, NoWrites, ReadersFree, TypeOK
  <2>4. CASE handler(t)
    BY <2>4 DEF handler, NoWrites, ReadersFree
  <2>5. CASE task_main(t)
    <3>1. hand[t] # "chan-write" /\ UNCHANGED queue /\ loc[t] = "user"
      BY <2>5 DEF task_main, InUser, NoWrites
    <3>2. /\ loc'[t] \in {"user", "asleep", "exited"}
          /\ hand'[t] \in {None, hand[t]}
          /\ \A u \in Tasks \ {t} : loc'[u] = loc[u] /\ hand'[u] = hand[u]
      BY <2>5, <3>1 DEF task_main, ChanRead, TypeOK
    <3> QED
      BY <3>1, <3>2 DEF NoWrites, ReadersFree
  <2> QED
    BY <1>1, <2>1, <2>2, <2>3, <2>4, <2>5 DEF TaskStep
<1>2. ASSUME UNCHANGED <<hand, queue>>,
             \A u \in Tasks : loc'[u] = loc[u] \/ (loc[u] = "halt" /\ loc'[u] = "left")
      PROVE  NoWrites' /\ ReadersFree'
  BY <1>2 DEF NoWrites, ReadersFree
<1>3. ASSUME NEW t \in Tasks, Activate(t)
      PROVE  NoWrites' /\ ReadersFree'
  <2>1. Enqueue(Interrupt(loc, cpu[t]), cpu[t])
    BY <1>3 DEF Activate
  <2>2. \A u \in Tasks : loc'[u] = loc[u] \/ (loc[u] = "halt" /\ loc'[u] = "left")
    BY <2>1, EnqueueHome, InterruptHome
  <2> QED
    BY <1>2, <1>3, <2>2 DEF Activate
<1>4. ASSUME NEW c \in Cpus, Schedule(c)
      PROVE  NoWrites' /\ ReadersFree'
  BY <1>2, <1>4 DEF Schedule
<1>5. ASSUME NEW t \in Tasks, send_sig(t), UNCHANGED queue
      PROVE  NoWrites' /\ ReadersFree'
  <2>1. CASE loc[t] = "asleep"
    <3>1. /\ WakeUp(t) /\ hand'[t] = None
          /\ \A u \in Tasks \ {t} : hand'[u] = hand[u]
      BY <1>5, <2>1 DEF send_sig, TypeOK
    <3> QED
      BY <1>5, <3>1, WakeUpHome DEF NoWrites, ReadersFree
  <2>2. CASE loc[t] # "asleep"
    BY <1>2, <1>5, <2>2, InterruptHome DEF send_sig
  <2> QED
    BY <2>1, <2>2
<1>6. CASE Controller
  <2>1. CASE kstep_settle \/ Created \/ TickBegin \/ Ticked \/ Finish \/ Reply
    BY <1>2, <2>1 DEF kstep_settle, Created, TickBegin, Ticked, Finish, Reply
  <2>2. CASE kstep_task_ctrl
    BY <1>2, <2>2, InterruptHome DEF kstep_task_ctrl
  <2>3. CASE CreateAccepted
    BY <1>5, <2>3 DEF CreateAccepted, TypeOK
  <2>4. CASE CreateRefused
    <3>1. tgt \in Tasks /\ UNCHANGED <<loc, hand>> /\ kstep_ctrl_put(tgt, "kill")
      BY <2>4 DEF CreateRefused, TypeOK
    <3>2. NoWrites'
      BY <3>1, NoWritesPut
    <3> QED
      BY <3>1, <3>2 DEF ReadersFree
  <2>5. CASE kstep_do_sched_tick
    <3>1. loc' = Interrupt(loc, scan) \/ Enqueue(Interrupt(loc, scan), scan)
      BY <2>5 DEF kstep_do_sched_tick
    <3>2. \A u \in Tasks : loc'[u] = loc[u] \/ (loc[u] = "halt" /\ loc'[u] = "left")
      BY <3>1, EnqueueHome, InterruptHome
    <3> QED
      BY <1>2, <2>5, <3>2 DEF kstep_do_sched_tick
  <2>6. ASSUME NEW t \in Tasks, kstep_task_create(t)
        PROVE  NoWrites' /\ ReadersFree'
    <3>1. /\ UNCHANGED hand /\ loc'[t] = "user" /\ queue'[t] = <<"park">>
          /\ \A u \in Tasks \ {t} : loc'[u] = loc[u] /\ queue'[u] = queue[u]
      BY <2>6 DEF kstep_task_create, TypeOK
    <3>2. \A i \in 1..Len(<<"park">>) : <<"park">>[i] # "chan-write"
      OBVIOUS
    <3> QED
      BY <3>1, <3>2 DEF NoWrites, ReadersFree
  <2> QED
    BY <1>6, <2>1, <2>2, <2>3, <2>4, <2>5, <2>6 DEF Controller
<1>7. CASE Host
  <2>1. CASE cmd_create \/ cmd_tick \/ reply_error \/ execute_exit
    BY <1>2, <2>1 DEF cmd_create, cmd_tick, reply_error, execute_exit
  <2>2. ASSUME NEW t \in Tasks, kstep_task_wakeup(t)
        PROVE  NoWrites' /\ ReadersFree'
    BY <1>5, <2>2 DEF kstep_task_wakeup
  <2>3. ASSUME NEW t \in Tasks, SetAttr(t)
        PROVE  NoWrites' /\ ReadersFree'
    BY <1>2, <2>3, InterruptHome DEF SetAttr
  <2>4. ASSUME NEW t \in Tasks, NEW v \in Verbs, TaskVerb(t, v)
        PROVE  NoWrites' /\ ReadersFree'
    <3>1. v # "chan-write" /\ UNCHANGED <<loc, hand>> /\ kstep_ctrl_put(t, v)
      BY <2>4 DEF TaskVerb, Command
    <3>2. NoWrites'
      BY <3>1, NoWritesPut
    <3> QED
      BY <3>1, <3>2 DEF ReadersFree
  <2> QED
    BY <1>7, <2>1, <2>2, <2>3, <2>4 DEF Host
<1>8. CASE UNCHANGED vars
  BY <1>8 DEF vars, NoWrites, ReadersFree
<1> QED
  BY <1>1, <1>3, <1>4, <1>6, <1>7, <1>8 DEF Next

\* Tasks and scheduler keep quiet what is quiet.
LEMMA ScanKeptByCpus ==
  ASSUME QuietInv, UNCHANGED <<pc, scan>>,
         \A c \in Cpus : Quiet(c) => Quiet(c)'
  PROVE  PassedQuiet' /\ QuietAtReply'
BY DEF QuietInv, PassedQuiet, QuietAtReply

\* The controller enters "settle" at the first CPU, advances only past a settled
\* one, and replies only from the last.
LEMMA ScanKeptByController ==
  ASSUME QuietInv, Controller \/ Host
  PROVE  PassedQuiet' /\ QuietAtReply'
<1>1. CASE kstep_settle
  <2>1. /\ UNCHANGED <<taskVars, schedVars>>
        /\ scan \in Cpus /\ kstep_cpu_settled(scan) /\ pc = "settle"
    BY <1>1 DEF kstep_settle, QuietInv, TypeOK
  <2>2. \A c \in Cpus : Quiet(c)' <=> Quiet(c)
    BY <2>1 DEF Quiet, OnRq
  <2>3. Quiet(scan)
    BY <2>1, SettledIsQuiet
  <2>4. \A c \in Cpus : c < scan => Quiet(c)
    BY <2>1 DEF QuietInv, PassedQuiet
  <2>5. \A c \in Cpus : c <= scan => Quiet(c)'
    BY <2>1, <2>2, <2>3, <2>4, ConstantsAssumption
  <2>6. CASE scan < NCpus
    BY <1>1, <2>1, <2>5, <2>6, ConstantsAssumption
       DEF kstep_settle, PassedQuiet, QuietAtReply
  <2>7. CASE ~(scan < NCpus)
    <3>1. pc' = ret /\ pc' # "settle"
      BY <1>1, <2>7 DEF kstep_settle, QuietInv, TypeOK
    <3>2. \A c \in Cpus : Quiet(c)'
      BY <2>1, <2>5, <2>7, ConstantsAssumption
    <3> QED
      BY <3>1, <3>2 DEF PassedQuiet, QuietAtReply
  <2> QED
    BY <2>6, <2>7
<1>2. CASE ~kstep_settle
  <2>1. (pc' = "settle" /\ scan' = 1) \/ pc' \notin {"settle", "reply"}
    BY <1>2 DEF Controller, Host, kstep_task_ctrl, CreateAccepted, CreateRefused,
       Created, TickBegin, kstep_do_sched_tick, Ticked, Finish, Reply,
       kstep_task_create, cmd_create, cmd_tick, reply_error, execute_exit,
       kstep_task_wakeup, SetAttr, TaskVerb, kstep_ctrl_put, SettleThen, Command
  <2> QED
    BY <2>1, ConstantsAssumption DEF PassedQuiet, QuietAtReply
<1> QED
  BY <1>1, <1>2

\* Where no task writes to the channel, the state the shared region shows and the
\* reply announces is complete, for any tasks and CPUs and with ticks: settling
\* the CPUs one after another is as good as all at once.
THEOREM SettleSuffices ==
  "chan-write" \notin Commands => (Spec => []QuietAtReply)
<1> SUFFICES ASSUME "chan-write" \notin Commands
             PROVE  Spec => []QuietAtReply
  OBVIOUS
<1>1. Init => QuietInv
  <2>1. Init => TypeOK
    BY ConstantsAssumption DEF Init, TypeOK
  <2>2. Init => NoWrites /\ ReadersFree /\ PassedQuiet /\ QuietAtReply
    BY DEF Init, NoWrites, ReadersFree, PassedQuiet, QuietAtReply
  <2> QED
    BY <2>1, <2>2 DEF QuietInv
<1>2. QuietInv /\ TypeOK' /\ [Next]_vars => QuietInv'
  <2> SUFFICES ASSUME QuietInv, TypeOK', [Next]_vars
               PROVE  QuietInv'
    OBVIOUS
  <2>1. NoWrites' /\ ReadersFree'
    BY SupportKept
  <2>2. PassedQuiet' /\ QuietAtReply'
    <3>1. CASE Controller \/ Host
      BY <3>1, ScanKeptByController
    <3>2. ASSUME NEW t \in Tasks, TaskStep(t)
          PROVE  PassedQuiet' /\ QuietAtReply'
      <4>1. UNCHANGED <<pc, scan>>
        BY <3>2 DEF TaskStep, kstep_ctrl_take, kstep_ctrl_halt, ReturnFromRead,
                    handler, task_main
      <4> QED
        BY <3>2, <4>1, QuietTask, ScanKeptByCpus
    <3>3. ASSUME NEW t \in Tasks, Activate(t)
          PROVE  PassedQuiet' /\ QuietAtReply'
      BY <3>3, QuietScheduler, ScanKeptByCpus DEF Activate
    <3>4. ASSUME NEW c \in Cpus, Schedule(c)
          PROVE  PassedQuiet' /\ QuietAtReply'
      BY <3>4, QuietScheduler, ScanKeptByCpus DEF Schedule
    <3>5. CASE UNCHANGED vars
      <4>1. \A c \in Cpus : Quiet(c)' <=> Quiet(c)
        BY <3>5 DEF vars, Quiet, OnRq
      <4> QED
        BY <3>5, <4>1, ScanKeptByCpus DEF vars
    <3> QED
      BY <3>1, <3>2, <3>3, <3>4, <3>5 DEF Next
  <2> QED
    BY <2>1, <2>2 DEF QuietInv
<1>3. QuietInv => QuietAtReply
  BY DEF QuietInv
<1> QED
  BY <1>1, <1>2, <1>3, TypeCorrect, PTL DEF Spec
=============================================================================
