--------------------------- MODULE CheckersProofs ---------------------------
(***************************************************************************)
(* What TLAPS proves of Checkers for every number of tasks and CPUs, every *)
(* streak and every machine: the types, what the two tick rules and the    *)
(* frozen rule warn of, and what may freeze when.                          *)
(***************************************************************************)
EXTENDS Checkers, FiniteSetTheorems, TLAPS

USE DEF Cpus, Policies, Rules, tasks, rules, freezer

-----------------------------------------------------------------------------
(* Types *)

LEMMA InitType == Init => TypeOK
<1>1. NCpus \in Nat \ {0} /\ IdleTicks \in Nat \ {0}
  BY CheckersAssumption
<1> SUFFICES ASSUME Init PROVE TypeOK
  OBVIOUS
<1>2. /\ pc = "ready" /\ pm_freezing = FALSE /\ tgt = None
      /\ idle_streak = 0 /\ stated = 0 /\ 0 \in 0 .. IdleTicks
  BY <1>1 DEF Init
<1>3. /\ pc \in {"ready", "settle", "verdict", "freeze", "emit"} /\ spares \in 0 .. MaxSpares
      /\ st \in [Tasks -> {"none", "run", "pause", "block", "frozen", "dead"}]
      /\ back \in [Tasks -> {"run", "pause", "block"}]
      /\ cpu \in [Tasks -> Cpus] /\ allowed \in [Tasks -> SUBSET Cpus]
      /\ policy \in [Tasks -> Policies]
      /\ sig \subseteq Tasks /\ enabled \subseteq Rules /\ valid \in [Cpus -> BOOLEAN]
  BY <1>1 DEF Init
<1> QED
  BY <1>2, <1>3 DEF TypeOK

LEMMA VerbType ==
  ASSUME TypeOK,
         \/ \E t \in Tasks : cmd_create(t)
         \/ \E t \in Tasks : kstep_task_wakeup(t)
         \/ \E t \in Tasks, s \in {"pause", "block", "dead"} : Sleep(t, s)
         \/ \E t \in Tasks, list \in Lists : cmd_affinity(t, list)
         \/ \E t \in Tasks, p \in Policies : cmd_policy(t, p)
         \/ \E r \in Rules : cmd_check(r)
  PROVE  TypeOK'
<1> USE DEF Verb
<1>1. ASSUME NEW t \in Tasks, cmd_create(t) PROVE TypeOK'
  BY <1>1 DEF cmd_create, TypeOK
<1>2. ASSUME NEW t \in Tasks, kstep_task_wakeup(t) PROVE TypeOK'
  <2>1. cpu' \in [Tasks -> Cpus]
    BY <1>2 DEF kstep_task_wakeup, TypeOK
  <2>2. st' \in [Tasks -> {"none", "run", "pause", "block", "frozen", "dead"}]
    BY <1>2 DEF kstep_task_wakeup, TypeOK
  <2> QED
    BY <1>2, <2>1, <2>2 DEF kstep_task_wakeup, TypeOK
<1>3. ASSUME NEW t \in Tasks, NEW s \in {"pause", "block", "dead"}, Sleep(t, s) PROVE TypeOK'
  BY <1>3 DEF Sleep, TypeOK
<1>4. ASSUME NEW t \in Tasks, NEW list \in Lists, cmd_affinity(t, list) PROVE TypeOK'
  BY <1>4, CheckersAssumption DEF cmd_affinity, TypeOK
<1>5. ASSUME NEW t \in Tasks, NEW p \in Policies, cmd_policy(t, p) PROVE TypeOK'
  BY <1>5 DEF cmd_policy, TypeOK
<1>6. ASSUME NEW r \in Rules, cmd_check(r) PROVE TypeOK'
  BY <1>6 DEF cmd_check, TypeOK
<1> QED
  BY <1>1, <1>2, <1>3, <1>4, <1>5, <1>6

LEMMA FreezerType ==
  ASSUME TypeOK,
         \/ \E t \in Tasks : kstep_freeze_task(t)
         \/ freeze_task
         \/ FreezeReturns
         \/ \E t \in Tasks : TakeSignal(t)
         \/ \E t \in Tasks : kstep_thaw_task(t)
         \/ kstep_settle
  PROVE  TypeOK'
<1>1. ASSUME NEW t \in Tasks, kstep_freeze_task(t) PROVE TypeOK'
  BY <1>1, CheckersAssumption DEF kstep_freeze_task, TypeOK
<1>2. CASE freeze_task
  <2>1. tgt \in Tasks
    BY <1>2 DEF freeze_task, TypeOK
  <2>2. cpu' \in [Tasks -> Cpus]
    <3>1. cpu' = cpu \/ \E c \in allowed[tgt] : cpu' = [cpu EXCEPT ![tgt] = c]
      BY <1>2 DEF freeze_task
    <3>2. allowed[tgt] \subseteq Cpus /\ cpu \in [Tasks -> Cpus]
      BY <2>1 DEF TypeOK
    <3> QED
      BY <3>1, <3>2
  <2>3. /\ st' \in [Tasks -> {"none", "run", "pause", "block", "frozen", "dead"}]
        /\ back' \in [Tasks -> {"run", "pause", "block"}]
    BY <1>2, <2>1 DEF freeze_task, TypeOK
  <2>4. sig' \subseteq Tasks
    <3>1. sig' = sig \/ sig' = sig \union {tgt}
      BY <1>2 DEF freeze_task
    <3> QED
      BY <2>1, <3>1 DEF TypeOK
  <2> QED
    BY <1>2, <2>2, <2>3, <2>4 DEF freeze_task, TypeOK
<1>3. CASE FreezeReturns
  BY <1>3 DEF FreezeReturns, kstep_freezer_stop, TypeOK
<1>4. ASSUME NEW t \in Tasks, TakeSignal(t) PROVE TypeOK'
  BY <1>4 DEF TakeSignal, TypeOK
<1>5. ASSUME NEW t \in Tasks, kstep_thaw_task(t) PROVE TypeOK'
  BY <1>5 DEF kstep_thaw_task, Verb, TypeOK
<1>6. CASE kstep_settle
  BY <1>6 DEF kstep_settle, TypeOK
<1> QED
  BY <1>1, <1>2, <1>3, <1>4, <1>5, <1>6

LEMMA BumpType ==
  ASSUME NEW k \in 0 .. IdleTicks
  PROVE  Bump(k) \in 0 .. IdleTicks
BY CheckersAssumption DEF Bump

LEMMA TickType ==
  ASSUME TypeOK, kstep_tick \/ Verdict
  PROVE  TypeOK'
<1>1. CASE kstep_tick
  BY <1>1 DEF kstep_tick, Runnable, TypeOK
<1>2. CASE Verdict
  <2>1. idle_streak' \in 0 .. IdleTicks /\ stated' \in 0 .. IdleTicks
    <3>1. IdleTicks \in Nat
      BY CheckersAssumption
    <3>2. Bump(idle_streak) \in 0 .. IdleTicks /\ Bump(stated) \in 0 .. IdleTicks
      BY BumpType DEF TypeOK
    <3> QED
      BY <1>2, <3>1, <3>2 DEF Verdict, work_conserve, TypeOK
  <2>2. valid' \in [Cpus -> BOOLEAN]
    BY <1>2 DEF Verdict, util_decay, TypeOK
  <2> QED
    BY <1>2, <2>1, <2>2 DEF Verdict, TypeOK
<1> QED
  BY <1>1, <1>2

LEMMA NextType == TypeOK /\ [Next]_vars => TypeOK'
<1> SUFFICES ASSUME TypeOK, [Next]_vars PROVE TypeOK'
  OBVIOUS
<1>1. CASE Next
  BY <1>1, VerbType, FreezerType, TickType DEF Next
<1>2. CASE UNCHANGED vars
  BY <1>2 DEF vars, TypeOK
<1> QED
  BY <1>1, <1>2

\* The values every variable of checkers/ and the freezer takes, and that a
\* freeze is for a task exactly while pm_freezing is set.
THEOREM TypeCorrect == Spec => []TypeOK
BY InitType, NextType, PTL DEF Spec

-----------------------------------------------------------------------------
(* The freezer *)

LEMMA AlarmNext == TypeOK /\ NoFalseAlarm /\ [Next]_vars => NoFalseAlarm'
<1> SUFFICES ASSUME TypeOK, NoFalseAlarm, [Next]_vars, pc' = "emit", before' = "block"
             PROVE  st'[tgt'] = "frozen"
  BY DEF NoFalseAlarm, on_freeze
<1>1. CASE freeze_task
  BY <1>1 DEF freeze_task, TypeOK
<1>2. ASSUME NEW t \in Tasks, TakeSignal(t) PROVE st'[tgt'] = "frozen"
  <2>1. pc = "emit" /\ before = "block" /\ tgt' = tgt /\ tgt \in Tasks /\ st[tgt] = "frozen"
    BY <1>2 DEF TakeSignal, NoFalseAlarm, on_freeze, TypeOK
  <2> QED
    BY <1>2, <2>1 DEF TakeSignal, TypeOK
<1>3. CASE UNCHANGED vars
  BY <1>3 DEF vars, NoFalseAlarm, on_freeze
<1> QED
  BY <1>1, <1>2, <1>3
  DEF Next, Verb, cmd_create, kstep_task_wakeup, Sleep, cmd_affinity, cmd_policy, cmd_check,
      kstep_freeze_task, FreezeReturns, kstep_thaw_task, kstep_settle, kstep_tick, Verdict

\* The frozen rule (checkers/frozen.c) is silent about a kernel that freezes
\* freezable sleepers in place, whatever signals are taken between the freeze
\* and the rule's look.
THEOREM FrozenRuleSilent == Spec => []NoFalseAlarm
<1>1. Init => NoFalseAlarm
  BY DEF Init, NoFalseAlarm
<1> QED
  BY <1>1, AlarmNext, TypeCorrect, PTL DEF Spec

LEMMA FrozenStep ==
  ASSUME TypeOK, [Next]_vars, NEW t \in Tasks, st[t] # "frozen", st'[t] = "frozen"
  PROVE  tgt # None /\ (t = tgt \/ t \in sig)
<1>1. CASE freeze_task
  <2>1. tgt # None /\ tgt \in Tasks
    BY <1>1 DEF freeze_task, TypeOK
  <2> QED
    BY <1>1, <2>1 DEF freeze_task, TypeOK
<1>2. ASSUME NEW u \in Tasks, TakeSignal(u) PROVE tgt # None /\ t \in sig
  BY <1>2 DEF TakeSignal, TypeOK
<1>3. ASSUME NEW u \in Tasks, kstep_thaw_task(u) PROVE FALSE
  BY <1>3 DEF kstep_thaw_task, TypeOK
<1>4. ASSUME NEW u \in Tasks, cmd_create(u) \/ kstep_task_wakeup(u) PROVE FALSE
  BY <1>4 DEF cmd_create, kstep_task_wakeup, TypeOK
<1>5. ASSUME NEW u \in Tasks, NEW s \in {"pause", "block", "dead"}, Sleep(u, s) PROVE FALSE
  BY <1>5 DEF Sleep, TypeOK
<1>6. CASE UNCHANGED st
  BY <1>6
<1> QED
  BY <1>1, <1>2, <1>3, <1>4, <1>5, <1>6
  DEF Next, vars, cmd_affinity, cmd_policy, cmd_check, kstep_freeze_task, FreezeReturns,
      kstep_settle, kstep_tick, Verdict

\* kstep_freeze_task() sets pm_freezing for everyone; still a task freezes only
\* during the call, and only its target or a task with a signal to take.
THEOREM FreezesOnlyInFreeze == Spec => FrozenOnlyInFreeze
<1>1. TypeOK /\ [Next]_vars =>
        [\A t \in Tasks : st[t] # "frozen" /\ st'[t] = "frozen" =>
            tgt # None /\ (t = tgt \/ t \in sig)]_vars
  BY FrozenStep
<1> QED
  BY <1>1, TypeCorrect, PTL DEF Spec, FrozenOnlyInFreeze

-----------------------------------------------------------------------------
(* work_conserve *)

\* What the code counts is never more than what the comment would count, and
\* as much on a machine without spare CPUs.
Streaks == idle_streak <= stated /\ (spares = 0 => idle_streak = stated)

LEMMA VerdictStreaks ==
  ASSUME TypeOK, Streaks, Verdict
  PROVE  Streaks'
<1> DEFINE n == Cardinality(Runnable)
           quiet == Idle = {} \/ Waiting = {} \/ n < num_online_cpus - 1
<1>1. n \in Nat
  BY CheckersAssumption, FS_Subset, FS_CardinalityType DEF Runnable
<1>2. spares \in Nat /\ NCpus \in Nat /\ spares' = spares
  BY CheckersAssumption DEF TypeOK, Verdict
<1>3. ~quiet => AsStated
  BY <1>1, <1>2 DEF num_online_cpus, AsStated
<1>4. spares = 0 /\ AsStated => ~quiet
  BY <1>1, <1>2 DEF num_online_cpus, AsStated
<1>5. CASE "work_conserve" \in enabled
  <2>1. /\ idle_streak' = IF quiet THEN 0 ELSE Bump(idle_streak)
        /\ stated' = IF AsStated THEN Bump(stated) ELSE 0
    BY <1>5 DEF Verdict, work_conserve
  <2>2. idle_streak \in 0 .. IdleTicks /\ stated \in 0 .. IdleTicks /\ IdleTicks \in Nat
    BY CheckersAssumption DEF TypeOK
  <2> HIDE DEF quiet
  <2>3. Bump(idle_streak) <= Bump(stated) /\ 0 <= Bump(stated)
    BY <2>2 DEF Bump, Streaks
  <2> QED
    BY <1>2, <1>3, <1>4, <2>1, <2>3 DEF Streaks
<1>6. CASE "work_conserve" \notin enabled
  BY <1>2, <1>6 DEF Verdict, Streaks
<1> QED
  BY <1>5, <1>6

LEMMA NextStreaks == TypeOK /\ Streaks /\ [Next]_vars => Streaks'
<1> SUFFICES ASSUME TypeOK, Streaks, [Next]_vars PROVE Streaks'
  OBVIOUS
<1>1. CASE Verdict
  BY <1>1, VerdictStreaks
<1>2. CASE UNCHANGED <<idle_streak, stated, spares>>
  BY <1>2 DEF Streaks
<1> QED
  BY <1>1, <1>2
  DEF Next, vars, Verb, cmd_create, kstep_task_wakeup, Sleep, cmd_affinity, cmd_policy,
      cmd_check, kstep_freeze_task, freeze_task, FreezeReturns, TakeSignal, kstep_thaw_task,
      kstep_settle, kstep_tick

\* work_conserve.c warns of nothing its comment does not describe and, without
\* spare CPUs, of all it describes, though the two count different CPUs.
THEOREM WarnsAsStated == Spec => []WorkConserveAsStated
<1>1. Init => Streaks
  BY DEF Init, Streaks
<1>2. TypeOK /\ Streaks => WorkConserveAsStated
  BY CheckersAssumption DEF TypeOK, Streaks, WorkConserveAsStated
<1> QED
  BY <1>1, <1>2, NextStreaks, TypeCorrect, PTL DEF Spec

-----------------------------------------------------------------------------
(* util_decay *)

\* util_seen[] holds of each task what it was at the last verdict; a task once
\* seen stays in the session.
SeenIsSnap ==
  \A t \in Tasks :
    \/ seen[t] = None /\ snap[t] = None
    \/ /\ \E c \in Cpus, p \in Policies, e \in BOOLEAN :
            /\ seen[t] = [cpu |-> c, policy |-> p]
            /\ snap[t] = [cpu |-> c, policy |-> p, exited |-> e]
       /\ st[t] # "none"

LEMMA SessionGrows ==
  ASSUME TypeOK, [Next]_vars, NEW t \in Tasks, st[t] # "none"
  PROVE  st'[t] # "none"
<1>1. ASSUME NEW u \in Tasks, cmd_create(u) \/ kstep_task_wakeup(u) PROVE st'[t] # "none"
  BY <1>1 DEF cmd_create, kstep_task_wakeup, TypeOK
<1>2. ASSUME NEW u \in Tasks, NEW s \in {"pause", "block", "dead"}, Sleep(u, s)
      PROVE st'[t] # "none"
  BY <1>2 DEF Sleep, TypeOK
<1>3. CASE freeze_task
  <2>1. tgt \in Tasks
    BY <1>3 DEF freeze_task, TypeOK
  <2> QED
    BY <1>3, <2>1 DEF freeze_task, TypeOK
<1>4. ASSUME NEW u \in Tasks, TakeSignal(u) \/ kstep_thaw_task(u) PROVE st'[t] # "none"
  BY <1>4 DEF TakeSignal, kstep_thaw_task, TypeOK
<1>5. CASE UNCHANGED st
  BY <1>5
<1> QED
  BY <1>1, <1>2, <1>3, <1>4, <1>5
  DEF Next, vars, cmd_affinity, cmd_policy, cmd_check, kstep_freeze_task, FreezeReturns,
      kstep_settle, kstep_tick, Verdict

LEMMA NextSeen == TypeOK /\ SeenIsSnap /\ [Next]_vars => SeenIsSnap'
<1> SUFFICES ASSUME TypeOK, SeenIsSnap, [Next]_vars PROVE SeenIsSnap'
  OBVIOUS
<1>1. CASE UNCHANGED <<seen, snap>>
  BY <1>1, SessionGrows DEF SeenIsSnap
<1>2. CASE Verdict /\ "util_decay" \in enabled
  <2> SUFFICES ASSUME NEW t \in Tasks
               PROVE  \/ seen'[t] = None /\ snap'[t] = None
                      \/ /\ \E c \in Cpus, p \in Policies, e \in BOOLEAN :
                              /\ seen'[t] = [cpu |-> c, policy |-> p]
                              /\ snap'[t] = [cpu |-> c, policy |-> p, exited |-> e]
                         /\ st'[t] # "none"
    BY DEF SeenIsSnap
  <2>1. /\ seen'[t] = IF t \in Session THEN [cpu |-> cpu[t], policy |-> policy[t]] ELSE None
        /\ snap'[t] = IF t \in Session THEN Now(t) ELSE None
        /\ st' = st
    BY <1>2 DEF Verdict, util_decay
  <2>2. cpu[t] \in Cpus /\ policy[t] \in Policies /\ (st[t] = "dead") \in BOOLEAN
    BY DEF TypeOK
  <2> QED
    BY <2>1, <2>2 DEF Session, Now
<1> QED
  BY <1>1, <1>2
  DEF Next, vars, Verb, cmd_create, kstep_task_wakeup, Sleep, cmd_affinity, cmd_policy,
      cmd_check, kstep_freeze_task, freeze_task, FreezeReturns, TakeSignal, kstep_thaw_task,
      kstep_settle, kstep_tick, Verdict

LEMMA SeenAlways == Spec => []SeenIsSnap
<1>1. Init => SeenIsSnap
  BY DEF Init, SeenIsSnap
<1> QED
  BY <1>1, NextSeen, TypeCorrect, PTL DEF Spec

\* What is recorded of a task is never taken for nothing.
LEMMA SeenNone ==
  ASSUME SeenIsSnap, NEW t \in Tasks
  PROVE  (seen[t] = None) <=> (snap[t] = None)
<1>1. ASSUME NEW c \in Cpus, NEW p \in Policies, NEW e \in BOOLEAN
      PROVE  [cpu |-> c, policy |-> p] # None /\ [cpu |-> c, policy |-> p, exited |-> e] # None
  BY CheckersAssumption
<1> QED
  BY <1>1 DEF SeenIsSnap

\* A task seen as it is now, and alive, is as it was.
LEMMA NotMoved ==
  ASSUME TypeOK, SeenIsSnap, NEW t \in Tasks, snap[t] # None, ~snap[t].exited, ~moved(t)
  PROVE  Now(t) = snap[t]
<1>1. PICK c \in Cpus, p \in Policies, e \in BOOLEAN :
        /\ seen[t] = [cpu |-> c, policy |-> p]
        /\ snap[t] = [cpu |-> c, policy |-> p, exited |-> e]
  BY DEF SeenIsSnap
<1>2. seen[t] # None
  BY <1>1, CheckersAssumption
<1>3. cpu[t] = c /\ policy[t] = p /\ st[t] # "dead"
  BY <1>1, <1>2 DEF moved
<1>4. e = FALSE
  BY <1>1
<1> QED
  BY <1>1, <1>3, <1>4 DEF Now

LEMMA JudgedKept ==
  ASSUME TypeOK, SeenIsSnap, NEW c \in judged, NEW t \in Tasks,
         snap[t] # None, snap[t].cpu = c, ~snap[t].exited
  PROVE  Now(t) = snap[t]
<1>1. PICK d \in Cpus, p \in Policies, e \in BOOLEAN :
        /\ seen[t] = [cpu |-> d, policy |-> p]
        /\ snap[t] = [cpu |-> d, policy |-> p, exited |-> e]
        /\ st[t] # "none"
  BY DEF SeenIsSnap
<1>2. seen[t].cpu = c /\ t \in Session
  BY <1>1 DEF Session
<1>3. ~moved(t)
  BY <1>2 DEF judged, voided
<1> QED
  BY <1>3, NotMoved

\* Why a CPU is void: a task of the session has changed, or is dead and counted.
LEMMA VoidedWhy ==
  ASSUME TypeOK, SeenIsSnap, NEW c \in voided
  PROVE  \/ \E t \in Session : snap[t] # Now(t) /\ (cpu[t] = c \/ (snap[t] # None /\ snap[t].cpu = c))
         \/ \E t \in Session : st[t] = "dead" /\ cpu[t] = c
<1>1. CASE \E t \in Session : seen[t] = None /\ cpu[t] = c
  <2>1. PICK t \in Session : seen[t] = None /\ cpu[t] = c
    BY <1>1
  <2>2. t \in Tasks /\ cpu[t] \in Cpus /\ policy[t] \in Policies /\ (st[t] = "dead") \in BOOLEAN
    BY DEF Session, TypeOK
  <2>3. snap[t] = None
    BY <2>1, <2>2, SeenNone
  <2>4. Now(t) # None
    <3>1. PICK e \in BOOLEAN : Now(t) = [cpu |-> cpu[t], policy |-> policy[t], exited |-> e]
      BY <2>2 DEF Now
    <3> QED
      BY <2>2, <3>1, CheckersAssumption
  <2> QED
    BY <2>1, <2>3, <2>4
<1>2. CASE \E t \in Session : moved(t) /\ (cpu[t] = c \/ seen[t].cpu = c)
  <2>1. PICK t \in Session : moved(t) /\ (cpu[t] = c \/ seen[t].cpu = c)
    BY <1>2
  <2>2. t \in Tasks
    BY DEF Session
  <2>3. PICK d \in Cpus, p \in Policies, e \in BOOLEAN :
          /\ seen[t] = [cpu |-> d, policy |-> p]
          /\ snap[t] = [cpu |-> d, policy |-> p, exited |-> e]
    BY <2>1, <2>2 DEF SeenIsSnap, moved
  <2>4. snap[t] # None /\ snap[t].cpu = d /\ snap[t].policy = p /\ seen[t].cpu = d
    BY <2>3, CheckersAssumption
  <2>5. Now(t).cpu = cpu[t] /\ Now(t).policy = policy[t]
    BY DEF Now
  <2>6. CASE cpu[t] # d \/ policy[t] # p
    BY <2>1, <2>4, <2>5, <2>6
  <2>7. CASE cpu[t] = d /\ policy[t] = p
    BY <2>1, <2>3, <2>4, <2>7 DEF moved
  <2> QED
    BY <2>6, <2>7
<1> QED
  BY <1>1, <1>2 DEF voided, Session

\* util_decay.c compares a CPU's util with the tick before exactly when nobody
\* who was counted there has left, changed class or exited, and nobody has come.
THEOREM UtilJudgedExactly == Spec => JudgedExactly
<1>1. TypeOK /\ SeenIsSnap /\ [Next]_vars =>
        [pc = "verdict" /\ pc' = "ready" /\ "util_decay" \in enabled =>
          /\ \A c \in judged, t \in Tasks :
               snap[t] # None /\ snap[t].cpu = c /\ ~snap[t].exited => Now(t) = snap[t]
          /\ \A c \in Cpus \ judged :
               \/ ~valid[c]
               \/ \E t \in Session :
                    snap[t] # Now(t) /\ (cpu[t] = c \/ (snap[t] # None /\ snap[t].cpu = c))
               \/ \E t \in Session : st[t] = "dead" /\ cpu[t] = c]_vars
  <2> SUFFICES ASSUME TypeOK, SeenIsSnap
               PROVE  /\ \A c \in judged, t \in Tasks :
                           snap[t] # None /\ snap[t].cpu = c /\ ~snap[t].exited => Now(t) = snap[t]
                      /\ \A c \in Cpus \ judged :
                           \/ ~valid[c]
                           \/ \E t \in Session :
                                snap[t] # Now(t) /\ (cpu[t] = c \/ (snap[t] # None /\ snap[t].cpu = c))
                           \/ \E t \in Session : st[t] = "dead" /\ cpu[t] = c
    OBVIOUS
  <2>1. \A c \in Cpus \ judged : ~valid[c] \/ c \in voided
    BY DEF judged
  <2> QED
    BY <2>1, JudgedKept, VoidedWhy
<1> QED
  BY <1>1, TypeCorrect, SeenAlways, PTL DEF Spec, JudgedExactly

=============================================================================
