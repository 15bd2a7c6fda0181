------------------------------- MODULE Events -------------------------------
(***************************************************************************)
(* Who is called when something happens: the registry (kmod/event.c), the  *)
(* hooks that raise the traced events from the CPU that is being traced    *)
(* (kmod/trace.c), the rules that register (kmod/checkers/), and the one   *)
(* that samples on the test CPUs what it judges on CPU 0 when the step has *)
(* settled (checkers/sync_wakeup.c).                                       *)
(*                                                                         *)
(* The controller is CPU 0.  Of a test CPU only the traced functions it    *)
(* calls are modelled: a wakeup, or a balance on behalf of some CPU.  It   *)
(* has `work' while anything is left for it to do, which is what a settle  *)
(* waits for; a wakeup gives its target work.  Functions are traced live:  *)
(* nothing stops a CPU from being in one while the controller registers.   *)
(***************************************************************************)
EXTENDS Naturals, Sequences, FiniteSets

CONSTANTS
  NCpus,      \* kstep_test_ncpus
  Subs,       \* KSTEP_EVENT_SUBS
  HookSlots,  \* ARRAY_SIZE(kstep_hooks)
  Wakeups,    \* KSTEP_WAKEUPS
  MaxWork     \* bound on the commands' wakeups and balances

ASSUME EventsAssumption ==
  NCpus \in Nat \ {0} /\ Subs \in Nat /\ HookSlots \in Nat /\ Wakeups \in Nat /\ MaxWork \in Nat

\* The tables are larger than what is ever entered in them, 8 for each.
ASSUME RoomAssumption == Subs >= 2 /\ HookSlots >= 5

Cpus == 1 .. NCpus

VARIABLES
  pc,        \* ready, settle, emit (the settle event), or who is registering
  todo,      \* what is left of the registrations, a step each
  scan,      \* for_each_test_cpu of kstep_settle()
  running,   \* the mocked jiffies are not 0
  subs,      \* per event: the entries stored in fn[] ...
  n,         \* ... and how many of them are published
  hooks,     \* kstep_hooks[]: the functions entered ...
  nhooks,    \* ... and how many are published
  traced,    \* kstep_ftrace_ops is registered
  filter,    \* its filter; an empty one lets every function through
  stash,     \* lb_dst_cpu of each CPU, 0 at first (lb_sd is written with it)
  work,      \* what a test CPU has still to do
  run,       \* the kernel path it is in
  call,      \* the event it is raising
  npending, pending,   \* sync_wakeup.c
  refs,      \* task references on_select() holds, by sample
  budget,    \* MaxWork less what has been begun
  promised,  \* history: callbacks whose registration has returned
  wild,      \* history: an event called an entry that was not there
  missed,    \* history: a traced function was not in the hook table
  unheard,   \* history: a function ran and a promised callback was not called once
  torn,      \* history: on_settle() judged an entry no sample was in
  chained    \* history: a CPU the settle had passed was given work

registry == <<subs, n, hooks, nhooks, traced, filter>>
kernel   == <<stash, work, run, budget>>
samples  == <<npending, pending, refs>>
history  == <<wild, missed, unheard, torn>>
vars == <<pc, todo, scan, running, registry, kernel, call, samples, promised, history, chained>>

EventNames == {"select_task_rq", "balance_selected", "task_migrate", "settle"}
Callbacks  == {"output_balance", "report_migrate", "on_balance", "on_select", "on_settle"}
NoRun  == [path |-> <<>>, dst |-> 0, id |-> 0, owed |-> {}]
NoCall == [ev |-> "none", n |-> 0, i |-> 0, arg |-> 0, slot |-> 0, left |-> 0]

\* What is behind each event, and whose registration arms it.
Hooks ==
  [select_task_rq   |-> <<"select_task_rq_fair">>,
   balance_selected |-> <<"sched_balance_rq", "sched_balance_find_src_group">>,
   task_migrate     |-> <<"set_task_cpu">>,
   settle           |-> <<>>]

-----------------------------------------------------------------------------
(* Registering.  A registration is the list of its stores, in their order.   *)

Add(ev, fn) == [op |-> "add", ev |-> ev, fn |-> fn]
Hook(f)     == [op |-> "hook", f |-> f]
Do(op, x)   == [op |-> op, f |-> x]

\* One hook is always there; then the ops is registered.
kstep_trace_init == <<Hook("init_tg_cfs_entry"), Do("register", "ops")>>

\* The cli driver's own reporting.
setup == <<Add("balance_selected", "output_balance"), Add("task_migrate", "report_migrate")>>

\* The rules of checker.c's table that watch a traced event, beside the setup.
Registrations ==
  [setup       |-> setup,
   sync_wakeup |-> <<Add("select_task_rq", "on_select"), Add("settle", "on_settle")>>,
   balance     |-> <<Add("balance_selected", "on_balance")>>]

Init ==
  /\ pc = "setup" /\ todo = kstep_trace_init \o setup /\ scan = 1 /\ running = FALSE
  /\ subs = [e \in EventNames |-> <<>>] /\ n = [e \in EventNames |-> 0]
  /\ hooks = <<>> /\ nhooks = 0 /\ traced = FALSE /\ filter = {}
  /\ stash = [c \in Cpus |-> 0]
  /\ work \in [Cpus -> 0 .. 1]
  /\ run = [c \in Cpus |-> NoRun]
  /\ call = [c \in 0 .. NCpus |-> NoCall]
  /\ npending = 0 /\ pending = [k \in 1 .. Wakeups |-> 0] /\ refs = {}
  /\ budget = MaxWork /\ promised = {}
  /\ wild = FALSE /\ missed = FALSE /\ unheard = FALSE /\ torn = FALSE /\ chained = FALSE

\* What follows once an event takes a callback: the entry, its count, the hooks.
Stores(ev, fn) ==
  <<[op |-> "entry", ev |-> ev, fn |-> fn], Do("count", ev)>>
    \o [k \in 1 .. Len(Hooks[ev]) |-> Hook(Hooks[ev][k])]

\* Mutant: a callback that is there is added again.
kstep_event_add_Again(ev, fn) ==
  todo' = (IF n[ev] = Subs THEN <<>> ELSE Stores(ev, fn)) \o Tail(todo)

\* Mutant: nor is the size of the table looked at.
kstep_event_add_Unchecked(ev, fn) == todo' = Stores(ev, fn) \o Tail(todo)

\* One that is there already, or has no room, stores nothing and arms nothing.
kstep_event_add(ev, fn) ==
  todo' = (IF (\E k \in 1 .. n[ev] : subs[ev][k] = fn) \/ n[ev] = Subs THEN <<>> ELSE Stores(ev, fn))
          \o Tail(todo)

\* Mutant: the filter is set before the entry is published.
kstep_hook_FilterFirst(f) ==
  todo' = (IF (\E k \in 1 .. nhooks : hooks[k] = f) \/ nhooks = HookSlots THEN <<>>
           ELSE <<Do("filter", f), Do("table", f), Do("publish", f)>>) \o Tail(todo)

\* The entry of the table, its count, and only then the filter.
kstep_hook(f) ==
  todo' = (IF (\E k \in 1 .. nhooks : hooks[k] = f) \/ nhooks = HookSlots THEN <<>>
           ELSE <<Do("table", f), Do("publish", f), Do("filter", f)>>) \o Tail(todo)

\* One store.
Store(s) ==
  \/ s.op = "entry" /\ subs' = [subs EXCEPT ![s.ev] = Append(@, s.fn)] /\ UNCHANGED <<n, hooks, nhooks, traced, filter>>
  \/ s.op = "count" /\ n' = [n EXCEPT ![s.f] = @ + 1] /\ UNCHANGED <<subs, hooks, nhooks, traced, filter>>
  \/ s.op = "table" /\ hooks' = Append(hooks, s.f) /\ UNCHANGED <<subs, n, nhooks, traced, filter>>
  \/ s.op = "publish" /\ nhooks' = nhooks + 1 /\ UNCHANGED <<subs, n, hooks, traced, filter>>
  \/ s.op = "filter" /\ filter' = filter \union {s.f} /\ UNCHANGED <<subs, n, hooks, nhooks, traced>>
  \/ s.op = "register" /\ traced' = TRUE /\ UNCHANGED <<subs, n, hooks, nhooks, filter>>

Register ==
  /\ todo # <<>>
  /\ LET s == Head(todo) IN
     \/ s.op = "add" /\ kstep_event_add(s.ev, s.fn) /\ UNCHANGED registry
     \/ s.op = "hook" /\ kstep_hook(s.f) /\ UNCHANGED registry
     \/ Store(s) /\ todo' = Tail(todo)
  /\ UNCHANGED <<pc, scan, running, kernel, call, samples, promised, history, chained>>

\* The registrations have returned: the boot goes on to run(), a verb settles.
Registering ==
  /\ pc \in DOMAIN Registrations /\ todo = <<>>
  /\ promised' = promised \union {Registrations[pc][k].fn : k \in 1 .. Len(Registrations[pc])}
  /\ pc' = IF pc = "setup" THEN "ready" ELSE "settle"
  /\ scan' = 1
  /\ running' = TRUE
  /\ UNCHANGED <<todo, registry, kernel, call, samples, history, chained>>

kstep_check_enable(name) ==
  /\ pc = "ready"
  /\ todo' = Registrations[name]
  /\ pc' = name
  /\ UNCHANGED <<scan, running, registry, kernel, call, samples, promised, history, chained>>

\* Any other command gives some of the CPUs something to do.
Command(S) ==
  /\ pc = "ready"
  /\ work' = [c \in Cpus |-> IF c \in S THEN work[c] + 1 ELSE work[c]]
  /\ budget' = budget - Cardinality(S)
  /\ pc' = "settle" /\ scan' = 1
  /\ UNCHANGED <<todo, running, registry, stash, run, call, samples, promised, history, chained>>

-----------------------------------------------------------------------------
(* A test CPU in the kernel (external): the traced functions of a wakeup or a  *)
(* balance, in order, and the wakeup's enqueue.                               *)

WakePaths == {<<"select_task_rq_fair", "enqueue">>, <<"select_task_rq_fair", "set_task_cpu", "enqueue">>}
BalancePaths ==
  {<<"sched_balance_rq">>, <<"sched_balance_rq", "sched_balance_find_src_group">>,
   <<"sched_balance_rq", "sched_balance_find_src_group", "set_task_cpu">>}

\* A CPU's next piece of work: a wakeup while more may be given out, a balance for
\* any test CPU, or nothing that is traced.  CPU 0 is in no domain, so nobody
\* balances for it.
Begin(c) ==
  /\ work[c] > 0 /\ run[c] = NoRun
  /\ work' = [work EXCEPT ![c] = @ - 1]
  /\ LET path(p, dst, id) ==
           run' = [run EXCEPT ![c] = [path |-> p, dst |-> dst, id |-> id,
                                      owed |-> IF running THEN promised ELSE {}]]
     IN \/ UNCHANGED <<run, budget>>
        \/ budget > 0 /\ budget' = budget - 1 /\ \E p \in WakePaths : path(p, 0, budget)
        \/ \E p \in BalancePaths, dst \in Cpus : path(p, dst, 0) /\ UNCHANGED budget
  /\ UNCHANGED <<pc, todo, scan, running, registry, stash, call, samples, promised, history, chained>>

\* The path without the function that has returned.
Returned(c) ==
  IF Len(run[c].path) = 1 THEN NoRun ELSE [run[c] EXCEPT !.path = Tail(@)]

\* The woken task is enqueued: its CPU has something to do.
Enqueue(c, d) ==
  /\ run[c].path # <<>> /\ Head(run[c].path) = "enqueue"
  /\ run' = [run EXCEPT ![c] = Returned(c)]
  /\ work' = [work EXCEPT ![d] = @ + 1]
  /\ chained' = (chained \/ (pc = "settle" /\ d < scan) \/ pc = "emit")
  /\ UNCHANGED <<pc, todo, scan, running, registry, stash, budget, call, samples, promised, history>>

-----------------------------------------------------------------------------
(* trace.c: the dispatcher and the handlers. *)

Traced(f) == traced /\ (filter = {} \/ f \in filter)
EventOf(f) ==
  CASE f = "select_task_rq_fair" -> "select_task_rq"
    [] f = "sched_balance_find_src_group" -> "balance_selected"
    [] f = "set_task_cpu" -> "task_migrate"
    [] OTHER -> "none"

\* The event a callback is registered for.
WatchedBy(fn) ==
  CASE fn = "on_select" -> "select_task_rq"
    [] fn = "report_migrate" -> "task_migrate"
    [] fn \in {"output_balance", "on_balance"} -> "balance_selected"
    [] OTHER -> "settle"

\* The count is read once; the entries up to it are then called in turn.
kstep_emit(c, ev, arg) ==
  call' = [call EXCEPT ![c] = [ev |-> ev, n |-> n[ev], i |-> 1, arg |-> arg, slot |-> 0, left |-> 0]]

\* Mutant: the stash is only written once.
on_sched_balance_enter_Once(c) ==
  stash' = IF running /\ stash[c] = 0 THEN [stash EXCEPT ![c] = run[c].dst] ELSE stash

\* What sched_balance_rq() was called for, left for the next hook on this CPU.
on_sched_balance_enter(c) ==
  stash' = IF running THEN [stash EXCEPT ![c] = run[c].dst] ELSE stash

on_sched_balance_selected(c) ==
  IF stash[c] = 0 \/ ~running THEN UNCHANGED call ELSE kstep_emit(c, "balance_selected", stash[c])

on_select_task_rq(c) == kstep_emit(c, "select_task_rq", run[c].id)

\* set_task_cpu() is on the path only of a task that really changes CPU.
on_set_task_cpu(c) ==
  IF ~running THEN UNCHANGED call ELSE kstep_emit(c, "task_migrate", 0)

\* The callbacks promised before the path began are called, once each.
Heard(c, f) ==
  \A fn \in run[c].owed : WatchedBy(fn) = EventOf(f) =>
    Traced(f) /\ Cardinality({k \in 1 .. Len(subs[EventOf(f)]) : k <= n[EventOf(f)] /\ subs[EventOf(f)][k] = fn}) = 1

\* A function on the CPU's path is called: its hook is looked up by what has
\* been published, and its handler raises the event or returns.
kstep_dispatch(c) ==
  /\ run[c].path # <<>> /\ Head(run[c].path) # "enqueue" /\ call[c] = NoCall
  /\ LET f == Head(run[c].path)
         found == \E k \in 1 .. nhooks : hooks[k] = f
     IN /\ missed' = (missed \/ (Traced(f) /\ ~found))
        /\ unheard' = (unheard \/ ~Heard(c, f))
        /\ IF Traced(f) /\ found
             THEN \/ f = "sched_balance_rq" /\ on_sched_balance_enter(c) /\ UNCHANGED call
                  \/ f = "sched_balance_find_src_group" /\ on_sched_balance_selected(c) /\ UNCHANGED stash
                  \/ f = "select_task_rq_fair" /\ on_select_task_rq(c) /\ UNCHANGED stash
                  \/ f = "set_task_cpu" /\ on_set_task_cpu(c) /\ UNCHANGED stash
             ELSE UNCHANGED <<stash, call>>
        /\ run' = IF call' = call THEN [run EXCEPT ![c] = Returned(c)] ELSE run
  /\ UNCHANGED <<pc, todo, scan, running, registry, work, budget, samples, promised, wild, torn, chained>>

-----------------------------------------------------------------------------
(* The callbacks.  Those that only write a record are one step.              *)

\* Going on to the next entry, or out of the event.
Next_i(c) ==
  LET more == call[c].i < call[c].n
      out == ~more /\ c # 0
  IN /\ call' = [call EXCEPT ![c] = IF more THEN [call[c] EXCEPT !.i = call[c].i + 1, !.slot = 0, !.left = 0] ELSE NoCall]
     /\ run'  = IF out THEN [run EXCEPT ![c] = Returned(c)] ELSE run
     /\ pc'   = IF ~more /\ c = 0 THEN "ready" ELSE pc

\* An event nobody is on.
EmitNothing(c) ==
  /\ call[c] # NoCall /\ call[c].n = 0
  /\ Next_i(c)
  /\ UNCHANGED <<todo, scan, running, registry, stash, work, budget, samples, promised, history, chained>>

\* The entry being called, as far as it is stored.
Entry(c) ==
  IF call[c].i <= Len(subs[call[c].ev]) THEN subs[call[c].ev][call[c].i] ELSE "nothing"

At(c) == call[c] # NoCall /\ call[c].n > 0

\* A record is written, or an entry that is not there is called.
Callback(c) ==
  /\ At(c) /\ Entry(c) \notin {"on_select", "on_settle"}
  /\ wild' = (wild \/ Entry(c) = "nothing")
  /\ Next_i(c)
  /\ UNCHANGED <<todo, scan, running, registry, stash, work, budget, samples, promised, missed, unheard, torn, chained>>

\* Mutant: the task is referenced before it is known that there is a slot.
on_select_GetFirst(c) ==
  /\ At(c) /\ Entry(c) = "on_select" /\ call[c].slot = 0
  /\ \/ Next_i(c) /\ UNCHANGED <<npending, refs>>
     \/ /\ running
        /\ npending' = npending + 1
        /\ refs' = refs \union {call[c].arg}
        /\ IF npending < Wakeups
             THEN call' = [call EXCEPT ![c].slot = npending + 1] /\ UNCHANGED <<run, pc>>
             ELSE Next_i(c)
  /\ UNCHANGED <<todo, scan, running, registry, stash, work, budget, pending, promised, history, chained>>

\* on_select(), up to the count: before the clock runs, and for a wakeup that
\* is not sync or whose waker is not alone, nothing; else a slot, if there is one.
on_select(c) ==
  /\ At(c) /\ Entry(c) = "on_select" /\ call[c].slot = 0
  /\ \/ Next_i(c) /\ UNCHANGED npending
     \/ /\ running
        /\ npending' = npending + 1
        /\ IF npending < Wakeups
             THEN call' = [call EXCEPT ![c].slot = npending + 1] /\ UNCHANGED <<run, pc>>
             ELSE Next_i(c)
  /\ UNCHANGED <<todo, scan, running, registry, stash, work, budget, pending, refs, promised, history, chained>>

\* The rest: the task is referenced and the entry stored.
on_select_store(c) ==
  /\ At(c) /\ Entry(c) = "on_select" /\ call[c].slot > 0
  /\ pending' = [pending EXCEPT ![call[c].slot] = call[c].arg]
  /\ refs' = refs \union {call[c].arg}
  /\ Next_i(c)
  /\ UNCHANGED <<todo, scan, running, registry, stash, work, budget, npending, promised, history, chained>>

\* on_settle(), the exchange: how many entries there are to judge.
on_settle ==
  LET k == IF npending < Wakeups THEN npending ELSE Wakeups IN
  /\ At(0) /\ Entry(0) = "on_settle" /\ call[0].slot = 0
  /\ npending' = 0
  /\ IF k = 0 THEN Next_i(0)
              ELSE call' = [call EXCEPT ![0].slot = 1, ![0].left = k] /\ UNCHANGED <<run, pc>>
  /\ UNCHANGED <<todo, scan, running, registry, stash, work, budget, pending, refs, promised, history, chained>>

\* One entry is judged and its task put.
on_settle_judge ==
  LET k == call[0].slot IN
  /\ At(0) /\ Entry(0) = "on_settle" /\ k > 0
  /\ torn' = (torn \/ pending[k] \notin refs)
  /\ refs' = refs \ {pending[k]}
  /\ IF k = call[0].left THEN Next_i(0)
                         ELSE call' = [call EXCEPT ![0].slot = k + 1] /\ UNCHANGED <<run, pc>>
  /\ UNCHANGED <<todo, scan, running, registry, stash, work, budget, npending, pending, promised, wild, missed, unheard, chained>>

-----------------------------------------------------------------------------
(* kstep_settle() *)

\* Mutant: a CPU with nothing more to begin counts as settled.
kstep_cpu_settled_Begun(c) == work[c] = 0

\* Nothing is left to happen on the CPU.
kstep_cpu_settled(c) == work[c] = 0 /\ run[c] = NoRun

\* One CPU of the loop; after the last one the event is raised.
kstep_settle ==
  /\ pc = "settle" /\ kstep_cpu_settled(scan)
  /\ IF scan < NCpus
       THEN scan' = scan + 1 /\ UNCHANGED <<pc, call>>
       ELSE pc' = "emit" /\ kstep_emit(0, "settle", 0) /\ UNCHANGED scan
  /\ UNCHANGED <<todo, running, registry, kernel, samples, promised, history, chained>>

-----------------------------------------------------------------------------
Tracer(c) ==
  \/ Begin(c)
  \/ \E d \in Cpus : Enqueue(c, d)
  \/ kstep_dispatch(c)
  \/ on_select(c)
  \/ on_select_store(c)

Next ==
  \/ Register
  \/ Registering
  \/ \E name \in {"sync_wakeup", "balance"} : kstep_check_enable(name)
  \/ \E S \in SUBSET Cpus : Cardinality(S) <= budget /\ S # {} /\ Command(S)
  \/ \E c \in Cpus : Tracer(c)
  \/ \E c \in 0 .. NCpus : EmitNothing(c) \/ Callback(c)
  \/ on_settle
  \/ on_settle_judge
  \/ kstep_settle

Spec == Init /\ [][Next]_vars

-----------------------------------------------------------------------------
(* Properties *)

TypeOK ==
  /\ pc \in DOMAIN Registrations \union {"ready", "settle", "emit"} /\ scan \in Cpus /\ running \in BOOLEAN
  /\ \A e \in EventNames : Len(subs[e]) <= Subs /\ n[e] \in 0 .. Subs
  /\ nhooks \in 0 .. HookSlots /\ traced \in BOOLEAN
  /\ budget \in 0 .. MaxWork /\ npending \in Nat
  /\ refs \subseteq 1 .. MaxWork /\ pending \in [1 .. Wakeups -> 0 .. MaxWork]
  /\ stash \in [Cpus -> 0 .. NCpus]
  /\ \A c \in 0 .. NCpus : call[c].n <= Subs /\ call[c].slot \in 0 .. Wakeups
  /\ {wild, missed, unheard, torn, chained} \subseteq BOOLEAN

\* Registering is safe while the CPUs run.  An event raised meanwhile never calls
\* an entry that has not been stored, for the entry is there before its count; and
\* a traced function is always found in the hook table, for its entry is published
\* before the filter, and the first filter is set before the ops is registered.
PublishedFirst == ~wild /\ ~missed

\* Once a registration has returned, every traced function that a CPU enters is
\* reported to the callback, exactly once: arming late loses nothing, enabling
\* a rule twice doubles nothing, and the tables have room for every watcher.
HeardOnce == ~unheard

\* A balance is reported for the CPU it is really for: what the first hook stashed
\* on the CPU is neither another balance's nor an older one's.
BalanceIsOwn ==
  \A c \in Cpus : call[c].ev = "balance_selected" => call[c].arg = run[c].dst

\* The settle callback of sync_wakeup judges only entries a sample is in,
\* although the count is raised before the entry is stored; unless a CPU that
\* the settle had passed was woken, which it does not look at again.
TornOnlyByChain == torn => chained

\* Between two commands no sampled task is still referenced: what on_select()
\* took a slot for has been judged, and what found none was never referenced.
RefsReturned ==
  pc = "ready" /\ "on_settle" \in promised /\ ~chained => refs = {} /\ npending = 0

=============================================================================
