---------------------------- MODULE EventsProofs ----------------------------
(***************************************************************************)
(* What TLAPS proves of Events for every number of CPUs and slots: the     *)
(* registry may be extended while the CPUs are being traced, every         *)
(* promised callback is called once, a balance is reported for its own     *)
(* CPU, and the samples of sync_wakeup are judged whole and given back.    *)
(*                                                                         *)
(* The inductive invariant IInv is in three parts: RInv on the registry    *)
(* and what is still to be stored (todo), KInv on the CPUs and the events  *)
(* they raise, and SInv on the samples, which holds until a CPU that the   *)
(* settle had passed is given work.                                        *)
(***************************************************************************)
EXTENDS Events, SequenceTheorems, FiniteSetTheorems, TLAPS

-----------------------------------------------------------------------------
(* The registry part.  A registration is a list of stores: what is at its    *)
(* head says how far the tables are ahead of their counts.                   *)

EntryOf(fn) == [op |-> "entry", ev |-> WatchedBy(fn), fn |-> fn]

Functions == {"init_tg_cfs_entry", "select_task_rq_fair", "sched_balance_rq",
              "sched_balance_find_src_group", "set_task_cpu"}

Ops == {Add(WatchedBy(fn), fn) : fn \in Callbacks}
       \union {EntryOf(fn) : fn \in Callbacks}
       \union {Do("count", ev) : ev \in EventNames}
       \union {Hook(f) : f \in Functions} \union {Do("table", f) : f \in Functions}
       \union {Do("publish", f) : f \in Functions} \union {Do("filter", f) : f \in Functions}
       \union {Do("register", "ops")}

RegistryType ==
  /\ todo \in Seq(Ops)
  /\ subs \in [EventNames -> Seq(Callbacks)] /\ n \in [EventNames -> Nat]
  /\ hooks \in Seq(Functions) /\ nhooks \in Nat
  /\ traced \in BOOLEAN /\ filter \subseteq Functions /\ promised \subseteq Callbacks

\* Stores come at the front, those of one table at a time; behind them only what
\* has not been begun.
Plain == {"add", "hook", "register"}
PlainFrom(j) == \A k \in j .. Len(todo) : todo[k].op \in Plain
Shape ==
  todo # <<>> =>
    LET h == todo[1] IN
    /\ h.op = "entry" => Len(todo) >= 2 /\ todo[2] = Do("count", h.ev) /\ PlainFrom(3)
    /\ h.op = "table" => /\ Len(todo) >= 3 /\ PlainFrom(4)
                         /\ todo[2] = Do("publish", h.f) /\ todo[3] = Do("filter", h.f)
    /\ h.op = "publish" => Len(todo) >= 2 /\ todo[2] = Do("filter", h.f) /\ PlainFrom(3)
    /\ h.op \in Plain \union {"count", "filter"} => PlainFrom(2)

At1(s) == todo # <<>> /\ todo[1] = s
Coming(s) == \E k \in 1 .. Len(todo) : todo[k] = s
Stored(fn) == \E k \in 1 .. Len(subs[WatchedBy(fn)]) : subs[WatchedBy(fn)][k] = fn

\* An event's entries are its own watchers, once each, and at most one of them
\* is not counted yet.
Counted ==
  /\ \A e \in EventNames :
       /\ Len(subs[e]) = n[e] + (IF At1(Do("count", e)) THEN 1 ELSE 0)
       /\ \A j, k \in 1 .. Len(subs[e]) : subs[e][j] = subs[e][k] => j = k
       /\ \A k \in 1 .. Len(subs[e]) : WatchedBy(subs[e][k]) = e
  /\ \A e \in EventNames : Len(subs[e]) <= Subs
  /\ \A fn \in Callbacks : At1(EntryOf(fn)) => n[WatchedBy(fn)] < Subs /\ ~Stored(fn)

\* The same of the hook table, and only what it publishes is let through.
Published(f) == \E k \in 1 .. nhooks : hooks[k] = f
HooksCounted ==
  /\ Len(hooks) = nhooks + (IF \E f \in Functions : At1(Do("publish", f)) THEN 1 ELSE 0)
  /\ \A j, k \in 1 .. Len(hooks) : hooks[j] = hooks[k] => j = k
  /\ Len(hooks) <= HookSlots
  /\ \A f \in Functions :
       /\ At1(Do("table", f)) => nhooks < HookSlots /\ ~Published(f)
       /\ At1(Do("publish", f)) => hooks[Len(hooks)] = f
       /\ At1(Do("filter", f)) => Published(f)
  /\ \A f \in filter : Published(f)
  /\ \A k \in 1 .. nhooks : hooks[k] \in filter \/ At1(Do("filter", hooks[k]))

\* The ops is registered behind the first filter.
Booted ==
  /\ \A k \in 1 .. Len(todo) : todo[k].op = "register" =>
       \/ k = 1 /\ filter # {}
       \/ k = 2 /\ todo[1].op = "hook" /\ nhooks = 0
       \/ k = 4 /\ todo[1].op = "table"
       \/ k = 3 /\ todo[1].op = "publish"
       \/ k = 2 /\ todo[1].op = "filter"
  /\ traced => filter # {}
  /\ Coming(Do("register", "ops")) \/ traced
  /\ pc \notin DOMAIN Registrations => todo = <<>>

HooksOf(ev) == {Hooks[ev][k] : k \in 1 .. Len(Hooks[ev])}
Arming(f) == f \in filter \/ Coming(Hook(f)) \/ At1(Do("table", f)) \/ At1(Do("publish", f)) \/ At1(Do("filter", f))

\* What a registration has not stored it still has to do; what it has stored is
\* armed or about to be; and what has been promised is published and armed.
Promised ==
  /\ pc \in DOMAIN Registrations =>
       \A k \in 1 .. Len(Registrations[pc]) : LET fn == Registrations[pc][k].fn IN
         Stored(fn) \/ Coming(Add(WatchedBy(fn), fn)) \/ At1(EntryOf(fn))
  /\ \A fn \in Callbacks :
       Stored(fn) \/ At1(EntryOf(fn))
         => \A f \in HooksOf(WatchedBy(fn)) : Arming(f)
  /\ \A fn \in promised :
       /\ \E k \in 1 .. n[WatchedBy(fn)] : subs[WatchedBy(fn)][k] = fn
       /\ HooksOf(WatchedBy(fn)) \subseteq filter
       /\ traced

RInv == RegistryType /\ Shape /\ Counted /\ HooksCounted /\ Booted /\ Promised

-----------------------------------------------------------------------------
(* The kernel part *)

\* The paths and what is left of them.
Paths ==
  {<<>>, <<"select_task_rq_fair", "enqueue">>, <<"enqueue">>,
   <<"select_task_rq_fair", "set_task_cpu", "enqueue">>, <<"set_task_cpu", "enqueue">>,
   <<"sched_balance_rq">>, <<"sched_balance_rq", "sched_balance_find_src_group">>,
   <<"sched_balance_rq", "sched_balance_find_src_group", "set_task_cpu">>,
   <<"sched_balance_find_src_group">>, <<"sched_balance_find_src_group", "set_task_cpu">>, <<"set_task_cpu">>}

In(c, f) == run[c].path # <<>> /\ Head(run[c].path) = f

RunType == [path : Paths, dst : 0 .. NCpus, id : 0 .. MaxWork, owed : SUBSET Callbacks]
CallType == [ev : EventNames \union {"none"}, n : Nat, i : Nat, arg : Nat,
             slot : 0 .. Wakeups, left : 0 .. Wakeups]

KernelType ==
  /\ pc \in DOMAIN Registrations \union {"ready", "settle", "emit"} /\ scan \in Cpus /\ running \in BOOLEAN
  /\ budget \in 0 .. MaxWork /\ npending \in Nat
  /\ refs \subseteq 1 .. MaxWork /\ pending \in [1 .. Wakeups -> 0 .. MaxWork]
  /\ stash \in [Cpus -> 0 .. NCpus] /\ work \in [Cpus -> Nat]
  /\ run \in [Cpus -> RunType] /\ call \in [0 .. NCpus -> CallType]
  /\ wild \in BOOLEAN /\ missed \in BOOLEAN /\ unheard \in BOOLEAN /\ torn \in BOOLEAN /\ chained \in BOOLEAN

\* What a CPU raises is what it is in, with its own argument; and a stash that is
\* not 0 can only have been written by a hook that every balance now passes.
CpuOK(c) ==
  /\ run[c].path = <<>> => run[c] = NoRun
  /\ run[c].owed \subseteq promised
  /\ In(c, "sched_balance_rq") => run[c].dst \in Cpus
  /\ In(c, "select_task_rq_fair") => run[c].id > budget
  /\ call[c].ev # "none" => run[c].path # <<>> /\ EventOf(Head(run[c].path)) = call[c].ev
  /\ call[c].ev = "balance_selected" => call[c].arg = run[c].dst
  /\ call[c].ev = "select_task_rq" => call[c].arg = run[c].id
  /\ In(c, "sched_balance_find_src_group") /\ stash[c] # 0 => stash[c] = run[c].dst
  /\ stash[c] # 0 => running /\ traced /\ "sched_balance_rq" \in filter

\* An event calls no further than what had been published when it began.
CallOK(c) ==
  /\ call[c].ev = "none" => call[c] = NoCall
  /\ call[c].ev # "none" =>
       /\ call[c].n <= n[call[c].ev] /\ call[c].i >= 1
       /\ call[c].n = 0 => call[c].slot = 0
       /\ call[c].n > 0 => call[c].i <= call[c].n

Emitting ==
  /\ call[0].ev = (IF pc = "emit" THEN "settle" ELSE "none")
  /\ pc = "emit" => call[0].n = n["settle"]
  /\ call[0].slot <= call[0].left

OwnIds ==
  \A c, d \in Cpus :
    In(c, "select_task_rq_fair") /\ In(d, "select_task_rq_fair") /\ run[c].id = run[d].id => c = d

KInv ==
  /\ \A c \in Cpus : CpuOK(c)
  /\ \A c \in 0 .. NCpus : CallOK(c)
  /\ Emitting /\ OwnIds
  /\ PublishedFirst /\ HeardOnce

-----------------------------------------------------------------------------
(* The samples *)

\* The slots given out, those whose entry is still to be stored, and those that
\* hold a sample: all the others, or, once they are judged, the ones not judged yet.
Taken == {k \in 1 .. Wakeups : k <= npending}
InFlight == {call[c].slot : c \in Cpus}
Live == IF call[0].slot > 0 THEN call[0].slot .. call[0].left ELSE Taken \ InFlight

Quiet(c) == work[c] = 0 /\ run[c] = NoRun
AllQuiet == \A c \in Cpus : Quiet(c)

\* A reference is held for each slot that holds a sample, and for nothing else.
SlotsOK ==
  /\ \A c \in Cpus : call[c].slot > 0 => call[c].ev = "select_task_rq" /\ call[c].slot <= npending
  /\ \A c, d \in Cpus : call[c].slot > 0 /\ call[c].slot = call[d].slot => c = d
  /\ refs = {pending[k] : k \in Live}
  /\ \A j, k \in Live : pending[j] = pending[k] => j = k
  /\ \A c \in Cpus : In(c, "select_task_rq_fair") => run[c].id \notin refs
  /\ \A r \in refs : r > budget

\* The CPUs the settle has passed are quiet, so all of them are when it judges.
SettledOK ==
  /\ call[0].slot > 0 => npending = 0
  /\ pc = "settle" => \A c \in Cpus : c < scan => Quiet(c)
  /\ pc = "emit" => AllQuiet
  /\ pc = "setup" => promised = {}
  /\ pc = "ready" /\ "on_settle" \in promised => AllQuiet /\ refs = {} /\ npending = 0
  /\ ~torn

SInv == ~chained => SlotsOK /\ SettledOK

IInv == RInv /\ KernelType /\ KInv /\ SInv

-----------------------------------------------------------------------------
(* RInv is kept *)

LEMMA ConcatTail ==
  ASSUME NEW S, NEW s \in Seq(S), s # <<>>, NEW x \in Seq(S)
  PROVE  /\ x \o Tail(s) \in Seq(S)
         /\ Len(x \o Tail(s)) = Len(x) + Len(s) - 1
         /\ \A k \in 1 .. Len(x) + Len(s) - 1 :
              (x \o Tail(s))[k] = IF k <= Len(x) THEN x[k] ELSE s[k - Len(x) + 1]
<1>1. Tail(s) \in Seq(S) /\ Len(Tail(s)) = Len(s) - 1 /\ Len(s) \in Nat \ {0} /\ Len(x) \in Nat
  OBVIOUS
<1>2. \A k \in 1 .. Len(s) - 1 : Tail(s)[k] = s[k + 1]
  OBVIOUS
<1> QED
  BY <1>1, <1>2

LEMMA WatchedType == \A fn \in Callbacks : WatchedBy(fn) \in EventNames
BY DEF Callbacks, EventNames, WatchedBy

LEMMA OpsMembers ==
  /\ \A fn \in Callbacks : /\ Add(WatchedBy(fn), fn) \in Ops
                           /\ EntryOf(fn) \in Ops
  /\ \A ev \in EventNames : Do("count", ev) \in Ops
  /\ \A f \in Functions : {Hook(f), Do("table", f), Do("publish", f), Do("filter", f)} \subseteq Ops
BY DEF Ops

LEMMA HooksType ==
  ASSUME NEW ev \in EventNames
  PROVE  Hooks[ev] \in Seq(Functions)
<1>1. CASE ev = "settle"
  BY <1>1 DEF Hooks
<1>2. CASE ev = "task_migrate"
  BY <1>2 DEF Hooks, Functions
<1>3. CASE ev = "balance_selected"
  BY <1>3 DEF Hooks, Functions
<1>4. CASE ev = "select_task_rq"
  BY <1>4 DEF Hooks, Functions
<1> QED
  BY <1>1, <1>2, <1>3, <1>4 DEF EventNames

LEMMA StoresType ==
  ASSUME NEW fn \in Callbacks, NEW ev, ev = WatchedBy(fn)
  PROVE  /\ Stores(ev, fn) \in Seq(Ops)
         /\ Len(Stores(ev, fn)) = 2 + Len(Hooks[ev])
         /\ Stores(ev, fn)[1] = [op |-> "entry", ev |-> ev, fn |-> fn]
         /\ Stores(ev, fn)[2] = Do("count", ev)
         /\ \A k \in 1 .. Len(Hooks[ev]) : Stores(ev, fn)[k + 2] = Hook(Hooks[ev][k])
<1> DEFINE a == <<[op |-> "entry", ev |-> ev, fn |-> fn], Do("count", ev)>>
           b == [k \in 1 .. Len(Hooks[ev]) |-> Hook(Hooks[ev][k])]
<1>1. ev \in EventNames
  BY WatchedType
<1>2. Hooks[ev] \in Seq(Functions)
  BY <1>1, HooksType
<1>3. a \in Seq(Ops) /\ Len(a) = 2 /\ a[1] = [op |-> "entry", ev |-> ev, fn |-> fn] /\ a[2] = Do("count", ev)
  BY <1>1, OpsMembers DEF EntryOf
<1>4. b \in Seq(Ops) /\ Len(b) = Len(Hooks[ev]) /\ \A k \in 1 .. Len(Hooks[ev]) : b[k] = Hook(Hooks[ev][k])
  <2>1. \A k \in 1 .. Len(Hooks[ev]) : Hook(Hooks[ev][k]) \in Ops
    BY <1>2, OpsMembers
  <2> QED
    BY <1>2, <2>1
<1>5. Stores(ev, fn) = a \o b
  BY DEF Stores
<1> HIDE DEF a, b
<1>6. a \in Seq(Ops) /\ Len(a) = 2 /\ b \in Seq(Ops)
  BY <1>3, <1>4
<1>7. /\ a \o b \in Seq(Ops) /\ Len(a \o b) = 2 + Len(b)
      /\ (a \o b)[1] = a[1] /\ (a \o b)[2] = a[2]
      /\ \A k \in 1 .. Len(b) : (a \o b)[k + 2] = b[k]
  <2>1. /\ a \o b \in Seq(Ops) /\ Len(a \o b) = Len(a) + Len(b)
        /\ \A i \in 1 .. Len(a) + Len(b) : (a \o b)[i] = IF i <= Len(a) THEN a[i] ELSE b[i - Len(a)]
    BY <1>6, ConcatProperties
  <2>2. Len(b) \in Nat
    BY <1>6
  <2>3. ASSUME NEW k \in 1 .. Len(b) PROVE (a \o b)[k + 2] = b[k]
    <3>1. k + 2 \in 1 .. Len(a) + Len(b) /\ ~(k + 2 <= Len(a)) /\ (k + 2) - Len(a) = k
      BY <1>6, <2>2
    <3> QED
      BY <2>1, <3>1
  <2> QED
    BY <1>6, <2>1, <2>2, <2>3
<1> QED
  BY <1>3, <1>4, <1>5, <1>6, <1>7

LEMMA RegistrationsType ==
  ASSUME NEW name \in DOMAIN Registrations
  PROVE  /\ Registrations[name] \in Seq(Ops)
         /\ \A k \in 1 .. Len(Registrations[name]) :
              \E fn \in Callbacks : Registrations[name][k] = Add(WatchedBy(fn), fn)
<1>1. DOMAIN Registrations = {"setup", "sync_wakeup", "balance"}
  BY DEF Registrations
<1>2. CASE name = "setup"
  BY <1>2 DEF Registrations, setup, Ops, Callbacks, WatchedBy, Add
<1>3. CASE name = "sync_wakeup"
  BY <1>3 DEF Registrations, Ops, Callbacks, WatchedBy, Add
<1>4. CASE name = "balance"
  BY <1>4 DEF Registrations, Ops, Callbacks, WatchedBy, Add
<1> QED
  BY <1>1, <1>2, <1>3, <1>4

LEMMA TodoStep ==
  ASSUME RegistryType, todo # <<>>, NEW x \in Seq(Ops), todo' = x \o Tail(todo)
  PROVE  /\ todo' \in Seq(Ops) /\ Len(todo) \in Nat \ {0} /\ Len(x) \in Nat
         /\ Len(todo') = Len(x) + Len(todo) - 1
         /\ \A k \in 1 .. Len(x) : todo'[k] = x[k]
         /\ \A k \in 1 .. Len(todo') : k > Len(x) => todo'[k] = todo[k - Len(x) + 1]
         /\ \A s : Coming(s) /\ s # todo[1] => Coming(s)'
         /\ \A k \in 1 .. Len(x) : Coming(x[k])'
<1>1. todo \in Seq(Ops) /\ Len(todo) \in Nat \ {0} /\ Len(x) \in Nat
  BY DEF RegistryType
<1>2. /\ todo' \in Seq(Ops)
      /\ Len(todo') = Len(x) + Len(todo) - 1
      /\ \A k \in 1 .. Len(x) + Len(todo) - 1 :
           todo'[k] = IF k <= Len(x) THEN x[k] ELSE todo[k - Len(x) + 1]
  BY <1>1, ConcatTail
<1>3. ASSUME NEW s, Coming(s), s # todo[1] PROVE Coming(s)'
  <2>1. PICK k \in 1 .. Len(todo) : todo[k] = s
    BY <1>3 DEF Coming
  <2>2. PICK j \in 1 .. Len(x) + Len(todo) - 1 : ~(j <= Len(x)) /\ j - Len(x) + 1 = k
    <3>1. k \in Nat /\ k > 1
      BY <1>1, <1>3, <2>1
    <3> WITNESS k + Len(x) - 1 \in 1 .. Len(x) + Len(todo) - 1
    <3> QED
      BY <1>1, <3>1
  <2>3. todo'[j] = s /\ j \in 1 .. Len(todo')
    BY <1>2, <2>1, <2>2
  <2> QED
    BY <2>3 DEF Coming
<1>4. \A k \in 1 .. Len(x) : todo'[k] = x[k] /\ k \in 1 .. Len(todo')
  BY <1>1, <1>2
<1>5. \A k \in 1 .. Len(todo') : k > Len(x) => todo'[k] = todo[k - Len(x) + 1]
  BY <1>1, <1>2
<1>6. \A k \in 1 .. Len(x) : Coming(x[k])'
  BY <1>4 DEF Coming
<1> QED
  BY <1>1, <1>2, <1>3, <1>4, <1>5, <1>6

LEMMA TodoTail ==
  ASSUME RegistryType, todo # <<>>, todo' = Tail(todo) \/ todo' = <<>> \o Tail(todo)
  PROVE  /\ todo' \in Seq(Ops) /\ Len(todo) \in Nat \ {0}
         /\ Len(todo') = Len(todo) - 1
         /\ \A k \in 1 .. Len(todo') : todo'[k] = todo[k + 1]
         /\ \A s : Coming(s) /\ s # todo[1] => Coming(s)'
<1>1. todo' = <<>> \o Tail(todo)
  <2>1. Tail(todo) \in Seq(Ops)
    BY DEF RegistryType
  <2> QED
    BY <2>1, ConcatEmptySeq
<1>2. PICK x \in Seq(Ops) : x = <<>> /\ Len(x) = 0
  <2>1. <<>> \in Seq(Ops) /\ Len(<<>>) = 0
    OBVIOUS
  <2> QED
    BY <2>1, Zenon
<1>3. todo' = x \o Tail(todo)
  BY <1>1, <1>2
<1>4. /\ todo' \in Seq(Ops) /\ Len(todo) \in Nat \ {0} /\ Len(todo') = 0 + Len(todo) - 1
      /\ \A k \in 1 .. Len(todo') : k > 0 => todo'[k] = todo[k - 0 + 1]
      /\ \A s : Coming(s) /\ s # todo[1] => Coming(s)'
  BY <1>2, <1>3, TodoStep
<1> QED
  BY <1>4

\* Once only whole operations are left, no store is half done.
LEMMA PlainNext ==
  ASSUME todo' \in Seq(Ops), PlainFrom(1)'
  PROVE  /\ Shape'
         /\ \A fn : ~At1(EntryOf(fn))'
         /\ \A x : ~At1(Do("count", x))' /\ ~At1(Do("table", x))' /\ ~At1(Do("publish", x))' /\ ~At1(Do("filter", x))'
BY DEF PlainFrom, Plain, Shape, At1, EntryOf, Do

\* What the head of the list may be.
LEMMA HeadCases ==
  ASSUME RegistryType, todo # <<>>
  PROVE  /\ Head(todo) = todo[1]
         /\ \/ \E fn \in Callbacks : todo[1] = Add(WatchedBy(fn), fn) \/ todo[1] = EntryOf(fn)
            \/ \E ev \in EventNames : todo[1] = Do("count", ev)
            \/ \E f \in Functions : \/ todo[1] = Hook(f) \/ todo[1] = Do("table", f)
                                    \/ todo[1] = Do("publish", f) \/ todo[1] = Do("filter", f)
            \/ todo[1] = Do("register", "ops")
<1>1. todo[1] \in Ops /\ Head(todo) = todo[1]
  BY DEF RegistryType
<1> QED
  BY <1>1 DEF Ops

\* After the head is gone and only whole operations are left, the counts agree.
LEMMA RestPlain ==
  ASSUME RegistryType, Shape, todo # <<>>, todo[1].op \in Plain \union {"count", "filter"},
         todo' = Tail(todo) \/ todo' = <<>> \o Tail(todo)
  PROVE  PlainFrom(1)'
<1>1. PlainFrom(2)
  BY DEF Shape
<1> QED
  BY <1>1, TodoTail DEF PlainFrom


\* The head is dropped and nothing is stored.
LEMMA Dropped ==
  ASSUME RInv, todo # <<>>, todo[1].op \in {"add", "hook"},
         todo' = <<>> \o Tail(todo), UNCHANGED <<registry, promised, pc>>
  PROVE  /\ RegistryType' /\ Shape' /\ Counted' /\ HooksCounted'
         /\ \A s : Coming(s) /\ s # todo[1] => Coming(s)'
         /\ \A x : ~At1(Do("count", x)) /\ ~At1(Do("table", x)) /\ ~At1(Do("publish", x)) /\ ~At1(Do("filter", x))
         /\ \A g : ~At1(EntryOf(g)) /\ ~At1(EntryOf(g))'
<1>2. /\ RegistryType /\ Shape /\ Counted /\ HooksCounted /\ Booted /\ Promised
      /\ UNCHANGED <<subs, n, hooks, nhooks, traced, filter, promised, pc>>
  BY DEF RInv, registry
<1>3. PlainFrom(1)' /\ todo' \in Seq(Ops)
  BY <1>2, RestPlain, TodoTail DEF Plain
<1>4. /\ Shape' /\ \A g : ~At1(EntryOf(g))'
      /\ \A x : ~At1(Do("count", x))' /\ ~At1(Do("table", x))' /\ ~At1(Do("publish", x))' /\ ~At1(Do("filter", x))'
  BY <1>3, PlainNext
<1>5. /\ \A g : ~At1(EntryOf(g))
      /\ \A x : ~At1(Do("count", x)) /\ ~At1(Do("table", x)) /\ ~At1(Do("publish", x)) /\ ~At1(Do("filter", x))
  BY DEF At1, EntryOf, Do
<1>6. RegistryType'
  BY <1>2, <1>3 DEF RegistryType
<1>7. Counted'
  BY <1>2, <1>4, <1>5 DEF Counted, Stored
<1>8. HooksCounted'
  BY <1>2, <1>4, <1>5 DEF HooksCounted, Published
<1> QED
  BY <1>2, <1>4, <1>5, <1>6, <1>7, <1>8, TodoTail

\* A full table of callbacks has every watcher of the event in it.
LEMMA Room ==
  ASSUME RInv, NEW fn \in Callbacks, n[WatchedBy(fn)] = Subs
  PROVE  \E k \in 1 .. n[WatchedBy(fn)] : subs[WatchedBy(fn)][k] = fn
<1> DEFINE ev == WatchedBy(fn)
           a == subs[ev][1]
           b == subs[ev][2]
<1>1. ev \in EventNames
  BY WatchedType
<1>2. subs[ev] \in Seq(Callbacks) /\ n[ev] >= 2 /\ n[ev] <= Len(subs[ev]) /\ n[ev] \in Nat /\ Len(subs[ev]) \in Nat
  BY <1>1, RoomAssumption, EventsAssumption DEF RInv, RegistryType, Counted
<1>3. 1 \in 1 .. Len(subs[ev]) /\ 2 \in 1 .. Len(subs[ev]) /\ 1 \in 1 .. n[ev] /\ 2 \in 1 .. n[ev]
  BY <1>2
<1>4. a \in Callbacks /\ b \in Callbacks
  BY <1>2, <1>3
<1>5. WatchedBy(a) = ev /\ WatchedBy(b) = ev /\ a # b
  BY <1>1, <1>3 DEF RInv, Counted
<1> HIDE DEF a, b
<1>6. fn = a \/ fn = b
  BY <1>4, <1>5 DEF Callbacks, WatchedBy
<1> QED
  BY <1>3, <1>6 DEF a, b

\* A full hook table has every function in it.
LEMMA HookRoom ==
  ASSUME RInv, NEW f \in Functions, nhooks = HookSlots
  PROVE  Published(f)
<1> DEFINE a == hooks[1]
           b == hooks[2]
           c == hooks[3]
           d == hooks[4]
           e == hooks[5]
<1>1. hooks \in Seq(Functions) /\ nhooks >= 5 /\ nhooks <= Len(hooks) /\ nhooks \in Nat /\ Len(hooks) \in Nat
  BY RoomAssumption, EventsAssumption DEF RInv, RegistryType, HooksCounted
<1>2. /\ a \in Functions /\ b \in Functions /\ c \in Functions /\ d \in Functions /\ e \in Functions
  BY <1>1
<1>3. \A j, k \in 1 .. Len(hooks) : hooks[j] = hooks[k] => j = k
  BY DEF RInv, HooksCounted
<1>4. 1 \in 1 .. Len(hooks) /\ 2 \in 1 .. Len(hooks) /\ 3 \in 1 .. Len(hooks)
      /\ 4 \in 1 .. Len(hooks) /\ 5 \in 1 .. Len(hooks)
  BY <1>1
<1>5. a # b /\ a # c /\ a # d /\ a # e /\ b # c /\ b # d /\ b # e /\ c # d /\ c # e /\ d # e
  BY <1>3, <1>4
<1> HIDE DEF a, b, c, d, e
<1>6. f = a \/ f = b \/ f = c \/ f = d \/ f = e
  BY <1>2, <1>5 DEF Functions
<1>7. 1 \in 1 .. nhooks /\ 2 \in 1 .. nhooks /\ 3 \in 1 .. nhooks /\ 4 \in 1 .. nhooks /\ 5 \in 1 .. nhooks
  BY <1>1
<1> QED
  BY <1>6, <1>7 DEF Published, a, b, c, d, e

\* Callbacks are added only after the ops is registered.
LEMMA BootDone ==
  ASSUME Booted, todo # <<>>, todo[1].op \in {"add", "entry", "count"}
  PROVE  (\A k \in 1 .. Len(todo) : todo[k].op # "register") /\ traced /\ filter # {} /\ pc \in DOMAIN Registrations
<1>1. ASSUME NEW k \in 1 .. Len(todo), todo[k].op = "register" PROVE FALSE
  <2>1. k # 1 /\ todo[1].op \notin {"hook", "table", "publish", "filter"}
    BY <1>1
  <2> QED
    BY <1>1, <2>1 DEF Booted
<1>2. ~Coming(Do("register", "ops"))
  BY <1>1 DEF Coming, Do
<1>3. traced
  BY <1>2 DEF Booted
<1>4. filter # {}
  BY <1>3 DEF Booted
<1>5. pc \in DOMAIN Registrations
  BY DEF Booted
<1> QED
  BY <1>1, <1>3, <1>4, <1>5

\* kstep_event_add() finds the callback, or has no room for it.
LEMMA AddSkips ==
  ASSUME RInv, NEW fn \in Callbacks, todo # <<>>, todo[1] = Add(WatchedBy(fn), fn),
         (\E k \in 1 .. n[WatchedBy(fn)] : subs[WatchedBy(fn)][k] = fn) \/ n[WatchedBy(fn)] = Subs,
         todo' = <<>> \o Tail(todo), UNCHANGED <<registry, promised, pc>>
  PROVE  RInv'
<1>1. WatchedBy(fn) \in EventNames
  BY WatchedType
<1>2. /\ RegistryType /\ Shape /\ Counted /\ HooksCounted /\ Booted /\ Promised
      /\ UNCHANGED <<subs, n, hooks, nhooks, traced, filter, promised, pc>>
  BY DEF RInv, registry
<1>3. /\ RegistryType' /\ Shape' /\ Counted' /\ HooksCounted'
      /\ \A s : Coming(s) /\ s # todo[1] => Coming(s)'
      /\ \A x : ~At1(Do("count", x)) /\ ~At1(Do("table", x)) /\ ~At1(Do("publish", x)) /\ ~At1(Do("filter", x))
      /\ \A g : ~At1(EntryOf(g)) /\ ~At1(EntryOf(g))'
  BY Dropped DEF Add
<1>4. Booted'
  <2>1. (\A k \in 1 .. Len(todo) : todo[k].op # "register") /\ traced /\ filter # {} /\ pc \in DOMAIN Registrations
    BY <1>2, BootDone DEF Add
  <2>3. \A k \in 1 .. Len(todo') : todo'[k].op # "register"
    <3>1. \A k \in 1 .. Len(todo') : k + 1 \in 1 .. Len(todo) /\ todo'[k] = todo[k + 1]
      BY <1>2, TodoTail
    <3> QED
      BY <2>1, <3>1
  <2> QED
    BY <1>2, <2>1, <2>3 DEF Booted
<1>5. Stored(fn)
  <2>1. PICK k \in 1 .. n[WatchedBy(fn)] : subs[WatchedBy(fn)][k] = fn
    BY Room
  <2>2. k \in 1 .. Len(subs[WatchedBy(fn)])
    BY <1>1, <1>2 DEF Counted, RegistryType
  <2> QED
    BY <2>1, <2>2 DEF Stored
<1>6. \A g : Stored(g) => Stored(g)'
  BY <1>2 DEF Stored
<1>7. \A f : Arming(f) => Arming(f)'
  BY <1>2, <1>3 DEF Arming, Hook, Add
<1>8. Promised'
  <2>1. ASSUME NEW k \in 1 .. Len(Registrations[pc]), pc \in DOMAIN Registrations
        PROVE  LET g == Registrations[pc][k].fn
               IN  Stored(g)' \/ Coming(Add(WatchedBy(g), g))' \/ At1(EntryOf(g))'
    <3> DEFINE g == Registrations[pc][k].fn
    <3>1. Stored(g) \/ Coming(Add(WatchedBy(g), g))
      BY <1>2, <1>3, <2>1 DEF Promised
    <3>2. Add(WatchedBy(g), g) = todo[1] => g = fn
      BY DEF Add
    <3> QED
      BY <1>3, <1>5, <1>6, <3>1, <3>2
  <2>2. ASSUME NEW g \in Callbacks, (Stored(g) \/ At1(EntryOf(g)))' PROVE \A f \in HooksOf(WatchedBy(g)) : Arming(f)'
    <3>1. Stored(g)
      BY <1>2, <1>3, <2>2 DEF Stored
    <3> QED
      BY <1>2, <1>7, <3>1 DEF Promised
  <2>3. \A g \in promised' :
          /\ \E k \in 1 .. n'[WatchedBy(g)] : subs'[WatchedBy(g)][k] = g
          /\ HooksOf(WatchedBy(g)) \subseteq filter'
          /\ traced'
    BY <1>2 DEF Promised
  <2> QED
    BY <1>2, <2>1, <2>2, <2>3 DEF Promised
<1> QED
  BY <1>3, <1>4, <1>8 DEF RInv

\* The parts of Promised, for a step that drops or replaces the head only.
LEMMA PromisedNext ==
  ASSUME RInv, UNCHANGED <<promised, pc>>, traced => traced', filter \subseteq filter',
         \A g \in Callbacks : Stored(g) => Stored(g)',
         \A e \in EventNames : \A k \in 1 .. n[e] : k \in 1 .. n'[e] /\ subs'[e][k] = subs[e][k],
         \A g \in Callbacks : Coming(Add(WatchedBy(g), g)) \/ At1(EntryOf(g)) =>
             Stored(g)' \/ Coming(Add(WatchedBy(g), g))' \/ At1(EntryOf(g))',
         \A g \in Callbacks : (Stored(g)' \/ At1(EntryOf(g))') /\ ~(Stored(g) \/ At1(EntryOf(g))) =>
             \A f \in HooksOf(WatchedBy(g)) : Arming(f)',
         \A f \in Functions : Arming(f) => Arming(f)'
  PROVE  Promised'
<1>1. Promised /\ promised \subseteq Callbacks
  BY DEF RInv, RegistryType
<1>2. ASSUME NEW k \in 1 .. Len(Registrations[pc]), pc \in DOMAIN Registrations
      PROVE  LET g == Registrations[pc][k].fn
             IN  Stored(g)' \/ Coming(Add(WatchedBy(g), g))' \/ At1(EntryOf(g))'
  <2> DEFINE g == Registrations[pc][k].fn
  <2>1. Stored(g) \/ Coming(Add(WatchedBy(g), g)) \/ At1(EntryOf(g))
    BY <1>1, <1>2 DEF Promised
  <2>2. g \in Callbacks
    <3>1. PICK h \in Callbacks : Registrations[pc][k] = Add(WatchedBy(h), h)
      BY <1>2, RegistrationsType
    <3> QED
      BY <3>1 DEF Add
  <2> QED
    BY <2>1, <2>2
<1>3. ASSUME NEW g \in Callbacks, Stored(g)' \/ At1(EntryOf(g))', NEW f \in HooksOf(WatchedBy(g))
      PROVE  Arming(f)'
  <2>1. f \in Functions
    BY HooksType, WatchedType DEF HooksOf
  <2> QED
    BY <1>1, <1>3, <2>1 DEF Promised
<1>4. ASSUME NEW g \in promised
      PROVE  /\ \E k \in 1 .. n'[WatchedBy(g)] : subs'[WatchedBy(g)][k] = g
             /\ HooksOf(WatchedBy(g)) \subseteq filter'
             /\ traced'
  <2>1. WatchedBy(g) \in EventNames
    BY <1>1, WatchedType
  <2>2. PICK k \in 1 .. n[WatchedBy(g)] : subs[WatchedBy(g)][k] = g
    BY <1>1 DEF Promised
  <2>3. k \in 1 .. n'[WatchedBy(g)] /\ subs'[WatchedBy(g)][k] = g
    BY <2>1, <2>2
  <2> QED
    BY <1>1, <2>3 DEF Promised
<1> QED
  BY <1>2, <1>3, <1>4 DEF Promised

LEMMA AddStores ==
  ASSUME RInv, NEW fn \in Callbacks, todo # <<>>, todo[1] = Add(WatchedBy(fn), fn),
         ~(\E k \in 1 .. n[WatchedBy(fn)] : subs[WatchedBy(fn)][k] = fn), n[WatchedBy(fn)] # Subs,
         todo' = Stores(WatchedBy(fn), fn) \o Tail(todo), UNCHANGED <<registry, promised, pc>>
  PROVE  RInv'
<1> DEFINE ev == WatchedBy(fn)
           x == Stores(ev, fn)
<1>1. ev \in EventNames /\ Hooks[ev] \in Seq(Functions) /\ Len(Hooks[ev]) \in Nat
  BY WatchedType, HooksType
<1>2. /\ RegistryType /\ Shape /\ Counted /\ HooksCounted /\ Booted /\ Promised
      /\ UNCHANGED <<subs, n, hooks, nhooks, traced, filter, promised, pc>>
  BY DEF RInv, registry
<1>3. /\ x \in Seq(Ops) /\ Len(x) = 2 + Len(Hooks[ev])
      /\ x[1] = EntryOf(fn) /\ x[2] = Do("count", ev)
      /\ \A k \in 1 .. Len(Hooks[ev]) : x[k + 2] = Hook(Hooks[ev][k])
  BY StoresType DEF EntryOf
<1> HIDE DEF x
<1>4. /\ todo' \in Seq(Ops) /\ Len(todo) \in Nat \ {0} /\ Len(x) \in Nat
      /\ Len(todo') = Len(x) + Len(todo) - 1
      /\ \A k \in 1 .. Len(x) : todo'[k] = x[k]
      /\ \A k \in 1 .. Len(todo') : k > Len(x) => todo'[k] = todo[k - Len(x) + 1]
      /\ \A s : Coming(s) /\ s # todo[1] => Coming(s)'
      /\ \A k \in 1 .. Len(x) : Coming(x[k])'
  BY <1>2, <1>3, TodoStep DEF x
<1>5. (\A k \in 1 .. Len(todo) : todo[k].op # "register") /\ traced /\ filter # {} /\ pc \in DOMAIN Registrations
  BY <1>2, BootDone DEF Add
<1>6. PlainFrom(2)
  BY <1>2 DEF Shape, Plain, Add
<1>7. Len(todo') >= 2 /\ todo'[1] = EntryOf(fn) /\ todo'[2] = Do("count", ev)
  BY <1>1, <1>3, <1>4
<1>17. todo'[1].op = "entry" /\ todo'[2].op = "count"
  BY <1>7 DEF EntryOf, Do
<1>8. ASSUME NEW k \in 3 .. Len(todo') PROVE todo'[k].op \in {"add", "hook"}
  <2>1. CASE k <= Len(x)
    <3>1. k - 2 \in 1 .. Len(Hooks[ev]) /\ (k - 2) + 2 = k /\ k \in 1 .. Len(x)
      BY <1>1, <1>3, <1>4, <2>1
    <3>2. PICK j \in 1 .. Len(Hooks[ev]) : j + 2 = k
      BY <3>1
    <3>3. todo'[k] = Hook(Hooks[ev][j])
      BY <1>3, <1>4, <3>1, <3>2
    <3> QED
      BY <3>3 DEF Hook
  <2>2. CASE k > Len(x)
    <3>1. k \in 1 .. Len(todo') /\ k - Len(x) + 1 \in 2 .. Len(todo) /\ k - Len(x) + 1 \in 1 .. Len(todo)
      BY <1>4, <2>2
    <3> QED
      BY <1>4, <1>5, <1>6, <2>2, <3>1 DEF PlainFrom, Plain
  <2> QED
    BY <1>4, <2>1, <2>2
<1>9. /\ \A g \in Callbacks : At1(EntryOf(g))' => g = fn
      /\ \A y : ~At1(Do("count", y))' /\ ~At1(Do("table", y))' /\ ~At1(Do("publish", y))' /\ ~At1(Do("filter", y))'
  BY <1>7 DEF At1, EntryOf, Do
<1>10. /\ \A g : ~At1(EntryOf(g))
       /\ \A y : ~At1(Do("count", y)) /\ ~At1(Do("table", y)) /\ ~At1(Do("publish", y)) /\ ~At1(Do("filter", y))
  BY DEF At1, EntryOf, Do, Add
<1>11. RegistryType'
  BY <1>2, <1>4 DEF RegistryType
<1>12. Shape'
  BY <1>7, <1>8 DEF Shape, PlainFrom, Plain, EntryOf
<1>13. Counted'
  <2>1. Len(subs[ev]) = n[ev] /\ n[ev] < Subs /\ ~Stored(fn)
    <3>1. Len(subs[ev]) = n[ev] + 0 /\ n[ev] \in Nat /\ Len(subs[ev]) <= Subs
      BY <1>1, <1>2, <1>10 DEF Counted, RegistryType
    <3> QED
      BY <3>1, EventsAssumption DEF Stored
  <2> QED
    BY <1>2, <1>9, <1>10, <2>1 DEF Counted, Stored
<1>14. HooksCounted'
  <2>1. \A f : Published(f)' <=> Published(f)
    BY <1>2 DEF Published
  <2> QED
    BY <1>2, <1>9, <1>10, <2>1 DEF HooksCounted
<1>15. Booted'
  <2>1. ASSUME NEW k \in 1 .. Len(todo') PROVE todo'[k].op # "register"
    <3>1. k = 1 \/ k = 2 \/ k \in 3 .. Len(todo')
      OBVIOUS
    <3> QED
      BY <1>8, <1>17, <3>1
  <2> QED
    BY <1>2, <1>5, <2>1 DEF Booted
<1>16. Promised'
  <2>1. \A g \in Callbacks : Stored(g) => Stored(g)'
    BY <1>2 DEF Stored
  <2>2. \A g \in Callbacks : Coming(Add(WatchedBy(g), g)) => Coming(Add(WatchedBy(g), g))' \/ At1(EntryOf(g))'
    <3>1. At1(EntryOf(fn))'
      BY <1>7 DEF At1
    <3> QED
      BY <1>4, <3>1 DEF Add
  <2>3. \A f \in HooksOf(ev) : Arming(f)'
    <3>1. ASSUME NEW k \in 1 .. Len(Hooks[ev]) PROVE Coming(Hook(Hooks[ev][k]))'
      <4>1. k + 2 \in 1 .. Len(x)
        BY <1>1, <1>3
      <4> QED
        BY <1>3, <1>4, <4>1
    <3> QED
      BY <3>1 DEF HooksOf, Arming
  <2>4. \A f \in Functions : Arming(f) => Arming(f)'
    BY <1>2, <1>4, <1>10 DEF Arming, Hook, Add
  <2>5. ASSUME NEW g \in Callbacks, Stored(g)' \/ At1(EntryOf(g))', ~Stored(g)
        PROVE  \A f \in HooksOf(WatchedBy(g)) : Arming(f)'
    <3>1. Stored(g)' => Stored(g)
      BY <1>2 DEF Stored
    <3> QED
      BY <1>9, <2>3, <2>5, <3>1
  <2>6. \A e \in EventNames : \A k \in 1 .. n[e] : k \in 1 .. n'[e] /\ subs'[e][k] = subs[e][k]
    BY <1>2
  <2> QED
    BY <1>2, <1>10, <2>1, <2>2, <2>4, <2>5, <2>6, PromisedNext
<1> QED
  BY <1>11, <1>12, <1>13, <1>14, <1>15, <1>16 DEF RInv


LEMMA HookSkips ==
  ASSUME RInv, NEW f \in Functions, todo # <<>>, todo[1] = Hook(f),
         (\E k \in 1 .. nhooks : hooks[k] = f) \/ nhooks = HookSlots,
         todo' = <<>> \o Tail(todo), UNCHANGED <<registry, promised, pc>>
  PROVE  RInv'
<1>1. /\ RegistryType /\ Shape /\ Counted /\ HooksCounted /\ Booted /\ Promised
      /\ UNCHANGED <<subs, n, hooks, nhooks, traced, filter, promised, pc>>
  BY DEF RInv, registry
<1>2. todo[1].op = "hook"
  BY DEF Hook
<1>3. /\ RegistryType' /\ Shape' /\ Counted' /\ HooksCounted'
      /\ \A s : Coming(s) /\ s # todo[1] => Coming(s)'
      /\ \A x : ~At1(Do("count", x)) /\ ~At1(Do("table", x)) /\ ~At1(Do("publish", x)) /\ ~At1(Do("filter", x))
      /\ \A g : ~At1(EntryOf(g)) /\ ~At1(EntryOf(g))'
  BY <1>2, Dropped
<1>4. Published(f)
  BY HookRoom DEF Published
<1>5. f \in filter
  BY <1>1, <1>3, <1>4 DEF Published, HooksCounted
<1>6. Booted'
  <2>1. nhooks # 0
    BY <1>1, <1>4 DEF Published, RegistryType
  <2>2. ASSUME NEW k \in 1 .. Len(todo), todo[k].op = "register" PROVE FALSE
    <3>1. k # 1 /\ todo[1].op \notin {"table", "publish", "filter"}
      BY <1>2, <2>2
    <3> QED
      BY <1>1, <2>1, <2>2, <3>1 DEF Booted
  <2>3. ~Coming(Do("register", "ops"))
    BY <2>2 DEF Coming, Do
  <2>4. traced /\ filter # {}
    BY <1>1, <2>3 DEF Booted
  <2>5. ASSUME NEW k \in 1 .. Len(todo') PROVE todo'[k].op # "register"
    <3>1. k + 1 \in 1 .. Len(todo) /\ todo'[k] = todo[k + 1]
      BY <1>1, TodoTail
    <3> QED
      BY <2>2, <3>1
  <2>6. pc \in DOMAIN Registrations
    BY <1>1 DEF Booted
  <2> QED
    BY <1>1, <2>4, <2>5, <2>6 DEF Booted
<1>7. Promised'
  <2>1. \A g \in Callbacks : Stored(g) <=> Stored(g)'
    BY <1>1 DEF Stored
  <2>2. \A g \in Callbacks : Coming(Add(WatchedBy(g), g)) => Coming(Add(WatchedBy(g), g))'
    BY <1>2, <1>3 DEF Add
  <2>3. ASSUME NEW h \in Functions, Arming(h) PROVE Arming(h)'
    <3>1. CASE h = f
      BY <1>1, <1>5, <3>1 DEF Arming
    <3>2. CASE h # f
      <4>1. Hook(h) # todo[1]
        BY <3>2 DEF Hook
      <4> QED
        BY <1>1, <1>3, <2>3, <4>1 DEF Arming
    <3> QED
      BY <3>1, <3>2
  <2>4. \A e \in EventNames : \A k \in 1 .. n[e] : k \in 1 .. n'[e] /\ subs'[e][k] = subs[e][k]
    BY <1>1
  <2> QED
    BY <1>1, <1>3, <2>1, <2>2, <2>3, <2>4, PromisedNext
<1> QED
  BY <1>3, <1>6, <1>7 DEF RInv

LEMMA HookExpands ==
  ASSUME RInv, NEW f \in Functions, todo # <<>>, todo[1] = Hook(f),
         ~(\E k \in 1 .. nhooks : hooks[k] = f), nhooks # HookSlots,
         todo' = <<Do("table", f), Do("publish", f), Do("filter", f)>> \o Tail(todo),
         UNCHANGED <<registry, promised, pc>>
  PROVE  RInv'
<1> DEFINE x == <<Do("table", f), Do("publish", f), Do("filter", f)>>
<1>1. /\ RegistryType /\ Shape /\ Counted /\ HooksCounted /\ Booted /\ Promised
      /\ UNCHANGED <<subs, n, hooks, nhooks, traced, filter, promised, pc>>
  BY DEF RInv, registry
<1>2. x \in Seq(Ops) /\ Len(x) = 3 /\ x[1] = Do("table", f) /\ x[2] = Do("publish", f) /\ x[3] = Do("filter", f)
  BY OpsMembers
<1> HIDE DEF x
<1>3. /\ todo' \in Seq(Ops) /\ Len(todo) \in Nat \ {0} /\ Len(x) \in Nat
      /\ Len(todo') = Len(x) + Len(todo) - 1
      /\ \A k \in 1 .. Len(x) : todo'[k] = x[k]
      /\ \A k \in 1 .. Len(todo') : k > Len(x) => todo'[k] = todo[k - Len(x) + 1]
      /\ \A s : Coming(s) /\ s # todo[1] => Coming(s)'
  BY <1>1, <1>2, TodoStep DEF x
<1>4. /\ Len(todo') = Len(todo) + 2 /\ todo' # <<>>
      /\ todo'[1] = Do("table", f) /\ todo'[2] = Do("publish", f) /\ todo'[3] = Do("filter", f)
      /\ \A k \in 4 .. Len(todo') : k - 2 \in 2 .. Len(todo) /\ todo'[k] = todo[k - 2]
  BY <1>2, <1>3
<1>5. todo[1].op = "hook" /\ PlainFrom(2)
  BY <1>1 DEF Shape, Plain, Hook
<1>6. todo'[1].op = "table" /\ todo'[2].op = "publish" /\ todo'[3].op = "filter" /\ todo'[1].f = f
  BY <1>4 DEF Do
<1>7. /\ \A g : ~At1(EntryOf(g)) /\ ~At1(EntryOf(g))'
      /\ \A y : ~At1(Do("count", y)) /\ ~At1(Do("table", y)) /\ ~At1(Do("publish", y)) /\ ~At1(Do("filter", y))
      /\ \A y : ~At1(Do("count", y))' /\ ~At1(Do("publish", y))' /\ ~At1(Do("filter", y))'
      /\ \A y : At1(Do("table", y))' <=> y = f
  BY <1>4, <1>5, <1>6 DEF At1, EntryOf, Do
<1>8. RegistryType'
  BY <1>1, <1>3 DEF RegistryType
<1>9. Shape'
  <2>1. PlainFrom(4)'
    BY <1>4, <1>5 DEF PlainFrom
  <2> QED
    BY <1>3, <1>4, <1>6, <2>1 DEF Shape, Plain
<1>10. Counted'
  BY <1>1, <1>7 DEF Counted, Stored
<1>11. HooksCounted'
  <2>1. \A g : Published(g)' <=> Published(g)
    BY <1>1 DEF Published
  <2>2. nhooks < HookSlots /\ ~Published(f)
    <3>1. Len(hooks) = nhooks + 0 /\ nhooks \in Nat /\ Len(hooks) <= HookSlots
      BY <1>1, <1>7 DEF HooksCounted, RegistryType
    <3> QED
      BY <3>1, EventsAssumption DEF Published
  <2> QED
    BY <1>1, <1>7, <2>1, <2>2 DEF HooksCounted
<1>12. Booted'
  <2>1. Coming(Do("register", "ops")) => Coming(Do("register", "ops"))'
    BY <1>3, <1>5 DEF Do
  <2>2. ASSUME NEW k \in 1 .. Len(todo'), todo'[k].op = "register" PROVE k = 4
    <3>1. k \in 4 .. Len(todo')
      BY <1>3, <1>6, <2>2
    <3>2. k - 2 \in 2 .. Len(todo) /\ todo[k - 2].op = "register"
      BY <1>4, <2>2, <3>1
    <3>3. k - 2 # 1 /\ k - 2 \in 1 .. Len(todo)
      BY <1>3, <3>2
    <3>4. k - 2 = 2
      BY <1>1, <1>5, <3>2, <3>3 DEF Booted
    <3> QED
      BY <3>1, <3>4
  <2>3. pc \in DOMAIN Registrations
    BY <1>1 DEF Booted
  <2> QED
    BY <1>1, <1>6, <2>1, <2>2, <2>3 DEF Booted
<1>13. Promised'
  <2>1. \A g \in Callbacks : Stored(g) <=> Stored(g)'
    BY <1>1 DEF Stored
  <2>2. \A g \in Callbacks : Coming(Add(WatchedBy(g), g)) => Coming(Add(WatchedBy(g), g))'
    BY <1>3, <1>5 DEF Add
  <2>3. ASSUME NEW h \in Functions, Arming(h) PROVE Arming(h)'
    <3>1. CASE h = f
      BY <1>7, <3>1 DEF Arming
    <3>2. CASE h # f
      <4>1. Hook(h) # todo[1]
        BY <3>2 DEF Hook
      <4> QED
        BY <1>1, <1>3, <1>7, <2>3, <4>1 DEF Arming
    <3> QED
      BY <3>1, <3>2
  <2>4. \A e \in EventNames : \A k \in 1 .. n[e] : k \in 1 .. n'[e] /\ subs'[e][k] = subs[e][k]
    BY <1>1
  <2> QED
    BY <1>1, <1>7, <2>1, <2>2, <2>3, <2>4, PromisedNext
<1> QED
  BY <1>8, <1>9, <1>10, <1>11, <1>12, <1>13 DEF RInv


LEMMA StoreEntry ==
  ASSUME RInv, NEW fn \in Callbacks, todo # <<>>, todo[1] = EntryOf(fn),
         todo' = Tail(todo), subs' = [subs EXCEPT ![WatchedBy(fn)] = Append(@, fn)],
         UNCHANGED <<n, hooks, nhooks, traced, filter, promised, pc>>
  PROVE  RInv'
<1> DEFINE ev == WatchedBy(fn)
<1>1. /\ RegistryType /\ Shape /\ Counted /\ HooksCounted /\ Booted /\ Promised
  BY DEF RInv
<1>2. ev \in EventNames
  BY WatchedType
<1>3. todo[1].op = "entry" /\ todo[1].ev = ev
  BY DEF EntryOf
<1>4. Len(todo) >= 2 /\ todo[2] = Do("count", ev) /\ PlainFrom(3)
  BY <1>1, <1>3 DEF Shape
<1>5. /\ todo' \in Seq(Ops) /\ Len(todo) \in Nat \ {0}
      /\ Len(todo') = Len(todo) - 1
      /\ \A k \in 1 .. Len(todo') : todo'[k] = todo[k + 1] /\ k + 1 \in 1 .. Len(todo)
      /\ \A s : Coming(s) /\ s # todo[1] => Coming(s)'
  BY <1>1, TodoTail
<1>6. todo' # <<>> /\ todo'[1] = Do("count", ev) /\ PlainFrom(2)' /\ todo'[1].op = "count"
  <2>1. 1 \in 1 .. Len(todo') /\ todo' # <<>>
    <3>1. Len(todo') >= 1 /\ Len(todo') \in Nat
      BY <1>4, <1>5
    <3> QED
      BY <1>5, <3>1
  <2>2. todo'[1] = todo[2]
    BY <1>5, <2>1
  <2>3. \A k \in 2 .. Len(todo') : k \in 1 .. Len(todo') /\ k + 1 \in 3 .. Len(todo)
    BY <1>5
  <2>4. PlainFrom(2)'
    BY <1>4, <1>5, <2>3 DEF PlainFrom
  <2> QED
    BY <1>4, <2>1, <2>2, <2>4 DEF Do
<1>7. /\ \A g \in Callbacks : At1(EntryOf(g)) <=> g = fn
      /\ \A g : ~At1(EntryOf(g))'
      /\ \A y : ~At1(Do("count", y)) /\ ~At1(Do("table", y)) /\ ~At1(Do("publish", y)) /\ ~At1(Do("filter", y))
      /\ \A y : ~At1(Do("table", y))' /\ ~At1(Do("publish", y))' /\ ~At1(Do("filter", y))'
      /\ \A y : At1(Do("count", y))' <=> y = ev
  BY <1>3, <1>6 DEF At1, EntryOf, Do
<1>8. /\ subs' \in [EventNames -> Seq(Callbacks)]
      /\ \A e \in EventNames : e # ev => subs'[e] = subs[e]
      /\ Len(subs'[ev]) = Len(subs[ev]) + 1 /\ Len(subs[ev]) \in Nat
      /\ \A k \in 1 .. Len(subs[ev]) : subs'[ev][k] = subs[ev][k]
      /\ subs'[ev][Len(subs[ev]) + 1] = fn
  <2>1. subs[ev] \in Seq(Callbacks) /\ subs'[ev] = Append(subs[ev], fn) /\ subs \in [EventNames -> Seq(Callbacks)]
    BY <1>1, <1>2 DEF RegistryType
  <2>2. /\ Append(subs[ev], fn) \in Seq(Callbacks) /\ Len(Append(subs[ev], fn)) = Len(subs[ev]) + 1
        /\ \A k \in 1 .. Len(subs[ev]) : Append(subs[ev], fn)[k] = subs[ev][k]
        /\ Append(subs[ev], fn)[Len(subs[ev]) + 1] = fn
        /\ Len(subs[ev]) \in Nat
    BY <2>1
  <2> QED
    BY <1>2, <2>1, <2>2
<1>9. RegistryType'
  BY <1>1, <1>5, <1>8 DEF RegistryType
<1>10. Shape'
  BY <1>6 DEF Shape, Plain
<1>11. n[ev] < Subs /\ ~Stored(fn) /\ Len(subs[ev]) = n[ev] /\ n[ev] \in Nat
  BY <1>1, <1>2, <1>7 DEF Counted, RegistryType
<1>12. \A g \in Callbacks : Stored(g) => Stored(g)'
  <2> SUFFICES ASSUME NEW g \in Callbacks, Stored(g) PROVE Stored(g)'
    OBVIOUS
  <2>1. PICK k \in 1 .. Len(subs[WatchedBy(g)]) : subs[WatchedBy(g)][k] = g
    BY DEF Stored
  <2>2. WatchedBy(g) \in EventNames
    BY WatchedType
  <2>3. k \in 1 .. Len(subs'[WatchedBy(g)]) /\ subs'[WatchedBy(g)][k] = g
    BY <1>8, <2>1, <2>2
  <2> QED
    BY <2>3 DEF Stored
<1>13. \A g \in Callbacks : Stored(g)' => Stored(g) \/ g = fn
  <2> SUFFICES ASSUME NEW g \in Callbacks, Stored(g)', g # fn PROVE Stored(g)
    OBVIOUS
  <2>1. PICK k \in 1 .. Len(subs'[WatchedBy(g)]) : subs'[WatchedBy(g)][k] = g
    BY DEF Stored
  <2>2. WatchedBy(g) \in EventNames
    BY WatchedType
  <2>3. k \in 1 .. Len(subs[WatchedBy(g)]) /\ subs[WatchedBy(g)][k] = g
    BY <1>8, <2>1, <2>2
  <2> QED
    BY <2>3 DEF Stored
<1>14. Counted'
  <2>1. ASSUME NEW e \in EventNames
        PROVE  /\ Len(subs'[e]) = n'[e] + (IF At1(Do("count", e))' THEN 1 ELSE 0)
               /\ \A j, k \in 1 .. Len(subs'[e]) : subs'[e][j] = subs'[e][k] => j = k
               /\ \A k \in 1 .. Len(subs'[e]) : WatchedBy(subs'[e][k]) = e
               /\ Len(subs'[e]) <= Subs
    <3>1. CASE e # ev
      BY <1>1, <1>7, <1>8, <3>1 DEF Counted
    <3>2. CASE e = ev
      <4>1. Len(subs'[ev]) = n[ev] + 1 /\ Len(subs'[ev]) <= Subs
        BY <1>8, <1>11, EventsAssumption
      <4>2. \A k \in 1 .. Len(subs'[ev]) : k \in 1 .. Len(subs[ev]) \/ k = Len(subs[ev]) + 1
        BY <1>8
      <4>3. \A k \in 1 .. Len(subs[ev]) : subs[ev][k] # fn
        BY <1>11 DEF Stored
      <4>4. \A j, k \in 1 .. Len(subs[ev]) : subs[ev][j] = subs[ev][k] => j = k
        BY <1>1, <1>2 DEF Counted
      <4>5. \A j, k \in 1 .. Len(subs'[ev]) : subs'[ev][j] = subs'[ev][k] => j = k
        BY <1>8, <4>2, <4>3, <4>4
      <4>6. \A k \in 1 .. Len(subs[ev]) : WatchedBy(subs[ev][k]) = ev
        BY <1>1, <1>2 DEF Counted
      <4>7. \A k \in 1 .. Len(subs'[ev]) : WatchedBy(subs'[ev][k]) = ev
        BY <1>8, <4>2, <4>6
      <4> QED
        BY <1>7, <3>2, <4>1, <4>5, <4>7
    <3> QED
      BY <3>1, <3>2
  <2> QED
    BY <1>7, <2>1 DEF Counted
<1>15. HooksCounted'
  <2>1. \A f : Published(f)' <=> Published(f)
    BY DEF Published
  <2> QED
    BY <1>1, <1>7, <2>1 DEF HooksCounted
<1>16. Booted'
  <2>1. (\A k \in 1 .. Len(todo) : todo[k].op # "register") /\ traced /\ filter # {} /\ pc \in DOMAIN Registrations
    BY <1>1, <1>3, BootDone
  <2>2. \A k \in 1 .. Len(todo') : todo'[k].op # "register"
    BY <1>5, <2>1
  <2> QED
    BY <2>1, <2>2 DEF Booted
<1>17. Promised'
  <2>1. Stored(fn)'
    <3>1. Len(subs[ev]) + 1 \in 1 .. Len(subs'[ev])
      BY <1>8
    <3> QED
      BY <1>8, <3>1 DEF Stored
  <2>2. \A g \in Callbacks : Coming(Add(WatchedBy(g), g)) => Coming(Add(WatchedBy(g), g))'
    BY <1>3, <1>5 DEF Add
  <2>3. \A f \in Functions : Arming(f) => Arming(f)'
    BY <1>3, <1>5, <1>7 DEF Arming, Hook
  <2>4. \A e \in EventNames : \A k \in 1 .. n[e] : k \in 1 .. n'[e] /\ subs'[e][k] = subs[e][k]
    BY <1>8, <1>11
  <2>5. \A g \in Callbacks : (Stored(g)' \/ At1(EntryOf(g))') => Stored(g) \/ At1(EntryOf(g))
    BY <1>7, <1>13
  <2>6. \A g \in Callbacks : At1(EntryOf(g)) => Stored(g)'
    BY <1>7, <2>1
  <2> QED
    BY <1>12, <2>2, <2>3, <2>4, <2>5, <2>6, PromisedNext
<1> QED
  BY <1>9, <1>10, <1>14, <1>15, <1>16, <1>17 DEF RInv

LEMMA StoreCount ==
  ASSUME RInv, NEW ev \in EventNames, todo # <<>>, todo[1] = Do("count", ev),
         todo' = Tail(todo), n' = [n EXCEPT ![ev] = @ + 1],
         UNCHANGED <<subs, hooks, nhooks, traced, filter, promised, pc>>
  PROVE  RInv'
<1>1. /\ RegistryType /\ Shape /\ Counted /\ HooksCounted /\ Booted /\ Promised
  BY DEF RInv
<1>2. todo[1].op = "count"
  BY DEF Do
<1>3. /\ todo' \in Seq(Ops) /\ Len(todo) \in Nat \ {0}
      /\ Len(todo') = Len(todo) - 1
      /\ \A k \in 1 .. Len(todo') : todo'[k] = todo[k + 1] /\ k + 1 \in 1 .. Len(todo)
      /\ \A s : Coming(s) /\ s # todo[1] => Coming(s)'
      /\ PlainFrom(1)'
  BY <1>1, <1>2, TodoTail, RestPlain
<1>4. /\ Shape' /\ \A g : ~At1(EntryOf(g))'
      /\ \A x : ~At1(Do("count", x))' /\ ~At1(Do("table", x))' /\ ~At1(Do("publish", x))' /\ ~At1(Do("filter", x))'
  BY <1>3, PlainNext
<1>5. /\ \A g : ~At1(EntryOf(g))
      /\ \A y : ~At1(Do("table", y)) /\ ~At1(Do("publish", y)) /\ ~At1(Do("filter", y))
      /\ \A y : At1(Do("count", y)) <=> y = ev
  BY <1>2 DEF At1, EntryOf, Do
<1>6. n' \in [EventNames -> Nat] /\ n'[ev] = n[ev] + 1 /\ \A e \in EventNames : e # ev => n'[e] = n[e]
  BY <1>1 DEF RegistryType
<1>7. RegistryType'
  BY <1>1, <1>3, <1>6 DEF RegistryType
<1>8. Counted'
  <2>1. ASSUME NEW e \in EventNames PROVE Len(subs'[e]) = n'[e]
    <3>1. Len(subs[e]) = n[e] + (IF At1(Do("count", e)) THEN 1 ELSE 0) /\ n[e] \in Nat
      BY <1>1 DEF Counted, RegistryType
    <3> QED
      BY <1>5, <1>6, <3>1
  <2> QED
    BY <1>1, <1>4, <1>7, <2>1 DEF Counted, RegistryType
<1>9. HooksCounted'
  <2>1. \A f : Published(f)' <=> Published(f)
    BY DEF Published
  <2> QED
    BY <1>1, <1>4, <1>5, <2>1 DEF HooksCounted
<1>10. Booted'
  <2>1. (\A k \in 1 .. Len(todo) : todo[k].op # "register") /\ traced /\ filter # {} /\ pc \in DOMAIN Registrations
    BY <1>1, <1>2, BootDone
  <2>2. \A k \in 1 .. Len(todo') : todo'[k].op # "register"
    BY <1>3, <2>1
  <2> QED
    BY <2>1, <2>2 DEF Booted
<1>11. Promised'
  <2>1. \A g \in Callbacks : Stored(g)' <=> Stored(g)
    BY DEF Stored
  <2>2. \A g \in Callbacks : Coming(Add(WatchedBy(g), g)) => Coming(Add(WatchedBy(g), g))'
    BY <1>2, <1>3 DEF Add
  <2>3. \A f \in Functions : Arming(f) => Arming(f)'
    BY <1>2, <1>3, <1>5 DEF Arming, Hook
  <2>4. \A e \in EventNames : \A k \in 1 .. n[e] : k \in 1 .. n'[e] /\ subs'[e][k] = subs[e][k]
    BY <1>1, <1>6 DEF RegistryType
  <2> QED
    BY <1>4, <1>5, <2>1, <2>2, <2>3, <2>4, PromisedNext
<1> QED
  BY <1>4, <1>7, <1>8, <1>9, <1>10, <1>11 DEF RInv


LEMMA StoreTable ==
  ASSUME RInv, NEW f \in Functions, todo # <<>>, todo[1] = Do("table", f),
         todo' = Tail(todo), hooks' = Append(hooks, f),
         UNCHANGED <<subs, n, nhooks, traced, filter, promised, pc>>
  PROVE  RInv'
<1>1. /\ RegistryType /\ Shape /\ Counted /\ HooksCounted /\ Booted /\ Promised
  BY DEF RInv
<1>2. todo[1].op = "table" /\ todo[1].f = f
  BY DEF Do
<1>3. Len(todo) >= 3 /\ todo[2] = Do("publish", f) /\ todo[3] = Do("filter", f) /\ PlainFrom(4)
  BY <1>1, <1>2 DEF Shape
<1>4. /\ todo' \in Seq(Ops) /\ Len(todo) \in Nat \ {0}
      /\ Len(todo') = Len(todo) - 1
      /\ \A k \in 1 .. Len(todo') : todo'[k] = todo[k + 1] /\ k + 1 \in 1 .. Len(todo)
      /\ \A s : Coming(s) /\ s # todo[1] => Coming(s)'
  BY <1>1, TodoTail
<1>5. /\ todo' # <<>> /\ Len(todo') >= 2 /\ todo'[1] = Do("publish", f) /\ todo'[2] = Do("filter", f)
      /\ todo'[1].op = "publish" /\ todo'[1].f = f /\ todo'[2].op = "filter"
  <2>1. 1 \in 1 .. Len(todo') /\ 2 \in 1 .. Len(todo') /\ todo' # <<>> /\ Len(todo') >= 2
    BY <1>3, <1>4
  <2>2. todo'[1] = todo[2] /\ todo'[2] = todo[3]
    BY <1>4, <2>1
  <2> QED
    BY <1>3, <2>1, <2>2 DEF Do
<1>6. PlainFrom(3)'
  <2>1. \A k \in 3 .. Len(todo') : k \in 1 .. Len(todo') /\ k + 1 \in 4 .. Len(todo)
    BY <1>4
  <2> QED
    BY <1>3, <1>4, <2>1 DEF PlainFrom
<1>7. /\ \A g : ~At1(EntryOf(g)) /\ ~At1(EntryOf(g))'
      /\ \A y : ~At1(Do("count", y)) /\ ~At1(Do("publish", y)) /\ ~At1(Do("filter", y))
      /\ \A y : ~At1(Do("count", y))' /\ ~At1(Do("table", y))' /\ ~At1(Do("filter", y))'
      /\ \A y : At1(Do("table", y)) <=> y = f
      /\ \A y : At1(Do("publish", y))' <=> y = f
  BY <1>2, <1>5 DEF At1, EntryOf, Do
<1>8. /\ hooks' \in Seq(Functions) /\ Len(hooks) \in Nat /\ Len(hooks') = Len(hooks) + 1
      /\ \A k \in 1 .. Len(hooks) : hooks'[k] = hooks[k]
      /\ hooks'[Len(hooks) + 1] = f
  BY <1>1 DEF RegistryType
<1>9. RegistryType'
  BY <1>1, <1>4, <1>8 DEF RegistryType
<1>10. Shape'
  BY <1>5, <1>6 DEF Shape, Plain
<1>11. Counted'
  BY <1>1, <1>7 DEF Counted, Stored
<1>12. Len(hooks) = nhooks /\ nhooks \in Nat /\ nhooks < HookSlots /\ ~Published(f)
  BY <1>1, <1>7 DEF HooksCounted, RegistryType
<1>13. \A g : Published(g)' <=> Published(g)
  BY <1>8, <1>12 DEF Published
<1>14. HooksCounted'
  <2>1. \A k \in 1 .. Len(hooks') : k \in 1 .. Len(hooks) \/ k = Len(hooks) + 1
    BY <1>8
  <2>2. \A k \in 1 .. Len(hooks) : hooks[k] # f
    BY <1>12 DEF Published
  <2>3. \A j, k \in 1 .. Len(hooks) : hooks[j] = hooks[k] => j = k
    BY <1>1 DEF HooksCounted
  <2>4. \A j, k \in 1 .. Len(hooks') : hooks'[j] = hooks'[k] => j = k
    BY <1>8, <2>1, <2>2, <2>3
  <2>5. Len(hooks') = nhooks' + 1 /\ Len(hooks') <= HookSlots
    BY <1>8, <1>12, EventsAssumption
  <2>6. \A k \in 1 .. nhooks' : hooks'[k] \in filter'
    BY <1>1, <1>7, <1>8, <1>12 DEF HooksCounted
  <2> QED
    BY <1>1, <1>7, <1>8, <1>13, <2>4, <2>5, <2>6 DEF HooksCounted
<1>15. Booted'
  <2>1. Coming(Do("register", "ops")) => Coming(Do("register", "ops"))'
    BY <1>2, <1>4 DEF Do
  <2>2. ASSUME NEW k \in 1 .. Len(todo'), todo'[k].op = "register" PROVE k = 3
    <3>1. k + 1 \in 1 .. Len(todo) /\ todo[k + 1].op = "register" /\ k + 1 # 1 /\ k \in Nat
      BY <1>4, <2>2
    <3>2. k + 1 = 4
      BY <1>1, <1>2, <3>1 DEF Booted
    <3> QED
      BY <3>1, <3>2
  <2>3. pc \in DOMAIN Registrations
    BY <1>1 DEF Booted
  <2> QED
    BY <1>1, <1>5, <2>1, <2>2, <2>3 DEF Booted
<1>16. Promised'
  <2>1. \A g \in Callbacks : Stored(g) <=> Stored(g)'
    BY DEF Stored
  <2>2. \A g \in Callbacks : Coming(Add(WatchedBy(g), g)) => Coming(Add(WatchedBy(g), g))'
    BY <1>2, <1>4 DEF Add
  <2>3. \A h \in Functions : Arming(h) => Arming(h)'
    BY <1>2, <1>4, <1>7 DEF Arming, Hook
  <2>4. \A e \in EventNames : \A k \in 1 .. n[e] : k \in 1 .. n'[e] /\ subs'[e][k] = subs[e][k]
    OBVIOUS
  <2> QED
    BY <1>7, <2>1, <2>2, <2>3, <2>4, PromisedNext
<1> QED
  BY <1>9, <1>10, <1>11, <1>14, <1>15, <1>16 DEF RInv

LEMMA StorePublish ==
  ASSUME RInv, NEW f \in Functions, todo # <<>>, todo[1] = Do("publish", f),
         todo' = Tail(todo), nhooks' = nhooks + 1,
         UNCHANGED <<subs, n, hooks, traced, filter, promised, pc>>
  PROVE  RInv'
<1>1. /\ RegistryType /\ Shape /\ Counted /\ HooksCounted /\ Booted /\ Promised
  BY DEF RInv
<1>2. todo[1].op = "publish" /\ todo[1].f = f
  BY DEF Do
<1>3. Len(todo) >= 2 /\ todo[2] = Do("filter", f) /\ PlainFrom(3)
  BY <1>1, <1>2 DEF Shape
<1>4. /\ todo' \in Seq(Ops) /\ Len(todo) \in Nat \ {0}
      /\ Len(todo') = Len(todo) - 1
      /\ \A k \in 1 .. Len(todo') : todo'[k] = todo[k + 1] /\ k + 1 \in 1 .. Len(todo)
      /\ \A s : Coming(s) /\ s # todo[1] => Coming(s)'
  BY <1>1, TodoTail
<1>5. todo' # <<>> /\ todo'[1] = Do("filter", f) /\ todo'[1].op = "filter" /\ todo'[1].f = f
  <2>1. 1 \in 1 .. Len(todo') /\ todo' # <<>>
    BY <1>3, <1>4
  <2>2. todo'[1] = todo[2]
    BY <1>4, <2>1
  <2> QED
    BY <1>3, <2>1, <2>2 DEF Do
<1>6. PlainFrom(2)'
  <2>1. \A k \in 2 .. Len(todo') : k \in 1 .. Len(todo') /\ k + 1 \in 3 .. Len(todo)
    BY <1>4
  <2> QED
    BY <1>3, <1>4, <2>1 DEF PlainFrom
<1>7. /\ \A g : ~At1(EntryOf(g)) /\ ~At1(EntryOf(g))'
      /\ \A y : ~At1(Do("count", y)) /\ ~At1(Do("table", y)) /\ ~At1(Do("filter", y))
      /\ \A y : ~At1(Do("count", y))' /\ ~At1(Do("table", y))' /\ ~At1(Do("publish", y))'
      /\ \A y : At1(Do("publish", y)) <=> y = f
      /\ \A y : At1(Do("filter", y))' <=> y = f
  BY <1>2, <1>5 DEF At1, EntryOf, Do
<1>8. RegistryType'
  BY <1>1, <1>4 DEF RegistryType
<1>9. Shape'
  BY <1>5, <1>6 DEF Shape, Plain
<1>10. Counted'
  BY <1>1, <1>7 DEF Counted, Stored
<1>11. Len(hooks) = nhooks + 1 /\ nhooks \in Nat /\ hooks[nhooks + 1] = f
  <2>1. Len(hooks) = nhooks + 1 /\ hooks[Len(hooks)] = f
    BY <1>1, <1>7 DEF HooksCounted
  <2> QED
    BY <1>1, <2>1 DEF RegistryType
<1>12. \A g : Published(g)' <=> Published(g) \/ g = f
  <2>1. \A k \in 1 .. nhooks' : k \in 1 .. nhooks \/ k = nhooks + 1
    BY <1>11
  <2>2. nhooks + 1 \in 1 .. nhooks' /\ \A k \in 1 .. nhooks : k \in 1 .. nhooks'
    BY <1>11
  <2> QED
    BY <1>11, <2>1, <2>2 DEF Published
<1>13. HooksCounted'
  <2>1. \A k \in 1 .. nhooks' : (hooks[k] \in filter \/ At1(Do("filter", hooks[k])))'
    <3>1. \A k \in 1 .. nhooks' : k \in 1 .. nhooks \/ k = nhooks + 1
      BY <1>11
    <3>2. \A k \in 1 .. nhooks : hooks[k] \in filter
      BY <1>1, <1>7 DEF HooksCounted
    <3> QED
      BY <1>5, <1>11, <3>1, <3>2 DEF At1
  <2>2. Len(hooks') = nhooks' + 0
    BY <1>11
  <2>3. \A g \in filter' : Published(g)'
    BY <1>1, <1>12 DEF HooksCounted
  <2>4. /\ \A j, k \in 1 .. Len(hooks') : hooks'[j] = hooks'[k] => j = k
        /\ Len(hooks') <= HookSlots
    BY <1>1 DEF HooksCounted
  <2> QED
    BY <1>7, <1>12, <2>1, <2>2, <2>3, <2>4 DEF HooksCounted
<1>14. Booted'
  <2>1. Coming(Do("register", "ops")) => Coming(Do("register", "ops"))'
    BY <1>2, <1>4 DEF Do
  <2>2. ASSUME NEW k \in 1 .. Len(todo'), todo'[k].op = "register" PROVE k = 2
    <3>1. k + 1 \in 1 .. Len(todo) /\ todo[k + 1].op = "register" /\ k + 1 # 1 /\ k \in Nat
      BY <1>4, <2>2
    <3>2. k + 1 = 3
      BY <1>1, <1>2, <3>1 DEF Booted
    <3> QED
      BY <3>1, <3>2
  <2>3. pc \in DOMAIN Registrations
    BY <1>1 DEF Booted
  <2> QED
    BY <1>1, <1>5, <2>1, <2>2, <2>3 DEF Booted
<1>15. Promised'
  <2>1. \A g \in Callbacks : Stored(g) <=> Stored(g)'
    BY DEF Stored
  <2>2. \A g \in Callbacks : Coming(Add(WatchedBy(g), g)) => Coming(Add(WatchedBy(g), g))'
    BY <1>2, <1>4 DEF Add
  <2>3. \A h \in Functions : Arming(h) => Arming(h)'
    BY <1>2, <1>4, <1>7 DEF Arming, Hook
  <2>4. \A e \in EventNames : \A k \in 1 .. n[e] : k \in 1 .. n'[e] /\ subs'[e][k] = subs[e][k]
    OBVIOUS
  <2> QED
    BY <1>7, <2>1, <2>2, <2>3, <2>4, PromisedNext
<1> QED
  BY <1>8, <1>9, <1>10, <1>13, <1>14, <1>15 DEF RInv

\* The filter lets the function through, or the ops is registered.
LEMMA StoreLast ==
  ASSUME RInv, todo # <<>>, todo' = Tail(todo),
         \/ \E f \in Functions : /\ todo[1] = Do("filter", f) /\ filter' = filter \union {f}
                                 /\ UNCHANGED traced
         \/ todo[1] = Do("register", "ops") /\ traced' = TRUE /\ UNCHANGED filter,
         UNCHANGED <<subs, n, hooks, nhooks, promised, pc>>
  PROVE  RInv'
<1>1. /\ RegistryType /\ Shape /\ Counted /\ HooksCounted /\ Booted /\ Promised
  BY DEF RInv
<1>12. \/ /\ todo[1].op = "filter"
          /\ \E f \in Functions : todo[1] = Do("filter", f) /\ filter' = filter \union {f} /\ traced' = traced
       \/ todo[1].op = "register" /\ todo[1] = Do("register", "ops") /\ traced' = TRUE /\ filter' = filter
  <2>1. ASSUME NEW x, NEW y PROVE Do(x, y).op = x
    BY DEF Do
  <2> QED
    BY <2>1
<1>2. todo[1].op \in {"filter", "register"}
  BY <1>12
<1>3. /\ todo' \in Seq(Ops) /\ Len(todo) \in Nat \ {0}
      /\ Len(todo') = Len(todo) - 1
      /\ \A k \in 1 .. Len(todo') : todo'[k] = todo[k + 1] /\ k + 1 \in 1 .. Len(todo)
      /\ \A s : Coming(s) /\ s # todo[1] => Coming(s)'
      /\ PlainFrom(1)'
  BY <1>1, <1>2, TodoTail, RestPlain DEF Plain
<1>4. /\ Shape' /\ \A g : ~At1(EntryOf(g))'
      /\ \A x : ~At1(Do("count", x))' /\ ~At1(Do("table", x))' /\ ~At1(Do("publish", x))' /\ ~At1(Do("filter", x))'
  BY <1>3, PlainNext
<1>5. /\ \A g : ~At1(EntryOf(g))
      /\ \A y : ~At1(Do("table", y)) /\ ~At1(Do("publish", y)) /\ ~At1(Do("count", y))
  BY <1>2 DEF At1, EntryOf, Do
<1>6. ASSUME NEW f, At1(Do("filter", f)) PROVE f \in filter'
  <2>1. todo[1] = Do("filter", f) /\ todo[1].op = "filter" /\ todo[1].f = f
    BY <1>6 DEF At1, Do
  <2>2. PICK g \in Functions : todo[1] = Do("filter", g) /\ filter' = filter \union {g}
    BY <1>12, <2>1
  <2>3. todo[1].f = g
    BY <2>2 DEF Do
  <2> QED
    BY <2>1, <2>2, <2>3
<1>7. RegistryType'
  BY <1>1, <1>3 DEF RegistryType
<1>8. Counted'
  BY <1>1, <1>4, <1>5 DEF Counted, Stored
<1>9. HooksCounted'
  <2>1. \A f : Published(f)' <=> Published(f)
    BY DEF Published
  <2>2. filter \subseteq filter' /\ \A f \in filter' : f \in filter \/ (f \in Functions /\ At1(Do("filter", f)))
    BY DEF At1
  <2>3. \A f \in filter' : Published(f)'
    BY <1>1, <2>1, <2>2 DEF HooksCounted
  <2>4. \A k \in 1 .. nhooks' : hooks'[k] \in filter'
    BY <1>1, <1>6, <2>2 DEF HooksCounted
  <2> QED
    BY <1>1, <1>4, <1>5, <2>3, <2>4 DEF HooksCounted
<1>10. Booted'
  <2>1. filter' # {}
    <3>1. CASE todo[1].op = "filter"
      BY <1>12, <3>1
    <3>2. CASE todo[1].op = "register"
      <4>1. 1 \in 1 .. Len(todo)
        BY <1>3
      <4>2. filter # {}
        BY <1>1, <3>2, <4>1 DEF Booted
      <4> QED
        BY <1>12, <3>2, <4>2
    <3> QED
      BY <1>2, <3>1, <3>2
  <2>2. ASSUME NEW k \in 1 .. Len(todo'), todo'[k].op = "register" PROVE k = 1
    <3>1. k + 1 \in 1 .. Len(todo) /\ todo[k + 1].op = "register" /\ k + 1 # 1 /\ k \in Nat
      BY <1>3, <2>2
    <3>2. k + 1 = 2
      BY <1>1, <1>2, <3>1 DEF Booted
    <3> QED
      BY <3>1, <3>2
  <2>3. Coming(Do("register", "ops"))' \/ traced'
    <3>1. CASE todo[1].op = "filter"
      <4>1. todo[1] # Do("register", "ops")
        BY <3>1 DEF Do
      <4>2. Coming(Do("register", "ops")) \/ traced
        BY <1>1 DEF Booted
      <4>3. traced => traced'
        BY <1>12
      <4> QED
        BY <1>3, <4>1, <4>2, <4>3
    <3>2. CASE todo[1].op = "register"
      BY <1>12, <3>2
    <3> QED
      BY <1>2, <3>1, <3>2
  <2>4. pc \in DOMAIN Registrations
    BY <1>1 DEF Booted
  <2> QED
    BY <2>1, <2>2, <2>3, <2>4 DEF Booted
<1>11. Promised'
  <2>1. \A g \in Callbacks : Stored(g) <=> Stored(g)'
    BY DEF Stored
  <2>2. \A g \in Callbacks : Coming(Add(WatchedBy(g), g)) => Coming(Add(WatchedBy(g), g))'
    BY <1>2, <1>3 DEF Add
  <2>3. \A h \in Functions : Arming(h) => Arming(h)'
    <3>1. \A h \in Functions : Coming(Hook(h)) => Coming(Hook(h))'
      BY <1>2, <1>3 DEF Hook
    <3> QED
      BY <1>5, <1>6, <3>1 DEF Arming
  <2>4. \A e \in EventNames : \A k \in 1 .. n[e] : k \in 1 .. n'[e] /\ subs'[e][k] = subs[e][k]
    OBVIOUS
  <2>5. filter \subseteq filter' /\ (traced => traced')
    OBVIOUS
  <2> QED
    BY <1>4, <1>5, <2>1, <2>2, <2>3, <2>4, <2>5, PromisedNext
<1> QED
  BY <1>4, <1>7, <1>8, <1>9, <1>10, <1>11 DEF RInv


LEMMA RegisterRInv ==
  ASSUME RInv, Register
  PROVE  RInv'
<1>1. /\ todo # <<>> /\ RegistryType /\ UNCHANGED <<promised, pc>>
      /\ LET s == Head(todo) IN
         \/ s.op = "add" /\ kstep_event_add(s.ev, s.fn) /\ UNCHANGED registry
         \/ s.op = "hook" /\ kstep_hook(s.f) /\ UNCHANGED registry
         \/ Store(s) /\ todo' = Tail(todo)
  BY DEF Register, RInv
<1>2. Head(todo) = todo[1]
  BY <1>1, HeadCases
<1>3. ASSUME NEW fn \in Callbacks, todo[1] = Add(WatchedBy(fn), fn) PROVE RInv'
  <2>1. todo[1].op = "add" /\ todo[1].ev = WatchedBy(fn) /\ todo[1].fn = fn
    BY <1>3 DEF Add
  <2>2. kstep_event_add(WatchedBy(fn), fn) /\ UNCHANGED registry
    BY <1>1, <1>2, <2>1 DEF Store
  <2>3. CASE (\E k \in 1 .. n[WatchedBy(fn)] : subs[WatchedBy(fn)][k] = fn) \/ n[WatchedBy(fn)] = Subs
    <3>1. todo' = <<>> \o Tail(todo)
      BY <2>2, <2>3 DEF kstep_event_add
    <3> QED
      BY <1>1, <1>3, <2>2, <2>3, <3>1, AddSkips
  <2>4. CASE ~((\E k \in 1 .. n[WatchedBy(fn)] : subs[WatchedBy(fn)][k] = fn) \/ n[WatchedBy(fn)] = Subs)
    <3>1. todo' = Stores(WatchedBy(fn), fn) \o Tail(todo)
      BY <2>2, <2>4 DEF kstep_event_add
    <3> QED
      BY <1>1, <1>3, <2>2, <2>4, <3>1, AddStores
  <2> QED
    BY <2>3, <2>4
<1>4. ASSUME NEW f \in Functions, todo[1] = Hook(f) PROVE RInv'
  <2>1. todo[1].op = "hook" /\ todo[1].f = f
    BY <1>4 DEF Hook
  <2>2. kstep_hook(f) /\ UNCHANGED registry
    BY <1>1, <1>2, <2>1 DEF Store
  <2>3. CASE (\E k \in 1 .. nhooks : hooks[k] = f) \/ nhooks = HookSlots
    <3>1. todo' = <<>> \o Tail(todo)
      BY <2>2, <2>3 DEF kstep_hook
    <3> QED
      BY <1>1, <1>4, <2>2, <2>3, <3>1, HookSkips
  <2>4. CASE ~((\E k \in 1 .. nhooks : hooks[k] = f) \/ nhooks = HookSlots)
    <3>1. todo' = <<Do("table", f), Do("publish", f), Do("filter", f)>> \o Tail(todo)
      BY <2>2, <2>4 DEF kstep_hook
    <3> QED
      BY <1>1, <1>4, <2>2, <2>4, <3>1, HookExpands
  <2> QED
    BY <2>3, <2>4
<1>5. ASSUME todo[1].op \notin {"add", "hook"} PROVE Store(todo[1]) /\ todo' = Tail(todo)
  BY <1>1, <1>2, <1>5
<1>6. ASSUME NEW fn \in Callbacks, todo[1] = EntryOf(fn) PROVE RInv'
  <2>1. todo[1].op = "entry" /\ todo[1].ev = WatchedBy(fn) /\ todo[1].fn = fn
    BY <1>6 DEF EntryOf
  <2>2. /\ subs' = [subs EXCEPT ![WatchedBy(fn)] = Append(@, fn)] /\ todo' = Tail(todo)
        /\ UNCHANGED <<n, hooks, nhooks, traced, filter>>
    BY <1>5, <2>1 DEF Store
  <2> QED
    BY <1>1, <1>6, <2>2, StoreEntry
<1>7. ASSUME NEW ev \in EventNames, todo[1] = Do("count", ev) PROVE RInv'
  <2>1. todo[1].op = "count" /\ todo[1].f = ev
    BY <1>7 DEF Do
  <2>2. /\ n' = [n EXCEPT ![ev] = @ + 1] /\ todo' = Tail(todo)
        /\ UNCHANGED <<subs, hooks, nhooks, traced, filter>>
    BY <1>5, <2>1 DEF Store
  <2> QED
    BY <1>1, <1>7, <2>2, StoreCount
<1>8. ASSUME NEW f \in Functions, todo[1] = Do("table", f) PROVE RInv'
  <2>1. todo[1].op = "table" /\ todo[1].f = f
    BY <1>8 DEF Do
  <2>2. /\ hooks' = Append(hooks, f) /\ todo' = Tail(todo)
        /\ UNCHANGED <<subs, n, nhooks, traced, filter>>
    BY <1>5, <2>1 DEF Store
  <2> QED
    BY <1>1, <1>8, <2>2, StoreTable
<1>9. ASSUME NEW f \in Functions, todo[1] = Do("publish", f) PROVE RInv'
  <2>1. todo[1].op = "publish" /\ todo[1].f = f
    BY <1>9 DEF Do
  <2>2. /\ nhooks' = nhooks + 1 /\ todo' = Tail(todo)
        /\ UNCHANGED <<subs, n, hooks, traced, filter>>
    BY <1>5, <2>1 DEF Store
  <2> QED
    BY <1>1, <1>9, <2>2, StorePublish
<1>10. ASSUME NEW f \in Functions, todo[1] = Do("filter", f) PROVE RInv'
  <2>1. todo[1].op = "filter" /\ todo[1].f = f
    BY <1>10 DEF Do
  <2>2. /\ filter' = filter \union {f} /\ todo' = Tail(todo)
        /\ UNCHANGED <<subs, n, hooks, nhooks, traced>>
    BY <1>5, <2>1 DEF Store
  <2> QED
    BY <1>1, <1>10, <2>2, StoreLast
<1>11. ASSUME todo[1] = Do("register", "ops") PROVE RInv'
  <2>1. todo[1].op = "register"
    BY <1>11 DEF Do
  <2>2. /\ traced' = TRUE /\ todo' = Tail(todo)
        /\ UNCHANGED <<subs, n, hooks, nhooks, filter>>
    BY <1>5, <2>1 DEF Store
  <2> QED
    BY <1>1, <1>11, <2>2, StoreLast
<1> QED
  BY <1>1, <1>3, <1>4, <1>6, <1>7, <1>8, <1>9, <1>10, <1>11, HeadCases

LEMMA RegistrationNames == DOMAIN Registrations = {"setup", "sync_wakeup", "balance"}
BY DEF Registrations

\* With nothing left to do, what is stored is published and what is armed is let through.
LEMMA AllStored ==
  ASSUME RInv, todo = <<>>
  PROVE  /\ \A g \in Callbacks : Stored(g) =>
              /\ \E k \in 1 .. n[WatchedBy(g)] : subs[WatchedBy(g)][k] = g
              /\ HooksOf(WatchedBy(g)) \subseteq filter
         /\ traced
         /\ pc \in DOMAIN Registrations => \A k \in 1 .. Len(Registrations[pc]) : Stored(Registrations[pc][k].fn)
<1>1. (\A s : ~Coming(s) /\ ~At1(s)) /\ Len(todo) = 0
  BY DEF Coming, At1
<1>2. traced
  BY <1>1 DEF RInv, Booted
<1>3. \A e \in EventNames : Len(subs[e]) = n[e]
  BY <1>1 DEF RInv, RegistryType, Counted
<1>4. \A f : Arming(f) => f \in filter
  BY <1>1 DEF Arming
<1>5. \A g \in Callbacks : Stored(g) =>
        /\ \E k \in 1 .. n[WatchedBy(g)] : subs[WatchedBy(g)][k] = g
        /\ HooksOf(WatchedBy(g)) \subseteq filter
  BY <1>3, <1>4, WatchedType DEF Stored, RInv, Promised
<1>6. pc \in DOMAIN Registrations => \A k \in 1 .. Len(Registrations[pc]) : Stored(Registrations[pc][k].fn)
  BY <1>1 DEF RInv, Promised
<1> QED
  BY <1>2, <1>5, <1>6

\* Steps that leave the registry alone.
LEMMA RegistryKept ==
  ASSUME RInv, UNCHANGED <<todo, registry>>, promised' \subseteq Callbacks,
         pc' \in DOMAIN Registrations => pc' = pc,
         pc' \notin DOMAIN Registrations => todo = <<>>,
         \A g \in promised' \ promised : todo = <<>> /\ Stored(g)
  PROVE  RInv'
<1>1. /\ RegistryType /\ Shape /\ Counted /\ HooksCounted /\ Booted /\ Promised
      /\ UNCHANGED <<todo, subs, n, hooks, nhooks, traced, filter>>
  BY DEF RInv, registry
<1>2. RegistryType'
  BY <1>1 DEF RegistryType
<1>3. Shape'
  BY <1>1 DEF Shape, PlainFrom
<1>4. Counted'
  BY <1>1 DEF Counted, Stored, At1
<1>5. HooksCounted'
  BY <1>1 DEF HooksCounted, Published, At1
<1>6. Booted'
  BY <1>1 DEF Booted, Coming
<1>7. /\ \A g : (Stored(g)' <=> Stored(g)) /\ (At1(g)' <=> At1(g)) /\ (Coming(g)' <=> Coming(g))
  BY <1>1 DEF Stored, At1, Coming
<1>8. \A f : Arming(f)' <=> Arming(f)
  BY <1>1, <1>7 DEF Arming
<1>9. Promised'
  <2>1. \A g \in promised' :
          /\ \E k \in 1 .. n'[WatchedBy(g)] : subs'[WatchedBy(g)][k] = g
          /\ HooksOf(WatchedBy(g)) \subseteq filter'
          /\ traced'
    BY <1>1, AllStored DEF Promised
  <2>2. ASSUME pc' \in DOMAIN Registrations, NEW k \in 1 .. Len(Registrations[pc'])
        PROVE  (LET fn == Registrations[pc][k].fn IN
                  Stored(fn) \/ Coming(Add(WatchedBy(fn), fn)) \/ At1(EntryOf(fn)))'
    <3>1. pc' = pc
      BY <2>2
    <3>2. PICK fn : fn = Registrations[pc][k].fn
      OBVIOUS
    <3>3. Stored(fn) \/ Coming(Add(WatchedBy(fn), fn)) \/ At1(EntryOf(fn))
      BY <1>1, <2>2, <3>1, <3>2 DEF Promised
    <3>4. Stored(fn)' \/ Coming(Add(WatchedBy(fn), fn))' \/ At1(EntryOf(fn))'
      BY <1>7, <3>3
    <3> QED
      BY <3>1, <3>2, <3>4
  <2>3. \A fn \in Callbacks : (Stored(fn) \/ At1(EntryOf(fn)))' => \A f \in HooksOf(WatchedBy(fn)) : Arming(f)'
    BY <1>1, <1>7, <1>8 DEF Promised
  <2> QED
    BY <2>1, <2>2, <2>3 DEF Promised
<1> QED
  BY <1>2, <1>3, <1>4, <1>5, <1>6, <1>9 DEF RInv

LEMMA RegisteringRInv ==
  ASSUME RInv, Registering
  PROVE  RInv'
<1>1. /\ pc \in DOMAIN Registrations /\ todo = <<>>
      /\ promised' = promised \union {Registrations[pc][k].fn : k \in 1 .. Len(Registrations[pc])}
      /\ pc' \in {"ready", "settle"} /\ UNCHANGED <<todo, registry>>
  BY DEF Registering
<1>2. \A k \in 1 .. Len(Registrations[pc]) : Registrations[pc][k].fn \in Callbacks
  <2> SUFFICES ASSUME NEW k \in 1 .. Len(Registrations[pc]) PROVE Registrations[pc][k].fn \in Callbacks
    OBVIOUS
  <2>1. PICK fn \in Callbacks : Registrations[pc][k] = Add(WatchedBy(fn), fn)
    BY <1>1, RegistrationsType
  <2> QED
    BY <2>1 DEF Add
<1>3. \A k \in 1 .. Len(Registrations[pc]) : Stored(Registrations[pc][k].fn)
  BY <1>1, AllStored
<1>4. pc' \notin DOMAIN Registrations
  BY <1>1, RegistrationNames
<1>5. promised \subseteq Callbacks
  BY DEF RInv, RegistryType
<1> QED
  BY <1>1, <1>2, <1>3, <1>4, <1>5, RegistryKept

LEMMA EnableRInv ==
  ASSUME RInv, NEW name \in {"sync_wakeup", "balance"}, kstep_check_enable(name)
  PROVE  RInv'
<1>1. /\ pc = "ready" /\ pc' = name /\ todo' = Registrations[name]
      /\ UNCHANGED <<subs, n, hooks, nhooks, traced, filter, promised>>
  BY DEF kstep_check_enable, registry
<1>2. name \in DOMAIN Registrations /\ todo = <<>>
  BY <1>1, RegistrationNames DEF RInv, Booted
<1>3. /\ RegistryType /\ Shape /\ Counted /\ HooksCounted /\ Booted /\ Promised
  BY DEF RInv
<1>4. /\ Registrations[name] \in Seq(Ops)
      /\ \A k \in 1 .. Len(Registrations[name]) :
           \E fn \in Callbacks : Registrations[name][k] = Add(WatchedBy(fn), fn)
  BY <1>2, RegistrationsType
<1>5. ASSUME NEW k \in 1 .. Len(todo') PROVE todo'[k].op = "add"
  <2>1. PICK fn \in Callbacks : todo'[k] = Add(WatchedBy(fn), fn)
    BY <1>1, <1>4
  <2> QED
    BY <2>1 DEF Add
<1>6. todo' \in Seq(Ops) /\ PlainFrom(1)'
  BY <1>1, <1>4, <1>5 DEF PlainFrom, Plain
<1>7. /\ Shape' /\ \A g : ~At1(EntryOf(g))'
      /\ \A x : ~At1(Do("count", x))' /\ ~At1(Do("table", x))' /\ ~At1(Do("publish", x))' /\ ~At1(Do("filter", x))'
  BY <1>6, PlainNext
<1>8. Len(todo) = 0 /\ \A s : ~At1(s) /\ ~Coming(s)
  BY <1>2 DEF At1, Coming
<1>9. RegistryType'
  BY <1>1, <1>3, <1>6 DEF RegistryType
<1>10. Counted'
  BY <1>1, <1>3, <1>7, <1>8 DEF Counted, Stored
<1>11. HooksCounted'
  <2>1. \A f : Published(f)' <=> Published(f)
    BY <1>1 DEF Published
  <2> QED
    BY <1>1, <1>3, <1>7, <1>8, <2>1 DEF HooksCounted
<1>12. Booted'
  <2>1. traced
    BY <1>3, <1>8 DEF Booted
  <2> QED
    BY <1>1, <1>2, <1>3, <1>5, <2>1 DEF Booted
<1>13. Promised'
  <2>1. ASSUME NEW k \in 1 .. Len(Registrations[pc'])
        PROVE  (LET fn == Registrations[pc][k].fn IN Coming(Add(WatchedBy(fn), fn)))'
    <3>1. PICK fn \in Callbacks : Registrations[name][k] = Add(WatchedBy(fn), fn)
      BY <1>1, <1>4, <2>1
    <3>2. Registrations[pc'][k].fn = fn /\ todo'[k] = Add(WatchedBy(fn), fn) /\ k \in 1 .. Len(todo')
      BY <1>1, <2>1, <3>1 DEF Add
    <3>3. Coming(Add(WatchedBy(fn), fn))'
      BY <3>2 DEF Coming
    <3> QED
      BY <3>2, <3>3
  <2>2. ASSUME NEW fn \in Callbacks, (Stored(fn) \/ At1(EntryOf(fn)))', NEW f \in HooksOf(WatchedBy(fn)) PROVE Arming(f)'
    <3>1. Stored(fn)
      BY <1>1, <1>7, <2>2 DEF Stored
    <3>2. Arming(f)
      BY <1>3, <3>1, <2>2 DEF Promised
    <3> QED
      BY <1>1, <1>8, <3>2 DEF Arming
  <2>3. \A g \in promised' :
          /\ \E k \in 1 .. n'[WatchedBy(g)] : subs'[WatchedBy(g)][k] = g
          /\ HooksOf(WatchedBy(g)) \subseteq filter'
          /\ traced'
    BY <1>1, <1>3 DEF Promised
  <2> QED
    BY <2>1, <2>2, <2>3 DEF Promised
<1> QED
  BY <1>7, <1>9, <1>10, <1>11, <1>12, <1>13 DEF RInv

-----------------------------------------------------------------------------
(* KInv: steps of the controller *)

LEMMA PathSteps ==
  ASSUME NEW p \in Paths, p # <<>>
  PROVE  /\ Head(p) \in Functions \union {"enqueue"}
         /\ Head(p) = "enqueue" => Len(p) = 1
         /\ Len(p) # 1 => /\ Tail(p) \in Paths /\ Tail(p) # <<>>
                          /\ Head(Tail(p)) \notin {"select_task_rq_fair", "sched_balance_rq"}
                          /\ Head(Tail(p)) = "sched_balance_find_src_group" => Head(p) = "sched_balance_rq"
<1> USE DEF Functions
<1>1. CASE Len(p) = 1
  <2>1. Head(p) = p[1]
    BY <1>1
  <2> QED
    BY <1>1, <2>1 DEF Paths
<1>2. CASE p = <<"select_task_rq_fair", "enqueue">>
  <2>1. Head(p) = "select_task_rq_fair" /\ Tail(p) = <<"enqueue">> /\ Len(p) = 2
    BY <1>2
  <2> QED
    BY <2>1 DEF Paths
<1>3. CASE p = <<"select_task_rq_fair", "set_task_cpu", "enqueue">>
  <2>1. Head(p) = "select_task_rq_fair" /\ Tail(p) = <<"set_task_cpu", "enqueue">> /\ Len(p) = 3
    BY <1>3
  <2> QED
    BY <2>1 DEF Paths
<1>4. CASE p = <<"set_task_cpu", "enqueue">>
  <2>1. Head(p) = "set_task_cpu" /\ Tail(p) = <<"enqueue">> /\ Len(p) = 2
    BY <1>4
  <2> QED
    BY <2>1 DEF Paths
<1>5. CASE p = <<"sched_balance_rq", "sched_balance_find_src_group">>
  <2>1. Head(p) = "sched_balance_rq" /\ Tail(p) = <<"sched_balance_find_src_group">> /\ Len(p) = 2
    BY <1>5
  <2> QED
    BY <2>1 DEF Paths
<1>6. CASE p = <<"sched_balance_rq", "sched_balance_find_src_group", "set_task_cpu">>
  <2>1. /\ Head(p) = "sched_balance_rq" /\ Len(p) = 3
        /\ Tail(p) = <<"sched_balance_find_src_group", "set_task_cpu">>
    BY <1>6
  <2> QED
    BY <2>1 DEF Paths
<1>7. CASE p = <<"sched_balance_find_src_group", "set_task_cpu">>
  <2>1. Head(p) = "sched_balance_find_src_group" /\ Tail(p) = <<"set_task_cpu">> /\ Len(p) = 2
    BY <1>7
  <2> QED
    BY <2>1 DEF Paths
<1> QED
  BY <1>1, <1>2, <1>3, <1>4, <1>5, <1>6, <1>7 DEF Paths

LEMMA EventNamesOf ==
  ASSUME NEW f \in Functions \union {"enqueue"}, NEW ev \in EventNames, EventOf(f) = ev
  PROVE  f \in HooksOf(ev) /\ f \in Functions /\ ev # "settle"
<1>1. CASE f = "select_task_rq_fair"
  BY <1>1 DEF EventOf, EventNames, HooksOf, Hooks, Functions
<1>2. CASE f = "sched_balance_find_src_group"
  BY <1>2 DEF EventOf, EventNames, HooksOf, Hooks, Functions
<1>3. CASE f = "set_task_cpu"
  BY <1>3 DEF EventOf, EventNames, HooksOf, Hooks, Functions
<1> QED
  BY <1>1, <1>2, <1>3 DEF EventOf, EventNames, Functions

LEMMA NoneTypes == NoRun \in RunType /\ NoCall \in CallType /\ NoRun.path = <<>> /\ NoCall.ev = "none"
BY EventsAssumption DEF NoRun, NoCall, RunType, CallType, Paths

LEMMA ReturnedOK ==
  ASSUME KernelType, NEW c \in Cpus, run[c].path # <<>>
  PROVE  /\ Returned(c) \in RunType
         /\ Returned(c).path = <<>> => Returned(c) = NoRun
         /\ Returned(c).owed \subseteq run[c].owed
         /\ Returned(c).path # <<>> =>
              /\ Head(Returned(c).path) \notin {"select_task_rq_fair", "sched_balance_rq"}
              /\ Head(Returned(c).path) = "sched_balance_find_src_group" =>
                   Head(run[c].path) = "sched_balance_rq" /\ Returned(c).dst = run[c].dst
<1>1. run[c] \in RunType /\ run[c].path \in Paths
  BY DEF KernelType, RunType
<1>2. CASE Len(run[c].path) = 1
  <2>1. Returned(c) = NoRun
    BY <1>2 DEF Returned
  <2>2. NoRun.owed = {}
    BY DEF NoRun
  <2> QED
    BY <2>1, <2>2, NoneTypes
<1>3. CASE Len(run[c].path) # 1
  <2>1. Returned(c) = [run[c] EXCEPT !.path = Tail(run[c].path)]
    BY <1>3 DEF Returned
  <2>2. /\ Tail(run[c].path) \in Paths /\ Tail(run[c].path) # <<>>
        /\ Head(Tail(run[c].path)) \notin {"select_task_rq_fair", "sched_balance_rq"}
        /\ Head(Tail(run[c].path)) = "sched_balance_find_src_group" => Head(run[c].path) = "sched_balance_rq"
    BY <1>1, <1>3, PathSteps
  <2>3. /\ Returned(c) \in RunType /\ Returned(c).path = Tail(run[c].path)
        /\ Returned(c).owed = run[c].owed /\ Returned(c).dst = run[c].dst
    BY <1>1, <2>1, <2>2 DEF RunType
  <2> QED
    BY <2>2, <2>3
<1> QED
  BY <1>2, <1>3

\* A CPU and its call that a step leaves alone.
LEMMA CpuKept ==
  ASSUME KernelType, NEW c \in Cpus, CpuOK(c), run'[c] = run[c], call'[c] = call[c], stash'[c] = stash[c],
         running => running', traced => traced', filter \subseteq filter', promised \subseteq promised',
         budget' <= budget, budget' \in Nat
  PROVE  CpuOK(c)'
<1>1. run[c].id \in Nat /\ budget \in Nat
  BY EventsAssumption DEF KernelType, RunType
<1> QED
  BY <1>1 DEF CpuOK, In

LEMMA CallKept ==
  ASSUME KernelType, RInv, RInv', NEW c \in 0 .. NCpus, CallOK(c), call'[c] = call[c],
         \A e \in EventNames : n[e] <= n'[e]
  PROVE  CallOK(c)'
<1>1. /\ call[c] \in CallType
      /\ \A e \in EventNames : n[e] \in Nat /\ n'[e] \in Nat
  BY DEF KernelType, CallType, RInv, RegistryType
<1> QED
  BY <1>1 DEF CallOK, CallType

\* The event has gone on to its next entry, or is over and the function has returned.
LEMMA NextEntry ==
  ASSUME KernelType, KInv, NEW c \in Cpus, call[c] # NoCall, Next_i(c)
  PROVE  /\ pc' = pc
         /\ run' \in [Cpus -> RunType] /\ call' \in [0 .. NCpus -> CallType]
         /\ \A d \in Cpus : d # c => run'[d] = run[d]
         /\ \A d \in 0 .. NCpus : d # c => call'[d] = call[d]
         /\ call'[c].slot = 0
         /\ run[c].path # <<>>
         /\ \/ /\ call[c].i < call[c].n /\ call'[c] = [call[c] EXCEPT !.i = call[c].i + 1, !.slot = 0, !.left = 0] /\ run'[c] = run[c]
            \/ ~(call[c].i < call[c].n) /\ call'[c] = NoCall /\ run'[c] = Returned(c)
<1>1. /\ c \in 0 .. NCpus /\ c # 0 /\ call \in [0 .. NCpus -> CallType] /\ run \in [Cpus -> RunType]
  BY EventsAssumption DEF KernelType, Cpus
<1>2. call[c].ev # "none" /\ run[c].path # <<>>
  <2>1. CallOK(c) /\ CpuOK(c)
    BY <1>1 DEF KInv
  <2> QED
    BY <2>1 DEF CallOK, CpuOK
<1>3. Returned(c) \in RunType
  BY <1>2, ReturnedOK
<1>4. [call[c] EXCEPT !.i = call[c].i + 1, !.slot = 0, !.left = 0] \in CallType
  <2>1. call[c] \in CallType /\ 0 \in 0 .. Wakeups
    BY <1>1, EventsAssumption
  <2>2. call[c].i + 1 \in Nat
    BY <2>1 DEF CallType
  <2> QED
    BY <2>1, <2>2 DEF CallType
<1>5. CASE call[c].i < call[c].n
  <2>1. /\ call' = [call EXCEPT ![c] = [call[c] EXCEPT !.i = call[c].i + 1, !.slot = 0, !.left = 0]]
        /\ run' = run /\ pc' = pc
    <3>1. ~(~(call[c].i < call[c].n) /\ c # 0) /\ ~(~(call[c].i < call[c].n) /\ c = 0)
      BY <1>5
    <3> QED
      BY <1>5, <3>1, Zenon DEF Next_i
  <2>2. call'[c] = [call[c] EXCEPT !.i = call[c].i + 1, !.slot = 0, !.left = 0]
    BY <1>1, <2>1
  <2>3. call'[c].slot = 0
    BY <1>1, <2>2 DEF CallType
  <2> QED
    BY <1>1, <1>2, <1>4, <1>5, <2>1, <2>2, <2>3
<1>6. CASE ~(call[c].i < call[c].n)
  <2>1. /\ call' = [call EXCEPT ![c] = NoCall]
        /\ run' = [run EXCEPT ![c] = Returned(c)] /\ pc' = pc
    BY <1>1, <1>6 DEF Next_i
  <2>2. NoCall.slot = 0
    BY DEF NoCall
  <2> QED
    BY <1>1, <1>2, <1>3, <1>6, <2>1, <2>2, NoneTypes
<1> QED
  BY <1>5, <1>6

LEMMA RegisterGrows ==
  ASSUME RInv, Register
  PROVE  /\ \A e \in EventNames : n[e] <= n'[e] /\ n[e] \in Nat /\ n'[e] \in Nat
         /\ filter \subseteq filter' /\ (traced => traced')
         /\ pc \in DOMAIN Registrations
<1>1. n \in [EventNames -> Nat] /\ todo # <<>>
  BY DEF RInv, RegistryType, Register
<1>2. pc \in DOMAIN Registrations
  BY <1>1 DEF RInv, Booted
<1>3. filter \subseteq filter' /\ (traced => traced')
  BY DEF Register, Store, registry
<1>4. n' = n \/ \E x : n' = [n EXCEPT ![x] = @ + 1]
  BY DEF Register, Store, registry
<1>5. \A e \in EventNames : n[e] <= n'[e] /\ n[e] \in Nat /\ n'[e] \in Nat
  BY <1>1, <1>4
<1> QED
  BY <1>2, <1>3, <1>5

LEMMA KeptHistory ==
  ASSUME KInv, UNCHANGED <<wild, missed, unheard>>
  PROVE  PublishedFirst' /\ HeardOnce'
BY DEF KInv, PublishedFirst, HeardOnce

\* Steps of the controller that touch neither the CPUs nor a call.
LEMMA ControlK ==
  ASSUME RInv, RInv', KernelType, KInv, UNCHANGED <<run, call, stash, wild, missed, unheard>>,
         running => running', traced => traced', filter \subseteq filter', promised \subseteq promised',
         budget' <= budget, budget' \in Nat, \A e \in EventNames : n[e] <= n'[e],
         pc # "emit", pc' # "emit"
  PROVE  KInv'
<1>1. \A c \in Cpus : CpuOK(c)'
  BY CpuKept DEF KInv
<1>2. \A c \in 0 .. NCpus : CallOK(c)'
  BY CallKept DEF KInv
<1>3. Emitting'
  BY DEF KInv, Emitting
<1>4. OwnIds'
  BY DEF KInv, OwnIds, In
<1> QED
  BY <1>1, <1>2, <1>3, <1>4, KeptHistory DEF KInv

LEMMA RegisterK ==
  ASSUME RInv, RInv', KernelType, KInv, Register
  PROVE  KernelType' /\ KInv'
<1>1. /\ \A e \in EventNames : n[e] <= n'[e]
      /\ filter \subseteq filter' /\ (traced => traced') /\ pc \in DOMAIN Registrations
  BY RegisterGrows
<1>2. UNCHANGED <<pc, scan, running, stash, work, run, budget, call, npending, pending, refs, promised,
                  wild, missed, unheard, torn, chained>>
  BY DEF Register, kernel, samples, history
<1>3. KernelType'
  BY <1>2 DEF KernelType
<1>4. pc # "emit" /\ budget' <= budget /\ budget' \in Nat
  BY <1>1, <1>2, RegistrationNames, EventsAssumption DEF KernelType
<1> QED
  BY <1>1, <1>2, <1>3, <1>4, ControlK

LEMMA RegisteringK ==
  ASSUME RInv, RInv', KernelType, KInv, Registering
  PROVE  KernelType' /\ KInv'
<1>1. /\ UNCHANGED <<stash, work, run, budget, call, npending, pending, refs, subs, n, hooks, nhooks, traced, filter,
                     wild, missed, unheard, torn, chained>>
      /\ pc \in DOMAIN Registrations /\ pc' \in {"ready", "settle"} /\ scan' = 1 /\ running' = TRUE
      /\ promised \subseteq promised'
  BY DEF Registering, kernel, samples, history, registry
<1>2. 1 \in Cpus
  BY EventsAssumption DEF Cpus
<1>3. KernelType'
  BY <1>1, <1>2 DEF KernelType
<1>4. pc # "emit" /\ pc' # "emit" /\ budget' <= budget /\ budget' \in Nat
  BY <1>1, RegistrationNames, EventsAssumption DEF KernelType
<1>5. \A e \in EventNames : n[e] <= n'[e]
  BY <1>1 DEF RInv, RegistryType
<1> QED
  BY <1>1, <1>3, <1>4, <1>5, ControlK

LEMMA EnableK ==
  ASSUME RInv, RInv', KernelType, KInv, NEW name \in {"sync_wakeup", "balance"}, kstep_check_enable(name)
  PROVE  KernelType' /\ KInv'
<1>1. /\ UNCHANGED <<stash, work, run, budget, call, npending, pending, refs, subs, n, hooks, nhooks, traced, filter,
                     wild, missed, unheard, torn, chained, scan, running, promised>>
      /\ pc = "ready" /\ pc' = name
  BY DEF kstep_check_enable, kernel, samples, history, registry
<1>2. name \in DOMAIN Registrations
  BY RegistrationNames
<1>3. KernelType'
  BY <1>1, <1>2 DEF KernelType
<1>4. pc # "emit" /\ pc' # "emit" /\ budget' <= budget /\ budget' \in Nat
  BY <1>1, EventsAssumption DEF KernelType
<1>5. \A e \in EventNames : n[e] <= n'[e]
  BY <1>1 DEF RInv, RegistryType
<1> QED
  BY <1>1, <1>3, <1>4, <1>5, ControlK

LEMMA CommandK ==
  ASSUME RInv, RInv', KernelType, KInv, NEW S \in SUBSET Cpus, Cardinality(S) <= budget, Command(S)
  PROVE  KernelType' /\ KInv'
<1>1. /\ UNCHANGED <<stash, run, call, npending, pending, refs, subs, n, hooks, nhooks, traced, filter,
                     wild, missed, unheard, torn, chained, running, promised>>
      /\ pc = "ready" /\ pc' = "settle" /\ scan' = 1
      /\ work' = [c \in Cpus |-> IF c \in S THEN work[c] + 1 ELSE work[c]]
      /\ budget' = budget - Cardinality(S)
  BY DEF Command, samples, history, registry
<1>2. 1 \in Cpus
  BY EventsAssumption DEF Cpus
<1>3. Cardinality(S) \in Nat
  <2>1. IsFiniteSet(Cpus)
    BY FS_Interval, EventsAssumption DEF Cpus
  <2> QED
    BY <2>1, FS_Subset, FS_CardinalityType
<1>4. budget' \in 0 .. MaxWork /\ budget' <= budget /\ budget' \in Nat
  BY <1>1, <1>3, EventsAssumption DEF KernelType
<1>5. work' \in [Cpus -> Nat]
  BY <1>1 DEF KernelType
<1>6. KernelType'
  BY <1>1, <1>2, <1>4, <1>5 DEF KernelType
<1>7. \A e \in EventNames : n[e] <= n'[e]
  BY <1>1 DEF RInv, RegistryType
<1> QED
  BY <1>1, <1>4, <1>6, <1>7, ControlK

-----------------------------------------------------------------------------
(* KInv: steps of a test CPU *)

\* A step of one CPU, which leaves the controller and the registry alone.
LEMMA CpuStepK ==
  ASSUME RInv, KernelType, KInv, NEW c \in Cpus,
         UNCHANGED <<pc, running, todo, registry, promised>>, budget' <= budget, budget' \in Nat,
         \A d \in Cpus : d # c => run'[d] = run[d] /\ stash'[d] = stash[d],
         \A d \in 0 .. NCpus : d # c => call'[d] = call[d],
         CpuOK(c)', CallOK(c)',
         (In(c, "select_task_rq_fair"))' =>
            \/ In(c, "select_task_rq_fair") /\ run'[c].id = run[c].id
            \/ \A d \in Cpus : d # c /\ In(d, "select_task_rq_fair") => run[d].id # run'[c].id,
         PublishedFirst', HeardOnce'
  PROVE  RInv' /\ KInv'
<1>1. UNCHANGED <<subs, n, hooks, nhooks, traced, filter>> /\ Cpus \subseteq 0 .. NCpus /\ 0 \notin Cpus
  BY EventsAssumption DEF registry, Cpus
<1>2. RInv'
  <2>1. promised' \subseteq Callbacks /\ (pc \notin DOMAIN Registrations => todo = <<>>)
    BY DEF RInv, RegistryType, Booted
  <2> QED
    BY <2>1, RegistryKept
<1>3. \A d \in Cpus : CpuOK(d)'
  <2> SUFFICES ASSUME NEW d \in Cpus, d # c PROVE CpuOK(d)'
    OBVIOUS
  <2>1. CpuOK(d) /\ call'[d] = call[d]
    BY <1>1 DEF KInv
  <2> QED
    BY <1>1, <2>1, CpuKept
<1>4. \A d \in 0 .. NCpus : CallOK(d)'
  <2> SUFFICES ASSUME NEW d \in 0 .. NCpus, d # c PROVE CallOK(d)'
    OBVIOUS
  <2>1. CallOK(d) /\ \A e \in EventNames : n[e] <= n'[e]
    BY <1>1 DEF KInv, RInv, RegistryType
  <2> QED
    BY <1>2, <2>1, CallKept
<1>5. Emitting'
  <2>1. 0 \in 0 .. NCpus /\ 0 # c
    BY <1>1, EventsAssumption
  <2> QED
    BY <1>1, <2>1 DEF KInv, Emitting
<1>6. OwnIds'
  BY DEF KInv, OwnIds, In
<1> QED
  BY <1>2, <1>3, <1>4, <1>5, <1>6 DEF KInv

LEMMA BeginK ==
  ASSUME RInv, KernelType, KInv, NEW c \in Cpus, Begin(c)
  PROVE  RInv' /\ KernelType' /\ KInv'
<1>1. /\ work[c] > 0 /\ run[c] = NoRun /\ work' = [work EXCEPT ![c] = @ - 1]
      /\ UNCHANGED <<pc, todo, scan, running, registry, stash, call, samples, promised, history, chained>>
      /\ UNCHANGED <<wild, missed, unheard, torn, npending, pending, refs, traced, filter>>
  BY DEF Begin, history, samples, registry
<1>2. PublishedFirst' /\ HeardOnce'
  BY <1>1, KeptHistory
<1>3. budget \in 0 .. MaxWork /\ run \in [Cpus -> RunType] /\ work' \in [Cpus -> Nat] /\ c \in 0 .. NCpus
  BY <1>1, EventsAssumption DEF KernelType, Cpus
<1>4. CpuOK(c) /\ CallOK(c) /\ call[c].ev = "none"
  BY <1>1, <1>3, NoneTypes DEF KInv, CpuOK
<1>5. CallOK(c)'
  BY <1>1, <1>4 DEF CallOK
<1>6. CASE UNCHANGED <<run, budget>>
  <2>1. CpuOK(c)'
    BY <1>1, <1>4, <1>6 DEF CpuOK, In
  <2>2. KernelType'
    BY <1>1, <1>3, <1>6 DEF KernelType
  <2>3. budget' <= budget /\ budget' \in Nat
    BY <1>3, <1>6, EventsAssumption
  <2> QED
    BY <1>1, <1>2, <1>5, <1>6, <2>1, <2>2, <2>3, CpuStepK DEF In
<1>7. ASSUME NEW p \in WakePaths \union BalancePaths, NEW dst \in 0 .. NCpus, NEW id \in 0 .. MaxWork,
             NEW owed \in {promised, {}},
             run' = [run EXCEPT ![c] = [path |-> p, dst |-> dst, id |-> id, owed |-> owed]],
             \/ p \in WakePaths /\ id = budget /\ budget > 0 /\ budget' = budget - 1
             \/ p \in BalancePaths /\ dst \in Cpus /\ budget' = budget
      PROVE  RInv' /\ KernelType' /\ KInv'
  <2> DEFINE r == [path |-> p, dst |-> dst, id |-> id, owed |-> owed]
  <2>1. /\ p \in Paths /\ p # <<>>
        /\ p \in WakePaths => Head(p) = "select_task_rq_fair"
        /\ p \in BalancePaths => Head(p) = "sched_balance_rq"
    BY DEF WakePaths, BalancePaths, Paths
  <2>2. promised \subseteq Callbacks
    BY DEF RInv, RegistryType
  <2>3. r \in RunType
    BY <2>1, <2>2 DEF RunType
  <2>4. run' \in [Cpus -> RunType] /\ run'[c] = r /\ \A d \in Cpus : d # c => run'[d] = run[d]
    BY <1>3, <1>7, <2>3
  <2>5. run'[c].path = p /\ run'[c].dst = dst /\ run'[c].id = id /\ run'[c].owed = owed
    BY <2>4
  <2>6. budget' \in 0 .. MaxWork /\ budget' <= budget /\ budget' \in Nat /\ budget \in Nat
    BY <1>3, <1>7, EventsAssumption
  <2>7. KernelType'
    BY <1>1, <1>3, <2>4, <2>6 DEF KernelType
  <2>8. CpuOK(c)'
    <3>1. (In(c, "sched_balance_rq"))' => p \in BalancePaths
      BY <2>1, <2>5, <1>7 DEF In
    <3>2. (In(c, "select_task_rq_fair"))' => p \in WakePaths
      BY <2>1, <2>5, <1>7 DEF In
    <3>3. ~(In(c, "sched_balance_find_src_group"))'
      BY <2>1, <2>5, <1>7 DEF In
    <3>4. p \in WakePaths => id > budget'
      <4>1. p \in WakePaths => Head(p) # "sched_balance_rq"
        BY <2>1
      <4>2. p \in WakePaths => p \notin BalancePaths
        BY <4>1, <2>1
      <4> QED
        BY <4>2, <1>7, <2>6
    <3>5. p \in BalancePaths => dst \in Cpus
      <4>1. p \in BalancePaths => Head(p) # "select_task_rq_fair"
        BY <2>1
      <4>2. p \in BalancePaths => p \notin WakePaths
        BY <4>1, <2>1
      <4> QED
        BY <4>2, <1>7
    <3>6. call'[c].ev = "none" /\ UNCHANGED <<stash, running, promised, traced, filter>>
      BY <1>1, <1>4
    <3>7. stash[c] # 0 => running /\ traced /\ "sched_balance_rq" \in filter
      BY <1>4 DEF CpuOK
    <3>8. owed \subseteq promised'
      BY <1>1
    <3> QED
      BY <2>1, <2>5, <3>1, <3>2, <3>3, <3>4, <3>5, <3>6, <3>7, <3>8 DEF CpuOK
  <2>9. (In(c, "select_task_rq_fair"))' => \A d \in Cpus : d # c /\ In(d, "select_task_rq_fair") => run[d].id # run'[c].id
    <3> SUFFICES ASSUME (In(c, "select_task_rq_fair"))', NEW d \in Cpus, d # c, In(d, "select_task_rq_fair")
                 PROVE  run[d].id # run'[c].id
      OBVIOUS
    <3>1. id = budget
      <4>1. Head(p) # "sched_balance_rq"
        BY <2>5 DEF In
      <4> QED
        BY <4>1, <2>1, <1>7
    <3>2. run[d].id > budget
      BY DEF KInv, CpuOK
    <3> QED
      BY <3>1, <3>2, <2>5, <2>6
  <2> QED
    BY <1>1, <1>2, <1>5, <2>4, <2>6, <2>7, <2>8, <2>9, CpuStepK
<1>8. (IF running THEN promised ELSE {}) \in {promised, {}}
  OBVIOUS
<1>9. ASSUME budget > 0, budget' = budget - 1, NEW p \in WakePaths,
             run' = [run EXCEPT ![c] = [path |-> p, dst |-> 0, id |-> budget, owed |-> IF running THEN promised ELSE {}]]
      PROVE  RInv' /\ KernelType' /\ KInv'
  <2>1. 0 \in 0 .. NCpus
    BY EventsAssumption
  <2> QED
    BY <1>3, <1>7, <1>8, <1>9, <2>1
<1>10. ASSUME budget' = budget, NEW p \in BalancePaths, NEW dst \in Cpus,
             run' = [run EXCEPT ![c] = [path |-> p, dst |-> dst, id |-> 0, owed |-> IF running THEN promised ELSE {}]]
      PROVE  RInv' /\ KernelType' /\ KInv'
  <2>1. dst \in 0 .. NCpus /\ 0 \in 0 .. MaxWork
    BY EventsAssumption DEF Cpus
  <2> QED
    BY <1>7, <1>8, <1>10, <2>1
<1> QED
  BY <1>6, <1>9, <1>10 DEF Begin

LEMMA EnqueueK ==
  ASSUME RInv, KernelType, KInv, NEW c \in Cpus, NEW d \in Cpus, Enqueue(c, d)
  PROVE  RInv' /\ KernelType' /\ KInv'
<1>1. /\ run[c].path # <<>> /\ Head(run[c].path) = "enqueue"
      /\ run' = [run EXCEPT ![c] = Returned(c)] /\ work' = [work EXCEPT ![d] = @ + 1]
      /\ chained' = (chained \/ (pc = "settle" /\ d < scan) \/ pc = "emit")
      /\ UNCHANGED <<pc, todo, scan, running, registry, stash, budget, call, promised,
                     wild, missed, unheard, torn, npending, pending, refs, traced, filter>>
  BY DEF Enqueue, history, samples, registry
<1>2. PublishedFirst' /\ HeardOnce'
  BY <1>1, KeptHistory
<1>3. run \in [Cpus -> RunType] /\ work' \in [Cpus -> Nat] /\ c \in 0 .. NCpus /\ run[c].path \in Paths
  <2>1. run \in [Cpus -> RunType] /\ work \in [Cpus -> Nat] /\ c \in 0 .. NCpus
    BY EventsAssumption DEF KernelType, Cpus
  <2>2. run[c].path \in Paths
    BY <2>1 DEF RunType
  <2> QED
    BY <1>1, <2>1, <2>2
<1>4. Returned(c) = NoRun
  BY <1>1, <1>3, PathSteps DEF Returned
<1>5. run' \in [Cpus -> RunType] /\ run'[c] = NoRun /\ \A e \in Cpus : e # c => run'[e] = run[e]
  BY <1>1, <1>3, <1>4, NoneTypes
<1>6. chained' \in BOOLEAN /\ budget' <= budget /\ budget' \in Nat
  BY <1>1, EventsAssumption DEF KernelType
<1>7. KernelType'
  BY <1>1, <1>3, <1>5, <1>6 DEF KernelType
<1>8. CpuOK(c) /\ CallOK(c)
  BY <1>3 DEF KInv
<1>9. call[c].ev = "none"
  <2>1. call[c].ev \in EventNames \union {"none"}
    BY <1>3 DEF KernelType, CallType
  <2>2. "enqueue" \notin Functions
    BY DEF Functions
  <2> QED
    BY <1>1, <1>8, <2>1, <2>2, EventNamesOf DEF CpuOK
<1>10. CallOK(c)'
  BY <1>1, <1>8, <1>9 DEF CallOK
<1>11. ~(\E f : (In(c, f))') /\ NoRun.owed = {} /\ run'[c].path = <<>>
  BY <1>5, NoneTypes DEF In, NoRun
<1>12. CpuOK(c)'
  BY <1>1, <1>5, <1>8, <1>9, <1>11 DEF CpuOK
<1> QED
  BY <1>1, <1>2, <1>5, <1>6, <1>7, <1>10, <1>11, <1>12, CpuStepK

\* A callback of a test CPU has returned.
LEMMA NextEntryK ==
  ASSUME RInv, KernelType, KInv, NEW c \in Cpus, call[c] # NoCall, Next_i(c),
         UNCHANGED <<todo, scan, running, registry, stash, work, budget, promised, wild, missed, unheard, torn, chained>>
  PROVE  RInv' /\ KInv'
<1>1. /\ pc' = pc
      /\ run' \in [Cpus -> RunType] /\ call' \in [0 .. NCpus -> CallType]
      /\ \A d \in Cpus : d # c => run'[d] = run[d]
      /\ \A d \in 0 .. NCpus : d # c => call'[d] = call[d]
      /\ run[c].path # <<>>
  BY NextEntry
<1>2. PublishedFirst' /\ HeardOnce'
  BY KeptHistory
<1>3. CpuOK(c) /\ CallOK(c) /\ call[c].ev # "none" /\ c \in 0 .. NCpus /\ call[c] \in CallType
      /\ UNCHANGED <<n, traced, filter>>
  BY EventsAssumption DEF KInv, Cpus, CallOK, KernelType, registry
<1>4. budget' <= budget /\ budget' \in Nat
  BY EventsAssumption DEF KernelType
<1>5. CASE call[c].i < call[c].n /\ run'[c] = run[c] /\ call'[c] = [call[c] EXCEPT !.i = call[c].i + 1, !.slot = 0, !.left = 0]
  <2>1. /\ call'[c].ev = call[c].ev /\ call'[c].arg = call[c].arg /\ call'[c].n = call[c].n
        /\ call'[c].i = call[c].i + 1 /\ call'[c].slot = 0
    BY <1>3, <1>5 DEF CallType
  <2>2. call[c].i \in Nat /\ call[c].n \in Nat
    BY <1>3 DEF CallType
  <2>3. CallOK(c)'
    BY <1>3, <1>5, <2>1, <2>2 DEF CallOK
  <2>4. CpuOK(c)'
    BY <1>3, <1>5, <2>1 DEF CpuOK, In
  <2> QED
    BY <1>1, <1>2, <1>4, <1>5, <2>3, <2>4, CpuStepK DEF In
<1>6. CASE call'[c] = NoCall /\ run'[c] = Returned(c)
  <2>1. CallOK(c)'
    BY <1>6, NoneTypes DEF CallOK
  <2>2. Head(run[c].path) # "sched_balance_rq"
    <3>1. EventOf("sched_balance_rq") = "none"
      BY DEF EventOf
    <3> QED
      BY <1>3, <3>1 DEF CpuOK
  <2>3. /\ ~(In(c, "select_task_rq_fair"))' /\ ~(In(c, "sched_balance_rq"))'
        /\ ~(In(c, "sched_balance_find_src_group"))'
        /\ run'[c].path = <<>> => run'[c] = NoRun
        /\ run'[c].owed \subseteq run[c].owed
    BY <1>1, <1>6, <2>2, ReturnedOK DEF In
  <2>4. CpuOK(c)'
    BY <1>3, <1>6, <2>3, NoneTypes DEF CpuOK
  <2> QED
    BY <1>1, <1>2, <1>4, <2>1, <2>3, <2>4, CpuStepK
<1> QED
  BY <1>5, <1>6, NextEntry

LEMMA EmitNothingK ==
  ASSUME RInv, KernelType, KInv, NEW c \in Cpus, EmitNothing(c)
  PROVE  RInv' /\ KernelType' /\ KInv'
<1>1. /\ call[c] # NoCall /\ Next_i(c)
      /\ UNCHANGED <<todo, scan, running, registry, stash, work, budget, promised, wild, missed, unheard, torn, chained,
                     npending, pending, refs>>
  BY DEF EmitNothing, samples, history
<1>2. pc' = pc /\ run' \in [Cpus -> RunType] /\ call' \in [0 .. NCpus -> CallType]
  BY <1>1, NextEntry
<1>3. KernelType'
  BY <1>1, <1>2 DEF KernelType
<1> QED
  BY <1>1, <1>3, NextEntryK

\* An entry that is called is there.
LEMMA EntryThere ==
  ASSUME RInv, KernelType, KInv, NEW c \in 0 .. NCpus, At(c)
  PROVE  /\ Entry(c) = subs[call[c].ev][call[c].i] /\ Entry(c) \in Callbacks
         /\ call[c].ev \in EventNames /\ WatchedBy(Entry(c)) = call[c].ev
<1>1. CallOK(c) /\ call[c] \in CallType /\ call[c] # NoCall /\ call[c].n > 0
  BY DEF KInv, KernelType, At
<1>2. call[c].ev \in EventNames /\ call[c].n \in Nat /\ call[c].i \in Nat
  BY <1>1 DEF CallOK, CallType
<1>3. call[c].n <= n[call[c].ev] /\ call[c].i >= 1 /\ call[c].i <= call[c].n
  BY <1>1, <1>2 DEF CallOK, EventNames
<1>4. n[call[c].ev] \in Nat /\ subs[call[c].ev] \in Seq(Callbacks)
  BY <1>2 DEF RInv, RegistryType
<1>5. Len(subs[call[c].ev]) >= n[call[c].ev]
  BY <1>2, <1>4 DEF RInv, Counted
<1>6. call[c].i \in 1 .. Len(subs[call[c].ev])
  BY <1>2, <1>3, <1>4, <1>5
<1>7. Entry(c) = subs[call[c].ev][call[c].i] /\ Entry(c) \in Callbacks
  BY <1>4, <1>6 DEF Entry
<1>8. WatchedBy(subs[call[c].ev][call[c].i]) = call[c].ev
  BY <1>2, <1>6 DEF RInv, Counted
<1> QED
  BY <1>2, <1>7, <1>8

LEMMA CallbackK ==
  ASSUME RInv, KernelType, KInv, NEW c \in Cpus, Callback(c)
  PROVE  RInv' /\ KernelType' /\ KInv'
<1>1. /\ At(c) /\ wild' = (wild \/ Entry(c) = "nothing") /\ Next_i(c)
      /\ UNCHANGED <<todo, scan, running, registry, stash, work, budget, promised, missed, unheard, torn, chained,
                     npending, pending, refs>>
  BY DEF Callback, samples
<1>2. call[c] # NoCall /\ c \in 0 .. NCpus
  BY <1>1, EventsAssumption DEF At, Cpus
<1>3. wild' = wild
  <2>1. "nothing" \notin Callbacks
    BY DEF Callbacks
  <2>2. Entry(c) # "nothing"
    BY <1>1, <1>2, <2>1, EntryThere
  <2>3. wild \in BOOLEAN
    BY DEF KernelType
  <2> QED
    BY <1>1, <2>2, <2>3
<1>4. pc' = pc /\ run' \in [Cpus -> RunType] /\ call' \in [0 .. NCpus -> CallType]
  BY <1>1, <1>2, NextEntry
<1>5. KernelType'
  BY <1>1, <1>3, <1>4 DEF KernelType
<1> QED
  BY <1>1, <1>2, <1>3, <1>5, NextEntryK

\* on_select() has taken a slot.
LEMMA SlotTakenK ==
  ASSUME RInv, KernelType, KInv, NEW c \in Cpus, At(c), NEW k \in 0 .. Wakeups,
         call' = [call EXCEPT ![c].slot = k],
         UNCHANGED <<run, pc, todo, scan, running, registry, stash, work, budget, promised, wild, missed, unheard, torn, chained>>
  PROVE  RInv' /\ KInv' /\ call' \in [0 .. NCpus -> CallType]
<1>1. /\ c \in 0 .. NCpus /\ call \in [0 .. NCpus -> CallType] /\ call[c] \in CallType
      /\ CpuOK(c) /\ CallOK(c) /\ UNCHANGED <<n, traced, filter>>
  BY EventsAssumption DEF Cpus, KernelType, KInv, registry
<1>2. [call[c] EXCEPT !.slot = k] \in CallType
  BY <1>1 DEF CallType
<1>3. /\ call' \in [0 .. NCpus -> CallType] /\ call'[c] = [call[c] EXCEPT !.slot = k]
      /\ \A d \in 0 .. NCpus : d # c => call'[d] = call[d]
  BY <1>1, <1>2
<1>4. /\ call'[c].ev = call[c].ev /\ call'[c].arg = call[c].arg /\ call'[c].n = call[c].n
      /\ call'[c].i = call[c].i
  BY <1>1, <1>3 DEF CallType
<1>5. call[c].ev # "none" /\ call[c].n > 0
  BY <1>1 DEF At, CallOK
<1>6. CallOK(c)'
  BY <1>1, <1>4, <1>5 DEF CallOK
<1>7. CpuOK(c)'
  BY <1>1, <1>4 DEF CpuOK, In
<1>8. budget' <= budget /\ budget' \in Nat /\ PublishedFirst' /\ HeardOnce'
  BY KeptHistory, EventsAssumption DEF KernelType
<1> QED
  BY <1>3, <1>6, <1>7, <1>8, CpuStepK DEF In

LEMMA SelectK ==
  ASSUME RInv, KernelType, KInv, NEW c \in Cpus, on_select(c)
  PROVE  RInv' /\ KernelType' /\ KInv'
<1>1. /\ At(c) /\ UNCHANGED <<todo, scan, running, registry, stash, work, budget, pending, refs, promised,
                              wild, missed, unheard, torn, chained>>
  BY DEF on_select, history
<1>2. call[c] # NoCall
  BY <1>1 DEF At
<1>3. npending' \in Nat
  BY DEF on_select, KernelType
<1>4. CASE Next_i(c)
  <2>1. pc' = pc /\ run' \in [Cpus -> RunType] /\ call' \in [0 .. NCpus -> CallType]
    BY <1>2, <1>4, NextEntry
  <2>2. KernelType'
    BY <1>1, <1>3, <2>1 DEF KernelType
  <2> QED
    BY <1>1, <1>2, <1>4, <2>2, NextEntryK
<1>5. CASE npending < Wakeups /\ call' = [call EXCEPT ![c].slot = npending + 1] /\ UNCHANGED <<run, pc>>
  <2>1. npending + 1 \in 0 .. Wakeups
    BY <1>5, EventsAssumption DEF KernelType
  <2>2. RInv' /\ KInv' /\ call' \in [0 .. NCpus -> CallType]
    BY <1>1, <1>5, <2>1, SlotTakenK
  <2>3. KernelType'
    BY <1>1, <1>3, <1>5, <2>2 DEF KernelType
  <2> QED
    BY <2>2, <2>3
<1> QED
  BY <1>4, <1>5 DEF on_select

\* A sample is taken for a wakeup, which has a number.
LEMMA SelectArg ==
  ASSUME RInv, KernelType, KInv, NEW c \in Cpus, At(c), Entry(c) = "on_select"
  PROVE  /\ call[c].ev = "select_task_rq" /\ In(c, "select_task_rq_fair")
         /\ call[c].arg = run[c].id /\ run[c].id > budget /\ call[c].arg \in 1 .. MaxWork
<1>1. c \in 0 .. NCpus
  BY EventsAssumption DEF Cpus
<1>2. call[c].ev = "select_task_rq"
  BY <1>1, EntryThere DEF WatchedBy
<1>3. CpuOK(c) /\ run[c] \in RunType
  BY DEF KInv, KernelType
<1>4. run[c].path # <<>> /\ EventOf(Head(run[c].path)) = "select_task_rq" /\ call[c].arg = run[c].id
  BY <1>2, <1>3 DEF CpuOK
<1>5. Head(run[c].path) = "select_task_rq_fair"
  BY <1>4 DEF EventOf
<1>6. run[c].id > budget
  BY <1>3, <1>4, <1>5 DEF CpuOK, In
<1>7. run[c].id \in 0 .. MaxWork /\ budget \in 0 .. MaxWork
  BY <1>3 DEF RunType, KernelType
<1> QED
  BY <1>2, <1>4, <1>5, <1>6, <1>7, EventsAssumption DEF In

LEMMA SelectStoreK ==
  ASSUME RInv, KernelType, KInv, NEW c \in Cpus, on_select_store(c)
  PROVE  RInv' /\ KernelType' /\ KInv'
<1>1. /\ At(c) /\ Entry(c) = "on_select" /\ call[c].slot > 0 /\ Next_i(c)
      /\ pending' = [pending EXCEPT ![call[c].slot] = call[c].arg]
      /\ refs' = refs \union {call[c].arg}
      /\ UNCHANGED <<todo, scan, running, registry, stash, work, budget, npending, promised,
                     wild, missed, unheard, torn, chained>>
  BY DEF on_select_store, history
<1>2. call[c] # NoCall
  BY <1>1 DEF At
<1>3. call[c].arg \in 1 .. MaxWork
  BY <1>1, SelectArg
<1>4. pending' \in [1 .. Wakeups -> 0 .. MaxWork] /\ refs' \subseteq 1 .. MaxWork
  <2>1. pending \in [1 .. Wakeups -> 0 .. MaxWork] /\ refs \subseteq 1 .. MaxWork
    BY DEF KernelType
  <2>2. call[c].arg \in 0 .. MaxWork
    BY <1>3, EventsAssumption
  <2> QED
    BY <1>1, <1>3, <2>1, <2>2
<1>5. pc' = pc /\ run' \in [Cpus -> RunType] /\ call' \in [0 .. NCpus -> CallType]
  BY <1>1, <1>2, NextEntry
<1>6. KernelType'
  BY <1>1, <1>4, <1>5 DEF KernelType
<1> QED
  BY <1>1, <1>2, <1>6, NextEntryK

\* A function that is traced is in the hook table.
LEMMA TracedFound ==
  ASSUME RInv, NEW f, Traced(f)
  PROVE  traced /\ f \in filter /\ \E k \in 1 .. nhooks : hooks[k] = f
BY DEF Traced, RInv, Booted, HooksCounted, Published

\* What was promised when the path began is called once by a function on it.
LEMMA IsHeard ==
  ASSUME RInv, KernelType, KInv, NEW c \in Cpus, run[c].path # <<>>
  PROVE  Heard(c, Head(run[c].path))
<1> DEFINE f == Head(run[c].path)
<1>1. f \in Functions \union {"enqueue"}
  <2>1. run[c] \in RunType
    BY DEF KernelType
  <2>2. run[c].path \in Paths
    BY <2>1 DEF RunType
  <2> QED
    BY <2>2, PathSteps
<1>2. run[c].owed \subseteq promised /\ promised \subseteq Callbacks
  BY DEF KInv, CpuOK, RInv, RegistryType
<1> SUFFICES ASSUME NEW fn \in run[c].owed, WatchedBy(fn) = EventOf(f)
             PROVE  Traced(f) /\ Cardinality({k \in 1 .. Len(subs[EventOf(f)]) : k <= n[EventOf(f)] /\ subs[EventOf(f)][k] = fn}) = 1
  BY DEF Heard
<1> DEFINE ev == WatchedBy(fn)
<1>3. fn \in promised /\ fn \in Callbacks /\ ev \in EventNames
  BY <1>2, WatchedType
<1>4. f \in HooksOf(ev)
  BY <1>1, <1>3, EventNamesOf
<1>5. /\ \E k \in 1 .. n[ev] : subs[ev][k] = fn
      /\ HooksOf(ev) \subseteq filter /\ traced
  BY <1>3 DEF RInv, Promised
<1>6. Traced(f)
  BY <1>4, <1>5 DEF Traced
<1>7. PICK k0 \in 1 .. n[ev] : subs[ev][k0] = fn
  BY <1>5
<1>8. /\ n[ev] \in Nat /\ subs[ev] \in Seq(Callbacks) /\ Len(subs[ev]) >= n[ev]
      /\ \A j, k \in 1 .. Len(subs[ev]) : subs[ev][j] = subs[ev][k] => j = k
  <2>1. n[ev] \in Nat /\ subs[ev] \in Seq(Callbacks)
    BY <1>3 DEF RInv, RegistryType
  <2> QED
    BY <1>3, <2>1 DEF RInv, Counted
<1>9. {k \in 1 .. Len(subs[ev]) : k <= n[ev] /\ subs[ev][k] = fn} = {k0}
  BY <1>7, <1>8
<1>10. Cardinality({k0}) = 1
  BY FS_Singleton
<1> HIDE DEF ev
<1>11. EventOf(f) = ev
  BY DEF ev
<1> QED
  BY <1>6, <1>9, <1>10, <1>11

\* The function on the path raises its event.
LEMMA EmitK ==
  ASSUME RInv, KernelType, KInv, NEW c \in Cpus, run[c].path # <<>>, NEW ev \in EventNames, NEW arg \in Nat,
         EventOf(Head(run[c].path)) = ev, kstep_emit(c, ev, arg),
         ev = "balance_selected" => arg = run[c].dst, ev = "select_task_rq" => arg = run[c].id,
         UNCHANGED <<pc, todo, scan, running, registry, stash, run, work, budget, promised, wild, missed, unheard>>
  PROVE  RInv' /\ KInv' /\ call' \in [0 .. NCpus -> CallType]
<1>1. /\ c \in 0 .. NCpus /\ call \in [0 .. NCpus -> CallType]
      /\ CpuOK(c) /\ CallOK(c) /\ UNCHANGED <<n, traced, filter>> /\ n[ev] \in Nat /\ ev # "none"
  BY EventsAssumption DEF Cpus, KernelType, KInv, registry, RInv, RegistryType, EventNames
<1>3. [ev |-> ev, n |-> n[ev], i |-> 1, arg |-> arg, slot |-> 0, left |-> 0] \in CallType
  BY <1>1, EventsAssumption DEF CallType
<1>4. /\ call' \in [0 .. NCpus -> CallType] /\ \A d \in 0 .. NCpus : d # c => call'[d] = call[d]
      /\ call'[c] = [ev |-> ev, n |-> n[ev], i |-> 1, arg |-> arg, slot |-> 0, left |-> 0]
  BY <1>1, <1>3 DEF kstep_emit
<1>5. call'[c].ev = ev /\ call'[c].n = n[ev] /\ call'[c].i = 1 /\ call'[c].arg = arg /\ call'[c].slot = 0
  BY <1>4
<1>6. CallOK(c)'
  BY <1>1, <1>5 DEF CallOK
<1>7. CpuOK(c)'
  BY <1>1, <1>5 DEF CpuOK, In
<1>8. budget' <= budget /\ budget' \in Nat /\ PublishedFirst' /\ HeardOnce'
  BY KeptHistory, EventsAssumption DEF KernelType
<1> QED
  BY <1>4, <1>6, <1>7, <1>8, CpuStepK DEF In

\* The function returns without an event.
LEMMA ReturnK ==
  ASSUME RInv, KernelType, KInv, NEW c \in Cpus, run[c].path # <<>>, call[c] = NoCall,
         run' = [run EXCEPT ![c] = Returned(c)],
         stash' \in [Cpus -> 0 .. NCpus], \A d \in Cpus : d # c => stash'[d] = stash[d],
         stash'[c] # 0 => running /\ traced /\ "sched_balance_rq" \in filter,
         Head(run[c].path) = "sched_balance_rq" /\ stash'[c] # 0 => stash'[c] = run[c].dst,
         UNCHANGED <<pc, todo, scan, running, registry, call, work, budget, promised, wild, missed, unheard>>
  PROVE  RInv' /\ KInv' /\ run' \in [Cpus -> RunType]
<1>1. /\ c \in 0 .. NCpus /\ run \in [Cpus -> RunType] /\ call[c].ev = "none"
      /\ CpuOK(c) /\ CallOK(c) /\ UNCHANGED <<n, traced, filter>>
  BY EventsAssumption, NoneTypes DEF Cpus, KernelType, KInv, registry
<1>2. /\ run' \in [Cpus -> RunType] /\ run'[c] = Returned(c) /\ \A d \in Cpus : d # c => run'[d] = run[d]
  BY <1>1, ReturnedOK
<1>3. CallOK(c)'
  BY <1>1, NoneTypes DEF CallOK
<1>4. /\ ~(In(c, "select_task_rq_fair"))' /\ ~(In(c, "sched_balance_rq"))'
      /\ (In(c, "sched_balance_find_src_group"))' => Head(run[c].path) = "sched_balance_rq" /\ run'[c].dst = run[c].dst
      /\ run'[c].path = <<>> => run'[c] = NoRun
      /\ run'[c].owed \subseteq run[c].owed
  BY <1>2, ReturnedOK DEF In
<1>5. CpuOK(c)'
  BY <1>1, <1>4 DEF CpuOK
<1>6. budget' <= budget /\ budget' \in Nat /\ PublishedFirst' /\ HeardOnce'
  BY KeptHistory, EventsAssumption DEF KernelType
<1> QED
  BY <1>2, <1>3, <1>4, <1>5, <1>6, CpuStepK

LEMMA DispatchK ==
  ASSUME RInv, KernelType, KInv, NEW c \in Cpus, kstep_dispatch(c)
  PROVE  RInv' /\ KernelType' /\ KInv'
<1> DEFINE f == Head(run[c].path)
           found == \E k \in 1 .. nhooks : hooks[k] = f
<1>1. /\ run[c].path # <<>> /\ call[c] = NoCall
      /\ missed' = (missed \/ (Traced(f) /\ ~found)) /\ unheard' = (unheard \/ ~Heard(c, f))
      /\ run' = IF call' = call THEN [run EXCEPT ![c] = Returned(c)] ELSE run
      /\ UNCHANGED <<pc, todo, scan, running, registry, work, budget, npending, pending, refs, promised, wild, torn, chained>>
  BY DEF kstep_dispatch, samples
<1>2. missed' = missed /\ unheard' = unheard
  <2>1. ~(Traced(f) /\ ~found) /\ Heard(c, f)
    BY <1>1, TracedFound, IsHeard
  <2>2. missed \in BOOLEAN /\ unheard \in BOOLEAN
    BY DEF KernelType
  <2> QED
    BY <1>1, <2>1, <2>2
<1>3. /\ CpuOK(c) /\ c \in 0 .. NCpus /\ run[c] \in RunType /\ run \in [Cpus -> RunType]
      /\ call \in [0 .. NCpus -> CallType] /\ stash \in [Cpus -> 0 .. NCpus]
  BY EventsAssumption DEF KInv, KernelType, Cpus
<1>4. run[c].dst \in 0 .. NCpus /\ run[c].id \in Nat
  BY <1>3, EventsAssumption DEF RunType
<1>5. ASSUME call' = call, stash' \in [Cpus -> 0 .. NCpus], \A d \in Cpus : d # c => stash'[d] = stash[d],
             stash'[c] # 0 => running /\ traced /\ "sched_balance_rq" \in filter,
             f = "sched_balance_rq" /\ stash'[c] # 0 => stash'[c] = run[c].dst
      PROVE  RInv' /\ KernelType' /\ KInv'
  <2>1. run' = [run EXCEPT ![c] = Returned(c)]
    BY <1>1, <1>5
  <2>2. RInv' /\ KInv' /\ run' \in [Cpus -> RunType]
    BY <1>1, <1>2, <1>5, <2>1, ReturnK
  <2>3. KernelType'
    BY <1>1, <1>2, <1>3, <1>5, <2>2 DEF KernelType
  <2> QED
    BY <2>2, <2>3
<1>6. ASSUME NEW ev \in EventNames, NEW arg \in Nat, EventOf(f) = ev, kstep_emit(c, ev, arg), UNCHANGED stash,
             ev = "balance_selected" => arg = run[c].dst, ev = "select_task_rq" => arg = run[c].id
      PROVE  RInv' /\ KernelType' /\ KInv'
  <2>1. call'[c] = [ev |-> ev, n |-> n[ev], i |-> 1, arg |-> arg, slot |-> 0, left |-> 0]
    BY <1>3, <1>6 DEF kstep_emit
  <2>2. call'[c].ev = ev
    BY <2>1
  <2>3. ev # "none" /\ call[c].ev = "none"
    BY <1>1, NoneTypes DEF EventNames
  <2>4. run' = run
    BY <1>1, <2>2, <2>3
  <2>5. RInv' /\ KInv' /\ call' \in [0 .. NCpus -> CallType]
    BY <1>1, <1>2, <1>6, <2>4, EmitK
  <2>6. KernelType'
    BY <1>1, <1>2, <1>6, <2>4, <2>5 DEF KernelType
  <2> QED
    BY <2>5, <2>6
<1>7. stash[c] # 0 => running /\ traced /\ "sched_balance_rq" \in filter
  BY <1>3 DEF CpuOK
<1>8. CASE Traced(f) /\ found
  <2>1. \/ f = "sched_balance_rq" /\ on_sched_balance_enter(c) /\ UNCHANGED call
        \/ f = "sched_balance_find_src_group" /\ on_sched_balance_selected(c) /\ UNCHANGED stash
        \/ f = "select_task_rq_fair" /\ on_select_task_rq(c) /\ UNCHANGED stash
        \/ f = "set_task_cpu" /\ on_set_task_cpu(c) /\ UNCHANGED stash
    BY <1>8 DEF kstep_dispatch
  <2>2. CASE f = "sched_balance_rq" /\ on_sched_balance_enter(c) /\ UNCHANGED call
    <3>1. traced /\ f \in filter
      BY <1>8, TracedFound
    <3>2. CASE running
      <4>1. stash' = [stash EXCEPT ![c] = run[c].dst]
        BY <2>2, <3>2 DEF on_sched_balance_enter
      <4> QED
        BY <1>3, <1>4, <1>5, <2>2, <3>1, <3>2, <4>1
    <3>3. CASE ~running
      <4>1. stash' = stash
        BY <2>2, <3>3 DEF on_sched_balance_enter
      <4> QED
        BY <1>3, <1>5, <1>7, <2>2, <3>3, <4>1
    <3> QED
      BY <3>2, <3>3
  <2>3. CASE f = "sched_balance_find_src_group" /\ on_sched_balance_selected(c) /\ UNCHANGED stash
    <3>1. CASE UNCHANGED call
      BY <1>3, <1>5, <1>7, <2>3, <3>1
    <3>2. CASE stash[c] # 0 /\ kstep_emit(c, "balance_selected", stash[c])
      <4>1. stash[c] = run[c].dst /\ stash[c] \in Nat
        BY <1>1, <1>3, <2>3, <3>2, EventsAssumption DEF CpuOK, In
      <4>2. EventOf(f) = "balance_selected" /\ "balance_selected" \in EventNames
        BY <2>3 DEF EventOf, EventNames
      <4> QED
        BY <1>6, <2>3, <3>2, <4>1, <4>2
    <3> QED
      BY <2>3, <3>1, <3>2 DEF on_sched_balance_selected
  <2>4. CASE f = "select_task_rq_fair" /\ on_select_task_rq(c) /\ UNCHANGED stash
    <3>1. EventOf(f) = "select_task_rq" /\ "select_task_rq" \in EventNames
      BY <2>4 DEF EventOf, EventNames
    <3>2. kstep_emit(c, "select_task_rq", run[c].id)
      BY <2>4 DEF on_select_task_rq
    <3> QED
      BY <1>4, <1>6, <2>4, <3>1, <3>2
  <2>5. CASE f = "set_task_cpu" /\ on_set_task_cpu(c) /\ UNCHANGED stash
    <3>1. CASE UNCHANGED call
      BY <1>3, <1>5, <1>7, <2>5, <3>1
    <3>2. CASE kstep_emit(c, "task_migrate", 0)
      <4>1. EventOf(f) = "task_migrate" /\ "task_migrate" \in EventNames
        BY <2>5 DEF EventOf, EventNames
      <4> QED
        BY <1>6, <2>5, <3>2, <4>1
    <3> QED
      BY <2>5, <3>1, <3>2 DEF on_set_task_cpu
  <2> QED
    BY <2>1, <2>2, <2>3, <2>4, <2>5
<1>9. CASE ~(Traced(f) /\ found)
  <2>1. UNCHANGED <<stash, call>>
    BY <1>9 DEF kstep_dispatch
  <2>2. f = "sched_balance_rq" => stash[c] = 0
    <3>1. ~Traced(f)
      BY <1>9, TracedFound
    <3> QED
      BY <1>7, <3>1 DEF Traced
  <2> QED
    BY <1>3, <1>5, <1>7, <2>1, <2>2
<1> QED
  BY <1>8, <1>9

-----------------------------------------------------------------------------
(* KInv: the settle and its event *)

\* A step of the controller while nothing is being registered.
LEMMA ControllerK ==
  ASSUME RInv, KernelType, KInv, pc \in {"settle", "emit"}, pc' \in {"ready", "settle", "emit"},
         UNCHANGED <<run, stash, running, todo, registry, promised, budget, wild, missed, unheard>>,
         \A d \in Cpus : call'[d] = call[d], CallOK(0)', Emitting'
  PROVE  RInv' /\ KInv'
<1>1. UNCHANGED <<subs, n, hooks, nhooks, traced, filter>>
  BY DEF registry
<1>2. RInv'
  <2>1. pc' \notin DOMAIN Registrations /\ pc \notin DOMAIN Registrations
    BY RegistrationNames
  <2>2. promised' \subseteq Callbacks /\ todo = <<>>
    BY <2>1 DEF RInv, RegistryType, Booted
  <2> QED
    BY <2>1, <2>2, RegistryKept
<1>3. \A d \in Cpus : CpuOK(d)'
  <2>1. budget' <= budget /\ budget' \in Nat
    BY EventsAssumption DEF KernelType
  <2> QED
    BY <1>1, <2>1, CpuKept DEF KInv
<1>4. \A d \in 0 .. NCpus : CallOK(d)'
  <2> SUFFICES ASSUME NEW d \in 0 .. NCpus, d # 0 PROVE CallOK(d)'
    OBVIOUS
  <2>1. d \in Cpus
    BY EventsAssumption DEF Cpus
  <2>2. CallOK(d) /\ \A e \in EventNames : n[e] <= n'[e]
    BY <1>1 DEF KInv, RInv, RegistryType
  <2> QED
    BY <1>2, <2>1, <2>2, CallKept
<1>5. OwnIds'
  BY DEF KInv, OwnIds, In
<1> QED
  BY <1>2, <1>3, <1>4, <1>5, KeptHistory DEF KInv

\* The controller raises no event but the settle.
LEMMA ControllerCall ==
  ASSUME KernelType, KInv, call[0] # NoCall
  PROVE  /\ pc = "emit" /\ call[0].ev = "settle" /\ call[0].n = n["settle"] /\ CallOK(0)
         /\ call \in [0 .. NCpus -> CallType] /\ call[0] \in CallType /\ 0 \in 0 .. NCpus
<1>1. 0 \in 0 .. NCpus
  BY EventsAssumption
<1>2. CallOK(0) /\ Emitting /\ call \in [0 .. NCpus -> CallType] /\ call[0] \in CallType
  BY <1>1 DEF KInv, KernelType
<1> QED
  BY <1>1, <1>2 DEF CallOK, Emitting

\* The settle event has gone on to its next entry, or is over.
LEMMA NextEntry0 ==
  ASSUME KernelType, KInv, call[0] # NoCall, Next_i(0)
  PROVE  /\ run' = run /\ call' \in [0 .. NCpus -> CallType]
         /\ \A d \in Cpus : call'[d] = call[d]
         /\ call'[0].slot = 0
         /\ \/ /\ call[0].i < call[0].n /\ pc' = pc
               /\ call'[0] = [call[0] EXCEPT !.i = call[0].i + 1, !.slot = 0, !.left = 0]
            \/ ~(call[0].i < call[0].n) /\ call'[0] = NoCall /\ pc' = "ready"
<1>1. 0 \in 0 .. NCpus /\ call \in [0 .. NCpus -> CallType] /\ call[0] \in CallType /\ Cpus \subseteq 0 .. NCpus /\ 0 \notin Cpus
  BY EventsAssumption DEF KernelType, Cpus
<1>2. [call[0] EXCEPT !.i = call[0].i + 1, !.slot = 0, !.left = 0] \in CallType
  <2>1. call[0].i + 1 \in Nat /\ 0 \in 0 .. Wakeups
    BY <1>1, EventsAssumption DEF CallType
  <2> QED
    BY <1>1, <2>1 DEF CallType
<1>3. CASE call[0].i < call[0].n
  <2>1. /\ call' = [call EXCEPT ![0] = [call[0] EXCEPT !.i = call[0].i + 1, !.slot = 0, !.left = 0]]
        /\ run' = run /\ pc' = pc
    <3>1. ~(~(call[0].i < call[0].n) /\ 0 # 0) /\ ~(~(call[0].i < call[0].n) /\ 0 = 0)
      BY <1>3
    <3> QED
      BY <1>3, <3>1, Zenon DEF Next_i
  <2>2. call'[0] = [call[0] EXCEPT !.i = call[0].i + 1, !.slot = 0, !.left = 0]
    BY <1>1, <2>1
  <2>3. call'[0].slot = 0
    BY <1>1, <2>2 DEF CallType
  <2> QED
    BY <1>1, <1>2, <1>3, <2>1, <2>2, <2>3
<1>4. CASE ~(call[0].i < call[0].n)
  <2>1. /\ call' = [call EXCEPT ![0] = NoCall]
        /\ run' = run /\ pc' = "ready"
    BY <1>4 DEF Next_i
  <2>2. NoCall.slot = 0
    BY DEF NoCall
  <2> QED
    BY <1>1, <1>4, <2>1, <2>2, NoneTypes
<1> QED
  BY <1>3, <1>4

LEMMA NextEntry0K ==
  ASSUME RInv, KernelType, KInv, call[0] # NoCall, Next_i(0),
         UNCHANGED <<todo, scan, running, registry, stash, work, budget, promised, wild, missed, unheard>>
  PROVE  /\ RInv' /\ KInv' /\ pc' \in {"ready", "emit"}
<1>1. pc = "emit" /\ call[0].ev = "settle" /\ call[0].n = n["settle"] /\ CallOK(0) /\ call[0] \in CallType
  BY ControllerCall
<1>2. n' = n
  BY DEF registry
<1>3. CASE /\ call[0].i < call[0].n /\ pc' = pc
           /\ call'[0] = [call[0] EXCEPT !.i = call[0].i + 1, !.slot = 0, !.left = 0]
  <2>1. /\ call'[0].ev = call[0].ev /\ call'[0].n = call[0].n
        /\ call'[0].i = call[0].i + 1 /\ call'[0].slot = 0 /\ call'[0].left = 0
    BY <1>1, <1>3 DEF CallType
  <2>2. call[0].i \in Nat /\ call[0].n \in Nat
    BY <1>1 DEF CallType
  <2>3. CallOK(0)' /\ Emitting'
    BY <1>1, <1>2, <1>3, <2>1, <2>2 DEF CallOK, Emitting
  <2> QED
    BY <1>1, <1>3, <2>3, NextEntry0, ControllerK
<1>4. CASE call'[0] = NoCall /\ pc' = "ready"
  <2>1. CallOK(0)' /\ Emitting'
    <3>1. NoCall.slot = 0 /\ NoCall.left = 0
      BY DEF NoCall
    <3> QED
      BY <1>4, <3>1, NoneTypes DEF CallOK, Emitting
  <2> QED
    BY <1>1, <1>4, <2>1, NextEntry0, ControllerK
<1> QED
  BY <1>3, <1>4, NextEntry0

LEMMA EmitNothing0K ==
  ASSUME RInv, KernelType, KInv, EmitNothing(0)
  PROVE  RInv' /\ KernelType' /\ KInv'
<1>1. /\ call[0] # NoCall /\ Next_i(0)
      /\ UNCHANGED <<todo, scan, running, registry, stash, work, budget, promised, wild, missed, unheard, torn, chained,
                     npending, pending, refs>>
  BY DEF EmitNothing, samples, history
<1>2. run' = run /\ call' \in [0 .. NCpus -> CallType]
  BY <1>1, NextEntry0
<1>3. RInv' /\ KInv' /\ pc' \in {"ready", "emit"}
  BY <1>1, NextEntry0K
<1>4. KernelType'
  BY <1>1, <1>2, <1>3 DEF KernelType
<1> QED
  BY <1>3, <1>4

LEMMA Callback0K ==
  ASSUME RInv, KernelType, KInv, Callback(0)
  PROVE  FALSE
<1>1. At(0) /\ Entry(0) # "on_settle" /\ call[0] # NoCall
  BY DEF Callback, At
<1>2. WatchedBy(Entry(0)) = "settle" /\ Entry(0) \in Callbacks
  BY <1>1, ControllerCall, EntryThere
<1> QED
  BY <1>1, <1>2 DEF WatchedBy, Callbacks

\* The loop over the entries goes on within the callback.
LEMMA SlotNextK ==
  ASSUME RInv, KernelType, KInv, At(0), NEW k \in 0 .. Wakeups, NEW l \in 0 .. Wakeups, k <= l,
         call' = [call EXCEPT ![0] = [call[0] EXCEPT !.slot = k, !.left = l]],
         UNCHANGED <<run, pc, todo, scan, running, registry, stash, work, budget, promised, wild, missed, unheard>>
  PROVE  RInv' /\ KInv' /\ call' \in [0 .. NCpus -> CallType] /\ \A d \in Cpus : call'[d] = call[d]
<1>1. /\ pc = "emit" /\ call[0].ev = "settle" /\ call[0].n = n["settle"] /\ CallOK(0)
      /\ call[0] \in CallType /\ call \in [0 .. NCpus -> CallType] /\ 0 \in 0 .. NCpus
  BY ControllerCall DEF At
<1>2. [call[0] EXCEPT !.slot = k, !.left = l] \in CallType
  BY <1>1 DEF CallType
<1>3. /\ call' \in [0 .. NCpus -> CallType] /\ call'[0] = [call[0] EXCEPT !.slot = k, !.left = l]
      /\ \A d \in 0 .. NCpus : d # 0 => call'[d] = call[d]
  BY <1>1, <1>2
<1>4. \A d \in Cpus : d \in 0 .. NCpus /\ d # 0
  BY EventsAssumption DEF Cpus
<1>5. /\ call'[0].ev = call[0].ev /\ call'[0].n = call[0].n /\ call'[0].i = call[0].i
      /\ call'[0].slot = k /\ call'[0].left = l
  BY <1>1, <1>3 DEF CallType
<1>6. n' = n /\ call[0].n > 0
  BY DEF registry, At
<1>7. CallOK(0)' /\ Emitting'
  BY <1>1, <1>5, <1>6 DEF CallOK, Emitting
<1> QED
  BY <1>1, <1>3, <1>4, <1>7, ControllerK

LEMMA SettleCallK ==
  ASSUME RInv, KernelType, KInv, on_settle
  PROVE  RInv' /\ KernelType' /\ KInv'
<1> DEFINE k == IF npending < Wakeups THEN npending ELSE Wakeups
<1>1. /\ At(0) /\ call[0] # NoCall /\ npending' = 0
      /\ IF k = 0 THEN Next_i(0)
                  ELSE call' = [call EXCEPT ![0].slot = 1, ![0].left = k] /\ UNCHANGED <<run, pc>>
      /\ UNCHANGED <<todo, scan, running, registry, stash, work, budget, promised, wild, missed, unheard, torn, chained,
                     pending, refs>>
  BY DEF on_settle, history, At
<1>2. k \in 0 .. Wakeups
  BY EventsAssumption DEF KernelType
<1>3. CASE k = 0
  <2>1. Next_i(0)
    BY <1>1, <1>3
  <2>2. run' = run /\ call' \in [0 .. NCpus -> CallType]
    BY <1>1, <2>1, NextEntry0
  <2>3. RInv' /\ KInv' /\ pc' \in {"ready", "emit"}
    BY <1>1, <2>1, NextEntry0K
  <2>4. KernelType'
    BY <1>1, <2>2, <2>3 DEF KernelType
  <2> QED
    BY <2>3, <2>4
<1>4. CASE k # 0
  <2>1. call' = [call EXCEPT ![0].slot = 1, ![0].left = k] /\ UNCHANGED <<run, pc>>
    BY <1>1, <1>4
  <2>2. call' = [call EXCEPT ![0] = [call[0] EXCEPT !.slot = 1, !.left = k]]
    <3>1. call \in [0 .. NCpus -> CallType] /\ call[0] \in CallType /\ 0 \in 0 .. NCpus
      BY <1>1, ControllerCall
    <3> HIDE DEF k
    <3> QED
      BY <2>1, <3>1
  <2>3. 1 \in 0 .. Wakeups /\ 1 <= k
    BY <1>2, <1>4, EventsAssumption
  <2> HIDE DEF k
  <2>4. RInv' /\ KInv' /\ call' \in [0 .. NCpus -> CallType]
    BY <1>1, <1>2, <2>1, <2>2, <2>3, SlotNextK
  <2>5. KernelType'
    BY <1>1, <2>1, <2>4 DEF KernelType
  <2> QED
    BY <2>4, <2>5
<1> QED
  BY <1>3, <1>4

LEMMA JudgeK ==
  ASSUME RInv, KernelType, KInv, on_settle_judge
  PROVE  RInv' /\ KernelType' /\ KInv'
<1> DEFINE k == call[0].slot
<1>1. /\ At(0) /\ call[0] # NoCall /\ k > 0 /\ torn' = (torn \/ pending[k] \notin refs)
      /\ refs' = refs \ {pending[k]}
      /\ IF k = call[0].left THEN Next_i(0)
                             ELSE call' = [call EXCEPT ![0].slot = k + 1] /\ UNCHANGED <<run, pc>>
      /\ UNCHANGED <<todo, scan, running, registry, stash, work, budget, promised, wild, missed, unheard, chained,
                     npending, pending>>
  BY DEF on_settle_judge, At
<1>2. call[0] \in CallType /\ call \in [0 .. NCpus -> CallType] /\ 0 \in 0 .. NCpus
  BY <1>1, ControllerCall
<1>3. torn' \in BOOLEAN /\ refs' \subseteq 1 .. MaxWork
  BY <1>1 DEF KernelType
<1>4. CASE k = call[0].left
  <2>1. Next_i(0)
    BY <1>1, <1>4
  <2>2. run' = run /\ call' \in [0 .. NCpus -> CallType]
    BY <1>1, <2>1, NextEntry0
  <2>3. RInv' /\ KInv' /\ pc' \in {"ready", "emit"}
    BY <1>1, <2>1, NextEntry0K
  <2>4. KernelType'
    BY <1>1, <1>3, <2>2, <2>3 DEF KernelType
  <2> QED
    BY <2>3, <2>4
<1>5. CASE k # call[0].left
  <2>1. call' = [call EXCEPT ![0].slot = k + 1] /\ UNCHANGED <<run, pc>>
    BY <1>1, <1>5
  <2>2. k \in 0 .. Wakeups /\ call[0].left \in 0 .. Wakeups
    BY <1>2 DEF CallType
  <2>3. k <= call[0].left
    BY DEF KInv, Emitting
  <2>4. k + 1 \in 0 .. Wakeups /\ k + 1 <= call[0].left
    BY <1>5, <2>2, <2>3, EventsAssumption
  <2>5. call'[0] = [call[0] EXCEPT !.slot = k + 1] /\ call' = [call EXCEPT ![0] = [call[0] EXCEPT !.slot = k + 1]]
    BY <1>2, <2>1
  <2>6. [call[0] EXCEPT !.slot = k + 1] = [call[0] EXCEPT !.slot = k + 1, !.left = call[0].left]
    BY <1>2 DEF CallType
  <2>7. RInv' /\ KInv' /\ call' \in [0 .. NCpus -> CallType]
    <3>1. call' = [call EXCEPT ![0] = [call[0] EXCEPT !.slot = k + 1, !.left = call[0].left]]
      BY <2>5, <2>6
    <3> QED
      BY <1>1, <2>1, <2>2, <2>4, <3>1, SlotNextK
  <2>8. KernelType'
    BY <1>1, <1>3, <2>1, <2>7 DEF KernelType
  <2> QED
    BY <2>7, <2>8
<1> QED
  BY <1>4, <1>5

LEMMA SettleK ==
  ASSUME RInv, KernelType, KInv, kstep_settle
  PROVE  RInv' /\ KernelType' /\ KInv'
<1>1. /\ pc = "settle"
      /\ UNCHANGED <<todo, running, registry, stash, work, run, budget, promised, npending, pending, refs,
                     wild, missed, unheard, torn, chained, n>>
  BY DEF kstep_settle, kernel, samples, history, registry
<1>2. 0 \in 0 .. NCpus /\ call \in [0 .. NCpus -> CallType] /\ Emitting /\ CallOK(0)
  BY EventsAssumption DEF KernelType, KInv
<1>3. CASE scan < NCpus
  <2>1. scan' = scan + 1 /\ UNCHANGED <<pc, call>>
    BY <1>3 DEF kstep_settle
  <2>2. scan' \in Cpus
    <3>1. scan \in Cpus
      BY DEF KernelType
    <3> QED
      BY <1>3, <2>1, <3>1, EventsAssumption DEF Cpus
  <2>3. KernelType'
    BY <1>1, <2>1, <2>2 DEF KernelType
  <2>4. CallOK(0)' /\ Emitting'
    BY <1>1, <1>2, <2>1 DEF CallOK, Emitting
  <2> QED
    BY <1>1, <2>1, <2>3, <2>4, ControllerK
<1>4. CASE ~(scan < NCpus)
  <2>1. pc' = "emit" /\ kstep_emit(0, "settle", 0) /\ scan' = scan
    BY <1>4 DEF kstep_settle
  <2> DEFINE r == [ev |-> "settle", n |-> n["settle"], i |-> 1, arg |-> 0, slot |-> 0, left |-> 0]
  <2>2. r \in CallType
    <3>1. n["settle"] \in Nat /\ "settle" \in EventNames
      BY DEF RInv, RegistryType, EventNames
    <3> QED
      BY <3>1, EventsAssumption DEF CallType
  <2>3. /\ call' \in [0 .. NCpus -> CallType] /\ call'[0] = r
        /\ \A d \in 0 .. NCpus : d # 0 => call'[d] = call[d]
    BY <1>2, <2>1, <2>2 DEF kstep_emit
  <2>4. \A d \in Cpus : d \in 0 .. NCpus /\ d # 0
    BY EventsAssumption DEF Cpus
  <2>5. KernelType'
    BY <1>1, <2>1, <2>3 DEF KernelType
  <2>6. CallOK(0)' /\ Emitting'
    <3>1. n["settle"] \in Nat
      BY DEF RInv, RegistryType, EventNames
    <3>2. call'[0].ev = "settle" /\ call'[0].n = n["settle"] /\ call'[0].i = 1 /\ call'[0].slot = 0 /\ call'[0].left = 0
      BY <2>3
    <3> QED
      BY <1>1, <2>1, <3>1, <3>2 DEF CallOK, Emitting
  <2> QED
    BY <1>1, <2>1, <2>3, <2>4, <2>5, <2>6, ControllerK
<1> QED
  BY <1>3, <1>4

-----------------------------------------------------------------------------
(* SInv: steps of a test CPU *)

LEMMA CpuRange == 0 \in 0 .. NCpus /\ 0 \notin Cpus /\ Cpus \subseteq 0 .. NCpus /\ NCpus \in Cpus
BY EventsAssumption DEF Cpus

\* The samples, where no slot is taken, filled or judged.
LEMMA SlotsKept ==
  ASSUME KernelType, SlotsOK, UNCHANGED <<npending, pending, refs>>, budget' <= budget, budget' \in Nat,
         call'[0].slot = call[0].slot, call[0].slot > 0 => call'[0].left = call[0].left,
         \A c \in Cpus : call'[c].slot = call[c].slot /\ (call[c].slot > 0 => call'[c].ev = call[c].ev),
         \A c \in Cpus : (In(c, "select_task_rq_fair"))' =>
            \/ In(c, "select_task_rq_fair") /\ run'[c].id = run[c].id
            \/ run'[c].id \notin refs
  PROVE  SlotsOK'
<1>1. InFlight' = InFlight /\ Taken' = Taken
  BY DEF InFlight, Taken
<1>2. Live' = Live
  BY <1>1 DEF Live
<1>3. (\A c \in Cpus : call[c].slot > 0 => call[c].ev = "select_task_rq" /\ call[c].slot <= npending)'
  BY DEF SlotsOK
<1>4. (\A c, d \in Cpus : call[c].slot > 0 /\ call[c].slot = call[d].slot => c = d)'
  BY DEF SlotsOK
<1>5. (refs = {pending[k] : k \in Live} /\ \A j, k \in Live : pending[j] = pending[k] => j = k)'
  BY <1>2 DEF SlotsOK
<1>6. (\A c \in Cpus : In(c, "select_task_rq_fair") => run[c].id \notin refs)'
  BY DEF SlotsOK
<1>7. (\A r \in refs : r > budget)'
  <2>1. \A r \in refs : r \in Nat
    BY EventsAssumption DEF KernelType
  <2>2. budget \in Nat
    BY EventsAssumption DEF KernelType
  <2> QED
    BY <2>1, <2>2 DEF SlotsOK
<1> QED
  BY <1>3, <1>4, <1>5, <1>6, <1>7 DEF SlotsOK

\* While a CPU is busy no settle is past it.
LEMMA Busy ==
  ASSUME KernelType, KInv, SettledOK, NEW c \in Cpus, ~Quiet(c)
  PROVE  /\ pc # "emit" /\ call[0] = NoCall /\ call[0].slot = 0
         /\ ~(pc = "settle" /\ c < scan) /\ ~(pc = "ready" /\ "on_settle" \in promised)
<1>1. pc # "emit"
  BY DEF SettledOK, AllQuiet
<1>2. call[0] = NoCall
  BY <1>1, ControllerCall
<1>3. NoCall.slot = 0
  BY DEF NoCall
<1> QED
  BY <1>1, <1>2, <1>3 DEF SettledOK, AllQuiet

LEMMA BusyStep ==
  ASSUME KernelType, KInv, SettledOK, NEW c \in Cpus, ~Quiet(c),
         UNCHANGED <<pc, scan, promised, torn>>, call'[0] = call[0],
         \A d \in Cpus : d # c => run'[d] = run[d],
         \A d \in Cpus : d # c /\ pc = "settle" /\ d < scan => work'[d] = work[d]
  PROVE  SettledOK'
<1>1. /\ pc # "emit" /\ call[0].slot = 0
      /\ ~(pc = "settle" /\ c < scan) /\ ~(pc = "ready" /\ "on_settle" \in promised)
  BY Busy
<1>2. (pc = "settle" => \A d \in Cpus : d < scan => Quiet(d))'
  <2> SUFFICES ASSUME pc = "settle", NEW d \in Cpus, d < scan PROVE (Quiet(d))'
    OBVIOUS
  <2>1. d # c /\ Quiet(d)
    BY <1>1 DEF SettledOK
  <2> QED
    BY <2>1 DEF Quiet
<1> QED
  BY <1>1, <1>2 DEF SettledOK

\* A call is of a CPU in the kernel.
LEMMA InCall ==
  ASSUME KernelType, KInv, NEW c \in Cpus, call[c] # NoCall
  PROVE  ~Quiet(c) /\ call[c].ev \in EventNames /\ run[c].path # <<>> /\ CpuOK(c) /\ CallOK(c) /\ call[c] \in CallType
<1>1. CallOK(c) /\ CpuOK(c) /\ call[c] \in CallType
  BY CpuRange DEF KInv, KernelType
<1>2. call[c].ev # "none"
  BY <1>1 DEF CallOK
<1>3. call[c].ev \in EventNames
  BY <1>1, <1>2 DEF CallType
<1>4. run[c].path # <<>>
  BY <1>1, <1>2 DEF CpuOK
<1> QED
  BY <1>1, <1>3, <1>4, NoneTypes DEF Quiet

LEMMA BeginS ==
  ASSUME RInv, KernelType, KInv, KernelType', SlotsOK, SettledOK, NEW c \in Cpus, Begin(c)
  PROVE  SlotsOK' /\ SettledOK'
<1>1. /\ work[c] > 0 /\ run[c] = NoRun /\ work' = [work EXCEPT ![c] = @ - 1]
      /\ UNCHANGED <<pc, scan, call, promised, torn, npending, pending, refs>>
  BY DEF Begin, history, samples
<1>2. ~Quiet(c) /\ work \in [Cpus -> Nat] /\ run \in [Cpus -> RunType]
  BY <1>1 DEF Quiet, KernelType
<1>3. \A d \in Cpus : d # c => run'[d] = run[d] /\ work'[d] = work[d]
  BY <1>1, <1>2 DEF Begin
<1>4. SettledOK'
  BY <1>1, <1>2, <1>3, BusyStep
<1>5. budget \in Nat /\ budget' \in Nat /\ budget' <= budget
  <2>1. budget \in Nat /\ budget' \in Nat
    BY EventsAssumption DEF KernelType
  <2> QED
    BY <2>1 DEF Begin
<1>6. (In(c, "select_task_rq_fair"))' => run'[c].id \notin refs
  <2>1. budget \notin refs
    BY <1>5 DEF SlotsOK
  <2>2. CASE run' = run
    BY <1>1, <2>2, NoneTypes DEF In
  <2>3. ASSUME NEW p \in WakePaths, NEW dst, NEW owed,
               run' = [run EXCEPT ![c] = [path |-> p, dst |-> dst, id |-> budget, owed |-> owed]]
        PROVE  run'[c].id \notin refs
    BY <1>2, <2>1, <2>3
  <2>4. ASSUME NEW p \in BalancePaths, NEW dst, NEW owed,
               run' = [run EXCEPT ![c] = [path |-> p, dst |-> dst, id |-> 0, owed |-> owed]]
        PROVE  ~(In(c, "select_task_rq_fair"))'
    <3>1. run'[c].path = p
      BY <1>2, <2>4
    <3>2. Head(p) = "sched_balance_rq"
      BY <2>4 DEF BalancePaths
    <3> QED
      BY <3>1, <3>2 DEF In
  <2> QED
    BY <2>2, <2>3, <2>4 DEF Begin
<1>7. SlotsOK'
  BY <1>1, <1>3, <1>5, <1>6, SlotsKept DEF In
<1> QED
  BY <1>4, <1>7

LEMMA EnqueueS ==
  ASSUME RInv, KernelType, KInv, SlotsOK, SettledOK, NEW c \in Cpus, NEW d \in Cpus, Enqueue(c, d), ~chained'
  PROVE  SlotsOK' /\ SettledOK'
<1>1. /\ run[c].path # <<>> /\ run' = [run EXCEPT ![c] = Returned(c)] /\ work' = [work EXCEPT ![d] = @ + 1]
      /\ ~(pc = "settle" /\ d < scan) /\ pc # "emit"
      /\ UNCHANGED <<pc, scan, budget, call, promised, torn, npending, pending, refs>>
  BY DEF Enqueue, history, samples
<1>2. run \in [Cpus -> RunType] /\ work \in [Cpus -> Nat] /\ budget \in Nat /\ ~Quiet(c)
  BY <1>1, NoneTypes, EventsAssumption DEF KernelType, Quiet
<1>3. SettledOK'
  <2>1. \A e \in Cpus : e # c => run'[e] = run[e]
    BY <1>1, <1>2
  <2>2. \A e \in Cpus : e # c /\ pc = "settle" /\ e < scan => work'[e] = work[e]
    BY <1>1, <1>2
  <2> QED
    BY <1>1, <1>2, <2>1, <2>2, BusyStep
<1>4. SlotsOK'
  <2>1. ~(In(c, "select_task_rq_fair"))'
    BY <1>1, <1>2, ReturnedOK DEF In
  <2>2. \A e \in Cpus : e # c => run'[e] = run[e]
    BY <1>1, <1>2
  <2> QED
    BY <1>1, <1>2, <2>1, <2>2, SlotsKept DEF In
<1> QED
  BY <1>3, <1>4

LEMMA DispatchS ==
  ASSUME RInv, KernelType, KInv, SlotsOK, SettledOK, NEW c \in Cpus, kstep_dispatch(c)
  PROVE  SlotsOK' /\ SettledOK'
<1>1. /\ run[c].path # <<>> /\ call[c] = NoCall
      /\ run' = IF call' = call THEN [run EXCEPT ![c] = Returned(c)] ELSE run
      /\ UNCHANGED <<pc, scan, work, budget, npending, pending, refs, promised, torn>>
  BY DEF kstep_dispatch, samples
<1>2. /\ run \in [Cpus -> RunType] /\ call \in [0 .. NCpus -> CallType] /\ budget \in Nat /\ ~Quiet(c)
  BY <1>1, NoneTypes, EventsAssumption DEF KernelType, Quiet
<1>3. call' = call \/ \E ev, arg : kstep_emit(c, ev, arg)
  BY DEF kstep_dispatch, on_sched_balance_selected, on_select_task_rq, on_set_task_cpu
<1>4. call'[0] = call[0] /\ (\A d \in Cpus : d # c => call'[d] = call[d]) /\ call'[c].slot = 0 /\ call[c].slot = 0
  <2>1. NoCall.slot = 0
    BY DEF NoCall
  <2>2. CASE call' = call
    BY <1>1, <2>1, <2>2
  <2>3. ASSUME NEW ev, NEW arg, kstep_emit(c, ev, arg)
        PROVE  call'[0] = call[0] /\ (\A d \in Cpus : d # c => call'[d] = call[d]) /\ call'[c].slot = 0 /\ call[c].slot = 0
    BY <1>1, <1>2, <2>1, <2>3, CpuRange DEF kstep_emit
  <2> QED
    BY <1>3, <2>2, <2>3
<1>5. /\ \A d \in Cpus : d # c => run'[d] = run[d]
      /\ (In(c, "select_task_rq_fair"))' => In(c, "select_task_rq_fair") /\ run'[c].id = run[c].id
  <2>1. CASE run' = run
    BY <2>1 DEF In
  <2>2. CASE run' = [run EXCEPT ![c] = Returned(c)]
    BY <1>1, <1>2, <2>2, ReturnedOK DEF In
  <2> QED
    BY <1>1, <2>1, <2>2
<1>6. SettledOK'
  BY <1>1, <1>2, <1>4, <1>5, BusyStep
<1>7. SlotsOK'
  BY <1>1, <1>2, <1>4, <1>5, SlotsKept DEF In
<1> QED
  BY <1>6, <1>7

\* A callback returns that holds no slot.
LEMMA NextEntryS ==
  ASSUME RInv, KernelType, KInv, SlotsOK, SettledOK, NEW c \in Cpus, call[c] # NoCall, call[c].slot = 0, Next_i(c),
         UNCHANGED <<scan, work, budget, npending, pending, refs, promised, torn>>
  PROVE  SlotsOK' /\ SettledOK'
<1>1. /\ pc' = pc
      /\ \A d \in Cpus : d # c => run'[d] = run[d]
      /\ \A d \in 0 .. NCpus : d # c => call'[d] = call[d]
      /\ call'[c].slot = 0
      /\ run'[c] = run[c] \/ run'[c] = Returned(c)
  BY NextEntry
<1>2. run[c].path # <<>> /\ ~Quiet(c) /\ budget \in Nat
  BY InCall, EventsAssumption DEF KernelType
<1>3. (In(c, "select_task_rq_fair"))' => In(c, "select_task_rq_fair") /\ run'[c].id = run[c].id
  BY <1>1, <1>2, ReturnedOK DEF In
<1>4. call'[0] = call[0] /\ \A d \in Cpus : d # c => call'[d] = call[d]
  BY <1>1, CpuRange
<1>5. SettledOK'
  BY <1>1, <1>2, <1>4, BusyStep
<1>6. SlotsOK'
  BY <1>1, <1>2, <1>3, <1>4, SlotsKept DEF In
<1> QED
  BY <1>5, <1>6

LEMMA EmitNothingS ==
  ASSUME RInv, KernelType, KInv, SlotsOK, SettledOK, NEW c \in Cpus, EmitNothing(c)
  PROVE  SlotsOK' /\ SettledOK'
<1>1. call[c] # NoCall /\ call[c].n = 0 /\ Next_i(c) /\ UNCHANGED <<scan, work, budget, npending, pending, refs, promised, torn>>
  BY DEF EmitNothing, samples, history
<1>2. call[c].slot = 0
  BY <1>1, InCall DEF CallOK
<1> QED
  BY <1>1, <1>2, NextEntryS

LEMMA CallbackS ==
  ASSUME RInv, KernelType, KInv, SlotsOK, SettledOK, NEW c \in Cpus, Callback(c)
  PROVE  SlotsOK' /\ SettledOK'
<1>1. /\ At(c) /\ Entry(c) # "on_select" /\ Next_i(c) /\ call[c] # NoCall
      /\ UNCHANGED <<scan, work, budget, npending, pending, refs, promised, torn>>
  BY DEF Callback, samples, At
<1>2. call[c].slot = 0
  <2>1. Entry(c) \in Callbacks /\ WatchedBy(Entry(c)) = call[c].ev
    BY <1>1, EntryThere, CpuRange
  <2>2. call[c].ev # "select_task_rq"
    BY <1>1, <2>1 DEF WatchedBy, Callbacks
  <2>3. call[c].slot \in 0 .. Wakeups
    BY <1>1, InCall DEF CallType
  <2> QED
    BY <2>2, <2>3, EventsAssumption DEF SlotsOK
<1> QED
  BY <1>1, <1>2, NextEntryS

LEMMA SelectS ==
  ASSUME RInv, KernelType, KInv, SlotsOK, SettledOK, NEW c \in Cpus, on_select(c)
  PROVE  SlotsOK' /\ SettledOK'
<1>1. /\ At(c) /\ Entry(c) = "on_select" /\ call[c].slot = 0 /\ call[c] # NoCall
      /\ UNCHANGED <<scan, work, budget, pending, refs, promised, torn>>
  BY DEF on_select, history, At
<1>2. CASE Next_i(c) /\ UNCHANGED npending
  BY <1>1, <1>2, NextEntryS
<1>3. /\ npending \in Nat /\ budget \in Nat /\ ~Quiet(c) /\ call \in [0 .. NCpus -> CallType] /\ call[c] \in CallType
      /\ call[0].slot = 0 /\ call[c].ev = "select_task_rq"
  <2>1. npending \in Nat /\ budget \in Nat /\ call \in [0 .. NCpus -> CallType]
    BY EventsAssumption DEF KernelType
  <2>2. ~Quiet(c) /\ call[c] \in CallType
    BY <1>1, InCall
  <2>3. call[0].slot = 0
    BY <2>2, Busy
  <2>4. call[c].ev = "select_task_rq"
    BY <1>1, SelectArg
  <2> QED
    BY <2>1, <2>2, <2>3, <2>4
<1>4. \A d \in Cpus : call[d].slot \in 0 .. Wakeups
  BY <1>3, CpuRange DEF CallType
<1>5. CASE npending' = npending + 1 /\ npending < Wakeups /\ call' = [call EXCEPT ![c].slot = npending + 1] /\ UNCHANGED <<run, pc>>
  <2>1. /\ call'[c].slot = npending + 1 /\ call'[c].ev = "select_task_rq"
        /\ \A d \in 0 .. NCpus : d # c => call'[d] = call[d]
    <3>1. call'[c] = [call[c] EXCEPT !.slot = npending + 1] /\ \A d \in 0 .. NCpus : d # c => call'[d] = call[d]
      BY <1>3, <1>5, CpuRange
    <3> QED
      BY <1>3, <3>1 DEF CallType
  <2>2. call'[0] = call[0] /\ \A d \in Cpus : d # c => call'[d] = call[d]
    BY <2>1, CpuRange
  <2>3. SettledOK'
    BY <1>1, <1>3, <1>5, <2>2, BusyStep
  <2>4. InFlight' = (InFlight \ {0}) \union {npending + 1} \/ InFlight' = InFlight \union {npending + 1}
    <3>1. InFlight' = {call[d].slot : d \in Cpus \ {c}} \union {npending + 1}
      BY <2>1, <2>2 DEF InFlight
    <3>2. InFlight = {call[d].slot : d \in Cpus \ {c}} \union {0}
      BY <1>1 DEF InFlight
    <3> QED
      BY <3>1, <3>2
  <2>5. Taken' = Taken \union {npending + 1} /\ 0 \notin Taken /\ npending + 1 \notin Taken
    BY <1>3, <1>5, EventsAssumption DEF Taken
  <2>6. Taken' \ InFlight' = Taken \ InFlight
    BY <2>4, <2>5
  <2>7. Live' = Live
    BY <1>3, <2>2, <2>6 DEF Live
  <2>8. (\A d \in Cpus : call[d].slot > 0 => call[d].ev = "select_task_rq" /\ call[d].slot <= npending)'
    <3> SUFFICES ASSUME NEW d \in Cpus, call'[d].slot > 0
                 PROVE  call'[d].ev = "select_task_rq" /\ call'[d].slot <= npending'
      OBVIOUS
    <3>1. CASE d = c
      BY <1>3, <1>5, <2>1, <3>1
    <3>2. CASE d # c
      BY <1>3, <1>4, <1>5, <2>2, <3>2 DEF SlotsOK
    <3> QED
      BY <3>1, <3>2
  <2>9. (\A d, e \in Cpus : call[d].slot > 0 /\ call[d].slot = call[e].slot => d = e)'
    <3>1. \A d \in Cpus : d # c => call'[d].slot # npending + 1
      BY <1>3, <1>4, <2>2 DEF SlotsOK
    <3> QED
      BY <2>1, <2>2, <3>1 DEF SlotsOK
  <2>10. (refs = {pending[k] : k \in Live} /\ \A j, k \in Live : pending[j] = pending[k] => j = k)'
    BY <1>1, <2>7 DEF SlotsOK
  <2>11. (\A d \in Cpus : In(d, "select_task_rq_fair") => run[d].id \notin refs)' /\ (\A r \in refs : r > budget)'
    BY <1>1, <1>5 DEF SlotsOK, In
  <2> QED
    BY <2>3, <2>8, <2>9, <2>10, <2>11 DEF SlotsOK
<1>6. CASE npending' = npending + 1 /\ ~(npending < Wakeups) /\ Next_i(c)
  <2>1. /\ pc' = pc
        /\ \A d \in Cpus : d # c => run'[d] = run[d]
        /\ \A d \in 0 .. NCpus : d # c => call'[d] = call[d]
        /\ call'[c].slot = 0
        /\ run'[c] = run[c] \/ run'[c] = Returned(c)
        /\ run[c].path # <<>>
    BY <1>1, <1>6, NextEntry
  <2>2. call'[0] = call[0] /\ \A d \in Cpus : d # c => call'[d] = call[d]
    BY <2>1, CpuRange
  <2>3. SettledOK'
    BY <1>1, <1>3, <2>1, <2>2, BusyStep
  <2>4. Taken' = Taken /\ InFlight' = InFlight
    <3>1. Taken' = Taken
      BY <1>3, <1>6, EventsAssumption DEF Taken
    <3>2. \A d \in Cpus : call'[d].slot = call[d].slot
      BY <1>1, <2>1, <2>2
    <3> QED
      BY <3>1, <3>2 DEF InFlight
  <2>5. Live' = Live
    BY <1>3, <2>2, <2>4 DEF Live
  <2>6. (\A d \in Cpus : call[d].slot > 0 => call[d].ev = "select_task_rq" /\ call[d].slot <= npending)'
    <3> SUFFICES ASSUME NEW d \in Cpus, call'[d].slot > 0
                 PROVE  call'[d].ev = "select_task_rq" /\ call'[d].slot <= npending'
      OBVIOUS
    <3>1. d # c
      BY <2>1
    <3> QED
      BY <1>3, <1>4, <1>6, <2>2, <3>1 DEF SlotsOK
  <2>7. (\A d, e \in Cpus : call[d].slot > 0 /\ call[d].slot = call[e].slot => d = e)'
    <3>1. \A d \in Cpus : call'[d].slot = call[d].slot
      BY <1>1, <2>1, <2>2
    <3> QED
      BY <3>1 DEF SlotsOK
  <2>8. (refs = {pending[k] : k \in Live} /\ \A j, k \in Live : pending[j] = pending[k] => j = k)'
    BY <1>1, <2>5 DEF SlotsOK
  <2>9. (\A d \in Cpus : In(d, "select_task_rq_fair") => run[d].id \notin refs)'
    <3>1. (In(c, "select_task_rq_fair"))' => In(c, "select_task_rq_fair") /\ run'[c].id = run[c].id
      BY <2>1, ReturnedOK DEF In
    <3> QED
      BY <1>1, <2>1, <3>1 DEF SlotsOK, In
  <2>10. (\A r \in refs : r > budget)'
    BY <1>1 DEF SlotsOK
  <2> QED
    BY <2>3, <2>6, <2>7, <2>8, <2>9, <2>10 DEF SlotsOK
<1> QED
  BY <1>2, <1>5, <1>6 DEF on_select

\* on_select() is the only one on its event, so with it the wakeup's event is over.
LEMMA OnlySelect ==
  ASSUME RInv, KernelType, KInv, NEW c \in Cpus, At(c), Entry(c) = "on_select"
  PROVE  ~(call[c].i < call[c].n)
<1>1. /\ call[c].ev = "select_task_rq" /\ CallOK(c) /\ call[c] \in CallType /\ call[c].n > 0
  BY SelectArg, CpuRange DEF KInv, KernelType, At
<1>2. /\ n["select_task_rq"] \in Nat /\ subs["select_task_rq"] \in Seq(Callbacks) /\ "select_task_rq" \in EventNames
  BY DEF RInv, RegistryType, EventNames
<1> DEFINE s == subs["select_task_rq"]
<1>3. /\ Len(s) >= n["select_task_rq"]
      /\ \A j, k \in 1 .. Len(s) : s[j] = s[k] => j = k
      /\ \A k \in 1 .. Len(s) : WatchedBy(s[k]) = "select_task_rq"
  BY <1>2 DEF RInv, Counted
<1>4. \A k \in 1 .. Len(s) : s[k] = "on_select"
  <2> SUFFICES ASSUME NEW k \in 1 .. Len(s) PROVE s[k] = "on_select"
    OBVIOUS
  <2>1. s[k] \in Callbacks /\ WatchedBy(s[k]) = "select_task_rq"
    BY <1>2, <1>3
  <2> QED
    BY <2>1 DEF WatchedBy, Callbacks
<1>5. Len(s) <= 1
  <2> HIDE DEF s
  <2>1. Len(s) \in Nat
    BY <1>2 DEF s
  <2>2. ~(1 \in 1 .. Len(s) /\ 2 \in 1 .. Len(s))
    BY <1>3, <1>4
  <2> QED
    BY <2>1, <2>2
<1>6. Len(s) \in Nat
  BY <1>2
<1>7. call[c].n <= n["select_task_rq"] /\ call[c].n \in Nat /\ call[c].i >= 1 /\ call[c].i \in Nat
  BY <1>1 DEF CallOK, CallType
<1> HIDE DEF s
<1> QED
  BY <1>2, <1>3, <1>5, <1>6, <1>7

LEMMA SelectStoreS ==
  ASSUME RInv, KernelType, KInv, SlotsOK, SettledOK, NEW c \in Cpus, on_select_store(c)
  PROVE  SlotsOK' /\ SettledOK'
<1> DEFINE s == call[c].slot
           a == call[c].arg
<1>1. /\ At(c) /\ Entry(c) = "on_select" /\ s > 0 /\ Next_i(c) /\ call[c] # NoCall
      /\ pending' = [pending EXCEPT ![s] = a] /\ refs' = refs \union {a}
      /\ UNCHANGED <<scan, work, budget, npending, promised, torn>>
  BY DEF on_select_store, history, At
<1>2. /\ npending \in Nat /\ budget \in Nat /\ ~Quiet(c) /\ call[c] \in CallType
      /\ call[0].slot = 0 /\ call \in [0 .. NCpus -> CallType] /\ pending \in [1 .. Wakeups -> 0 .. MaxWork]
  BY <1>1, InCall, Busy, EventsAssumption DEF KernelType
<1>3. /\ In(c, "select_task_rq_fair") /\ a = run[c].id /\ a > budget
  BY <1>1, SelectArg
<1>4. /\ pc' = pc
      /\ \A d \in Cpus : d # c => run'[d] = run[d]
      /\ \A d \in 0 .. NCpus : d # c => call'[d] = call[d]
      /\ call'[c] = NoCall /\ call'[c].slot = 0 /\ run'[c] = Returned(c) /\ run[c].path # <<>>
  BY <1>1, NextEntry, OnlySelect
<1>5. call'[0] = call[0] /\ \A d \in Cpus : d # c => call'[d] = call[d]
  BY <1>4, CpuRange
<1>6. SettledOK'
  BY <1>1, <1>2, <1>4, <1>5, BusyStep
<1>7. s \in 1 .. Wakeups /\ s <= npending
  <2>1. s \in 0 .. Wakeups
    BY <1>2 DEF CallType
  <2>2. s <= npending
    BY <1>1 DEF SlotsOK
  <2> QED
    BY <1>1, <2>1, <2>2, EventsAssumption
<1>8. /\ Live = Taken \ InFlight /\ Live' = Taken' \ InFlight' /\ Taken' = Taken
      /\ s \in Taken /\ s \in InFlight /\ 0 \notin Taken
  BY <1>1, <1>2, <1>5, <1>7 DEF Live, Taken, InFlight
<1>9. InFlight' \union {s} = InFlight \union {0} /\ s \notin InFlight'
  <2>1. InFlight' = {call[d].slot : d \in Cpus \ {c}} \union {0}
    BY <1>4, <1>5 DEF InFlight
  <2>2. InFlight = {call[d].slot : d \in Cpus \ {c}} \union {s}
    BY DEF InFlight
  <2>3. s \notin {call[d].slot : d \in Cpus \ {c}}
    BY <1>1 DEF SlotsOK
  <2> QED
    BY <1>1, <2>1, <2>2, <2>3
<1>10. Live' = Live \union {s} /\ s \notin Live
  BY <1>8, <1>9
<1>11. Live \subseteq 1 .. Wakeups
  BY <1>8 DEF Taken
<1>12. a \notin refs
  BY <1>3 DEF SlotsOK
<1> HIDE DEF s, a
<1>13. pending'[s] = a /\ \A k \in Live : pending'[k] = pending[k]
  BY <1>1, <1>2, <1>7, <1>10, <1>11
<1>14. (refs = {pending[k] : k \in Live})'
  <2>1. refs = {pending[k] : k \in Live}
    BY DEF SlotsOK
  <2> QED
    BY <1>1, <1>10, <1>13, <2>1
<1>15. (\A j, k \in Live : pending[j] = pending[k] => j = k)'
  <2>1. \A k \in Live : pending[k] \in refs
    BY DEF SlotsOK
  <2>2. \A k \in Live : pending[k] # a
    BY <1>12, <2>1
  <2>3. \A j, k \in Live : pending[j] = pending[k] => j = k
    BY DEF SlotsOK
  <2> QED
    BY <1>10, <1>13, <2>2, <2>3
<1>16. (\A d \in Cpus : call[d].slot > 0 => call[d].ev = "select_task_rq" /\ call[d].slot <= npending)'
  BY <1>1, <1>4, <1>5 DEF SlotsOK
<1>17. (\A d, e \in Cpus : call[d].slot > 0 /\ call[d].slot = call[e].slot => d = e)'
  BY <1>4, <1>5 DEF SlotsOK
<1>18. (\A d \in Cpus : In(d, "select_task_rq_fair") => run[d].id \notin refs)'
  <2> SUFFICES ASSUME NEW d \in Cpus, (In(d, "select_task_rq_fair"))' PROVE run'[d].id \notin refs'
    OBVIOUS
  <2>1. d # c
    BY <1>4, ReturnedOK DEF In
  <2>2. In(d, "select_task_rq_fair") /\ run'[d].id = run[d].id
    BY <1>4, <2>1 DEF In
  <2>3. run[d].id # a /\ run[d].id \notin refs
    BY <1>3, <2>1, <2>2 DEF KInv, OwnIds, SlotsOK
  <2> QED
    BY <1>1, <2>2, <2>3
<1>19. (\A r \in refs : r > budget)'
  BY <1>1, <1>3 DEF SlotsOK
<1> QED
  BY <1>6, <1>14, <1>15, <1>16, <1>17, <1>18, <1>19 DEF SlotsOK

-----------------------------------------------------------------------------
(* SInv: steps of the controller *)

\* The controller's steps that leave the CPUs and the samples alone.
LEMMA RegisterS ==
  ASSUME RInv, KernelType, KInv, SlotsOK, SettledOK, Register
  PROVE  SlotsOK' /\ SettledOK'
<1>1. UNCHANGED <<pc, scan, work, run, budget, call, npending, pending, refs, promised, torn>>
  BY DEF Register, kernel, samples, history
<1>2. budget \in Nat
  BY EventsAssumption DEF KernelType
<1>3. SlotsOK'
  BY <1>1, <1>2, SlotsKept DEF In
<1>4. SettledOK'
  BY <1>1 DEF SettledOK, AllQuiet, Quiet
<1> QED
  BY <1>3, <1>4

LEMMA RegisteringS ==
  ASSUME RInv, KernelType, KInv, SlotsOK, SettledOK, Registering
  PROVE  SlotsOK' /\ SettledOK'
<1>1. /\ UNCHANGED <<work, run, budget, call, npending, pending, refs, torn>>
      /\ pc \in DOMAIN Registrations /\ scan' = 1
      /\ promised' = promised \union {Registrations[pc][k].fn : k \in 1 .. Len(Registrations[pc])}
      /\ pc' = IF pc = "setup" THEN "ready" ELSE "settle"
  BY DEF Registering, kernel, samples, history
<1>2. budget \in Nat
  BY EventsAssumption DEF KernelType
<1>3. SlotsOK'
  BY <1>1, <1>2, SlotsKept DEF In
<1>4. pc = "setup" => "on_settle" \notin promised'
  <2> SUFFICES ASSUME pc = "setup" PROVE "on_settle" \notin promised'
    OBVIOUS
  <2>1. promised = {}
    BY DEF SettledOK
  <2>2. Registrations["setup"] = <<Add("balance_selected", "output_balance"), Add("task_migrate", "report_migrate")>>
    BY DEF Registrations, setup
  <2>3. Add("balance_selected", "output_balance").fn = "output_balance" /\ Add("task_migrate", "report_migrate").fn = "report_migrate"
    BY DEF Add
  <2>4. \A k \in 1 .. Len(Registrations["setup"]) : Registrations["setup"][k].fn \in {"output_balance", "report_migrate"}
    BY <2>2, <2>3
  <2> QED
    BY <1>1, <2>1, <2>4
<1>5. (pc = "settle" => \A c \in Cpus : c < scan => Quiet(c))'
  BY <1>1 DEF Cpus
<1>6. SettledOK'
  BY <1>1, <1>4, <1>5 DEF SettledOK
<1> QED
  BY <1>3, <1>6

LEMMA EnableS ==
  ASSUME RInv, KernelType, KInv, SlotsOK, SettledOK, NEW name \in {"sync_wakeup", "balance"}, kstep_check_enable(name)
  PROVE  SlotsOK' /\ SettledOK'
<1>1. /\ UNCHANGED <<work, run, budget, call, npending, pending, refs, torn>>
      /\ pc' = name
  BY DEF kstep_check_enable, kernel, samples, history
<1>2. budget \in Nat
  BY EventsAssumption DEF KernelType
<1>3. SlotsOK'
  BY <1>1, <1>2, SlotsKept DEF In
<1>4. SettledOK'
  BY <1>1 DEF SettledOK
<1> QED
  BY <1>3, <1>4

LEMMA CommandS ==
  ASSUME RInv, KernelType, KInv, KernelType', SlotsOK, SettledOK, NEW S \in SUBSET Cpus, Command(S)
  PROVE  SlotsOK' /\ SettledOK'
<1>1. /\ UNCHANGED <<run, call, npending, pending, refs, torn>>
      /\ pc' = "settle" /\ scan' = 1 /\ budget' = budget - Cardinality(S)
  BY DEF Command, samples, history
<1>2. budget \in Nat /\ budget' \in Nat /\ Cardinality(S) \in Nat
  <2>1. IsFiniteSet(Cpus)
    BY FS_Interval, EventsAssumption DEF Cpus
  <2>2. Cardinality(S) \in Nat
    BY <2>1, FS_Subset, FS_CardinalityType
  <2> QED
    BY <2>2, EventsAssumption DEF KernelType
<1>3. SlotsOK'
  BY <1>1, <1>2, SlotsKept DEF In
<1>4. (pc = "settle" => \A c \in Cpus : c < scan => Quiet(c))'
  BY <1>1 DEF Cpus
<1>5. SettledOK'
  BY <1>1, <1>4 DEF SettledOK
<1> QED
  BY <1>3, <1>5

LEMMA SettleS ==
  ASSUME RInv, KernelType, KInv, SlotsOK, SettledOK, kstep_settle
  PROVE  SlotsOK' /\ SettledOK'
<1>1. /\ pc = "settle" /\ Quiet(scan)
      /\ UNCHANGED <<work, run, budget, promised, npending, pending, refs, torn>>
  BY DEF kstep_settle, kernel, samples, history, kstep_cpu_settled, Quiet
<1>2. call \in [0 .. NCpus -> CallType] /\ budget \in Nat /\ scan \in Cpus
  BY EventsAssumption DEF KernelType
<1>3. call[0] = NoCall /\ call[0].slot = 0
  <2>1. call[0] = NoCall
    BY <1>1, ControllerCall
  <2> QED
    BY <2>1 DEF NoCall
<1>4. \A c \in Cpus : c < scan => Quiet(c)
  BY <1>1 DEF SettledOK
<1>5. CASE scan < NCpus
  <2>1. scan' = scan + 1 /\ UNCHANGED <<pc, call>>
    BY <1>5 DEF kstep_settle
  <2>2. SlotsOK'
    BY <1>1, <1>2, <2>1, SlotsKept DEF In
  <2>3. (\A c \in Cpus : c < scan => Quiet(c))'
    <3> SUFFICES ASSUME NEW c \in Cpus, c < scan + 1 PROVE (Quiet(c))'
      BY <2>1
    <3>1. c < scan \/ c = scan
      BY <1>2, EventsAssumption DEF Cpus
    <3>2. Quiet(c)
      BY <1>1, <1>4, <3>1
    <3> QED
      BY <1>1, <3>2 DEF Quiet
  <2>4. SettledOK'
    BY <1>1, <1>3, <2>1, <2>3 DEF SettledOK
  <2> QED
    BY <2>2, <2>4
<1>6. CASE ~(scan < NCpus)
  <2>1. pc' = "emit" /\ kstep_emit(0, "settle", 0)
    BY <1>6 DEF kstep_settle
  <2>2. call'[0].slot = 0 /\ \A c \in Cpus : call'[c] = call[c]
    BY <1>2, <2>1, CpuRange DEF kstep_emit
  <2>3. SlotsOK'
    BY <1>1, <1>2, <1>3, <2>2, SlotsKept DEF In
  <2>4. AllQuiet'
    <3> SUFFICES ASSUME NEW c \in Cpus PROVE (Quiet(c))'
      BY DEF AllQuiet
    <3>1. c < scan \/ c = scan
      BY <1>2, <1>6, EventsAssumption DEF Cpus
    <3>2. Quiet(c)
      BY <1>1, <1>4, <3>1
    <3> QED
      BY <1>1, <3>2 DEF Quiet
  <2>5. SettledOK'
    BY <1>1, <2>1, <2>2, <2>4 DEF SettledOK
  <2> QED
    BY <2>3, <2>5
<1> QED
  BY <1>5, <1>6

\* While the settle event is raised no CPU holds a slot.
LEMMA NoneInFlight ==
  ASSUME KernelType, KInv, SettledOK, pc = "emit"
  PROVE  /\ AllQuiet /\ InFlight = {0} /\ \A c \in Cpus : call[c] = NoCall /\ call[c].slot = 0 /\ run[c].path = <<>>
<1>1. AllQuiet
  BY DEF SettledOK
<1>2. \A c \in Cpus : call[c] = NoCall /\ run[c].path = <<>>
  BY <1>1, InCall, NoneTypes DEF AllQuiet, Quiet
<1>3. NoCall.slot = 0
  BY DEF NoCall
<1>4. InFlight = {0}
  BY <1>2, <1>3, CpuRange DEF InFlight
<1> QED
  BY <1>1, <1>2, <1>3, <1>4

\* A step of the settle event: the samples are those from the callback's place on.
LEMMA SettleEventS ==
  ASSUME KernelType, KInv, SettledOK, SlotsOK, pc = "emit", pc' \in {"emit", "ready"},
         UNCHANGED <<run, work, budget, pending, promised>>, \A c \in Cpus : call'[c] = call[c],
         refs' \subseteq refs, ~torn',
         Live' \subseteq Live, refs' = {pending[k] : k \in Live'},
         call'[0].slot > 0 => npending' = 0,
         pc' = "ready" /\ "on_settle" \in promised => refs' = {} /\ npending' = 0
  PROVE  SlotsOK' /\ SettledOK'
<1>1. AllQuiet /\ \A c \in Cpus : call'[c].slot = 0 /\ run'[c].path = <<>>
  BY NoneInFlight
<1>2. SlotsOK'
  <2>1. (\A c \in Cpus : call[c].slot > 0 => call[c].ev = "select_task_rq" /\ call[c].slot <= npending)'
    BY <1>1
  <2>2. (\A c, d \in Cpus : call[c].slot > 0 /\ call[c].slot = call[d].slot => c = d)'
    BY <1>1
  <2>3. (refs = {pending[k] : k \in Live} /\ \A j, k \in Live : pending[j] = pending[k] => j = k)'
    BY DEF SlotsOK
  <2>4. (\A c \in Cpus : In(c, "select_task_rq_fair") => run[c].id \notin refs)'
    BY <1>1 DEF In
  <2>5. (\A r \in refs : r > budget)'
    BY DEF SlotsOK
  <2> QED
    BY <2>1, <2>2, <2>3, <2>4, <2>5 DEF SlotsOK
<1>3. AllQuiet'
  BY <1>1 DEF AllQuiet, Quiet
<1>4. SettledOK'
  BY <1>3 DEF SettledOK
<1> QED
  BY <1>2, <1>4

LEMMA EmitNothing0S ==
  ASSUME RInv, KernelType, KInv, SlotsOK, SettledOK, EmitNothing(0)
  PROVE  SlotsOK' /\ SettledOK'
<1>1. /\ call[0] # NoCall /\ call[0].n = 0 /\ Next_i(0)
      /\ UNCHANGED <<work, budget, npending, pending, refs, promised, torn>>
  BY DEF EmitNothing, samples, history
<1>2. pc = "emit" /\ call[0].n = n["settle"] /\ CallOK(0) /\ call[0].ev = "settle" /\ call[0] \in CallType
  BY <1>1, ControllerCall
<1>3. call[0].slot = 0
  BY <1>1, <1>2 DEF CallOK
<1>4. run' = run /\ (\A d \in Cpus : call'[d] = call[d]) /\ call'[0].slot = 0 /\ pc' \in {"emit", "ready"}
  BY <1>1, <1>2, NextEntry0
<1>5. "on_settle" \notin promised
  <2>1. WatchedBy("on_settle") = "settle"
    BY DEF WatchedBy
  <2> QED
    BY <1>1, <1>2, <2>1 DEF RInv, Promised
<1>6. Live' = Live
  BY <1>1, <1>3, <1>4 DEF Live, Taken, InFlight
<1> QED
  BY <1>1, <1>2, <1>4, <1>5, <1>6, SettleEventS DEF SlotsOK, SettledOK

LEMMA SettleCallS ==
  ASSUME RInv, KernelType, KInv, SlotsOK, SettledOK, on_settle
  PROVE  SlotsOK' /\ SettledOK'
<1> DEFINE k == IF npending < Wakeups THEN npending ELSE Wakeups
<1>1. /\ At(0) /\ call[0] # NoCall /\ npending' = 0 /\ call[0].slot = 0
      /\ IF k = 0 THEN Next_i(0)
                  ELSE call' = [call EXCEPT ![0].slot = 1, ![0].left = k] /\ UNCHANGED <<run, pc>>
      /\ UNCHANGED <<work, budget, promised, torn, pending, refs>>
  BY DEF on_settle, history, At
<1>2. /\ pc = "emit" /\ call \in [0 .. NCpus -> CallType] /\ call[0] \in CallType
  BY <1>1, ControllerCall
<1>3. npending \in Nat /\ k \in Nat /\ Taken = 1 .. k
  BY EventsAssumption DEF KernelType, Taken
<1>4. InFlight = {0}
  BY <1>2, NoneInFlight
<1>5. Live = 1 .. k
  BY <1>1, <1>3, <1>4 DEF Live
<1> HIDE DEF k
<1>6. CASE k = 0
  <2>1. Next_i(0)
    BY <1>1, <1>6
  <2>2. run' = run /\ (\A d \in Cpus : call'[d] = call[d]) /\ call'[0].slot = 0 /\ pc' \in {"emit", "ready"}
    BY <1>1, <1>2, <2>1, NextEntry0
  <2>3. Live = {} /\ Live' = {}
    <3>1. Taken' = {}
      BY <1>1, EventsAssumption DEF Taken
    <3> QED
      BY <1>5, <1>6, <2>2, <3>1 DEF Live
  <2>4. refs = {}
    BY <2>3 DEF SlotsOK
  <2> QED
    BY <1>1, <1>2, <2>2, <2>3, <2>4, SettleEventS DEF SettledOK
<1>7. CASE k # 0
  <2>1. call' = [call EXCEPT ![0].slot = 1, ![0].left = k] /\ UNCHANGED <<run, pc>>
    BY <1>1, <1>7
  <2>2. call'[0].slot = 1 /\ call'[0].left = k /\ \A d \in Cpus : call'[d] = call[d]
    BY <1>2, <2>1, CpuRange DEF CallType
  <2>3. Live' = Live
    BY <1>5, <2>2 DEF Live
  <2> QED
    BY <1>1, <1>2, <2>1, <2>2, <2>3, SettleEventS DEF SlotsOK, SettledOK
<1> QED
  BY <1>6, <1>7

LEMMA JudgeS ==
  ASSUME RInv, KernelType, KInv, SlotsOK, SettledOK, on_settle_judge
  PROVE  SlotsOK' /\ SettledOK'
<1> DEFINE k == call[0].slot
           l == call[0].left
<1>1. /\ At(0) /\ call[0] # NoCall /\ k > 0 /\ torn' = (torn \/ pending[k] \notin refs)
      /\ refs' = refs \ {pending[k]}
      /\ IF k = l THEN Next_i(0)
                  ELSE call' = [call EXCEPT ![0].slot = k + 1] /\ UNCHANGED <<run, pc>>
      /\ UNCHANGED <<work, budget, promised, npending, pending>>
  BY DEF on_settle_judge, At
<1>2. /\ pc = "emit" /\ call \in [0 .. NCpus -> CallType] /\ call[0] \in CallType
  BY <1>1, ControllerCall
<1>3. k \in Nat /\ l \in Nat /\ k <= l
  <2>1. k \in 0 .. Wakeups /\ l \in 0 .. Wakeups
    BY <1>2 DEF CallType
  <2>2. k <= l
    BY DEF KInv, Emitting
  <2> QED
    BY <2>1, <2>2, EventsAssumption
<1>4. Live = k .. l /\ npending = 0
  BY <1>1 DEF Live, SettledOK
<1>5. pending[k] \in refs /\ ~torn'
  <2>1. k \in Live
    BY <1>3, <1>4
  <2>2. pending[k] \in refs
    BY <2>1 DEF SlotsOK
  <2> QED
    BY <1>1, <2>2 DEF SettledOK
<1>6. refs' = {pending[j] : j \in Live \ {k}}
  <2>1. refs = {pending[j] : j \in Live} /\ \A i, j \in Live : pending[i] = pending[j] => i = j
    BY DEF SlotsOK
  <2>2. k \in Live
    BY <1>3, <1>4
  <2> QED
    BY <1>1, <2>1, <2>2
<1> HIDE DEF k, l
<1>7. CASE k = l
  <2>1. Next_i(0)
    BY <1>1, <1>7
  <2>2. run' = run /\ (\A d \in Cpus : call'[d] = call[d]) /\ call'[0].slot = 0 /\ pc' \in {"emit", "ready"}
    BY <1>1, <1>2, <2>1, NextEntry0
  <2>3. Live \ {k} = {} /\ Live' = {}
    <3>1. Taken' = {}
      BY <1>1, <1>4, EventsAssumption DEF Taken
    <3>2. Live \ {k} = {}
      BY <1>3, <1>4, <1>7
    <3> QED
      BY <2>2, <3>1, <3>2 DEF Live
  <2>4. refs' = {} /\ refs' = {pending[j] : j \in Live'}
    BY <1>6, <2>3
  <2> QED
    BY <1>1, <1>2, <1>4, <1>5, <2>2, <2>3, <2>4, SettleEventS
<1>8. CASE k # l
  <2>1. call' = [call EXCEPT ![0].slot = k + 1] /\ UNCHANGED <<run, pc>>
    BY <1>1, <1>8
  <2>2. call'[0].slot = k + 1 /\ call'[0].left = l /\ \A d \in Cpus : call'[d] = call[d]
    BY <1>2, <2>1, CpuRange DEF CallType, l
  <2>3. Live' = (k + 1) .. l
    BY <1>3, <2>2 DEF Live
  <2>4. Live' = Live \ {k}
    BY <1>3, <1>4, <2>3
  <2>5. refs' = {pending[j] : j \in Live'}
    BY <1>6, <2>4
  <2> QED
    BY <1>1, <1>2, <1>4, <1>5, <2>1, <2>2, <2>4, <2>5, SettleEventS
<1> QED
  BY <1>7, <1>8

-----------------------------------------------------------------------------
(* The theorems *)

LEMMA InitInv == Init => IInv
<1> SUFFICES ASSUME Init PROVE IInv
  OBVIOUS
<1>1. /\ pc = "setup" /\ todo = kstep_trace_init \o setup /\ scan = 1 /\ running = FALSE
      /\ subs = [e \in EventNames |-> <<>>] /\ n = [e \in EventNames |-> 0]
      /\ hooks = <<>> /\ nhooks = 0 /\ traced = FALSE /\ filter = {}
      /\ run = [c \in Cpus |-> NoRun] /\ call = [c \in 0 .. NCpus |-> NoCall]
      /\ npending = 0 /\ pending = [k \in 1 .. Wakeups |-> 0] /\ refs = {} /\ promised = {}
      /\ stash = [c \in Cpus |-> 0] /\ budget = MaxWork /\ work \in [Cpus -> 0 .. 1]
      /\ wild = FALSE /\ missed = FALSE /\ unheard = FALSE /\ torn = FALSE /\ chained = FALSE
  BY DEF Init
<1> DEFINE h == Hook("init_tg_cfs_entry")
           r == Do("register", "ops")
           a == Add("balance_selected", "output_balance")
           b == Add("task_migrate", "report_migrate")
<1>2. todo = <<h, r>> \o <<a, b>>
  BY <1>1 DEF kstep_trace_init, setup
<1>3. /\ h.op = "hook" /\ r.op = "register" /\ a.op = "add" /\ b.op = "add"
      /\ a.fn = "output_balance" /\ b.fn = "report_migrate"
  BY DEF Hook, Do, Add
<1>4. h \in Ops /\ r \in Ops /\ a \in Ops /\ b \in Ops
  <2>1. h \in Ops
    <3>1. "init_tg_cfs_entry" \in Functions
      BY DEF Functions
    <3> QED
      BY <3>1 DEF Ops
  <2>2. r \in Ops
    BY DEF Ops
  <2>3. WatchedBy("output_balance") = "balance_selected" /\ WatchedBy("report_migrate") = "task_migrate"
    BY DEF WatchedBy
  <2>4. "output_balance" \in Callbacks /\ "report_migrate" \in Callbacks
    BY DEF Callbacks
  <2>5. a \in Ops /\ b \in Ops
    BY <2>3, <2>4, OpsMembers
  <2> QED
    BY <2>1, <2>2, <2>5
<1> HIDE DEF h, r, a, b
<1>5. /\ Len(todo) = 4 /\ todo[1] = h /\ todo[2] = r /\ todo[3] = a /\ todo[4] = b /\ todo # <<>>
      /\ todo \in Seq(Ops) /\ 1 .. Len(todo) = {1, 2, 3, 4}
  <2>1. <<h, r>> \in Seq(Ops) /\ <<a, b>> \in Seq(Ops) /\ Len(<<h, r>>) = 2 /\ Len(<<a, b>>) = 2
    BY <1>4
  <2>2. todo \in Seq(Ops) /\ Len(todo) = 4
    BY <1>2, <2>1
  <2>3. todo[1] = <<h, r>>[1] /\ todo[2] = <<h, r>>[2] /\ todo[3] = <<a, b>>[1] /\ todo[4] = <<a, b>>[2]
    BY <1>2, <2>1
  <2> QED
    BY <2>2, <2>3
<1>6. RegistryType
  <2>1. \A S : <<>> \in Seq(S)
    OBVIOUS
  <2>2. subs \in [EventNames -> Seq(Callbacks)] /\ n \in [EventNames -> Nat] /\ hooks \in Seq(Functions)
    BY <1>1, <2>1
  <2> QED
    BY <1>1, <1>5, <2>2 DEF RegistryType
<1>7. Shape
  <2>1. PlainFrom(2)
    <3> SUFFICES ASSUME NEW k \in 2 .. Len(todo) PROVE todo[k].op \in Plain
      BY DEF PlainFrom
    <3>1. k \in {2, 3, 4}
      BY <1>5
    <3> QED
      BY <1>3, <1>5, <3>1 DEF Plain
  <2> QED
    BY <1>3, <1>5, <2>1 DEF Shape
<1>8. \A op, x : op # "hook" => ~At1(Do(op, x))
  <2> SUFFICES ASSUME NEW op, NEW x, op # "hook", At1(Do(op, x)) PROVE FALSE
    OBVIOUS
  <2>1. Do(op, x).op = op
    BY DEF Do
  <2> QED
    BY <1>3, <1>5, <2>1 DEF At1
<1>9. \A fn : ~At1(EntryOf(fn))
  <2> SUFFICES ASSUME NEW fn, At1(EntryOf(fn)) PROVE FALSE
    OBVIOUS
  <2>1. EntryOf(fn).op = "entry"
    BY DEF EntryOf
  <2> QED
    BY <1>3, <1>5, <2>1 DEF At1
<1>10. \A e \in EventNames : subs[e] = <<>> /\ Len(subs[e]) = 0 /\ n[e] = 0
  BY <1>1
<1>11. Counted
  <2>1. \A e \in EventNames : ~At1(Do("count", e))
    BY <1>8
  <2> QED
    BY <1>9, <1>10, <2>1, EventsAssumption DEF Counted
<1>12. HooksCounted
  <2>1. \A f \in Functions : ~At1(Do("table", f)) /\ ~At1(Do("publish", f)) /\ ~At1(Do("filter", f))
    BY <1>8
  <2> QED
    BY <1>1, <2>1, EventsAssumption DEF HooksCounted
<1>13. Booted
  <2>1. pc \in DOMAIN Registrations
    BY <1>1, RegistrationNames
  <2>2. Coming(Do("register", "ops"))
    BY <1>5 DEF Coming, r
  <2>3. \A k \in 1 .. Len(todo) : todo[k].op = "register" => k = 2
    BY <1>3, <1>5
  <2> QED
    BY <1>1, <1>3, <1>5, <2>1, <2>2, <2>3 DEF Booted
<1>14. Promised
  <2>1. \A fn \in Callbacks : ~Stored(fn)
    BY <1>10, WatchedType DEF Stored
  <2>2. Registrations[pc] = <<a, b>>
    BY <1>1 DEF Registrations, setup, a, b
  <2>3. \A k \in 1 .. Len(Registrations[pc]) : Coming(Add(WatchedBy(Registrations[pc][k].fn), Registrations[pc][k].fn))
    <3> SUFFICES ASSUME NEW k \in 1 .. Len(Registrations[pc])
                 PROVE  Coming(Add(WatchedBy(Registrations[pc][k].fn), Registrations[pc][k].fn))
      OBVIOUS
    <3>1. k = 1 \/ k = 2
      BY <2>2
    <3>2. WatchedBy("output_balance") = "balance_selected" /\ WatchedBy("report_migrate") = "task_migrate"
      BY DEF WatchedBy
    <3>3. CASE k = 1
      <4>1. Registrations[pc][k].fn = "output_balance"
        BY <1>3, <2>2, <3>3
      <4> QED
        BY <1>5, <3>2, <4>1 DEF Coming, a
    <3>4. CASE k = 2
      <4>1. Registrations[pc][k].fn = "report_migrate"
        BY <1>3, <2>2, <3>4
      <4> QED
        BY <1>5, <3>2, <4>1 DEF Coming, b
    <3> QED
      BY <3>1, <3>3, <3>4
  <2> QED
    BY <1>1, <1>9, <2>1, <2>3 DEF Promised
<1>15. \A c \in Cpus : run[c] = NoRun /\ run[c].path = <<>> /\ stash[c] = 0 /\ run[c].owed = {}
  <2>1. NoRun.owed = {} /\ NoRun.path = <<>>
    BY DEF NoRun
  <2> QED
    BY <1>1, <2>1
<1>16. \A c \in 0 .. NCpus : call[c] = NoCall /\ call[c].ev = "none" /\ call[c].slot = 0 /\ call[c].left = 0
  <2>1. NoCall.ev = "none" /\ NoCall.slot = 0 /\ NoCall.left = 0
    BY DEF NoCall
  <2> QED
    BY <1>1, <2>1
<1>17. KernelType
  <2>1. pc \in DOMAIN Registrations \union {"ready", "settle", "emit"} /\ scan \in Cpus
    BY <1>1, RegistrationNames, EventsAssumption DEF Cpus
  <2>2. run \in [Cpus -> RunType] /\ call \in [0 .. NCpus -> CallType]
    BY <1>1, NoneTypes
  <2>3. stash \in [Cpus -> 0 .. NCpus] /\ work \in [Cpus -> Nat] /\ pending \in [1 .. Wakeups -> 0 .. MaxWork]
    BY <1>1, EventsAssumption
  <2> QED
    <3>1. budget \in 0 .. MaxWork
      BY <1>1, EventsAssumption
    <3> QED
      BY <1>1, <2>1, <2>2, <2>3, <3>1 DEF KernelType
<1>18. KInv
  <2>1. \A c \in Cpus : CpuOK(c)
    BY <1>15, <1>16, CpuRange DEF CpuOK, In
  <2>2. \A c \in 0 .. NCpus : CallOK(c)
    BY <1>16 DEF CallOK
  <2>3. Emitting /\ OwnIds
    <3>1. Emitting
      BY <1>1, <1>16, CpuRange DEF Emitting
    <3>2. OwnIds
      BY <1>15 DEF OwnIds, In
    <3> QED
      BY <3>1, <3>2
  <2> QED
    BY <1>1, <2>1, <2>2, <2>3 DEF KInv, PublishedFirst, HeardOnce
<1>19. SInv
  <2>1. Live = {}
    <3>1. Taken = {}
      BY <1>1, EventsAssumption DEF Taken
    <3> QED
      BY <1>16, <3>1, CpuRange DEF Live
  <2>2. SlotsOK
    <3>1. \A c \in Cpus : call[c].slot = 0 /\ ~In(c, "select_task_rq_fair")
      BY <1>15, <1>16, CpuRange DEF In
    <3> QED
      <4>1. {pending[k] : k \in Live} = {}
        BY <2>1
      <4> QED
        <5>1. refs = {pending[k] : k \in Live}
          BY <1>1, <4>1
        <5>2. \A j, k \in Live : pending[j] = pending[k] => j = k
          BY <2>1
        <5>3. \A x \in refs : x > budget
          BY <1>1
        <5> QED
          BY <3>1, <5>1, <5>2, <5>3 DEF SlotsOK
  <2>3. SettledOK
    BY <1>1, <1>16, CpuRange DEF SettledOK
  <2> QED
    BY <2>2, <2>3 DEF SInv
<1> QED
  BY <1>6, <1>7, <1>11, <1>12, <1>13, <1>14, <1>17, <1>18, <1>19 DEF IInv, RInv

LEMMA ChainedStays == Next => (chained => chained')
BY DEF Next, Register, Registering, kstep_check_enable, Command, Tracer, Begin, Enqueue, kstep_dispatch,
       on_select, on_select_store, EmitNothing, Callback, on_settle, on_settle_judge, kstep_settle

LEMMA StepInv == IInv /\ [Next]_vars => IInv'
<1> SUFFICES ASSUME IInv, [Next]_vars PROVE IInv'
  OBVIOUS
<1>0. RInv /\ KernelType /\ KInv /\ SInv
  BY DEF IInv
<1> SUFFICES ASSUME Next PROVE IInv'
  <2>1. CASE UNCHANGED vars
    <3>1. UNCHANGED <<pc, todo, scan, running, subs, n, hooks, nhooks, traced, filter, stash, work, run, budget, call,
                      npending, pending, refs, promised, wild, missed, unheard, torn, chained>>
      BY <2>1 DEF vars, registry, kernel, samples, history
    <3>2. RInv'
      <4>1. promised' \subseteq Callbacks /\ (pc \notin DOMAIN Registrations => todo = <<>>)
        BY <1>0, <3>1 DEF RInv, RegistryType, Booted
      <4> QED
        BY <1>0, <3>1, <4>1, RegistryKept DEF registry
    <3>3. KernelType'
      BY <1>0, <3>1 DEF KernelType
    <3>4. KInv'
      BY <1>0, <3>1 DEF KInv, CpuOK, In, CallOK, Emitting, OwnIds, PublishedFirst, HeardOnce
    <3>5. SInv'
      BY <1>0, <3>1 DEF SInv, SlotsOK, SettledOK, Live, Taken, InFlight, In, AllQuiet, Quiet
    <3> QED
      BY <3>2, <3>3, <3>4, <3>5 DEF IInv
  <2> QED
    BY <2>1
<1> SUFFICES RInv' /\ KernelType' /\ KInv' /\ (SlotsOK /\ SettledOK /\ ~chained' => SlotsOK' /\ SettledOK')
  BY <1>0, ChainedStays DEF IInv, SInv
<1>1. CASE Register
  BY <1>0, <1>1, RegisterRInv, RegisterK, RegisterS
<1>2. CASE Registering
  BY <1>0, <1>2, RegisteringRInv, RegisteringK, RegisteringS
<1>3. ASSUME NEW name \in {"sync_wakeup", "balance"}, kstep_check_enable(name)
      PROVE  RInv' /\ KernelType' /\ KInv' /\ (SlotsOK /\ SettledOK /\ ~chained' => SlotsOK' /\ SettledOK')
  BY <1>0, <1>3, EnableRInv, EnableK, EnableS
<1>4. ASSUME NEW S \in SUBSET Cpus, Cardinality(S) <= budget, Command(S)
      PROVE  RInv' /\ KernelType' /\ KInv' /\ (SlotsOK /\ SettledOK /\ ~chained' => SlotsOK' /\ SettledOK')
  <2>1. RInv'
    <3>1. pc = "ready" /\ pc' = "settle" /\ UNCHANGED <<todo, registry, promised>>
      BY <1>4 DEF Command
    <3>2. pc \notin DOMAIN Registrations /\ pc' \notin DOMAIN Registrations
      BY <3>1, RegistrationNames
    <3>3. todo = <<>> /\ promised' \subseteq Callbacks
      BY <1>0, <3>1, <3>2 DEF RInv, RegistryType, Booted
    <3> QED
      BY <1>0, <3>1, <3>2, <3>3, RegistryKept
  <2>2. KernelType' /\ KInv'
    BY <1>0, <1>4, <2>1, CommandK
  <2> QED
    BY <1>0, <1>4, <2>1, <2>2, CommandS
<1>5. ASSUME NEW c \in Cpus, Tracer(c)
      PROVE  RInv' /\ KernelType' /\ KInv' /\ (SlotsOK /\ SettledOK /\ ~chained' => SlotsOK' /\ SettledOK')
  <2>1. CASE Begin(c)
    BY <1>0, <2>1, BeginK, BeginS
  <2>2. ASSUME NEW d \in Cpus, Enqueue(c, d)
        PROVE  RInv' /\ KernelType' /\ KInv' /\ (SlotsOK /\ SettledOK /\ ~chained' => SlotsOK' /\ SettledOK')
    BY <1>0, <2>2, EnqueueK, EnqueueS
  <2>3. CASE kstep_dispatch(c)
    BY <1>0, <2>3, DispatchK, DispatchS
  <2>4. CASE on_select(c)
    BY <1>0, <2>4, SelectK, SelectS
  <2>5. CASE on_select_store(c)
    BY <1>0, <2>5, SelectStoreK, SelectStoreS
  <2> QED
    BY <1>5, <2>1, <2>2, <2>3, <2>4, <2>5 DEF Tracer
<1>6. ASSUME NEW c \in 0 .. NCpus, EmitNothing(c) \/ Callback(c)
      PROVE  RInv' /\ KernelType' /\ KInv' /\ (SlotsOK /\ SettledOK /\ ~chained' => SlotsOK' /\ SettledOK')
  <2>1. CASE c = 0
    BY <1>0, <1>6, <2>1, EmitNothing0K, EmitNothing0S, Callback0K
  <2>2. CASE c # 0
    <3>1. c \in Cpus
      BY <2>2, EventsAssumption DEF Cpus
    <3> QED
      BY <1>0, <1>6, <3>1, EmitNothingK, EmitNothingS, CallbackK, CallbackS
  <2> QED
    BY <2>1, <2>2
<1>7. CASE on_settle
  BY <1>0, <1>7, SettleCallK, SettleCallS
<1>8. CASE on_settle_judge
  BY <1>0, <1>8, JudgeK, JudgeS
<1>9. CASE kstep_settle
  BY <1>0, <1>9, SettleK, SettleS
<1> QED
  BY <1>1, <1>2, <1>3, <1>4, <1>5, <1>6, <1>7, <1>8, <1>9 DEF Next

\* The invariant of the registry, of the CPUs and of the samples, together.
THEOREM Invariant == Spec => []IInv
BY InitInv, StepInv, PTL DEF Spec

\* The tables of event.c and trace.c and the slots of sync_wakeup.c are never
\* indexed beyond their end, and no count passes its table.
THEOREM TypeCorrect == Spec => []TypeOK
<1>1. IInv => TypeOK
  <2> SUFFICES ASSUME IInv PROVE TypeOK
    OBVIOUS
  <2>1. RInv /\ KernelType /\ KInv
    BY DEF IInv
  <2>2. \A e \in EventNames : Len(subs[e]) <= Subs /\ n[e] \in 0 .. Subs
    <3> SUFFICES ASSUME NEW e \in EventNames PROVE Len(subs[e]) <= Subs /\ n[e] \in 0 .. Subs
      OBVIOUS
    <3>1. n[e] \in Nat /\ subs[e] \in Seq(Callbacks)
      BY <2>1 DEF RInv, RegistryType
    <3>2. Len(subs[e]) \in Nat
      BY <3>1
    <3>3. Len(subs[e]) <= Subs /\ Len(subs[e]) >= n[e]
      BY <2>1, <3>1, <3>2 DEF RInv, Counted
    <3> QED
      BY <3>1, <3>2, <3>3, EventsAssumption
  <2>3. nhooks \in 0 .. HookSlots
    <3>1. nhooks \in Nat /\ Len(hooks) \in Nat
      BY <2>1 DEF RInv, RegistryType
    <3>2. Len(hooks) <= HookSlots /\ Len(hooks) >= nhooks
      BY <2>1, <3>1 DEF RInv, HooksCounted
    <3> QED
      BY <3>1, <3>2, EventsAssumption
  <2>4. \A c \in 0 .. NCpus : call[c].n <= Subs /\ call[c].slot \in 0 .. Wakeups
    <3> SUFFICES ASSUME NEW c \in 0 .. NCpus PROVE call[c].n <= Subs /\ call[c].slot \in 0 .. Wakeups
      OBVIOUS
    <3>1. call[c] \in CallType /\ CallOK(c)
      BY <2>1 DEF KernelType, KInv
    <3>2. call[c].slot \in 0 .. Wakeups /\ call[c].n \in Nat /\ call[c].ev \in EventNames \union {"none"}
      BY <3>1 DEF CallType
    <3>3. CASE call[c].ev = "none"
      <4>1. call[c] = NoCall /\ NoCall.n = 0
        BY <3>1, <3>3 DEF CallOK, NoCall
      <4> QED
        BY <3>2, <4>1, EventsAssumption
    <3>4. CASE call[c].ev \in EventNames
      <4>1. call[c].n <= n[call[c].ev]
        BY <3>1, <3>4 DEF CallOK, EventNames
      <4> QED
        BY <2>2, <3>2, <3>4, <4>1, EventsAssumption
    <3> QED
      BY <3>2, <3>3, <3>4
  <2> QED
    BY <2>1, <2>2, <2>3, <2>4 DEF TypeOK, KernelType, RInv, RegistryType
<1> QED
  BY <1>1, Invariant, PTL

\* kstep_event_add() and kstep_hook() while CPUs are in traced functions: an event
\* never calls an entry that is not stored, and kstep_dispatch() finds the hook of
\* every function that ftrace sends it.
THEOREM RegistrationSafe == Spec => []PublishedFirst
<1>1. IInv => PublishedFirst
  BY DEF IInv, KInv
<1> QED
  BY <1>1, Invariant, PTL

\* Once kstep_check_enable() has returned, every traced function a CPU enters
\* reaches the rule's callback exactly once.
THEOREM HeardExactlyOnce == Spec => []HeardOnce
<1>1. IInv => HeardOnce
  BY DEF IInv, KInv
<1> QED
  BY <1>1, Invariant, PTL

\* What on_sched_balance_selected() reports is the destination of the balance it
\* is called in, although it was stashed by another hook.
THEOREM BalanceReportedRight == Spec => []BalanceIsOwn
<1>1. IInv => BalanceIsOwn
  BY DEF IInv, KInv, CpuOK, BalanceIsOwn
<1> QED
  BY <1>1, Invariant, PTL

\* on_settle() of sync_wakeup.c judges no entry whose sample is not stored, unless
\* a CPU the settle had passed was given work.
THEOREM JudgedSamples == Spec => []TornOnlyByChain
<1>1. IInv => TornOnlyByChain
  BY DEF IInv, SInv, SettledOK, TornOnlyByChain
<1> QED
  BY <1>1, Invariant, PTL

\* When a command is over, on_settle() has put every task that on_select() took.
THEOREM SamplesReturned == Spec => []RefsReturned
<1>1. IInv => RefsReturned
  BY DEF IInv, SInv, SettledOK, RefsReturned
<1> QED
  BY <1>1, Invariant, PTL

=============================================================================
