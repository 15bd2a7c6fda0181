------------------------------ MODULE Session ------------------------------
(***************************************************************************)
(* The way a command takes from the host to the driver and back: the       *)
(* host's Session (crates/kstep/src/session.rs), the virtio console port   *)
(* between them, the module's own driver of that port (kmod/io.c), the     *)
(* command loop at its end (kmod/cli.c, run()), and the region of guest    *)
(* memory the host reads behind the driver's back (kmod/shm.c).            *)
(*                                                                         *)
(* A command is its number; a line is that number, repeated for its        *)
(* length, and a Newline.  What a command does is in TaskControl; here it  *)
(* raises trace records and changes the state the region shows.            *)
(***************************************************************************)
EXTENDS Integers, Sequences, FiniteSets, SequencesExt

CONSTANTS
  TxBuf,      \* the transmit buffers: TX_BUFS of them
  VqSize,     \* entries of the transmit virtqueue (the device's, external)
  RxBufs,     \* RX_BUFS
  RxBufSize,  \* RX_BUF
  RingSize,   \* sizeof(rx_ring)
  UintMod,    \* unsigned int wraps at this
  LineMax,    \* LINE_MAX
  LineLens,   \* the lengths of the lines the host sends, newline excluded
  MaxCmds,    \* bound on the commands of a session
  MaxEvents   \* bound on its trace records

ASSUME SizesAssumption ==
  /\ VqSize \in Nat \ {0} /\ RxBufs \in Nat \ {0} /\ RxBufSize \in Nat \ {0}
  /\ RingSize \in Nat \ {0} /\ LineMax \in Nat \ {0, 1}
  /\ IsFiniteSet(TxBuf)
  /\ UintMod \in Nat /\ UintMod > RingSize /\ UintMod % RingSize = 0
  /\ LineLens \subseteq Nat \ {0}
  /\ MaxCmds \in Nat /\ MaxEvents \in Nat

Newline == 0
Torn == -1      \* a copy of the region whose halves disagree

VARIABLES
  tx_free,   \* stack of unused transmit buffers
  content,   \* what each transmit buffer holds
  avail,     \* transmit virtqueue: given to the device, oldest first
  used,      \* transmit virtqueue: consumed, not yet taken back
  tx_irq,    \* a transmit interrupt is on its way
  socket,    \* records on the host's socket, not yet read
  wire,      \* bytes the host wrote, not yet in a receive buffer
  posted,    \* receive buffers the device may fill
  filled,    \* the bytes in those it has filled, oldest first
  rx_irq,    \* a receive interrupt is on its way
  rx_ring, rx_head, rx_tail,
  line,      \* what kstep_io_readline() has of the line so far
  drv,       \* where the driver is in run()
  more,      \* run()'s loop flag
  region,    \* the shared region, in two halves: commands each has seen done
  host,      \* where the Session is
  copy,      \* the half of the region it has copied, while it copies
  seen,      \* what the last copy showed: commands done, or Torn
  ncmd,      \* commands sent
  nreply,    \* replies read, the ready line not counted
  quit,      \* the number of the exit command, 0 before it is sent
  nrec,      \* records written
  nread,     \* records read
  nevent,    \* trace records among those written
  panic      \* why the guest stopped, or "no"

txVars   == <<tx_free, content, avail, used, tx_irq>>
rxVars   == <<posted, filled, rx_irq, rx_ring, rx_head, rx_tail>>
drvVars  == <<line, drv, more, region>>
hostVars == <<host, copy, seen, ncmd, nreply, quit, nread>>
vars == <<txVars, rxVars, drvVars, hostVars, socket, wire, nrec, nevent, panic>>

\* A record: the reply to a command (0: the ready line), or a trace record.
NoRecord == [reply |-> FALSE, cmd |-> 0, no |-> 0]

\* chan_probe(): every transmit buffer free, every receive buffer posted.
Init ==
  /\ tx_free = SetToSeq(TxBuf)
  /\ content = [b \in TxBuf |-> NoRecord]
  /\ avail = <<>> /\ used = <<>> /\ tx_irq = FALSE
  /\ socket = <<>> /\ wire = <<>>
  /\ posted = RxBufs /\ filled = <<>> /\ rx_irq = FALSE
  /\ rx_ring = [i \in 0..RingSize-1 |-> Newline] /\ rx_head = 0 /\ rx_tail = 0
  /\ line = <<>> /\ drv = "ready" /\ more = TRUE
  /\ region = <<0, 0>>
  /\ host = "await" /\ copy = <<>> /\ seen = 0
  /\ ncmd = 0 /\ nreply = 0 /\ quit = 0
  /\ nrec = 0 /\ nread = 0 /\ nevent = 0
  /\ panic = "no"

\* The guest runs: it has neither panicked nor been killed or rebooted.
Up == panic = "no" /\ host # "closed" /\ drv # "over"

-----------------------------------------------------------------------------
(* The transmit side of io.c. *)

\* Mutant: what comes back is dropped.
tx_reclaim_Drop == tx_free

\* tx_reclaim(): the consumed buffers, pushed in the order they come back.
tx_reclaim == tx_free \o used

tx_done ==
  /\ Up /\ tx_irq
  /\ tx_irq' = FALSE
  /\ tx_free' = tx_reclaim
  /\ used' = <<>>
  /\ UNCHANGED <<content, avail, rxVars, drvVars, hostVars, socket, wire, nrec, nevent, panic>>

\* virtqueue_add_outbuf() of record r in buffer b (external): fails when the
\* virtqueue, with the buffers `back' consumed and not taken out, has no room.
virtqueue_add_outbuf(r, b, rest, back) ==
  IF Len(avail) + Len(back) >= VqSize
    THEN panic' = "add" /\ UNCHANGED <<tx_free, content, avail, used, nrec>>
    ELSE /\ tx_free' = rest
         /\ used' = back
         /\ content' = [content EXCEPT ![b] = [r EXCEPT !.no = nrec + 1]]
         /\ avail' = Append(avail, b)
         /\ nrec' = nrec + 1
         /\ UNCHANGED panic

TxFull == panic' = "full" /\ UNCHANGED <<tx_free, content, avail, used, nrec>>

\* Mutant: the buffer on top of the stack is used and stays there.
kstep_io_write_NoPop(r) ==
  IF tx_free = <<>> THEN TxFull
  ELSE virtqueue_add_outbuf(r, Last(tx_free), tx_free, used)

\* Mutant: an empty pool is a full channel, whatever has been consumed.
kstep_io_write_NoReclaim(r) ==
  IF tx_free = <<>> THEN TxFull
  ELSE virtqueue_add_outbuf(r, Last(tx_free), Front(tx_free), used)

\* kstep_io_write(), under tx_lock: an empty pool is first reclaimed; still
\* empty, it panics, as a failed add does.
kstep_io_write(r) ==
  LET free == IF tx_free = <<>> THEN tx_reclaim ELSE tx_free
      back == IF tx_free = <<>> THEN <<>> ELSE used
  IN  IF free = <<>> THEN TxFull
      ELSE virtqueue_add_outbuf(r, Last(free), Front(free), back)

\* The device (external): the oldest record goes to the socket.  Its interrupt
\* may be missed.
Transmit ==
  /\ Up /\ avail # <<>>
  /\ socket' = Append(socket, content[Head(avail)])
  /\ avail' = Tail(avail)
  /\ used' = Append(used, Head(avail))
  /\ tx_irq' \in {tx_irq, TRUE}
  /\ UNCHANGED <<tx_free, content, rxVars, drvVars, hostVars, wire, nrec, nevent, panic>>

\* A scheduler hook on a test CPU reports what it saw: any time, any context.
TraceRecord ==
  /\ Up /\ nevent < MaxEvents
  /\ nevent' = nevent + 1
  /\ kstep_io_write([reply |-> FALSE, cmd |-> 0, no |-> 0])
  /\ UNCHANGED <<tx_irq, rxVars, drvVars, hostVars, socket, wire>>

-----------------------------------------------------------------------------
(* The receive side of io.c. *)

\* The device (external) fills one posted buffer with what has come in.
Receive ==
  /\ Up /\ posted > 0 /\ wire # <<>>
  /\ \E n \in 1..RxBufSize :
       /\ n <= Len(wire)
       /\ filled' = filled \o SubSeq(wire, 1, n)
       /\ wire' = SubSeq(wire, n + 1, Len(wire))
  /\ posted' = posted - 1
  /\ rx_irq' = TRUE
  /\ UNCHANGED <<txVars, rx_ring, rx_head, rx_tail, drvVars, hostVars, socket, nrec, nevent, panic>>

\* unsigned int arithmetic.
Uint(n) == n % UintMod

\* The bytes at rx_head and after, in the ring.
RingWith(bytes) ==
  [i \in 0..RingSize-1 |->
     LET at == {k \in 1..Len(bytes) : Uint(rx_head + k - 1) % RingSize = i}
     IN  IF at = {} THEN rx_ring[i] ELSE bytes[Max(at)]]

\* The first n filled bytes into the ring, and `back' buffers with the device
\* again; a byte the ring has no room for panics.
Drain(n, back) ==
  IF Uint(rx_head - rx_tail) + n > RingSize
    THEN panic' = "input" /\ UNCHANGED <<posted, filled, rx_ring, rx_head>>
    ELSE /\ rx_ring' = RingWith(SubSeq(filled, 1, n))
         /\ rx_head' = Uint(rx_head + n)
         /\ filled' = SubSeq(filled, n + 1, Len(filled))
         /\ posted' = back
         /\ UNCHANGED panic

\* Mutant: one buffer to an interrupt.
rx_done_One ==
  /\ Up /\ rx_irq
  /\ rx_irq' = FALSE
  /\ IF Len(filled) > RxBufSize THEN Drain(RxBufSize, posted + 1) ELSE Drain(Len(filled), RxBufs)
  /\ UNCHANGED <<txVars, rx_tail, drvVars, hostVars, socket, wire, nrec, nevent>>

\* rx_done(), under rx_lock: until no filled buffer is left.
rx_done ==
  /\ Up /\ rx_irq
  /\ rx_irq' = FALSE
  /\ Drain(Len(filled), RxBufs)
  /\ UNCHANGED <<txVars, rx_tail, drvVars, hostVars, socket, wire, nrec, nevent>>

\* Mutant: the cut is one byte late.
kstep_io_readline_Over ==
  /\ Up /\ drv = "read" /\ rx_head # rx_tail
  /\ rx_tail' = Uint(rx_tail + 1)
  /\ LET c == rx_ring[rx_tail % RingSize]
     IN  /\ drv' = IF c = Newline THEN "execute" ELSE "read"
         /\ line' = IF c # Newline /\ Len(line) < LineMax THEN Append(line, c) ELSE line
  /\ UNCHANGED <<txVars, posted, filled, rx_irq, rx_ring, rx_head, more, region,
                 hostVars, socket, wire, nrec, nevent, panic>>

\* Mutant: a full line is a whole line; the rest of it is the next one.
kstep_io_readline_Stop ==
  /\ Up /\ drv = "read" /\ rx_head # rx_tail
  /\ rx_tail' = Uint(rx_tail + 1)
  /\ LET c == rx_ring[rx_tail % RingSize]
     IN  /\ drv' = IF c = Newline \/ Len(line) + 2 = LineMax THEN "execute" ELSE "read"
         /\ line' = IF c # Newline THEN Append(line, c) ELSE line
  /\ UNCHANGED <<txVars, posted, filled, rx_irq, rx_ring, rx_head, more, region,
                 hostVars, socket, wire, nrec, nevent, panic>>

\* One turn of kstep_io_readline()'s loop: wait for a byte and take it; what
\* exceeds LineMax - 1 bytes is dropped, a newline ends the line.
kstep_io_readline ==
  /\ Up /\ drv = "read" /\ rx_head # rx_tail
  /\ rx_tail' = Uint(rx_tail + 1)
  /\ LET c == rx_ring[rx_tail % RingSize]
     IN  /\ drv' = IF c = Newline THEN "execute" ELSE "read"
         /\ line' = IF c # Newline /\ Len(line) + 1 < LineMax THEN Append(line, c) ELSE line
  /\ UNCHANGED <<txVars, posted, filled, rx_irq, rx_ring, rx_head, more, region,
                 hostVars, socket, wire, nrec, nevent, panic>>

-----------------------------------------------------------------------------
(* The driver: run(). *)

\* The ready line; the region was laid out by setup().
Ready ==
  /\ Up /\ drv = "ready"
  /\ kstep_io_write([reply |-> TRUE, cmd |-> 0, no |-> 0])
  /\ drv' = "read"
  /\ UNCHANGED <<tx_irq, rxVars, line, more, region, hostVars, socket, wire, nevent>>

\* execute() and the settle after it (TaskControl): `exit' ends the loop.
execute ==
  /\ Up /\ drv = "execute"
  /\ more' = (Head(line) # quit)
  /\ drv' = "update"
  /\ UNCHANGED <<txVars, rxVars, line, region, hostVars, socket, wire, nrec, nevent, panic>>

\* Mutant: the second half is left as it was.
kstep_shm_update_Half ==
  /\ Up /\ drv = "update"
  /\ region' = [region EXCEPT ![1] = @ + 1]
  /\ drv' = "reply"
  /\ UNCHANGED <<txVars, rxVars, line, more, hostVars, socket, wire, nrec, nevent, panic>>

\* kstep_shm_update() writes the region in place, not at once.
kstep_shm_update ==
  /\ Up /\ drv \in {"update", "update2"}
  /\ IF drv = "update" THEN region' = [region EXCEPT ![1] = @ + 1] /\ drv' = "update2"
                       ELSE region' = [region EXCEPT ![2] = @ + 1] /\ drv' = "reply"
  /\ UNCHANGED <<txVars, rxVars, line, more, hostVars, socket, wire, nrec, nevent, panic>>

\* kstep_json_end(&reply); after the last reply the guest reboots.
Reply ==
  /\ Up /\ drv = "reply"
  /\ kstep_io_write([reply |-> TRUE, cmd |-> Head(line), no |-> 0])
  /\ line' = <<>>
  /\ drv' = IF more THEN "read" ELSE "over"
  /\ UNCHANGED <<tx_irq, rxVars, more, region, hostVars, socket, wire, nevent>>

-----------------------------------------------------------------------------
(* The host: Session. *)

\* The bytes of command k on a line of n.
LineOf(k, n) == [i \in 1..n |-> k] \o <<Newline>>

\* cmd(): write the line, then read_reply().
cmd ==
  /\ host = "idle" /\ ncmd < MaxCmds
  /\ host' = "await"
  /\ ncmd' = ncmd + 1
  /\ \E n \in LineLens : wire' = wire \o LineOf(ncmd + 1, n)
  /\ UNCHANGED <<txVars, rxVars, drvVars, copy, seen, nreply, quit, nread, socket, nrec, nevent, panic>>

\* Mutant: any record ends the wait.
read_reply_Any ==
  /\ host = "await" /\ socket # <<>>
  /\ socket' = Tail(socket)
  /\ nread' = nread + 1
  /\ host' = "answered"
  /\ nreply' = IF ncmd = 0 THEN 0 ELSE nreply + 1
  /\ UNCHANGED <<txVars, rxVars, drvVars, copy, seen, ncmd, quit, wire, nrec, nevent, panic>>

\* read_reply(): trace records are collected, a record without "type" is the
\* answer (the ready line, for start()).
read_reply ==
  /\ host = "await" /\ socket # <<>>
  /\ socket' = Tail(socket)
  /\ nread' = nread + 1
  /\ IF Head(socket).reply
       THEN /\ host' = "answered"
            /\ nreply' = IF ncmd = 0 THEN 0 ELSE nreply + 1
       ELSE UNCHANGED <<host, nreply>>
  /\ UNCHANGED <<txVars, rxVars, drvVars, copy, seen, ncmd, quit, wire, nrec, nevent, panic>>

\* state(): the region is copied out of the RAM file while the guest runs.
state ==
  /\ host = "answered"
  /\ IF copy = <<>>
       THEN copy' = <<region[1]>> /\ UNCHANGED <<host, seen>>
       ELSE /\ seen' = IF copy[1] = region[2] THEN region[2] ELSE Torn
            /\ copy' = <<>>
            /\ host' = "idle"
  /\ UNCHANGED <<txVars, rxVars, drvVars, ncmd, nreply, quit, nread, socket, wire, nrec, nevent, panic>>

\* exit(): the reply to `exit' is not read; the guest reboots or is killed.
exit ==
  /\ host = "idle" /\ quit = 0
  /\ host' = "exiting"
  /\ ncmd' = ncmd + 1
  /\ quit' = ncmd + 1
  /\ wire' = wire \o LineOf(ncmd + 1, 1)
  /\ UNCHANGED <<txVars, rxVars, drvVars, copy, seen, nreply, nread, socket, nrec, nevent, panic>>

\* A read that times out ends the session, as dropping it does: QEMU is killed.
drop ==
  /\ host \in {"await", "exiting"}
  /\ host' = "closed"
  /\ UNCHANGED <<txVars, rxVars, drvVars, copy, seen, ncmd, nreply, quit, nread, socket, wire, nrec, nevent, panic>>

-----------------------------------------------------------------------------

Guest ==
  \/ tx_done \/ rx_done \/ kstep_io_readline
  \/ Ready \/ execute \/ kstep_shm_update \/ Reply

Device == Transmit \/ Receive

Next ==
  \/ Guest \/ Device \/ TraceRecord
  \/ cmd \/ read_reply \/ state \/ exit \/ drop

Spec == Init /\ [][Next]_vars

\* The guest's CPUs, the device and the reading host keep running.
FairSpec ==
  /\ Spec
  /\ WF_vars(tx_done) /\ WF_vars(rx_done)
  /\ WF_vars(kstep_io_readline \/ Ready \/ execute \/ kstep_shm_update \/ Reply)
  /\ WF_vars(Transmit) /\ WF_vars(Receive) /\ WF_vars(read_reply) /\ WF_vars(state)

-----------------------------------------------------------------------------
(* Properties *)

Records == [reply : BOOLEAN, cmd : Nat, no : Nat]

\* Every variable keeps to its type.
TypeOK ==
  /\ tx_free \in Seq(TxBuf) /\ avail \in Seq(TxBuf) /\ used \in Seq(TxBuf)
  /\ content \in [TxBuf -> Records]
  /\ tx_irq \in BOOLEAN /\ rx_irq \in BOOLEAN /\ more \in BOOLEAN
  /\ socket \in Seq(Records)
  /\ wire \in Seq(Nat) /\ filled \in Seq(Nat) /\ line \in Seq(Nat)
  /\ Len(line) < LineMax
  /\ posted \in 0..RxBufs /\ (posted = RxBufs <=> filled = <<>>)
  /\ rx_ring \in [0..RingSize-1 -> Nat]
  /\ rx_head \in 0..UintMod-1 /\ rx_tail \in 0..UintMod-1
  /\ drv \in {"ready", "read", "execute", "update", "update2", "reply", "over"}
  /\ host \in {"await", "answered", "idle", "exiting", "closed"}
  /\ region \in Seq(Nat) /\ Len(region) = 2
  /\ copy \in Seq(Nat) /\ Len(copy) <= 1 /\ seen \in Nat \union {Torn}
  /\ {ncmd, nreply, quit, nrec, nread, nevent} \subseteq Nat
  /\ panic \in {"no", "full", "add", "input"}

\* A transmit buffer is free, with the device, or on its way back: in one place,
\* once.
PoolConserved ==
  LET all == tx_free \o avail \o used
  IN  IsInjective(all) /\ Range(all) = TxBuf

\* No record is lost, repeated, reordered or overwritten on the way to the host.
RecordsInOrder ==
  LET way == socket \o [i \in DOMAIN avail |-> content[avail[i]]]
  IN  /\ Len(way) = nrec - nread
      /\ \A i \in DOMAIN way : way[i].no = nread + i

\* "A full pool means it is behind by TX_BUFS records": that is the only panic of
\* the channel, and the write that meets it found every buffer with the device and
\* none of them consumed.  The virtqueue does not run out before the pool, and with
\* one line outstanding at most the input ring has room.
PanicOnlyBehind == panic # "no" => panic = "full" /\ Len(avail) = Cardinality(TxBuf)

\* The driver executes the command the host sent, whole up to its limit.
LineIntact ==
  drv = "execute" =>
    \E n \in LineLens \union {1} :
      line = [i \in 1..Min({n, LineMax - 1}) |-> ncmd]

\* The caller's reply is the reply to the caller's command.
OwnReply ==
  host = "await" /\ socket # <<>> /\ Head(socket).reply => Head(socket).cmd = ncmd

\* A command gets its reply, unless the guest panicked or the host gave up.
Answered == (host = "await") ~> (host # "await" \/ panic # "no")

\* What the session's user is promised: SessionSpec.
Promise == INSTANCE SessionSpec WITH
  sent <- ncmd, done <- region[2], answered <- nreply

\* Commands are carried out one at a time, in order, once each, and a state read
\* is the one the last command left, never a torn copy.
PromiseSpec == Promise!Spec
=============================================================================
