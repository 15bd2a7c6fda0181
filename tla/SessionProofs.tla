--------------------------- MODULE SessionProofs ---------------------------
(***************************************************************************)
(* Session, proved for every pool, virtqueue, ring, line limit and session *)
(* length: records reach the host in order, lines reach the driver whole,  *)
(* and the session implements SessionSpec.                                 *)
(***************************************************************************)
EXTENDS Session, FiniteSetTheorems, SequenceTheorems, TLAPS

-----------------------------------------------------------------------------
(* The inductive invariant. *)

\* The records a host that reads on will get: those on the socket, then those
\* the device has not sent.
Out(con, av) == [i \in 1 .. Len(av) |-> con[av[i]]]
WayOf(soc, con, av) == soc \o Out(con, av)
Way == WayOf(socket, content, avail)

\* The bytes a driver that reads on will get: those in the ring, those in filled
\* buffers, and those on the wire.
HeldIn(head, tail) == Uint(head - tail)
RingBytes(ring, head, tail) == [i \in 1 .. HeldIn(head, tail) |-> ring[(tail + i - 1) % RingSize]]
BytesOf(ring, head, tail, fil, wir) == (RingBytes(ring, head, tail) \o fil) \o wir
Bytes == BytesOf(rx_ring, rx_head, rx_tail, filled, wire)

\* Command k written n times; the length of a line of n after the cut; the lengths of
\* the lines the host sends, that of `exit' among them.
Copies(k, n) == [i \in 1 .. n |-> k]
Cut(n) == Min({n, LineMax - 1})
Lens == LineLens \union {1}

\* The transmit buffers, each in one place: free, with the device, or consumed.
Pool(free, out, back) ==
  /\ IsInjective(free) /\ IsInjective(out) /\ IsInjective(back)
  /\ Range(free) \intersect Range(out) = {} /\ Range(free) \intersect Range(back) = {}
  /\ Range(out) \intersect Range(back) = {}
  /\ (Range(free) \union Range(out)) \union Range(back) = TxBuf
  /\ Len(free) + Len(out) + Len(back) = Cardinality(TxBuf)

PoolInv == Pool(tx_free, avail, used)

\* The records on way w are numbered without a gap, from the last read to the last written.
Numbered(w, written, read) ==
  /\ Len(w) = written - read
  /\ \A i \in 1 .. Len(w) : w[i].no = read + i

WayInv == Numbered(Way, nrec, nread)

\* The driver is at d, with the bytes b to come and the line l so far, when command k
\* was the last sent and the region is reg.
AtLine(d, b, l, reg, k) ==
  \/ /\ d \in {"ready", "read", "over"} /\ (d = "ready" => k = 0)
     /\ b = <<>> /\ l = <<>> /\ reg = <<k, k>>
  \/ /\ d = "read" /\ k > 0 /\ Len(b) > 0 /\ reg = <<k - 1, k - 1>>
     /\ \A i \in 1 .. Len(b) : b[i] = IF i = Len(b) THEN Newline ELSE k
     /\ \E n \in Lens : n + 1 >= Len(b) /\ l = Copies(k, Cut(n + 1 - Len(b)))
  \/ /\ k > 0 /\ b = <<>>
     /\ \E n \in Lens : l = Copies(k, Cut(n))
     /\ \/ d \in {"execute", "update"} /\ reg = <<k - 1, k - 1>>
        \/ d = "update2" /\ reg = <<k, k - 1>>
        \/ d = "reply" /\ reg = <<k, k>>

LineInv ==
  /\ HeldIn(rx_head, rx_tail) <= RingSize
  /\ AtLine(drv, Bytes, line, region, ncmd)

\* The host is at h, having read rep replies and copied c, when the driver is at d with
\* the bytes b to come and its flag m, the records on way w, the last command k, exit q.
AtHost(h, rep, c, d, b, m, w, k, q) ==
  /\ h \in {"answered", "idle"} =>
       /\ d = "read" /\ b = <<>> /\ rep = k
       /\ \A i \in 1 .. Len(w) : ~w[i].reply
  /\ h \in {"await", "exiting", "closed"} => rep = IF k = 0 THEN 0 ELSE k - 1
  /\ \A i \in 1 .. Len(w) : w[i].reply =>
       /\ d \in {"read", "over"} /\ b = <<>> /\ w[i].cmd = k
       /\ \A j \in 1 .. Len(w) : w[j].reply => j = i
  /\ q = 0 \/ (q = k /\ h \in {"exiting", "closed"})
  /\ ~m \/ d = "over" => h \in {"exiting", "closed"}
  /\ c # <<>> => h = "answered" /\ c = <<k>>

HostInv == AtHost(host, nreply, copy, drv, Bytes, more, Way, ncmd, quit)

\* TypeOK, by the side that writes the variables.
TxType ==
  /\ tx_free \in Seq(TxBuf) /\ avail \in Seq(TxBuf) /\ used \in Seq(TxBuf)
  /\ content \in [TxBuf -> Records]
  /\ tx_irq \in BOOLEAN /\ socket \in Seq(Records)
  /\ nrec \in Nat /\ nread \in Nat /\ nevent \in Nat
  /\ panic \in {"no", "full", "add", "input"}
RxType ==
  /\ wire \in Seq(Nat) /\ filled \in Seq(Nat)
  /\ posted \in 0..RxBufs /\ (posted = RxBufs <=> filled = <<>>)
  /\ rx_ring \in [0..RingSize-1 -> Nat] /\ rx_irq \in BOOLEAN
  /\ rx_head \in 0..UintMod-1 /\ rx_tail \in 0..UintMod-1
DrvType ==
  /\ line \in Seq(Nat) /\ Len(line) < LineMax /\ more \in BOOLEAN
  /\ drv \in {"ready", "read", "execute", "update", "update2", "reply", "over"}
  /\ region \in Seq(Nat) /\ Len(region) = 2
HostType ==
  /\ host \in {"await", "answered", "idle", "exiting", "closed"}
  /\ copy \in Seq(Nat) /\ Len(copy) <= 1 /\ seen \in Nat \union {Torn}
  /\ ncmd \in Nat /\ nreply \in Nat /\ quit \in Nat

\* All of it.
IInv == TxType /\ RxType /\ DrvType /\ HostType /\ PoolInv /\ WayInv /\ LineInv /\ HostInv

-----------------------------------------------------------------------------
(* Arithmetic of the counters that wrap. *)

\* Division with remainder, and what follows for modular counters.
LEMMA DivMod ==
  ASSUME NEW m \in Nat \ {0}, NEW x \in Int
  PROVE  \E q \in Int, r \in 0 .. m - 1 : r = x % m /\ x = m * q + r
<1>1. x % m \in 0 .. m - 1 /\ x \div m \in Int
  OBVIOUS
<1>2. PICK q \in Int : q = x \div m
  BY <1>1
<1>3. PICK r \in 0 .. m - 1 : r = x % m
  BY <1>1
<1>4. x = m * q + r
  BY <1>2, <1>3
<1> QED
  BY <1>3, <1>4, Zenon

LEMMA Mult0 ==
  ASSUME NEW m \in Nat \ {0}, NEW d \in Int, -m < m * d, m * d < m
  PROVE  d = 0
OBVIOUS

LEMMA ModUnique ==
  ASSUME NEW m \in Nat \ {0}, NEW q \in Int, NEW r \in 0 .. m - 1, NEW x \in Int, x = m * q + r
  PROVE  x % m = r
<1>1. PICK q2 \in Int, r2 \in 0 .. m - 1 : r2 = x % m /\ x = m * q2 + r2
  BY DivMod
<1>2. m * q + r = m * q2 + r2
  BY <1>1
<1>3. m * (q - q2) = r2 - r
  BY <1>2
<1>4. q - q2 = 0
  BY <1>3, Mult0
<1>5. r = r2
  BY <1>2, <1>4
<1> QED
  BY <1>1, <1>5, Zenon

LEMMA ModAdd ==
  ASSUME NEW m \in Nat \ {0}, NEW x \in Int, NEW y \in Int
  PROVE  ((x % m) + y) % m = (x + y) % m
<1>1. PICK q \in Int, r \in 0 .. m - 1 : r = x % m /\ x = m * q + r
  BY DivMod
<1>2. r + y \in Int /\ x + y \in Int
  OBVIOUS
<1>3. PICK q1 \in Int, r1 \in 0 .. m - 1 : r1 = (r + y) % m /\ r + y = m * q1 + r1
  BY <1>2, DivMod
<1>4. x + y = m * q + m * q1 + r1
  <2>1. x = m * q + r /\ r + y = m * q1 + r1
    BY <1>1, <1>3, Zenon
  <2> QED
    BY <2>1
<1>5. x + y = m * (q + q1) + r1 /\ q + q1 \in Int
  BY <1>4
<1>6. (x + y) % m = r1
  <2>1. PICK z \in Int : z = x + y
    BY <1>2
  <2>2. PICK p \in Int : p = q + q1
    BY <1>5
  <2>3. z = m * p + r1
    BY <1>5, <2>1, <2>2
  <2>4. z % m = r1
    BY <2>3, ModUnique
  <2> QED
    BY <2>1, <2>4, Zenon
<1> QED
  BY <1>1, <1>3, <1>6, Zenon

LEMMA ModMod ==
  ASSUME NEW g \in Nat \ {0}, NEW m \in Nat \ {0}, m % g = 0, NEW x \in Int
  PROVE  (x % m) % g = x % g
<1>1. PICK c \in Int : m = g * c
  <2>1. PICK c \in Int, r \in 0 .. g - 1 : r = m % g /\ m = g * c + r
    BY DivMod
  <2>2. r = 0 /\ m = g * c + r
    BY <2>1, Zenon
  <2> QED
    BY <2>2
<1>2. PICK q \in Int, y \in 0 .. m - 1 : y = x % m /\ x = m * q + y
  BY DivMod
<1>3. PICK q1 \in Int, r1 \in 0 .. g - 1 : r1 = y % g /\ y = g * q1 + r1
  BY DivMod
<1>4. c * q + q1 \in Int /\ x = g * (c * q + q1) + r1
  <2>1. m * q = g * (c * q)
    BY <1>1
  <2>2. c * q \in Int
    OBVIOUS
  <2>3. x = m * q + y /\ y = g * q1 + r1
    BY <1>2, <1>3, Zenon
  <2> QED
    BY <2>1, <2>2, <2>3
<1>5. x % g = r1
  BY <1>4, ModUnique
<1> QED
  BY <1>2, <1>3, <1>5, Zenon

LEMMA ModSmall ==
  ASSUME NEW m \in Nat \ {0}, NEW x \in 0 .. m - 1
  PROVE  x % m = x
<1>1. x = m * 0 + x
  OBVIOUS
<1> QED
  BY <1>1, ModUnique

LEMMA ModInj ==
  ASSUME NEW g \in Nat \ {0}, NEW a \in Int, NEW j \in 0 .. g - 1, NEW k \in 0 .. g - 1,
         (a + j) % g = (a + k) % g
  PROVE  j = k
<1>1. a + j \in Int /\ a + k \in Int
  OBVIOUS
<1>2. PICK q1 \in Int, r1 \in 0 .. g - 1 : r1 = (a + j) % g /\ a + j = g * q1 + r1
  BY <1>1, DivMod
<1>3. PICK q2 \in Int, r2 \in 0 .. g - 1 : r2 = (a + k) % g /\ a + k = g * q2 + r2
  BY <1>1, DivMod
<1>4. r1 = r2 /\ a + j = g * q1 + r1 /\ a + k = g * q2 + r2
  BY <1>2, <1>3, Zenon
<1>5. g * (q1 - q2) = j - k
  BY <1>4
<1>6. q1 - q2 = 0
  BY <1>5, Mult0
<1> QED
  BY <1>4, <1>6

-----------------------------------------------------------------------------
(* Sequences. *)

\* A range has the elements of its sequence.
LEMMA RangeIn ==
  ASSUME NEW S, NEW s \in Seq(S)
  PROVE  /\ Range(s) \subseteq S
         /\ Range(s) = {s[i] : i \in 1 .. Len(s)}
         /\ \A x : x \in Range(s) <=> \E i \in 1 .. Len(s) : s[i] = x
<1>1. DOMAIN s = 1 .. Len(s) /\ \A i \in 1 .. Len(s) : s[i] \in S
  BY LenProperties, ElementOfSeq
<1> QED
  BY <1>1 DEF Range

\* Ranges and one-to-one sequences, joined.
LEMMA RangeConcat ==
  ASSUME NEW S, NEW s \in Seq(S), NEW t \in Seq(S)
  PROVE  Range(s \o t) = Range(s) \union Range(t)
<1>1. /\ s \o t \in Seq(S) /\ Len(s \o t) = Len(s) + Len(t)
      /\ \A i \in 1 .. Len(s) + Len(t) : (s \o t)[i] = IF i <= Len(s) THEN s[i] ELSE t[i - Len(s)]
      /\ Len(s) \in Nat /\ Len(t) \in Nat
  BY ConcatProperties, LenProperties
<1>2. ASSUME NEW x \in Range(s \o t) PROVE x \in Range(s) \union Range(t)
  <2>1. PICK i \in 1 .. Len(s) + Len(t) : (s \o t)[i] = x
    BY <1>1, RangeIn
  <2>2. CASE i <= Len(s)
    <3>1. s[i] = x /\ i \in 1 .. Len(s)
      BY <1>1, <2>1, <2>2
    <3> QED
      BY <3>1, RangeIn
  <2>3. CASE ~(i <= Len(s))
    <3>1. t[i - Len(s)] = x /\ i - Len(s) \in 1 .. Len(t)
      BY <1>1, <2>1, <2>3
    <3> QED
      BY <3>1, RangeIn
  <2> QED
    BY <2>2, <2>3
<1>3. ASSUME NEW x \in Range(s) PROVE x \in Range(s \o t)
  <2>1. PICK i \in 1 .. Len(s) : s[i] = x
    BY RangeIn
  <2>2. i \in 1 .. Len(s \o t) /\ (s \o t)[i] = x
    BY <1>1, <2>1
  <2> QED
    BY <1>1, <2>2, RangeIn
<1>4. ASSUME NEW x \in Range(t) PROVE x \in Range(s \o t)
  <2>1. PICK i \in 1 .. Len(t) : t[i] = x
    BY RangeIn
  <2>2. i + Len(s) \in 1 .. Len(s) + Len(t) /\ ~(i + Len(s) <= Len(s)) /\ (i + Len(s)) - Len(s) = i
    BY <1>1
  <2>3. (s \o t)[i + Len(s)] = x
    BY <1>1, <2>1, <2>2
  <2> QED
    BY <1>1, <2>2, <2>3, RangeIn
<1> QED
  BY <1>2, <1>3, <1>4

\* One-to-one, by the indices.
LEMMA InjIs ==
  ASSUME NEW S, NEW s \in Seq(S)
  PROVE  IsInjective(s) <=> \A i, j \in 1 .. Len(s) : s[i] = s[j] => i = j
<1>1. DOMAIN s = 1 .. Len(s)
  BY LenProperties
<1> QED
  BY <1>1 DEF IsInjective

\* A join is one-to-one when both parts are and share nothing.
LEMMA InjConcat ==
  ASSUME NEW S, NEW s \in Seq(S), NEW t \in Seq(S)
  PROVE  IsInjective(s \o t) <=> IsInjective(s) /\ IsInjective(t) /\ Range(s) \intersect Range(t) = {}
<1> DEFINE st == s \o t
           m == Len(s)
           n == Len(t)
<1>1. /\ st \in Seq(S) /\ Len(st) = m + n
      /\ \A i \in 1 .. m + n : st[i] = IF i <= m THEN s[i] ELSE t[i - m]
      /\ m \in Nat /\ n \in Nat
  BY ConcatProperties, LenProperties
<1>2. /\ IsInjective(st) <=> \A i, j \in 1 .. m + n : st[i] = st[j] => i = j
      /\ IsInjective(s) <=> \A i, j \in 1 .. m : s[i] = s[j] => i = j
      /\ IsInjective(t) <=> \A i, j \in 1 .. n : t[i] = t[j] => i = j
  BY <1>1, InjIs
<1>3. \A i \in 1 .. m : i \in 1 .. m + n /\ st[i] = s[i]
  BY <1>1
<1>4. \A i \in 1 .. n : i + m \in 1 .. m + n /\ st[i + m] = t[i]
  <2> TAKE i \in 1 .. n
  <2>1. i + m \in 1 .. m + n /\ ~(i + m <= m) /\ (i + m) - m = i
    BY <1>1
  <2> QED
    BY <1>1, <2>1
<1>5. ASSUME IsInjective(st) PROVE IsInjective(s) /\ IsInjective(t) /\ Range(s) \intersect Range(t) = {}
  <2>1. IsInjective(s)
    <3> SUFFICES ASSUME NEW i \in 1 .. m, NEW j \in 1 .. m, s[i] = s[j] PROVE i = j
      BY <1>2
    <3> QED
      BY <1>2, <1>3, <1>5
  <2>2. IsInjective(t)
    <3> SUFFICES ASSUME NEW i \in 1 .. n, NEW j \in 1 .. n, t[i] = t[j] PROVE i = j
      BY <1>2
    <3>1. st[i + m] = st[j + m] /\ i + m \in 1 .. m + n /\ j + m \in 1 .. m + n
      BY <1>4
    <3>2. i + m = j + m
      BY <1>2, <1>5, <3>1
    <3> QED
      BY <1>1, <3>2
  <2>3. ASSUME NEW x, x \in Range(s), x \in Range(t) PROVE FALSE
    <3>1. PICK i \in 1 .. m : s[i] = x
      BY <2>3, RangeIn
    <3>2. PICK j \in 1 .. n : t[j] = x
      BY <2>3, RangeIn
    <3>3. i \in 1 .. m + n /\ st[i] = x
      BY <1>3, <3>1
    <3>4. j + m \in 1 .. m + n /\ st[j + m] = x
      BY <1>4, <3>2
    <3>5. i = j + m
      BY <1>2, <1>5, <3>3, <3>4
    <3> QED
      BY <1>1, <3>5
  <2> QED
    BY <2>1, <2>2, <2>3
<1>6. ASSUME IsInjective(s), IsInjective(t), Range(s) \intersect Range(t) = {} PROVE IsInjective(st)
  <2> SUFFICES ASSUME NEW i \in 1 .. m + n, NEW j \in 1 .. m + n, st[i] = st[j] PROVE i = j
    BY <1>2
  <2>1. ASSUME NEW k \in 1 .. m + n, k <= m PROVE k \in 1 .. m /\ st[k] = s[k] /\ st[k] \in Range(s)
    <3>1. k \in 1 .. m /\ st[k] = s[k]
      BY <1>1, <2>1
    <3> QED
      BY <3>1, RangeIn
  <2>2. ASSUME NEW k \in 1 .. m + n, ~(k <= m)
        PROVE k - m \in 1 .. n /\ st[k] = t[k - m] /\ st[k] \in Range(t)
    <3>1. k - m \in 1 .. n /\ st[k] = t[k - m]
      BY <1>1, <2>2
    <3> QED
      BY <3>1, RangeIn
  <2>3. CASE i <= m /\ j <= m
    BY <1>2, <1>6, <2>1, <2>3
  <2>4. CASE ~(i <= m) /\ ~(j <= m)
    <3>1. i - m \in 1 .. n /\ j - m \in 1 .. n /\ t[i - m] = t[j - m]
      BY <2>2, <2>4
    <3>2. i - m = j - m
      BY <1>2, <1>6, <3>1
    <3> QED
      BY <1>1, <3>2
  <2>5. CASE i <= m /\ ~(j <= m)
    BY <1>6, <2>1, <2>2, <2>5
  <2>6. CASE ~(i <= m) /\ j <= m
    BY <1>6, <2>1, <2>2, <2>6
  <2> QED
    BY <2>3, <2>4, <2>5, <2>6
<1> QED
  BY <1>5, <1>6

\* A sequence of one, and of none.
LEMMA OneSeq ==
  ASSUME NEW S, NEW x \in S
  PROVE  /\ <<x>> \in Seq(S) /\ Len(<<x>>) = 1 /\ <<x>>[1] = x /\ Range(<<x>>) = {x} /\ IsInjective(<<x>>)
<1>1. <<x>> \in Seq(S) /\ Len(<<x>>) = 1 /\ <<x>>[1] = x
  OBVIOUS
<1>2. \A i \in 1 .. 1 : i = 1
  OBVIOUS
<1>3. Range(<<x>>) = {x}
  <2>1. \A y : y \in Range(<<x>>) <=> \E i \in 1 .. 1 : <<x>>[i] = y
    BY <1>1, RangeIn
  <2> QED
    BY <1>1, <1>2, <2>1
<1>4. IsInjective(<<x>>)
  BY <1>1, <1>2, InjIs
<1> QED
  BY <1>1, <1>3, <1>4

LEMMA EmptyRange == Range(<<>>) = {} /\ IsInjective(<<>>)
<1>1. DOMAIN <<>> = {}
  OBVIOUS
<1> QED
  BY <1>1 DEF Range, IsInjective

\* A sequence is its first and the rest, and its front and the last.
LEMMA Ends ==
  ASSUME NEW S, NEW s \in Seq(S), s # <<>>
  PROVE  /\ Head(s) \in S /\ Tail(s) \in Seq(S) /\ s = <<Head(s)>> \o Tail(s)
         /\ Len(Tail(s)) = Len(s) - 1
         /\ Last(s) \in S /\ Front(s) \in Seq(S) /\ s = Front(s) \o <<Last(s)>>
         /\ Len(Front(s)) = Len(s) - 1
<1>1. Len(s) \in Nat \ {0} /\ \A i \in 1 .. Len(s) : s[i] \in S
  BY EmptySeq, ElementOfSeq
<1>2. Head(s) \in S /\ Head(s) = s[1] /\ Tail(s) \in Seq(S) /\ Len(Tail(s)) = Len(s) - 1
      /\ \A i \in 1 .. Len(Tail(s)) : Tail(s)[i] = s[i + 1]
  BY HeadTailProperties
<1>3. s = <<Head(s)>> \o Tail(s)
  <2>1. <<Head(s)>> \in Seq(S) /\ Len(<<Head(s)>>) = 1 /\ <<Head(s)>>[1] = s[1]
    BY <1>2, OneSeq
  <2>2. /\ <<Head(s)>> \o Tail(s) \in Seq(S)
        /\ Len(<<Head(s)>> \o Tail(s)) = Len(s)
        /\ \A i \in 1 .. Len(s) : (<<Head(s)>> \o Tail(s))[i] = IF i <= 1 THEN <<Head(s)>>[i] ELSE Tail(s)[i - 1]
    BY <1>1, <1>2, <2>1, ConcatProperties
  <2>3. ASSUME NEW i \in 1 .. Len(s) PROVE (<<Head(s)>> \o Tail(s))[i] = s[i]
    <3>1. CASE i <= 1
      BY <2>1, <2>2, <3>1
    <3>2. CASE ~(i <= 1)
      <4>1. i - 1 \in 1 .. Len(Tail(s)) /\ (i - 1) + 1 = i
        BY <1>1, <1>2, <3>2
      <4> QED
        BY <1>2, <2>2, <3>2, <4>1
    <3> QED
      BY <3>1, <3>2
  <2> QED
    BY <2>2, <2>3, SeqEqual
<1>4. Last(s) \in S
  BY <1>1 DEF Last
<1>5. Front(s) \in Seq(S) /\ Len(Front(s)) = Len(s) - 1
  <2>1. PICK n \in Nat : n = Len(s) - 1
    BY <1>1
  <2>2. 1 \in Int /\ n \in Int /\ \A i \in 1 .. n : s[i] \in S
    BY <1>1, <2>1
  <2>3. SubSeq(s, 1, n) \in Seq(S) /\ Len(SubSeq(s, 1, n)) = IF 1 <= n THEN n - 1 + 1 ELSE 0
    BY <2>2, SubSeqProperties
  <2>4. Len(SubSeq(s, 1, n)) = n
    BY <2>1, <2>3
  <2> QED
    BY <2>1, <2>3, <2>4 DEF Front
<1>6. s = Front(s) \o <<Last(s)>>
  <2>1. Len(s) \in 1 .. Len(s) /\ 1 \in 1 .. Len(s)
    BY <1>1
  <2>2. SubSeq(s, 1, Len(s)) = SubSeq(s, 1, Len(s) - 1) \o <<s[Len(s)]>>
    BY <2>1, SubSeqRecursiveSecond
  <2> QED
    BY <2>2, SubSeqFull DEF Front, Last
<1> QED
  BY <1>2, <1>3, <1>4, <1>5, <1>6

\* Append, by its elements.
LEMMA AppendIs ==
  ASSUME NEW S, NEW s \in Seq(S), NEW x \in S
  PROVE  /\ Append(s, x) = s \o <<x>> /\ Append(s, x) \in Seq(S) /\ Len(Append(s, x)) = Len(s) + 1
         /\ \A i \in 1 .. Len(s) : Append(s, x)[i] = s[i]
         /\ Append(s, x)[Len(s) + 1] = x
<1>1. /\ Append(s, x) \in Seq(S) /\ Len(Append(s, x)) = Len(s) + 1
      /\ \A i \in 1 .. Len(s) : Append(s, x)[i] = s[i]
      /\ Append(s, x)[Len(s) + 1] = x
  OBVIOUS
<1>2. /\ s \o <<x>> \in Seq(S) /\ Len(s \o <<x>>) = Len(s) + 1
      /\ \A i \in 1 .. Len(s) + 1 : (s \o <<x>>)[i] = IF i <= Len(s) THEN s[i] ELSE <<x>>[i - Len(s)]
  BY OneSeq, ConcatProperties
<1>3. ASSUME NEW i \in 1 .. Len(s) + 1 PROVE (s \o <<x>>)[i] = Append(s, x)[i]
  <2>0. Len(s) \in Nat
    BY LenProperties
  <2>1. CASE i <= Len(s)
    BY <1>1, <1>2, <2>0, <2>1
  <2>2. CASE ~(i <= Len(s))
    <3>1. i = Len(s) + 1 /\ i - Len(s) = 1
      BY <2>0, <2>2
    <3> QED
      BY <1>1, <1>2, <2>2, <3>1, OneSeq
  <2> QED
    BY <2>1, <2>2
<1>4. Append(s, x) = s \o <<x>>
  BY <1>1, <1>2, <1>3, SeqEqual
<1> QED
  BY <1>1, <1>4

-----------------------------------------------------------------------------
(* The pool of transmit buffers. *)

\* The pool under tx_reclaim(),
LEMMA PoolReclaim ==
  ASSUME NEW f \in Seq(TxBuf), NEW a \in Seq(TxBuf), NEW u \in Seq(TxBuf), Pool(f, a, u)
  PROVE  f \o u \in Seq(TxBuf) /\ Pool(f \o u, a, <<>>)
<1>1. f \o u \in Seq(TxBuf) /\ Len(f \o u) = Len(f) + Len(u) /\ Len(f) \in Nat /\ Len(u) \in Nat /\ Len(a) \in Nat
  BY ConcatProperties, LenProperties
<1>2. Range(f \o u) = Range(f) \union Range(u) /\ IsInjective(f \o u)
  BY RangeConcat, InjConcat DEF Pool
<1>3. Len(f \o u) + Len(a) + Len(<<>>) = Cardinality(TxBuf)
  <2>1. Len(f) + Len(a) + Len(u) = Cardinality(TxBuf) /\ Len(<<>>) = 0
    BY DEF Pool
  <2> QED
    BY <1>1, <2>1
<1>4. IsInjective(<<>>) /\ Range(<<>>) = {} /\ IsInjective(a)
  BY EmptyRange DEF Pool
<1>5. /\ Range(f \o u) \intersect Range(a) = {}
      /\ (Range(f \o u) \union Range(a)) \union Range(<<>>) = TxBuf
  BY <1>2, <1>4 DEF Pool
<1> QED
  BY <1>1, <1>2, <1>3, <1>4, <1>5 DEF Pool

\* when a buffer is given to the device,
LEMMA PoolPop ==
  ASSUME NEW f \in Seq(TxBuf), NEW a \in Seq(TxBuf), NEW u \in Seq(TxBuf), Pool(f, a, u), f # <<>>
  PROVE  /\ Last(f) \in TxBuf \ Range(a)
         /\ Front(f) \in Seq(TxBuf) /\ Append(a, Last(f)) \in Seq(TxBuf)
         /\ Pool(Front(f), Append(a, Last(f)), u)
<1> DEFINE b == Last(f)
           r == Front(f)
<1>1. b \in TxBuf /\ r \in Seq(TxBuf) /\ f = r \o <<b>> /\ Len(r) = Len(f) - 1
  BY Ends
<1>2. /\ <<b>> \in Seq(TxBuf) /\ Range(<<b>>) = {b} /\ IsInjective(<<b>>)
      /\ Append(a, b) = a \o <<b>> /\ Append(a, b) \in Seq(TxBuf) /\ Len(Append(a, b)) = Len(a) + 1
  BY <1>1, OneSeq, AppendIs
<1> HIDE DEF b, r
<1>3. /\ Range(f) = Range(r) \union {b} /\ Range(Append(a, b)) = Range(a) \union {b}
      /\ IsInjective(r) /\ b \notin Range(r)
  <2>1. IsInjective(r \o <<b>>)
    BY <1>1 DEF Pool
  <2>2. IsInjective(r) /\ Range(r) \intersect Range(<<b>>) = {}
    BY <1>1, <1>2, <2>1, InjConcat
  <2>0. r \in Seq(TxBuf) /\ <<b>> \in Seq(TxBuf)
    BY <1>1, <1>2
  <2>3. Range(r \o <<b>>) = Range(r) \union Range(<<b>>)
    BY <2>0, RangeConcat
  <2>4. Range(a \o <<b>>) = Range(a) \union Range(<<b>>)
    BY <1>2, RangeConcat
  <2>5. Range(f) = Range(r) \union {b}
    BY <1>1, <1>2, <2>3, Zenon
  <2>6. Range(Append(a, b)) = Range(a) \union {b}
    BY <1>2, <2>4, Zenon
  <2> QED
    BY <1>2, <2>2, <2>5, <2>6
<1>4. b \notin Range(a) /\ b \notin Range(u)
  BY <1>3 DEF Pool
<1>5. IsInjective(Append(a, b))
  <2>1. Range(a) \intersect Range(<<b>>) = {}
    BY <1>2, <1>4
  <2>2. IsInjective(a)
    BY DEF Pool
  <2>3. IsInjective(a \o <<b>>)
    BY <1>2, <2>1, <2>2, InjConcat
  <2> QED
    BY <1>2, <2>3
<1>6. Len(r) + Len(Append(a, b)) + Len(u) = Cardinality(TxBuf)
  <2>1. Len(f) + Len(a) + Len(u) = Cardinality(TxBuf)
    BY DEF Pool
  <2>2. Len(f) \in Nat /\ Len(a) \in Nat /\ Len(u) \in Nat
    BY LenProperties
  <2> QED
    BY <1>1, <1>2, <2>1, <2>2
<1>7. /\ Range(r) \intersect Range(Append(a, b)) = {} /\ Range(r) \intersect Range(u) = {}
      /\ Range(Append(a, b)) \intersect Range(u) = {}
      /\ (Range(r) \union Range(Append(a, b))) \union Range(u) = TxBuf
  BY <1>3, <1>4 DEF Pool
<1>8. Pool(r, Append(a, b), u)
  BY <1>3, <1>5, <1>6, <1>7 DEF Pool
<1> QED
  BY <1>1, <1>2, <1>4, <1>8 DEF b, r

\* and when the device has consumed one.
LEMMA PoolSent ==
  ASSUME NEW f \in Seq(TxBuf), NEW a \in Seq(TxBuf), NEW u \in Seq(TxBuf), Pool(f, a, u), a # <<>>
  PROVE  /\ Head(a) \in TxBuf /\ Tail(a) \in Seq(TxBuf) /\ Append(u, Head(a)) \in Seq(TxBuf)
         /\ Pool(f, Tail(a), Append(u, Head(a)))
<1> DEFINE b == Head(a)
           r == Tail(a)
<1>1. b \in TxBuf /\ r \in Seq(TxBuf) /\ a = <<b>> \o r /\ Len(r) = Len(a) - 1
  BY Ends
<1>2. /\ <<b>> \in Seq(TxBuf) /\ Range(<<b>>) = {b} /\ IsInjective(<<b>>)
      /\ Append(u, b) = u \o <<b>> /\ Append(u, b) \in Seq(TxBuf) /\ Len(Append(u, b)) = Len(u) + 1
  BY <1>1, OneSeq, AppendIs
<1> HIDE DEF b, r
<1>3. /\ Range(a) = Range(r) \union {b} /\ Range(Append(u, b)) = Range(u) \union {b}
      /\ IsInjective(r) /\ b \notin Range(r)
  <2>1. IsInjective(<<b>> \o r)
    BY <1>1 DEF Pool
  <2>2. IsInjective(r) /\ Range(<<b>>) \intersect Range(r) = {}
    BY <1>1, <1>2, <2>1, InjConcat
  <2>0. r \in Seq(TxBuf) /\ <<b>> \in Seq(TxBuf)
    BY <1>1, <1>2
  <2>3. Range(<<b>> \o r) = Range(<<b>>) \union Range(r)
    BY <2>0, RangeConcat
  <2>4. Range(u \o <<b>>) = Range(u) \union Range(<<b>>)
    BY <1>2, RangeConcat
  <2>5. Range(a) = {b} \union Range(r)
    BY <1>1, <1>2, <2>3, Zenon
  <2>6. Range(Append(u, b)) = Range(u) \union {b}
    BY <1>2, <2>4, Zenon
  <2> QED
    BY <1>2, <2>2, <2>5, <2>6
<1>4. b \notin Range(f) /\ b \notin Range(u)
  BY <1>3 DEF Pool
<1>5. IsInjective(Append(u, b))
  <2>1. Range(u) \intersect Range(<<b>>) = {}
    BY <1>2, <1>4
  <2>2. IsInjective(u)
    BY DEF Pool
  <2>3. IsInjective(u \o <<b>>)
    BY <1>2, <2>1, <2>2, InjConcat
  <2> QED
    BY <1>2, <2>3
<1>6. Len(f) + Len(r) + Len(Append(u, b)) = Cardinality(TxBuf)
  <2>1. Len(f) + Len(a) + Len(u) = Cardinality(TxBuf)
    BY DEF Pool
  <2>2. Len(f) \in Nat /\ Len(a) \in Nat /\ Len(u) \in Nat
    BY LenProperties
  <2> QED
    BY <1>1, <1>2, <2>1, <2>2
<1>7. /\ Range(f) \intersect Range(Append(u, b)) = {} /\ Range(r) \intersect Range(f) = {}
      /\ Range(Append(u, b)) \intersect Range(r) = {}
      /\ (Range(f) \union Range(r)) \union Range(Append(u, b)) = TxBuf
  BY <1>3, <1>4 DEF Pool
<1>8. Pool(f, r, Append(u, b))
  BY <1>3, <1>5, <1>6, <1>7 DEF Pool
<1> QED
  BY <1>1, <1>2, <1>8 DEF b, r

\* What a write does: it panics, or one more record is with the device.
Failed ==
  /\ UNCHANGED <<tx_free, content, avail, used, nrec>>
  /\ \/ panic' = "full" /\ Len(avail) = Cardinality(TxBuf)
     \/ panic' = "add" /\ VqSize < Cardinality(TxBuf)

Wrote(r) ==
  /\ tx_free' \in Seq(TxBuf) /\ avail' \in Seq(TxBuf) /\ used' \in Seq(TxBuf)
  /\ PoolInv'
  /\ \E b \in TxBuf \ Range(avail) :
       /\ avail' = Append(avail, b)
       /\ content' = [content EXCEPT ![b] = [r EXCEPT !.no = nrec + 1]]
  /\ nrec' = nrec + 1
  /\ UNCHANGED panic

\* virtqueue_add_outbuf() fails or writes; so does kstep_io_write().
LEMMA AddStep ==
  ASSUME NEW r, NEW f \in Seq(TxBuf), NEW u \in Seq(TxBuf), avail \in Seq(TxBuf), f # <<>>,
         Pool(f, avail, u), virtqueue_add_outbuf(r, Last(f), Front(f), u)
  PROVE  Failed \/ Wrote(r)
<1>1. CASE Len(avail) + Len(u) >= VqSize
  <2>1. panic' = "add" /\ UNCHANGED <<tx_free, content, avail, used, nrec>>
    BY <1>1 DEF virtqueue_add_outbuf
  <2>2. Len(f) + Len(avail) + Len(u) = Cardinality(TxBuf)
    BY DEF Pool
  <2>3. Len(f) \in Nat \ {0} /\ Len(avail) \in Nat /\ Len(u) \in Nat /\ VqSize \in Nat
    BY LenProperties, EmptySeq, SizesAssumption
  <2>4. VqSize < Cardinality(TxBuf)
    BY <1>1, <2>2, <2>3
  <2> QED
    BY <2>1, <2>4 DEF Failed
<1>2. CASE ~(Len(avail) + Len(u) >= VqSize)
  <2>1. /\ tx_free' = Front(f) /\ used' = u /\ avail' = Append(avail, Last(f))
        /\ content' = [content EXCEPT ![Last(f)] = [r EXCEPT !.no = nrec + 1]]
        /\ nrec' = nrec + 1 /\ UNCHANGED panic
    BY <1>2 DEF virtqueue_add_outbuf
  <2>2. /\ Last(f) \in TxBuf \ Range(avail)
        /\ Front(f) \in Seq(TxBuf) /\ Append(avail, Last(f)) \in Seq(TxBuf)
        /\ Pool(Front(f), Append(avail, Last(f)), u)
    BY PoolPop
  <2>3. PoolInv'
    BY <2>1, <2>2 DEF PoolInv, Pool
  <2> QED
    BY <2>1, <2>2, <2>3 DEF Wrote
<1> QED
  BY <1>1, <1>2

LEMMA WriteStep ==
  ASSUME NEW r, tx_free \in Seq(TxBuf), avail \in Seq(TxBuf), used \in Seq(TxBuf), PoolInv,
         kstep_io_write(r)
  PROVE  Failed \/ Wrote(r)
<1>1. CASE tx_free # <<>>
  <2>1. virtqueue_add_outbuf(r, Last(tx_free), Front(tx_free), used)
    BY <1>1 DEF kstep_io_write
  <2> QED
    BY <1>1, <2>1, AddStep DEF PoolInv
<1>2. CASE tx_free = <<>>
  <2>1. tx_free \o used \in Seq(TxBuf) /\ Pool(tx_free \o used, avail, <<>>)
    BY PoolReclaim DEF PoolInv
  <2>2. CASE tx_free \o used = <<>>
    <3>1. TxFull
      BY <1>2, <2>2 DEF kstep_io_write, tx_reclaim
    <3>2. Len(avail) = Cardinality(TxBuf)
      <4>1. Len(<<>>) + Len(avail) + Len(<<>>) = Cardinality(TxBuf)
        BY <2>1, <2>2 DEF Pool
      <4>2. Len(avail) \in Nat /\ Len(<<>>) = 0
        BY LenProperties
      <4> QED
        BY <4>1, <4>2
    <3> QED
      BY <3>1, <3>2 DEF TxFull, Failed
  <2>3. CASE tx_free \o used # <<>>
    <3>1. virtqueue_add_outbuf(r, Last(tx_free \o used), Front(tx_free \o used), <<>>)
      BY <1>2, <2>3 DEF kstep_io_write, tx_reclaim
    <3>2. <<>> \in Seq(TxBuf)
      BY EmptySeq
    <3> QED
      BY <2>1, <2>3, <3>1, <3>2, AddStep
  <2> QED
    BY <2>2, <2>3
<1> QED
  BY <1>1, <1>2

-----------------------------------------------------------------------------
(* The way of the records. *)

\* What the device holds, and the way, by their elements.
LEMMA OutIs ==
  ASSUME NEW con \in [TxBuf -> Records], NEW av \in Seq(TxBuf)
  PROVE  /\ Out(con, av) \in Seq(Records) /\ Len(Out(con, av)) = Len(av)
         /\ \A i \in 1 .. Len(av) : Out(con, av)[i] = con[av[i]] /\ con[av[i]] \in Records
<1>1. Len(av) \in Nat /\ \A i \in 1 .. Len(av) : av[i] \in TxBuf
  BY LenProperties, ElementOfSeq
<1>2. \A i \in 1 .. Len(av) : con[av[i]] \in Records
  BY <1>1
<1>3. Out(con, av) \in [1 .. Len(av) -> Records]
  BY <1>2 DEF Out
<1>4. Out(con, av) \in Seq(Records) /\ Len(Out(con, av)) = Len(av)
  <2>1. Out(con, av) \in Seq(Records)
    BY <1>1, <1>3, SeqDef
  <2> QED
    BY <1>1, <1>3, <2>1, LenProperties
<1> QED
  BY <1>2, <1>4 DEF Out

LEMMA WayIs ==
  ASSUME NEW soc \in Seq(Records), NEW con \in [TxBuf -> Records], NEW av \in Seq(TxBuf)
  PROVE  /\ WayOf(soc, con, av) \in Seq(Records) /\ Len(WayOf(soc, con, av)) = Len(soc) + Len(av)
         /\ Len(soc) \in Nat /\ Len(av) \in Nat
         /\ \A i \in 1 .. Len(soc) : WayOf(soc, con, av)[i] = soc[i]
         /\ \A i \in 1 .. Len(av) : WayOf(soc, con, av)[Len(soc) + i] = con[av[i]]
<1> DEFINE out == Out(con, av)
<1>1. /\ out \in Seq(Records) /\ Len(out) = Len(av)
      /\ \A i \in 1 .. Len(av) : out[i] = con[av[i]]
      /\ Len(soc) \in Nat /\ Len(av) \in Nat
  BY OutIs, LenProperties
<1> HIDE DEF out
<1>2. /\ soc \o out \in Seq(Records) /\ Len(soc \o out) = Len(soc) + Len(av)
      /\ \A i \in 1 .. Len(soc) + Len(av) : (soc \o out)[i] = IF i <= Len(soc) THEN soc[i] ELSE out[i - Len(soc)]
  <2>1. out \in Seq(Records) /\ Len(out) = Len(av)
    BY <1>1
  <2>2. /\ soc \o out \in Seq(Records) /\ Len(soc \o out) = Len(soc) + Len(out)
        /\ \A i \in 1 .. Len(soc) + Len(out) : (soc \o out)[i] = IF i <= Len(soc) THEN soc[i] ELSE out[i - Len(soc)]
    BY <2>1, ConcatProperties
  <2> QED
    BY <2>1, <2>2, Zenon
<1>3. \A i \in 1 .. Len(soc) : (soc \o out)[i] = soc[i]
  BY <1>1, <1>2
<1>4. \A i \in 1 .. Len(av) : (soc \o out)[Len(soc) + i] = con[av[i]]
  <2> TAKE i \in 1 .. Len(av)
  <2>1. Len(soc) + i \in 1 .. Len(soc) + Len(av) /\ ~(Len(soc) + i <= Len(soc)) /\ (Len(soc) + i) - Len(soc) = i
    BY <1>1
  <2> QED
    BY <1>1, <1>2, <2>1
<1> QED
  BY <1>1, <1>2, <1>3, <1>4 DEF WayOf, out

\* A record that is sent stays where it was on its way.
LEMMA WaySent ==
  ASSUME NEW soc \in Seq(Records), NEW con \in [TxBuf -> Records], NEW av \in Seq(TxBuf), av # <<>>
  PROVE  /\ Append(soc, con[Head(av)]) \in Seq(Records)
         /\ WayOf(Append(soc, con[Head(av)]), con, Tail(av)) = WayOf(soc, con, av)
<1> DEFINE x == con[Head(av)]
           s2 == Append(soc, x)
           a2 == Tail(av)
           w == WayOf(soc, con, av)
           v == WayOf(s2, con, a2)
<1>1. /\ Head(av) \in TxBuf /\ Head(av) = av[1] /\ a2 \in Seq(TxBuf) /\ Len(a2) = Len(av) - 1
      /\ \A i \in 1 .. Len(av) - 1 : a2[i] = av[i + 1]
      /\ Len(av) \in Nat \ {0}
  BY HeadTailProperties, EmptySeq
<1>2. x \in Records
  BY <1>1
<1>3. /\ s2 \in Seq(Records) /\ Len(s2) = Len(soc) + 1
      /\ \A i \in 1 .. Len(soc) : s2[i] = soc[i]
      /\ s2[Len(soc) + 1] = x
  BY <1>2, AppendIs
<1>4. /\ w \in Seq(Records) /\ Len(w) = Len(soc) + Len(av) /\ Len(soc) \in Nat
      /\ \A i \in 1 .. Len(soc) : w[i] = soc[i]
      /\ \A i \in 1 .. Len(av) : w[Len(soc) + i] = con[av[i]]
  BY WayIs
<1>5. /\ v \in Seq(Records) /\ Len(v) = Len(s2) + Len(a2)
      /\ \A i \in 1 .. Len(s2) : v[i] = s2[i]
      /\ \A i \in 1 .. Len(a2) : v[Len(s2) + i] = con[a2[i]]
  BY <1>1, <1>3, WayIs
<1> HIDE DEF s2, a2, w, v
<1>6. Len(v) = Len(w)
  BY <1>1, <1>3, <1>4, <1>5
<1>7. ASSUME NEW i \in 1 .. Len(w) PROVE v[i] = w[i]
  <2>0. i \in 1 .. Len(soc) + Len(av) /\ i \in Nat
    BY <1>1, <1>4
  <2>1. CASE i <= Len(soc)
    BY <1>3, <1>4, <1>5, <2>1
  <2>2. CASE i = Len(soc) + 1
    <3>1. v[i] = x
      BY <1>3, <1>4, <1>5, <2>2
    <3>2. w[Len(soc) + 1] = con[av[1]]
      BY <1>1, <1>4
    <3> QED
      BY <1>1, <2>2, <3>1, <3>2
  <2>3. CASE i > Len(soc) + 1
    <3>1. PICK k \in 1 .. Len(av) - 1 : i = Len(soc) + 1 + k
      <4>1. i - (Len(soc) + 1) \in 1 .. Len(av) - 1
        BY <1>1, <1>4, <2>0, <2>3
      <4>2. i = Len(soc) + 1 + (i - (Len(soc) + 1))
        BY <1>4, <2>0
      <4> QED
        BY <4>1, <4>2
    <3>2. v[i] = con[a2[k]]
      BY <1>1, <1>3, <1>4, <1>5, <3>1
    <3>3. k + 1 \in 1 .. Len(av) /\ i = Len(soc) + (k + 1)
      BY <1>1, <1>4, <3>1
    <3>4. w[Len(soc) + (k + 1)] = con[av[k + 1]]
      BY <1>4, <3>3
    <3> QED
      BY <1>1, <3>2, <3>3, <3>4
  <2> QED
    BY <1>4, <2>0, <2>1, <2>2, <2>3
<1>8. v = w
  BY <1>4, <1>5, <1>6, <1>7, SeqEqual
<1> QED
  BY <1>3, <1>8 DEF s2, a2, w, v

\* A write adds to the end of the way.
LEMMA WayWritten ==
  ASSUME NEW soc \in Seq(Records), NEW con \in [TxBuf -> Records], NEW av \in Seq(TxBuf),
         NEW b \in TxBuf \ Range(av), NEW r \in Records
  PROVE  WayOf(soc, [con EXCEPT ![b] = r], Append(av, b)) = Append(WayOf(soc, con, av), r)
<1> DEFINE c2 == [con EXCEPT ![b] = r]
           a2 == Append(av, b)
           w == WayOf(soc, con, av)
           v == WayOf(soc, c2, a2)
<1>1. /\ c2 \in [TxBuf -> Records] /\ c2[b] = r /\ \A x \in TxBuf : x # b => c2[x] = con[x]
  OBVIOUS
<1>2. /\ a2 \in Seq(TxBuf) /\ Len(a2) = Len(av) + 1 /\ \A i \in 1 .. Len(av) : a2[i] = av[i]
      /\ a2[Len(av) + 1] = b
  BY AppendIs
<1>3. /\ w \in Seq(Records) /\ Len(w) = Len(soc) + Len(av) /\ Len(soc) \in Nat /\ Len(av) \in Nat
      /\ \A i \in 1 .. Len(soc) : w[i] = soc[i]
      /\ \A i \in 1 .. Len(av) : w[Len(soc) + i] = con[av[i]]
  BY WayIs
<1> HIDE DEF c2, a2
<1>4. /\ v \in Seq(Records) /\ Len(v) = Len(soc) + Len(a2)
      /\ \A i \in 1 .. Len(soc) : v[i] = soc[i]
      /\ \A i \in 1 .. Len(a2) : v[Len(soc) + i] = c2[a2[i]]
  BY <1>1, <1>2, WayIs
<1>5. /\ Append(w, r) \in Seq(Records) /\ Len(Append(w, r)) = Len(w) + 1
      /\ \A i \in 1 .. Len(w) : Append(w, r)[i] = w[i]
      /\ Append(w, r)[Len(w) + 1] = r
  BY <1>3, AppendIs
<1> HIDE DEF w, v
<1>6. Len(v) = Len(Append(w, r))
  BY <1>2, <1>3, <1>4, <1>5
<1>7. ASSUME NEW i \in 1 .. Len(v) PROVE v[i] = Append(w, r)[i]
  <2>0. i \in 1 .. Len(soc) + Len(av) + 1 /\ i \in Nat
    BY <1>2, <1>3, <1>4
  <2>1. CASE i <= Len(soc)
    BY <1>3, <1>4, <1>5, <2>1
  <2>2. CASE i = Len(w) + 1
    <3>1. i = Len(soc) + (Len(av) + 1) /\ Len(av) + 1 \in 1 .. Len(a2)
      BY <1>2, <1>3, <2>2
    <3>2. v[Len(soc) + (Len(av) + 1)] = c2[a2[Len(av) + 1]]
      BY <1>4, <3>1
    <3> QED
      BY <1>1, <1>2, <1>5, <2>2, <3>1, <3>2
  <2>3. CASE i > Len(soc) /\ i # Len(w) + 1
    <3>1. PICK k \in 1 .. Len(av) : i = Len(soc) + k
      <4>1. i - Len(soc) \in 1 .. Len(av)
        BY <1>2, <1>3, <1>4, <2>0, <2>3
      <4>2. i = Len(soc) + (i - Len(soc))
        BY <1>3, <2>0
      <4> QED
        BY <4>1, <4>2
    <3>2. k \in 1 .. Len(a2) /\ i \in 1 .. Len(w)
      BY <1>2, <1>3, <3>1
    <3>3. v[i] = c2[a2[k]]
      BY <1>4, <3>1, <3>2
    <3>4. av[k] \in TxBuf /\ av[k] # b
      BY RangeIn, ElementOfSeq
    <3>5. c2[a2[k]] = con[av[k]]
      BY <1>1, <1>2, <3>4
    <3>6. w[i] = con[av[k]]
      BY <1>3, <3>1
    <3> QED
      BY <1>5, <3>2, <3>3, <3>5, <3>6
  <2> QED
    BY <1>3, <2>0, <2>1, <2>2, <2>3
<1>8. v = Append(w, r)
  BY <1>4, <1>5, <1>6, <1>7, SeqEqual
<1> QED
  BY <1>8 DEF c2, a2, w, v

\* A read takes the first.
LEMMA WayRead ==
  ASSUME NEW soc \in Seq(Records), NEW con \in [TxBuf -> Records], NEW av \in Seq(TxBuf), soc # <<>>
  PROVE  /\ Tail(soc) \in Seq(Records)
         /\ LET w == WayOf(soc, con, av)
                v == WayOf(Tail(soc), con, av)
            IN  /\ Len(w) > 0 /\ w[1] = Head(soc) /\ Len(v) = Len(w) - 1
                /\ \A i \in 1 .. Len(v) : v[i] = w[i + 1]
<1> DEFINE w == WayOf(soc, con, av)
           t == Tail(soc)
           v == WayOf(t, con, av)
<1>1. /\ Head(soc) = soc[1] /\ t \in Seq(Records) /\ Len(t) = Len(soc) - 1
      /\ \A i \in 1 .. Len(soc) - 1 : t[i] = soc[i + 1]
      /\ Len(soc) \in Nat \ {0}
  BY HeadTailProperties, EmptySeq
<1>2. /\ w \in Seq(Records) /\ Len(w) = Len(soc) + Len(av) /\ Len(av) \in Nat
      /\ \A i \in 1 .. Len(soc) : w[i] = soc[i]
      /\ \A i \in 1 .. Len(av) : w[Len(soc) + i] = con[av[i]]
  BY WayIs
<1> HIDE DEF t
<1>3. /\ v \in Seq(Records) /\ Len(v) = Len(t) + Len(av)
      /\ \A i \in 1 .. Len(t) : v[i] = t[i]
      /\ \A i \in 1 .. Len(av) : v[Len(t) + i] = con[av[i]]
  BY <1>1, WayIs
<1> HIDE DEF w, v
<1>4. Len(w) > 0 /\ w[1] = Head(soc) /\ Len(v) = Len(w) - 1
  BY <1>1, <1>2, <1>3
<1>5. ASSUME NEW i \in 1 .. Len(v) PROVE v[i] = w[i + 1]
  <2>0. i \in 1 .. Len(t) + Len(av) /\ i \in Nat
    BY <1>1, <1>2, <1>3
  <2>1. CASE i <= Len(t)
    <3>1. i \in 1 .. Len(t) /\ i \in 1 .. Len(soc) - 1 /\ i + 1 \in 1 .. Len(soc)
      BY <1>1, <1>3, <2>1
    <3> QED
      BY <1>1, <1>2, <1>3, <3>1
  <2>2. CASE i > Len(t)
    <3>1. PICK k \in 1 .. Len(av) : i = Len(t) + k
      <4>1. i - Len(t) \in 1 .. Len(av)
        BY <1>1, <1>2, <1>3, <2>0, <2>2
      <4>2. i = Len(t) + (i - Len(t))
        BY <1>1, <2>0
      <4> QED
        BY <4>1, <4>2
    <3>2. i + 1 = Len(soc) + k
      BY <1>1, <3>1
    <3> QED
      BY <1>2, <1>3, <3>1, <3>2
  <2> QED
    BY <1>1, <1>3, <2>0, <2>1, <2>2
<1> QED
  BY <1>1, <1>4, <1>5 DEF w, v, t

-----------------------------------------------------------------------------
(* The bytes under way. *)

\* What is assumed of the sizes.
LEMMA Sizes ==
  /\ RingSize \in Nat \ {0} /\ UintMod \in Nat \ {0} /\ RingSize < UintMod /\ UintMod % RingSize = 0
  /\ LineMax \in Nat /\ LineMax >= 2 /\ LineLens \subseteq Nat \ {0} /\ RxBufs \in Nat \ {0}
BY SizesAssumption

\* unsigned int arithmetic stays in its range.
LEMMA UintIs ==
  ASSUME NEW x \in Int
  PROVE  Uint(x) \in 0 .. UintMod - 1 /\ Uint(x) \in Nat
<1>1. PICK q \in Int, r \in 0 .. UintMod - 1 : r = x % UintMod /\ x = UintMod * q + r
  BY Sizes, DivMod
<1>2. Uint(x) = r
  BY <1>1 DEF Uint
<1> QED
  BY <1>2, Sizes

\* What the ring holds lies between the tail and the head, wrapped or not.
LEMMA HeldIs ==
  ASSUME NEW head \in 0 .. UintMod - 1, NEW tail \in 0 .. UintMod - 1
  PROVE  /\ HeldIn(head, tail) \in 0 .. UintMod - 1 /\ HeldIn(head, tail) \in Nat
         /\ HeldIn(head, tail) = IF tail <= head THEN head - tail ELSE head - tail + UintMod
         /\ HeldIn(head, tail) = 0 <=> head = tail
<1>0. UintMod \in Nat \ {0} /\ head \in Int /\ tail \in Int
  BY Sizes
<1>1. CASE tail <= head
  <2>1. head - tail \in 0 .. UintMod - 1
    BY <1>0, <1>1
  <2>2. (head - tail) % UintMod = head - tail
    BY <1>0, <2>1, ModSmall
  <2>3. HeldIn(head, tail) = head - tail
    BY <2>2 DEF HeldIn, Uint
  <2> QED
    BY <1>0, <1>1, <2>1, <2>3
<1>2. CASE ~(tail <= head)
  <2>1. PICK r \in 0 .. UintMod - 1 : r = head - tail + UintMod
    BY <1>0, <1>2
  <2>2. PICK x \in Int : x = head - tail
    BY <1>0
  <2>3. x = UintMod * (-1) + r
    BY <1>0, <2>1, <2>2
  <2>4. x % UintMod = r
    BY <1>0, <2>3, ModUnique
  <2>5. HeldIn(head, tail) = r
    BY <2>2, <2>4 DEF HeldIn, Uint
  <2>6. r # 0
    BY <1>0, <2>1
  <2> QED
    BY <1>0, <1>2, <2>1, <2>5, <2>6
<1> QED
  BY <1>1, <1>2

\* The bytes under way, by their lengths.
LEMMA RingBytesIs ==
  ASSUME NEW ring \in [0 .. RingSize - 1 -> Nat],
         NEW head \in 0 .. UintMod - 1, NEW tail \in 0 .. UintMod - 1
  PROVE  /\ RingBytes(ring, head, tail) \in Seq(Nat)
         /\ Len(RingBytes(ring, head, tail)) = HeldIn(head, tail)
         /\ \A i \in 1 .. HeldIn(head, tail) :
              RingBytes(ring, head, tail)[i] = ring[(tail + i - 1) % RingSize]
<1>1. HeldIn(head, tail) \in Nat
  BY HeldIs
<1>2. ASSUME NEW i \in 1 .. HeldIn(head, tail) PROVE ring[(tail + i - 1) % RingSize] \in Nat
  <2>1. PICK x \in Int : x = tail + i - 1
    BY <1>1, Sizes
  <2>2. PICK q \in Int, r \in 0 .. RingSize - 1 : r = x % RingSize /\ x = RingSize * q + r
    BY Sizes, DivMod
  <2>3. ring[r] \in Nat
    OBVIOUS
  <2> QED
    BY <2>1, <2>2, <2>3, Zenon
<1>3. RingBytes(ring, head, tail) \in [1 .. HeldIn(head, tail) -> Nat]
  BY <1>2 DEF RingBytes
<1>4. RingBytes(ring, head, tail) \in Seq(Nat)
  BY <1>1, <1>3, SeqDef
<1>5. Len(RingBytes(ring, head, tail)) = HeldIn(head, tail)
  BY <1>1, <1>3, <1>4, LenProperties
<1> QED
  BY <1>4, <1>5 DEF RingBytes

LEMMA BytesIs ==
  ASSUME NEW ring \in [0 .. RingSize - 1 -> Nat],
         NEW head \in 0 .. UintMod - 1, NEW tail \in 0 .. UintMod - 1,
         NEW fil \in Seq(Nat), NEW wir \in Seq(Nat)
  PROVE  /\ BytesOf(ring, head, tail, fil, wir) \in Seq(Nat)
         /\ Len(BytesOf(ring, head, tail, fil, wir)) = HeldIn(head, tail) + Len(fil) + Len(wir)
         /\ HeldIn(head, tail) \in Nat /\ Len(fil) \in Nat /\ Len(wir) \in Nat
<1> DEFINE rb == RingBytes(ring, head, tail)
<1>1. rb \in Seq(Nat) /\ Len(rb) = HeldIn(head, tail) /\ HeldIn(head, tail) \in Nat
  <2>1. HeldIn(head, tail) \in Nat
    BY HeldIs
  <2>2. rb \in Seq(Nat) /\ Len(rb) = HeldIn(head, tail)
    BY RingBytesIs
  <2> QED
    BY <2>1, <2>2
<1>2. Len(fil) \in Nat /\ Len(wir) \in Nat
  BY LenProperties
<1> HIDE DEF rb
<1>3. rb \o fil \in Seq(Nat) /\ Len(rb \o fil) = Len(rb) + Len(fil)
  BY <1>1, ConcatProperties
<1>4. (rb \o fil) \o wir \in Seq(Nat) /\ Len((rb \o fil) \o wir) = Len(rb \o fil) + Len(wir)
  BY <1>3, ConcatProperties
<1>5. BytesOf(ring, head, tail, fil, wir) = (rb \o fil) \o wir
  BY DEF BytesOf, rb
<1> QED
  BY <1>1, <1>2, <1>3, <1>4, <1>5

LEMMA Assoc == \A s, t, u \in Seq(Nat) : (s \o t) \o u = s \o (t \o u)
<1> TAKE s, t, u \in Seq(Nat)
<1> QED
  BY ConcatAssociative

\* Filling a buffer from the wire changes no byte and no order.
LEMMA BytesReceived ==
  ASSUME NEW ring \in [0 .. RingSize - 1 -> Nat],
         NEW head \in 0 .. UintMod - 1, NEW tail \in 0 .. UintMod - 1,
         NEW fil \in Seq(Nat), NEW wir \in Seq(Nat), NEW n \in Nat, n >= 1, n <= Len(wir)
  PROVE  /\ fil \o SubSeq(wir, 1, n) \in Seq(Nat) /\ SubSeq(wir, n + 1, Len(wir)) \in Seq(Nat)
         /\ Len(fil \o SubSeq(wir, 1, n)) > 0
         /\ BytesOf(ring, head, tail, fil \o SubSeq(wir, 1, n), SubSeq(wir, n + 1, Len(wir)))
              = BytesOf(ring, head, tail, fil, wir)
<1> DEFINE rb == RingBytes(ring, head, tail)
           x == SubSeq(wir, 1, n)
           y == SubSeq(wir, n + 1, Len(wir))
<1>1. rb \in Seq(Nat)
  BY RingBytesIs
<1>2. Len(wir) \in Nat /\ \A i \in 1 .. Len(wir) : wir[i] \in Nat
  BY LenProperties, ElementOfSeq
<1>3. x \in Seq(Nat) /\ Len(x) = n
  <2>1. \A i \in 1 .. n : wir[i] \in Nat
    BY <1>2
  <2>2. 1 \in Int /\ n \in Int
    OBVIOUS
  <2>3. x \in Seq(Nat) /\ Len(x) = IF 1 <= n THEN n - 1 + 1 ELSE 0
    BY <2>1, <2>2, SubSeqProperties
  <2> QED
    BY <2>3
<1>4. y \in Seq(Nat)
  <2>1. PICK k \in Int : k = n + 1
    OBVIOUS
  <2>2. PICK m \in Int : m = Len(wir)
    BY <1>2
  <2>3. \A i \in k .. m : wir[i] \in Nat
    BY <1>2, <2>1, <2>2
  <2>4. SubSeq(wir, k, m) \in Seq(Nat)
    BY <2>3, SubSeqProperties
  <2> QED
    BY <2>1, <2>2, <2>4
<1>5. x \o y = wir
  <2>1. 1 \in 1 .. Len(wir) + 1 /\ n \in 1 - 1 .. Len(wir) /\ Len(wir) \in n .. Len(wir)
    BY <1>2
  <2>2. x \o y = SubSeq(wir, 1, Len(wir))
    BY <2>1, ConcatAdjacentSubSeq
  <2> QED
    BY <2>2, SubSeqFull
<1> HIDE DEF rb, x, y
<1>6. fil \o x \in Seq(Nat) /\ Len(fil \o x) = Len(fil) + Len(x) /\ Len(fil) \in Nat
  BY <1>3, ConcatProperties, LenProperties
<1>7. (rb \o (fil \o x)) \o y = (rb \o fil) \o wir
  <2>1. rb \o fil \in Seq(Nat)
    BY <1>1, ConcatProperties
  <2>0. \A s, t, u \in Seq(Nat) : (s \o t) \o u = s \o (t \o u)
    BY Assoc
  <2>2. rb \o (fil \o x) = (rb \o fil) \o x
    BY <1>1, <1>3, <2>0, Zenon
  <2>3. ((rb \o fil) \o x) \o y = (rb \o fil) \o (x \o y)
    BY <1>3, <1>4, <2>0, <2>1, Zenon
  <2> QED
    BY <1>5, <2>2, <2>3, Zenon
<1>8. BytesOf(ring, head, tail, fil \o x, y) = BytesOf(ring, head, tail, fil, wir)
  BY <1>7 DEF BytesOf, rb
<1> QED
  BY <1>3, <1>4, <1>6, <1>8 DEF x, y

\* Two places of the ring are one only if they are as far from the tail.
LEMMA RingInj ==
  ASSUME NEW a \in Int, NEW j \in 0 .. RingSize - 1, NEW k \in 0 .. RingSize - 1,
         (a + j) % RingSize = (a + k) % RingSize
  PROVE  j = k
BY Sizes, ModInj

\* The place the k-th byte from the head goes to.
LEMMA HeadPlace ==
  ASSUME NEW head \in 0 .. UintMod - 1, NEW tail \in 0 .. UintMod - 1, NEW k \in Int
  PROVE  Uint(head + k) % RingSize = (tail + (HeldIn(head, tail) + k)) % RingSize
<1> DEFINE h == HeldIn(head, tail)
<1>0. UintMod \in Nat \ {0} /\ RingSize \in Nat \ {0} /\ UintMod % RingSize = 0 /\ head \in Int /\ tail \in Int
  BY Sizes
<1>1. h \in Nat /\ h = IF tail <= head THEN head - tail ELSE head - tail + UintMod
  BY HeldIs
<1> HIDE DEF h
<1>2. PICK x \in Int : x = head + k
  BY <1>0
<1>3. (x % UintMod) % RingSize = x % RingSize
  BY <1>0, ModMod
<1>4. PICK y \in Int : y = tail + (h + k)
  BY <1>0, <1>1
<1>5. x % RingSize = y % RingSize
  <2>1. CASE tail <= head
    <3>1. x = y
      BY <1>0, <1>1, <1>2, <1>4, <2>1
    <3> QED
      BY <3>1
  <2>2. CASE ~(tail <= head)
    <3>1. y = x + UintMod
      BY <1>0, <1>1, <1>2, <1>4, <2>2
    <3>2. PICK q \in Int, r \in 0 .. UintMod - 1 : r = x % UintMod /\ x = UintMod * q + r
      BY <1>0, DivMod
    <3>4. y = UintMod * (q + 1) + r
      <4>1. x = UintMod * q + r
        BY <3>2, Zenon
      <4>2. UintMod * (q + 1) = UintMod * q + UintMod
        BY <1>0
      <4>3. UintMod * q \in Int /\ UintMod * (q + 1) \in Int
        BY <1>0
      <4> QED
        BY <1>0, <3>1, <4>1, <4>2, <4>3
    <3>5. q + 1 \in Int
      OBVIOUS
    <3>6. y % UintMod = r
      BY <1>0, <3>4, <3>5, ModUnique
    <3>7. (y % UintMod) % RingSize = y % RingSize
      BY <1>0, ModMod
    <3> QED
      BY <1>3, <3>2, <3>6, <3>7, Zenon
  <2> QED
    BY <2>1, <2>2
<1> QED
  BY <1>2, <1>3, <1>4, <1>5, Zenon DEF Uint, h

\* The ring after bytes were put at its head: RingWith, of any ring.
RingPut(ring, head, bytes) ==
  [i \in 0..RingSize-1 |->
     LET at == {k \in 1..Len(bytes) : Uint(head + k - 1) % RingSize = i}
     IN  IF at = {} THEN ring[i] ELSE bytes[Max(at)]]

LEMMA MaxOne ==
  ASSUME NEW k \in Int
  PROVE  Max({k}) = k
BY DEF Max

\* The ring after a put: the new bytes at the head, the others untouched.
LEMMA RingPutIs ==
  ASSUME NEW ring \in [0 .. RingSize - 1 -> Nat],
         NEW head \in 0 .. UintMod - 1, NEW tail \in 0 .. UintMod - 1, NEW fil \in Seq(Nat),
         HeldIn(head, tail) + Len(fil) <= RingSize
  PROVE  /\ RingPut(ring, head, fil) \in [0 .. RingSize - 1 -> Nat]
         /\ \A i \in 1 .. HeldIn(head, tail) :
              RingPut(ring, head, fil)[(tail + i - 1) % RingSize] = ring[(tail + i - 1) % RingSize]
         /\ \A i \in 1 .. Len(fil) :
              RingPut(ring, head, fil)[(tail + (HeldIn(head, tail) + i) - 1) % RingSize] = fil[i]
<1> DEFINE h == HeldIn(head, tail)
           L == Len(fil)
           put == RingPut(ring, head, fil)
           At(p) == {k \in 1 .. L : Uint(head + k - 1) % RingSize = p}
           Place(i) == (tail + i - 1) % RingSize
<1>0. /\ RingSize \in Nat \ {0} /\ h \in Nat /\ L \in Nat /\ h + L <= RingSize /\ tail \in Int /\ head \in Int
      /\ \A k \in 1 .. L : fil[k] \in Nat
  <2>1. h \in Nat
    BY HeldIs
  <2>2. L \in Nat /\ \A k \in 1 .. L : fil[k] \in Nat
    BY LenProperties, ElementOfSeq
  <2> QED
    BY <2>1, <2>2, Sizes
<1>1. \A p \in 0 .. RingSize - 1 : put[p] = IF At(p) = {} THEN ring[p] ELSE fil[Max(At(p))]
  BY DEF RingPut
<1> HIDE DEF h
\* Where the k-th new byte goes.
<1>2. ASSUME NEW k \in 1 .. L
      PROVE  Uint(head + k - 1) % RingSize = Place(h + k) /\ Place(h + k) \in 0 .. RingSize - 1
  <2>1. PICK m \in Int : m = k - 1
    BY <1>0
  <2>2. Uint(head + m) % RingSize = (tail + (h + m)) % RingSize
    BY <2>1, HeadPlace DEF h
  <2>3. head + k - 1 = head + m /\ tail + (h + m) = tail + (h + k) - 1
    BY <1>0, <2>1
  <2>4. PICK x \in Int : x = tail + (h + k) - 1
    BY <1>0
  <2>5. PICK q \in Int, r \in 0 .. RingSize - 1 : r = x % RingSize /\ x = RingSize * q + r
    BY <1>0, DivMod
  <2>6. Place(h + k) \in 0 .. RingSize - 1
    BY <2>4, <2>5, Zenon
  <2> QED
    BY <2>2, <2>3, <2>6, Zenon
\* Places of different bytes differ.
<1>3. ASSUME NEW i \in 1 .. h + L, NEW j \in 1 .. h + L, Place(i) = Place(j)
      PROVE  i = j
  <2>1. PICK a \in 0 .. RingSize - 1 : a = i - 1
    BY <1>0
  <2>2. PICK b \in 0 .. RingSize - 1 : b = j - 1
    BY <1>0
  <2>3. tail + i - 1 = tail + a /\ tail + j - 1 = tail + b
    BY <1>0, <2>1, <2>2
  <2>4. (tail + a) % RingSize = (tail + b) % RingSize
    BY <1>3, <2>3, Zenon
  <2>5. a = b
    BY <1>0, <2>4, RingInj
  <2> QED
    BY <1>0, <2>1, <2>2, <2>5
<1>4. ASSUME NEW i \in 1 .. h PROVE Place(i) \in 0 .. RingSize - 1 /\ At(Place(i)) = {}
  <2>1. ASSUME NEW k \in 1 .. L, Uint(head + k - 1) % RingSize = Place(i) PROVE FALSE
    <3>1. Place(h + k) = Place(i)
      BY <1>2, <2>1, Zenon
    <3>2. i \in 1 .. h + L /\ h + k \in 1 .. h + L /\ i # h + k
      BY <1>0
    <3> QED
      BY <1>3, <3>1, <3>2, Zenon
  <2>2. PICK x \in Int : x = tail + i - 1
    BY <1>0
  <2>3. PICK q \in Int, r \in 0 .. RingSize - 1 : r = x % RingSize /\ x = RingSize * q + r
    BY <1>0, DivMod
  <2>4. Place(i) \in 0 .. RingSize - 1
    BY <2>2, <2>3, Zenon
  <2> QED
    BY <2>1, <2>4, Zenon
<1>5. ASSUME NEW i \in 1 .. L PROVE At(Place(h + i)) = {i}
  <2>1. ASSUME NEW k \in 1 .. L, Uint(head + k - 1) % RingSize = Place(h + i) PROVE k = i
    <3>1. Place(h + k) = Place(h + i)
      BY <1>2, <2>1, Zenon
    <3>2. h + k \in 1 .. h + L /\ h + i \in 1 .. h + L
      BY <1>0
    <3>3. h + k = h + i
      BY <1>3, <3>1, <3>2, Zenon
    <3> QED
      BY <1>0, <3>3
  <2>2. Uint(head + i - 1) % RingSize = Place(h + i)
    BY <1>2
  <2> QED
    BY <2>1, <2>2, Zenon
<1>6. put \in [0 .. RingSize - 1 -> Nat]
  <2>1. ASSUME NEW p \in 0 .. RingSize - 1 PROVE put[p] \in Nat
    <3>1. CASE At(p) = {}
      BY <1>1, <3>1
    <3>2. CASE At(p) # {}
      <4>1. PICK k \in 1 .. L : Uint(head + k - 1) % RingSize = p
        BY <3>2
      <4>2. p = Place(h + k)
        BY <1>2, <4>1, Zenon
      <4>3. At(p) = {k}
        BY <1>5, <4>2, Zenon
      <4>4. k \in Int
        BY <1>0
      <4>5. Max(At(p)) = k
        BY <4>3, <4>4, MaxOne
      <4>6. put[p] = fil[k]
        BY <1>1, <3>2, <4>5, Zenon
      <4> QED
        BY <1>0, <4>6
    <3> QED
      BY <3>1, <3>2
  <2>2. put = [p \in 0 .. RingSize - 1 |-> put[p]]
    BY DEF RingPut
  <2> HIDE DEF put
  <2> QED
    BY <2>1, <2>2
<1>7. ASSUME NEW i \in 1 .. h PROVE put[Place(i)] = ring[Place(i)]
  BY <1>1, <1>4, Zenon
<1>8. ASSUME NEW i \in 1 .. L PROVE put[Place(h + i)] = fil[i]
  <2>1. At(Place(h + i)) = {i} /\ Place(h + i) \in 0 .. RingSize - 1
    BY <1>2, <1>5, Zenon
  <2>2. Max({i}) = i
    <3>1. i \in Int
      BY <1>0
    <3> QED
      BY <3>1, MaxOne
  <2>3. At(Place(h + i)) # {}
    BY <2>1, Zenon
  <2>4. put[Place(h + i)] = fil[Max(At(Place(h + i)))]
    BY <1>1, <2>1, <2>3, Zenon
  <2> QED
    BY <2>1, <2>2, <2>4, Zenon
<1> QED
  BY <1>6, <1>7, <1>8, Zenon DEF h

\* A counter that moves by n moves by n, modulo.
LEMMA UintStep ==
  ASSUME NEW x \in Nat, x < UintMod + UintMod
  PROVE  Uint(x) = IF x < UintMod THEN x ELSE x - UintMod
<1>0. UintMod \in Nat \ {0}
  BY Sizes
<1>1. CASE x < UintMod
  <2>1. x \in 0 .. UintMod - 1
    BY <1>0, <1>1
  <2>2. x % UintMod = x
    BY <1>0, <2>1, ModSmall
  <2> QED
    BY <1>1, <2>2 DEF Uint
<1>2. CASE ~(x < UintMod)
  <2>1. PICK r \in 0 .. UintMod - 1 : r = x - UintMod
    BY <1>0, <1>2
  <2>2. x = UintMod * 1 + r
    BY <1>0, <2>1
  <2>3. x % UintMod = r
    BY <1>0, <2>2, ModUnique
  <2> QED
    BY <1>2, <2>1, <2>3 DEF Uint
<1> QED
  BY <1>1, <1>2

\* A wrap of the index leaves the place in the ring.
LEMMA RingWrap ==
  ASSUME NEW x \in Int
  PROVE  (UintMod + x) % RingSize = x % RingSize
<1>0. UintMod \in Nat \ {0} /\ RingSize \in Nat \ {0} /\ UintMod % RingSize = 0
  BY Sizes
<1>1. PICK q \in Int, r \in 0 .. UintMod - 1 : r = x % UintMod /\ x = UintMod * q + r
  BY <1>0, DivMod
<1>2. PICK y \in Int : y = UintMod + x
  BY <1>0
<1>3. PICK p \in Int : p = q + 1
  OBVIOUS
<1>4. y = UintMod * p + r
  <2>1. x = UintMod * q + r
    BY <1>1, Zenon
  <2>2. UintMod * p = UintMod * q + UintMod /\ UintMod * q \in Int
    BY <1>0, <1>3
  <2> QED
    BY <1>0, <1>2, <2>1, <2>2
<1>5. UintMod \in Nat \ {0}
  BY <1>0
<1>6. y % UintMod = r
  BY <1>4, <1>5, ModUnique
<1>7. (y % UintMod) % RingSize = y % RingSize
  BY <1>0, ModMod
<1>8. (x % UintMod) % RingSize = x % RingSize
  BY <1>0, ModMod
<1> QED
  BY <1>1, <1>2, <1>6, <1>7, <1>8, Zenon

\* Draining the filled buffers into the ring changes no byte and no order.
LEMMA BytesDrained ==
  ASSUME NEW ring \in [0 .. RingSize - 1 -> Nat],
         NEW head \in 0 .. UintMod - 1, NEW tail \in 0 .. UintMod - 1,
         NEW fil \in Seq(Nat), NEW wir \in Seq(Nat),
         HeldIn(head, tail) + Len(fil) <= RingSize
  PROVE  LET ring2 == RingPut(ring, head, fil)
             head2 == Uint(head + Len(fil))
         IN  /\ ring2 \in [0 .. RingSize - 1 -> Nat] /\ head2 \in 0 .. UintMod - 1
             /\ HeldIn(head2, tail) = HeldIn(head, tail) + Len(fil)
             /\ BytesOf(ring2, head2, tail, <<>>, wir) = BytesOf(ring, head, tail, fil, wir)
<1> DEFINE ring2 == RingPut(ring, head, fil)
           head2 == Uint(head + Len(fil))
           h == HeldIn(head, tail)
           L == Len(fil)
           rb == RingBytes(ring, head, tail)
           rb2 == RingBytes(ring2, head2, tail)
<1>0. /\ UintMod \in Nat \ {0} /\ RingSize \in Nat \ {0} /\ RingSize < UintMod
      /\ h \in Nat /\ L \in Nat /\ h + L <= RingSize /\ head \in Int /\ tail \in Int
      /\ h = IF tail <= head THEN head - tail ELSE head - tail + UintMod
  <2>1. h \in Nat /\ h = IF tail <= head THEN head - tail ELSE head - tail + UintMod
    BY HeldIs
  <2>2. L \in Nat
    BY LenProperties
  <2> QED
    BY <2>1, <2>2, Sizes
<1>1. /\ ring2 \in [0 .. RingSize - 1 -> Nat]
      /\ \A i \in 1 .. h : ring2[(tail + i - 1) % RingSize] = ring[(tail + i - 1) % RingSize]
      /\ \A i \in 1 .. L : ring2[(tail + (h + i) - 1) % RingSize] = fil[i]
  BY RingPutIs
<1>2. /\ rb \in Seq(Nat) /\ Len(rb) = h
      /\ \A i \in 1 .. h : rb[i] = ring[(tail + i - 1) % RingSize]
  BY RingBytesIs
<1>3. head2 \in 0 .. UintMod - 1 /\ head2 = IF head + L < UintMod THEN head + L ELSE head + L - UintMod
  <2>1. head + L \in Nat /\ head + L < UintMod + UintMod
    BY <1>0
  <2>2. head2 = IF head + L < UintMod THEN head + L ELSE head + L - UintMod
    <3>1. PICK x \in Nat : x = head + L
      BY <2>1
    <3>2. x < UintMod + UintMod
      BY <2>1, <3>1
    <3>3. Uint(x) = IF x < UintMod THEN x ELSE x - UintMod
      BY <3>2, UintStep
    <3>4. head2 = Uint(x)
      BY <3>1
    <3>5. UintMod \in Nat
      BY <1>0
    <3> HIDE DEF head2
    <3> QED
      BY <3>1, <3>3, <3>4, <3>5
  <2>3. head + L \in Int
    BY <1>0
  <2>4. head2 \in 0 .. UintMod - 1
    BY <2>3, UintIs
  <2>5. UintMod \in Nat /\ head + L \in Nat
    BY <1>0, <2>1
  <2> HIDE DEF head2
  <2> QED
    BY <2>2, <2>4, <2>5
<1> HIDE DEF ring2, head2, h, L, rb
<1>4. HeldIn(head2, tail) = h + L
  <2>1. HeldIn(head2, tail) = IF tail <= head2 THEN head2 - tail ELSE head2 - tail + UintMod
    BY <1>3, HeldIs
  <2> QED
    BY <1>0, <1>3, <2>1
<1>5. /\ rb2 \in Seq(Nat) /\ Len(rb2) = h + L
      /\ \A i \in 1 .. h + L : rb2[i] = ring2[(tail + i - 1) % RingSize]
  <2>1. /\ rb2 \in Seq(Nat) /\ Len(rb2) = HeldIn(head2, tail)
        /\ \A i \in 1 .. HeldIn(head2, tail) : rb2[i] = ring2[(tail + i - 1) % RingSize]
    BY <1>1, <1>3, RingBytesIs
  <2> QED
    BY <1>4, <2>1, Zenon
<1> HIDE DEF rb2
<1>6. rb2 = rb \o fil
  <2>1. /\ rb \o fil \in Seq(Nat) /\ Len(rb \o fil) = h + L
        /\ \A i \in 1 .. h + L : (rb \o fil)[i] = IF i <= h THEN rb[i] ELSE fil[i - h]
    <3>1. /\ rb \o fil \in Seq(Nat) /\ Len(rb \o fil) = Len(rb) + Len(fil)
          /\ \A i \in 1 .. Len(rb) + Len(fil) : (rb \o fil)[i] = IF i <= Len(rb) THEN rb[i] ELSE fil[i - Len(rb)]
      BY <1>2, ConcatProperties
    <3> QED
      BY <1>2, <3>1, Zenon DEF L
  <2>2. ASSUME NEW i \in 1 .. h + L PROVE rb2[i] = (rb \o fil)[i]
    <3>1. CASE i <= h
      <4>1. i \in 1 .. h
        BY <1>0, <3>1
      <4> QED
        BY <1>1, <1>2, <1>5, <2>1, <3>1, <4>1, Zenon
    <3>2. CASE ~(i <= h)
      <4>0. h \in Nat /\ L \in Nat
        BY <1>0
      <4>1. PICK k \in 1 .. L : k = i - h
        BY <3>2, <4>0
      <4>2. i = h + k
        BY <1>0, <4>1
      <4>3. rb2[i] = fil[k]
        BY <1>1, <1>5, <4>2, Zenon
      <4>4. (rb \o fil)[i] = fil[k]
        BY <2>1, <3>2, <4>1, Zenon
      <4> QED
        BY <4>3, <4>4
    <3> QED
      BY <3>1, <3>2
  <2> QED
    BY <1>5, <2>1, <2>2, SeqEqual
<1>7. (rb2 \o <<>>) \o wir = (rb \o fil) \o wir
  <2>1. rb2 \o <<>> = rb2
    BY <1>5, ConcatEmptySeq
  <2> QED
    BY <1>6, <2>1
<1>8. BytesOf(ring2, head2, tail, <<>>, wir) = BytesOf(ring, head, tail, fil, wir)
  BY <1>7 DEF BytesOf, rb, rb2
<1> QED
  BY <1>1, <1>3, <1>4, <1>8 DEF ring2, head2, h, L

\* The driver takes the first byte.
LEMMA BytesTaken ==
  ASSUME NEW ring \in [0 .. RingSize - 1 -> Nat],
         NEW head \in 0 .. UintMod - 1, NEW tail \in 0 .. UintMod - 1,
         NEW fil \in Seq(Nat), NEW wir \in Seq(Nat), head # tail
  PROVE  LET tail2 == Uint(tail + 1)
             b == BytesOf(ring, head, tail, fil, wir)
             b2 == BytesOf(ring, head, tail2, fil, wir)
         IN  /\ tail2 \in 0 .. UintMod - 1
             /\ HeldIn(head, tail2) = HeldIn(head, tail) - 1
             /\ Len(b) \in Nat /\ Len(b) > 0 /\ Len(b2) = Len(b) - 1
             /\ \A i \in 1 .. Len(b2) : b2[i] = b[i + 1]
<1> DEFINE tail2 == Uint(tail + 1)
           h == HeldIn(head, tail)
           b == BytesOf(ring, head, tail, fil, wir)
           b2 == BytesOf(ring, head, tail2, fil, wir)
           rb == RingBytes(ring, head, tail)
           rb2 == RingBytes(ring, head, tail2)
           F == fil \o wir
<1>0. /\ UintMod \in Nat \ {0} /\ RingSize \in Nat \ {0} /\ UintMod % RingSize = 0
      /\ head \in Int /\ tail \in Int
      /\ h \in Nat /\ h > 0
      /\ h = IF tail <= head THEN head - tail ELSE head - tail + UintMod
  <2>1. h \in Nat /\ (h = 0 <=> head = tail) /\ h = IF tail <= head THEN head - tail ELSE head - tail + UintMod
    BY HeldIs
  <2> QED
    BY <2>1, Sizes
<1>1. tail2 \in 0 .. UintMod - 1 /\ tail2 = IF tail + 1 < UintMod THEN tail + 1 ELSE 0
  <2>1. tail + 1 \in Nat /\ tail + 1 < UintMod + UintMod
    BY <1>0
  <2>2. tail2 = IF tail + 1 < UintMod THEN tail + 1 ELSE tail + 1 - UintMod
    <3>1. PICK x \in Nat : x = tail + 1
      BY <2>1
    <3>2. x < UintMod + UintMod
      BY <2>1, <3>1
    <3>3. Uint(x) = IF x < UintMod THEN x ELSE x - UintMod
      BY <3>2, UintStep
    <3>4. tail2 = Uint(x)
      BY <3>1
    <3>5. UintMod \in Nat
      BY <1>0
    <3> HIDE DEF tail2
    <3> QED
      BY <3>1, <3>3, <3>4, <3>5
  <2>3. tail + 1 \in Int
    BY <1>0
  <2>4. tail2 \in 0 .. UintMod - 1
    BY <2>3, UintIs
  <2>5. UintMod \in Nat /\ tail + 1 \in Nat
    BY <1>0, <2>1
  <2> HIDE DEF tail2
  <2> QED
    BY <2>2, <2>4, <2>5
<1>2. /\ rb \in Seq(Nat) /\ Len(rb) = h
      /\ \A i \in 1 .. h : rb[i] = ring[(tail + i - 1) % RingSize]
  BY RingBytesIs
<1>3. /\ F \in Seq(Nat) /\ b = rb \o F
  <2>1. F \in Seq(Nat)
    BY ConcatProperties
  <2>2. b = (rb \o fil) \o wir
    BY DEF BytesOf
  <2> QED
    BY <1>2, <2>1, <2>2, Assoc
<1> HIDE DEF tail2, h, rb
<1>4. HeldIn(head, tail2) = h - 1
  <2>1. HeldIn(head, tail2) = IF tail2 <= head THEN head - tail2 ELSE head - tail2 + UintMod
    BY <1>1, HeldIs
  <2> QED
    BY <1>0, <1>1, <2>1
<1>5. /\ rb2 \in Seq(Nat) /\ Len(rb2) = h - 1
      /\ \A i \in 1 .. h - 1 : rb2[i] = ring[(tail2 + i - 1) % RingSize]
  <2>1. /\ rb2 \in Seq(Nat) /\ Len(rb2) = HeldIn(head, tail2)
        /\ \A i \in 1 .. HeldIn(head, tail2) : rb2[i] = ring[(tail2 + i - 1) % RingSize]
    BY <1>1, RingBytesIs
  <2> QED
    BY <1>4, <2>1, Zenon
<1>6. b2 = rb2 \o F
  <2>2. b2 = (rb2 \o fil) \o wir
    BY DEF BytesOf
  <2> QED
    BY <1>5, <2>2, Assoc
<1> HIDE DEF rb2, F, b, b2
<1>7. ASSUME NEW i \in 1 .. h - 1 PROVE rb2[i] = rb[i + 1]
  <2>1. PICK x \in Int : x = tail2 + i - 1
    BY <1>0, <1>1
  <2>2. PICK y \in Int : y = tail + (i + 1) - 1
    BY <1>0
  <2>3. x % RingSize = y % RingSize
    <3>1. CASE tail + 1 < UintMod
      <4>1. x = y
        BY <1>0, <1>1, <2>1, <2>2, <3>1
      <4> QED
        BY <4>1
    <3>2. CASE ~(tail + 1 < UintMod)
      <4>1. y = UintMod + x
        BY <1>0, <1>1, <2>1, <2>2, <3>2
      <4> QED
        BY <4>1, RingWrap
    <3> QED
      BY <3>1, <3>2
  <2>4. i + 1 \in 1 .. h
    BY <1>0
  <2>5. rb2[i] = ring[x % RingSize]
    BY <1>5, <2>1, Zenon
  <2>6. rb[i + 1] = ring[y % RingSize]
    BY <1>2, <2>2, <2>4, Zenon
  <2> QED
    BY <2>3, <2>5, <2>6, Zenon
<1>9. /\ Len(F) \in Nat /\ Len(b) = h + Len(F) /\ Len(b2) = (h - 1) + Len(F)
      /\ \A i \in 1 .. h + Len(F) : b[i] = IF i <= h THEN rb[i] ELSE F[i - h]
      /\ \A i \in 1 .. (h - 1) + Len(F) : b2[i] = IF i <= h - 1 THEN rb2[i] ELSE F[i - (h - 1)]
  <2>1. Len(F) \in Nat
    BY <1>3, LenProperties
  <2>2. /\ Len(rb \o F) = Len(rb) + Len(F)
        /\ \A i \in 1 .. Len(rb) + Len(F) : (rb \o F)[i] = IF i <= Len(rb) THEN rb[i] ELSE F[i - Len(rb)]
    BY <1>2, <1>3, ConcatProperties
  <2>3. /\ Len(rb2 \o F) = Len(rb2) + Len(F)
        /\ \A i \in 1 .. Len(rb2) + Len(F) : (rb2 \o F)[i] = IF i <= Len(rb2) THEN rb2[i] ELSE F[i - Len(rb2)]
    BY <1>3, <1>5, ConcatProperties
  <2>4. /\ Len(b) = h + Len(F)
        /\ \A i \in 1 .. h + Len(F) : b[i] = IF i <= h THEN rb[i] ELSE F[i - h]
    BY <1>2, <1>3, <2>2, Zenon
  <2>5. /\ Len(b2) = (h - 1) + Len(F)
        /\ \A i \in 1 .. (h - 1) + Len(F) : b2[i] = IF i <= h - 1 THEN rb2[i] ELSE F[i - (h - 1)]
    BY <1>5, <1>6, <2>3, Zenon
  <2> QED
    BY <2>1, <2>4, <2>5
<1>10. ASSUME NEW i \in 1 .. (h - 1) + Len(F) PROVE b2[i] = b[i + 1]
  <2>1. CASE i <= h - 1
    <3>1. i \in 1 .. h - 1 /\ i + 1 \in 1 .. h + Len(F) /\ i + 1 <= h
      BY <1>0, <1>9, <2>1
    <3> QED
      BY <1>7, <1>9, <2>1, <3>1, Zenon
  <2>2. CASE ~(i <= h - 1)
    <3>1. i + 1 \in 1 .. h + Len(F) /\ ~(i + 1 <= h) /\ i - (h - 1) = (i + 1) - h
      BY <1>0, <1>9, <2>2
    <3> QED
      BY <1>9, <2>2, <3>1, Zenon
  <2> QED
    BY <2>1, <2>2
<1>11. Len(b) \in Nat /\ Len(b) > 0 /\ Len(b2) = Len(b) - 1
  <2>0. h \in Nat /\ h > 0 /\ Len(F) \in Nat /\ Len(b) = h + Len(F) /\ Len(b2) = (h - 1) + Len(F)
    BY <1>0, <1>9
  <2> QED
    BY <2>0
<1>12. \A i \in 1 .. Len(b2) : b2[i] = b[i + 1]
  BY <1>9, <1>10, Zenon
<1> QED
  BY <1>1, <1>4, <1>11, <1>12, Zenon DEF tail2, h, b, b2

\* The byte the driver takes is the first under way.
LEMMA FirstByte ==
  \A ring \in [0 .. RingSize - 1 -> Nat], head \in 0 .. UintMod - 1, tail \in 0 .. UintMod - 1,
     fil \in Seq(Nat), wir \in Seq(Nat) :
    head # tail => BytesOf(ring, head, tail, fil, wir)[1] = ring[tail % RingSize]
<1> SUFFICES ASSUME NEW ring \in [0 .. RingSize - 1 -> Nat],
                    NEW head \in 0 .. UintMod - 1, NEW tail \in 0 .. UintMod - 1,
                    NEW fil \in Seq(Nat), NEW wir \in Seq(Nat), head # tail
             PROVE  BytesOf(ring, head, tail, fil, wir)[1] = ring[tail % RingSize]
  BY Zenon
<1> DEFINE h == HeldIn(head, tail)
           rb == RingBytes(ring, head, tail)
           F == fil \o wir
<1>1. h \in Nat /\ (h = 0 <=> head = tail)
  BY HeldIs
<1>2. /\ rb \in Seq(Nat) /\ Len(rb) = h
      /\ \A i \in 1 .. h : rb[i] = ring[(tail + i - 1) % RingSize]
  BY RingBytesIs
<1>3. F \in Seq(Nat) /\ Len(F) \in Nat
  <2>1. F \in Seq(Nat)
    BY ConcatProperties
  <2> HIDE DEF F
  <2> QED
    BY <2>1, LenProperties
<1>4. BytesOf(ring, head, tail, fil, wir) = rb \o F
  <2>1. BytesOf(ring, head, tail, fil, wir) = (rb \o fil) \o wir
    BY DEF BytesOf
  <2> QED
    BY <1>2, <2>1, Assoc
<1> HIDE DEF h, rb, F
<1>5. tail + 1 - 1 = tail /\ 1 \in 1 .. h
  BY <1>1, Sizes
<1>6. rb[1] = ring[tail % RingSize]
  BY <1>2, <1>5, Zenon
<1>7. (rb \o F)[1] = rb[1]
  <2>1. \A i \in 1 .. Len(rb) + Len(F) : (rb \o F)[i] = IF i <= Len(rb) THEN rb[i] ELSE F[i - Len(rb)]
    BY <1>2, <1>3, ConcatProperties
  <2>2. 1 \in 1 .. Len(rb) + Len(F) /\ 1 <= Len(rb)
    BY <1>1, <1>2, <1>3, <1>5
  <2> QED
    BY <2>1, <2>2, Zenon
<1> QED
  BY <1>4, <1>6, <1>7, Zenon

\* A line sent to an idle driver is all there is.
LEMMA BytesSent ==
  ASSUME NEW ring \in [0 .. RingSize - 1 -> Nat],
         NEW head \in 0 .. UintMod - 1, NEW tail \in 0 .. UintMod - 1,
         NEW fil \in Seq(Nat), NEW wir \in Seq(Nat), NEW x \in Seq(Nat),
         BytesOf(ring, head, tail, fil, wir) = <<>>
  PROVE  BytesOf(ring, head, tail, fil, wir \o x) = x
<1> DEFINE rf == RingBytes(ring, head, tail) \o fil
<1>1. RingBytes(ring, head, tail) \in Seq(Nat)
  BY RingBytesIs
<1>2. rf \in Seq(Nat)
  BY <1>1, ConcatProperties
<1> HIDE DEF rf
<1>3. rf \o (wir \o x) = (rf \o wir) \o x
  BY <1>2, Assoc
<1>4. rf \o wir = <<>>
  BY DEF BytesOf, rf
<1>5. <<>> \o x = x
  BY ConcatEmptySeq
<1>6. BytesOf(ring, head, tail, fil, wir \o x) = rf \o (wir \o x)
  BY DEF BytesOf, rf
<1> QED
  BY <1>3, <1>4, <1>5, <1>6, Zenon

-----------------------------------------------------------------------------
(* The steps of io.c. *)

\* What a step leaves alone.
TxSame   == UNCHANGED <<tx_free, content, avail, used, tx_irq, socket, nrec, nread, nevent, panic>>
RxSame   == UNCHANGED <<posted, filled, rx_irq, rx_ring, rx_head, rx_tail, wire>>
DrvSame  == UNCHANGED <<line, drv, more, region>>
HostSame == UNCHANGED <<host, copy, seen, ncmd, nreply, quit>>

\* What a step of one side leaves alone.
LEMMA TxFrame ==
  ASSUME TxType, PoolInv, WayInv, TxSame
  PROVE  TxType' /\ PoolInv' /\ WayInv' /\ Way' = Way
<1>1. Way' = Way
  BY DEF TxSame, Way, WayOf, Out
<1>2. TxType'
  BY DEF TxSame, TxType
<1>3. PoolInv'
  BY DEF TxSame, PoolInv, Pool
<1>4. WayInv'
  BY <1>1 DEF TxSame, WayInv, Numbered
<1> QED
  BY <1>1, <1>2, <1>3, <1>4

LEMMA RxFrame ==
  ASSUME RxType, HeldIn(rx_head, rx_tail) <= RingSize, RxSame
  PROVE  RxType' /\ Bytes' = Bytes /\ HeldIn(rx_head', rx_tail') <= RingSize
<1>1. Bytes' = Bytes
  BY DEF RxSame, Bytes, BytesOf, RingBytes, HeldIn, Uint
<1>2. RxType'
  BY DEF RxSame, RxType
<1> QED
  BY <1>1, <1>2 DEF RxSame

LEMMA DrvFrame == DrvType /\ DrvSame => DrvType'
BY DEF DrvType, DrvSame

LEMMA HostFrame == HostType /\ HostSame => HostType'
BY DEF HostType, HostSame

-----------------------------------------------------------------------------

\* The transmit interrupt and the device keep the pool and the way.
LEMMA TxDone ==
  ASSUME TxType, PoolInv, WayInv, tx_done
  PROVE  TxType' /\ PoolInv' /\ WayInv' /\ Way' = Way
<1>1. /\ tx_irq' = FALSE /\ tx_free' = tx_free \o used /\ used' = <<>>
      /\ UNCHANGED <<content, avail, socket, nrec, nread, nevent, panic>>
  BY DEF tx_done, tx_reclaim, hostVars
<1>2. tx_free \in Seq(TxBuf) /\ avail \in Seq(TxBuf) /\ used \in Seq(TxBuf) /\ Pool(tx_free, avail, used)
  BY DEF TxType, PoolInv
<1>3. tx_free \o used \in Seq(TxBuf) /\ Pool(tx_free \o used, avail, <<>>)
  BY <1>2, PoolReclaim
<1>4. PoolInv'
  BY <1>1, <1>3 DEF PoolInv
<1>5. <<>> \in Seq(TxBuf)
  BY EmptySeq
<1>6. TxType'
  BY <1>1, <1>3, <1>5 DEF TxType
<1>7. Way' = Way
  BY <1>1 DEF Way
<1>8. WayInv'
  BY <1>1, <1>7 DEF WayInv
<1> QED
  BY <1>4, <1>6, <1>7, <1>8

LEMMA Transmitted ==
  ASSUME TxType, PoolInv, WayInv, Transmit
  PROVE  TxType' /\ PoolInv' /\ WayInv' /\ Way' = Way
<1>1. /\ avail # <<>> /\ socket' = Append(socket, content[Head(avail)])
      /\ avail' = Tail(avail) /\ used' = Append(used, Head(avail)) /\ tx_irq' \in {tx_irq, TRUE}
      /\ UNCHANGED <<tx_free, content, nrec, nread, nevent, panic>>
  BY DEF Transmit, hostVars
<1>2. /\ tx_free \in Seq(TxBuf) /\ avail \in Seq(TxBuf) /\ used \in Seq(TxBuf) /\ Pool(tx_free, avail, used)
      /\ content \in [TxBuf -> Records] /\ socket \in Seq(Records)
  BY DEF TxType, PoolInv
<1>3. /\ Tail(avail) \in Seq(TxBuf) /\ Append(used, Head(avail)) \in Seq(TxBuf)
      /\ Pool(tx_free, Tail(avail), Append(used, Head(avail)))
  BY <1>1, <1>2, PoolSent
<1>4. PoolInv'
  BY <1>1, <1>3 DEF PoolInv
<1>5. /\ Append(socket, content[Head(avail)]) \in Seq(Records)
      /\ WayOf(Append(socket, content[Head(avail)]), content, Tail(avail)) = WayOf(socket, content, avail)
  BY <1>1, <1>2, WaySent
<1>6. TxType'
  BY <1>1, <1>3, <1>5 DEF TxType
<1>7. Way' = Way
  BY <1>1, <1>5 DEF Way
<1>8. WayInv'
  BY <1>1, <1>7 DEF WayInv
<1> QED
  BY <1>4, <1>6, <1>7, <1>8

\* One more record keeps the numbering.
LEMMA NumberedIs ==
  ASSUME NEW w \in Seq(Records), NEW a \in Nat, NEW b \in Nat, Numbered(w, a, b), NEW r \in Records, r.no = a + 1
  PROVE  Numbered(Append(w, r), a + 1, b)
<1>1. /\ Len(w) \in Nat /\ Len(w) = a - b /\ \A i \in 1 .. Len(w) : w[i].no = b + i
  BY LenProperties DEF Numbered
<1>2. /\ Len(Append(w, r)) = Len(w) + 1 /\ \A i \in 1 .. Len(w) : Append(w, r)[i] = w[i]
      /\ Append(w, r)[Len(w) + 1] = r
  BY AppendIs
<1>3. ASSUME NEW i \in 1 .. Len(Append(w, r)) PROVE Append(w, r)[i].no = b + i
  <2>1. i \in 1 .. Len(w) \/ i = Len(w) + 1
    BY <1>1, <1>2
  <2>2. CASE i \in 1 .. Len(w)
    BY <1>1, <1>2, <2>2
  <2>3. CASE i = Len(w) + 1
    <3>1. Append(w, r)[i] = r /\ i = a - b + 1
      BY <1>1, <1>2, <2>3
    <3> QED
      BY <3>1
  <2> QED
    BY <2>1, <2>2, <2>3
<1>4. Len(Append(w, r)) = (a + 1) - b
  BY <1>1, <1>2
<1> QED
  BY <1>3, <1>4 DEF Numbered

LEMMA Renumbered ==
  ASSUME NEW r \in Records, NEW n \in Nat
  PROVE  LET r2 == [r EXCEPT !.no = n]
         IN  r2 \in Records /\ r2.no = n /\ r2.reply = r.reply /\ r2.cmd = r.cmd
<1> DEFINE r2 == [r EXCEPT !.no = n]
<1>1. r.reply \in BOOLEAN /\ r.cmd \in Nat /\ r.no \in Nat /\ r = [reply |-> r.reply, cmd |-> r.cmd, no |-> r.no]
  BY DEF Records
<1>2. r2 = [reply |-> r.reply, cmd |-> r.cmd, no |-> n]
  BY <1>1
<1> HIDE DEF r2
<1>3. r2 \in Records
  BY <1>1, <1>2 DEF Records
<1>4. r2.no = n /\ r2.cmd = r.cmd
  BY <1>2
<1>5. r2.reply = r.reply
  BY <1>2
<1> QED
  BY <1>3, <1>4, <1>5 DEF r2

\* After a write the way is as it was, or has the record at its end.
LEMMA Written ==
  ASSUME TxType, PoolInv, WayInv, NEW r \in Records, kstep_io_write(r),
         UNCHANGED <<tx_irq, socket, nread>>, nevent' \in Nat
  PROVE  /\ TxType' /\ PoolInv' /\ WayInv'
         /\ \/ Way' = Way /\ panic' # "no"
            \/ Way' = Append(Way, [r EXCEPT !.no = nrec + 1])
         /\ panic' = panic \/ Failed
<1>0. /\ tx_free \in Seq(TxBuf) /\ avail \in Seq(TxBuf) /\ used \in Seq(TxBuf)
      /\ content \in [TxBuf -> Records] /\ socket \in Seq(Records) /\ nrec \in Nat /\ nread \in Nat
  BY DEF TxType
<1>1. Failed \/ Wrote(r)
  BY <1>0, WriteStep
<1>2. CASE Failed
  <2>1. UNCHANGED <<tx_free, content, avail, used, nrec>> /\ panic' \in {"full", "add"}
    BY <1>2 DEF Failed
  <2>2. Way' = Way
    BY <2>1 DEF Way
  <2>3. TxType' /\ PoolInv' /\ WayInv'
    BY <2>1, <2>2 DEF TxType, PoolInv, WayInv
  <2> QED
    BY <1>2, <2>1, <2>2, <2>3
<1>3. CASE Wrote(r)
  <2> DEFINE r2 == [r EXCEPT !.no = nrec + 1]
  <2>1. r2 \in Records /\ r2.no = nrec + 1
    <3>1. nrec + 1 \in Nat
      BY <1>0
    <3> QED
      BY <3>1, Renumbered
  <2> HIDE DEF r2
  <2>2. PICK b \in TxBuf \ Range(avail) : avail' = Append(avail, b) /\ content' = [content EXCEPT ![b] = r2]
    BY <1>3 DEF Wrote, r2
  <2>3. Way' = Append(Way, r2)
    <3>1. WayOf(socket, [content EXCEPT ![b] = r2], Append(avail, b)) = Append(WayOf(socket, content, avail), r2)
      BY <1>0, <2>1, WayWritten
    <3> QED
      BY <2>2, <3>1 DEF Way
  <2>4. content' \in [TxBuf -> Records]
    BY <1>0, <2>1, <2>2
  <2>5. TxType'
    BY <1>3, <2>4 DEF TxType, Wrote
  <2>6. Way \in Seq(Records)
    BY <1>0, WayIs DEF Way
  <2>7. Numbered(Append(Way, r2), nrec + 1, nread)
    BY <1>0, <2>1, <2>6, NumberedIs DEF WayInv
  <2>8. WayInv'
    BY <1>3, <2>3, <2>7 DEF WayInv, Wrote
  <2>9. PoolInv' /\ panic' = panic
    BY <1>3 DEF Wrote
  <2> QED
    BY <2>3, <2>5, <2>8, <2>9 DEF r2
<1> QED
  BY <1>1, <1>2, <1>3

-----------------------------------------------------------------------------

\* The device and the receive interrupt change no byte under way.
LEMMA Received ==
  ASSUME RxType, HeldIn(rx_head, rx_tail) <= RingSize, Receive
  PROVE  RxType' /\ Bytes' = Bytes /\ HeldIn(rx_head', rx_tail') <= RingSize
<1>1. PICK n \in 1 .. RxBufSize :
        /\ n <= Len(wire)
        /\ filled' = filled \o SubSeq(wire, 1, n)
        /\ wire' = SubSeq(wire, n + 1, Len(wire))
  BY DEF Receive
<1>2. posted > 0 /\ posted' = posted - 1 /\ rx_irq' = TRUE /\ UNCHANGED <<rx_ring, rx_head, rx_tail>>
  BY DEF Receive
<1>3. n \in Nat /\ n >= 1
  BY SizesAssumption
<1>4. /\ rx_ring \in [0 .. RingSize - 1 -> Nat] /\ rx_head \in 0 .. UintMod - 1 /\ rx_tail \in 0 .. UintMod - 1
      /\ filled \in Seq(Nat) /\ wire \in Seq(Nat) /\ posted \in 0 .. RxBufs
  BY DEF RxType
<1>5. /\ filled' \in Seq(Nat) /\ wire' \in Seq(Nat) /\ Len(filled') > 0
      /\ BytesOf(rx_ring, rx_head, rx_tail, filled', wire') = BytesOf(rx_ring, rx_head, rx_tail, filled, wire)
  <2>1. /\ filled \o SubSeq(wire, 1, n) \in Seq(Nat) /\ SubSeq(wire, n + 1, Len(wire)) \in Seq(Nat)
        /\ Len(filled \o SubSeq(wire, 1, n)) > 0
        /\ BytesOf(rx_ring, rx_head, rx_tail, filled \o SubSeq(wire, 1, n), SubSeq(wire, n + 1, Len(wire)))
             = BytesOf(rx_ring, rx_head, rx_tail, filled, wire)
    <3>1. n <= Len(wire)
      BY <1>1
    <3> QED
      BY <1>3, <1>4, <3>1, BytesReceived
  <2> QED
    BY <1>1, <2>1, Zenon
<1>6. Bytes' = Bytes
  BY <1>2, <1>5 DEF Bytes
<1>7. posted' \in 0 .. RxBufs /\ posted' # RxBufs
  BY <1>2, <1>4, Sizes
<1>8. filled' # <<>>
  BY <1>5
<1>9. RxType'
  BY <1>2, <1>5, <1>7, <1>8 DEF RxType
<1> QED
  BY <1>2, <1>6, <1>9

LEMMA Drained ==
  ASSUME RxType, HeldIn(rx_head, rx_tail) <= RingSize, rx_done
  PROVE  /\ RxType' /\ Bytes' = Bytes /\ HeldIn(rx_head', rx_tail') <= RingSize
         /\ panic' = panic \/ (panic' = "input" /\ Len(Bytes) > RingSize)
<1>0. /\ rx_ring \in [0 .. RingSize - 1 -> Nat] /\ rx_head \in 0 .. UintMod - 1 /\ rx_tail \in 0 .. UintMod - 1
      /\ filled \in Seq(Nat) /\ wire \in Seq(Nat) /\ posted \in 0 .. RxBufs
      /\ RxBufs \in Nat /\ RingSize \in Nat
  BY Sizes DEF RxType
<1>1. rx_irq' = FALSE /\ rx_tail' = rx_tail /\ wire' = wire /\ Drain(Len(filled), RxBufs)
  BY DEF rx_done
<1>2. /\ HeldIn(rx_head, rx_tail) \in Nat /\ Len(filled) \in Nat /\ Len(wire) \in Nat
      /\ Len(Bytes) = HeldIn(rx_head, rx_tail) + Len(filled) + Len(wire)
  BY <1>0, BytesIs DEF Bytes
<1>3. CASE HeldIn(rx_head, rx_tail) + Len(filled) > RingSize
  <2>1. panic' = "input" /\ UNCHANGED <<posted, filled, rx_ring, rx_head>>
    BY <1>1, <1>3 DEF Drain, HeldIn
  <2>2. Bytes' = Bytes
    BY <1>1, <2>1 DEF Bytes
  <2>3. RxType'
    BY <1>1, <2>1 DEF RxType
  <2>4. Len(Bytes) > RingSize
    BY <1>0, <1>2, <1>3
  <2> QED
    BY <1>1, <2>1, <2>2, <2>3, <2>4
<1>4. CASE ~(HeldIn(rx_head, rx_tail) + Len(filled) > RingSize)
  <2>1. /\ rx_ring' = RingWith(SubSeq(filled, 1, Len(filled)))
        /\ rx_head' = Uint(rx_head + Len(filled))
        /\ filled' = SubSeq(filled, Len(filled) + 1, Len(filled))
        /\ posted' = RxBufs /\ panic' = panic
    BY <1>1, <1>4 DEF Drain, HeldIn
  <2>2. SubSeq(filled, 1, Len(filled)) = filled
    BY <1>0, SubSeqFull
  <2>3. filled' = <<>>
    <3>1. PICK n \in Int : n = Len(filled)
      BY <1>2
    <3>2. PICK m \in Int : m = n + 1
      OBVIOUS
    <3>3. SubSeq(filled, m, n) = <<>>
      BY <3>2, SubSeqEmpty
    <3> QED
      BY <2>1, <3>1, <3>2, <3>3
  <2>4. rx_ring' = RingPut(rx_ring, rx_head, filled)
    BY <2>1, <2>2 DEF RingWith, RingPut
  <2>5. HeldIn(rx_head, rx_tail) + Len(filled) <= RingSize
    BY <1>0, <1>2, <1>4
  <2>6. /\ rx_ring' \in [0 .. RingSize - 1 -> Nat] /\ rx_head' \in 0 .. UintMod - 1
        /\ HeldIn(rx_head', rx_tail) = HeldIn(rx_head, rx_tail) + Len(filled)
        /\ BytesOf(rx_ring', rx_head', rx_tail, <<>>, wire) = BytesOf(rx_ring, rx_head, rx_tail, filled, wire)
    <3> DEFINE ring2 == RingPut(rx_ring, rx_head, filled)
               head2 == Uint(rx_head + Len(filled))
    <3>1. /\ ring2 \in [0 .. RingSize - 1 -> Nat] /\ head2 \in 0 .. UintMod - 1
          /\ HeldIn(head2, rx_tail) = HeldIn(rx_head, rx_tail) + Len(filled)
          /\ BytesOf(ring2, head2, rx_tail, <<>>, wire) = BytesOf(rx_ring, rx_head, rx_tail, filled, wire)
      BY <1>0, <2>5, BytesDrained
    <3>2. rx_ring' = ring2 /\ rx_head' = head2
      BY <2>1, <2>4
    <3> HIDE DEF ring2, head2
    <3> QED
      BY <3>1, <3>2
  <2>7. Bytes' = Bytes
    BY <1>1, <2>3, <2>6 DEF Bytes
  <2>8. <<>> \in Seq(Nat)
    BY EmptySeq
  <2>9. RxType'
    <3>1. posted' \in 0 .. RxBufs
      BY <1>0, <2>1
    <3>2. posted' = RxBufs <=> filled' = <<>>
      BY <2>1, <2>3
    <3>3. wire' \in Seq(Nat) /\ filled' \in Seq(Nat) /\ rx_tail' \in 0 .. UintMod - 1 /\ rx_irq' \in BOOLEAN
      BY <1>0, <1>1, <2>3, <2>8
    <3> QED
      BY <2>6, <3>1, <3>2, <3>3 DEF RxType
  <2> QED
    BY <1>1, <2>1, <2>5, <2>6, <2>7, <2>9
<1> QED
  BY <1>3, <1>4

-----------------------------------------------------------------------------
(* The line and the command loop. *)

\* Cut and Copies, by their values.
LEMMA CutIs ==
  ASSUME NEW n \in Nat
  PROVE  Cut(n) = (IF n <= LineMax - 1 THEN n ELSE LineMax - 1) /\ Cut(n) \in Nat /\ Cut(n) < LineMax
<1>0. LineMax \in Nat /\ LineMax >= 2
  BY Sizes
<1>1. PICK m \in Nat : m = LineMax - 1
  BY <1>0
<1>2. Min({n, m}) = IF n <= m THEN n ELSE m
  <2> DEFINE S == {n, m}
             x == IF n <= m THEN n ELSE m
  <2>1. x \in S /\ \A y \in S : x <= y
    OBVIOUS
  <2>2. \A z \in S : (\A y \in S : z <= y) => z = x
    OBVIOUS
  <2>3. Min(S) = CHOOSE z \in S : \A y \in S : z <= y
    BY DEF Min
  <2> HIDE DEF S, x
  <2>4. Min(S) = x
    BY <2>1, <2>2, <2>3
  <2> QED
    BY <2>4 DEF S, x
<1>3. Cut(n) = IF n <= LineMax - 1 THEN n ELSE LineMax - 1
  BY <1>1, <1>2 DEF Cut
<1> QED
  BY <1>0, <1>3

LEMMA CopiesIs ==
  ASSUME NEW k \in Nat, NEW n \in Nat
  PROVE  /\ Copies(k, n) \in Seq(Nat) /\ Len(Copies(k, n)) = n /\ \A i \in 1 .. n : Copies(k, n)[i] = k
<1>1. Copies(k, n) \in [1 .. n -> Nat]
  BY DEF Copies
<1>2. Copies(k, n) \in Seq(Nat)
  BY <1>1, SeqDef
<1>3. Len(Copies(k, n)) = n
  BY <1>1, <1>2, LenProperties
<1> QED
  BY <1>2, <1>3 DEF Copies

LEMMA CopiesNone ==
  ASSUME NEW k \in Nat
  PROVE  Copies(k, 0) = <<>>
<1>1. Copies(k, 0) \in Seq(Nat) /\ Len(Copies(k, 0)) = 0
  BY CopiesIs
<1> QED
  BY <1>1, EmptySeq

LEMMA CopiesMore ==
  ASSUME NEW k \in Nat, NEW n \in Nat
  PROVE  Append(Copies(k, n), k) = Copies(k, n + 1)
<1> DEFINE s == Copies(k, n)
           t == Copies(k, n + 1)
<1>1. s \in Seq(Nat) /\ Len(s) = n /\ \A i \in 1 .. n : s[i] = k
  BY CopiesIs
<1>2. PICK m \in Nat : m = n + 1
  OBVIOUS
<1>3. t \in Seq(Nat) /\ Len(t) = n + 1 /\ \A i \in 1 .. n + 1 : t[i] = k
  <2>1. Copies(k, m) \in Seq(Nat) /\ Len(Copies(k, m)) = m /\ \A i \in 1 .. m : Copies(k, m)[i] = k
    BY CopiesIs
  <2> QED
    BY <1>2, <2>1
<1> HIDE DEF s, t
<1>4. /\ Append(s, k) \in Seq(Nat) /\ Len(Append(s, k)) = n + 1
      /\ \A i \in 1 .. n : Append(s, k)[i] = k
      /\ Append(s, k)[n + 1] = k
  BY <1>1, AppendIs
<1>5. ASSUME NEW i \in 1 .. n + 1 PROVE Append(s, k)[i] = t[i]
  <2>1. i \in 1 .. n \/ i = n + 1
    OBVIOUS
  <2> QED
    BY <1>3, <1>4, <2>1
<1>6. Append(s, k) = t
  BY <1>3, <1>4, <1>5, SeqEqual
<1> QED
  BY <1>6 DEF s, t

LEMMA LensIs == Lens \subseteq Nat \ {0}
BY Sizes DEF Lens

\* A line sent to an idle driver.
LEMMA LineSent ==
  ASSUME NEW k \in Nat \ {0}, NEW n \in Lens
  PROVE  /\ LineOf(k, n) \in Seq(Nat) /\ Len(LineOf(k, n)) > 0
         /\ AtLine("read", LineOf(k, n), <<>>, <<k - 1, k - 1>>, k)
<1> DEFINE s == Copies(k, n)
           b == LineOf(k, n)
<1>0. n \in Nat /\ n # 0 /\ k \in Nat
  BY LensIs
<1>1. s \in Seq(Nat) /\ Len(s) = n /\ \A i \in 1 .. n : s[i] = k
  BY <1>0, CopiesIs
<1>2. b = s \o <<0>>
  BY DEF LineOf, Copies, Newline
<1>3. <<0>> \in Seq(Nat) /\ Len(<<0>>) = 1 /\ <<0>>[1] = 0
  BY OneSeq
<1> HIDE DEF s
<1>4. /\ b \in Seq(Nat) /\ Len(b) = n + 1
      /\ \A i \in 1 .. n + 1 : b[i] = IF i <= n THEN s[i] ELSE <<0>>[i - n]
  <2>1. /\ s \o <<0>> \in Seq(Nat) /\ Len(s \o <<0>>) = Len(s) + Len(<<0>>)
        /\ \A i \in 1 .. Len(s) + Len(<<0>>) : (s \o <<0>>)[i] = IF i <= Len(s) THEN s[i] ELSE <<0>>[i - Len(s)]
    BY <1>1, <1>3, ConcatProperties
  <2> QED
    BY <1>1, <1>2, <1>3, <2>1, Zenon
<1> HIDE DEF b
<1>5. \A i \in 1 .. Len(b) : b[i] = IF i = Len(b) THEN Newline ELSE k
  <2> TAKE i \in 1 .. Len(b)
  <2>1. i \in 1 .. n + 1
    BY <1>4
  <2>2. CASE i = n + 1
    <3>1. i - n = 1 /\ ~(i <= n)
      BY <1>0, <2>2
    <3>2. b[i] = <<0>>[1]
      BY <1>4, <2>1, <3>1
    <3> QED
      BY <1>3, <1>4, <2>2, <3>2 DEF Newline
  <2>3. CASE i # n + 1
    <3>1. i \in 1 .. n /\ i <= n
      BY <1>0, <2>1, <2>3
    <3> QED
      BY <1>1, <1>4, <2>1, <2>3, <3>1
  <2> QED
    BY <2>2, <2>3
<1>6. n + 1 >= Len(b) /\ <<>> = Copies(k, Cut(n + 1 - Len(b)))
  <2>1. n + 1 - Len(b) = 0
    BY <1>0, <1>4
  <2>2. Cut(0) = 0
    BY CutIs, Sizes
  <2> QED
    BY <1>0, <1>4, <2>1, <2>2, CopiesNone
<1>7. Len(b) > 0
  BY <1>0, <1>4
<1>8. AtLine("read", b, <<>>, <<k - 1, k - 1>>, k)
  BY <1>0, <1>5, <1>6, <1>7 DEF AtLine
<1> QED
  BY <1>4, <1>7, <1>8 DEF b

\* The driver takes a byte of the line.
LEMMA LineTaken ==
  ASSUME NEW k \in Nat, NEW reg, NEW b \in Seq(Nat), NEW b2 \in Seq(Nat), NEW l,
         AtLine("read", b, l, reg, k),
         Len(b) > 0, Len(b2) = Len(b) - 1, \A i \in 1 .. Len(b2) : b2[i] = b[i + 1]
  PROVE  LET c == b[1]
             l2 == IF c # Newline /\ Len(l) + 1 < LineMax THEN Append(l, c) ELSE l
         IN  /\ l2 \in Seq(Nat) /\ Len(l2) < LineMax
             /\ AtLine(IF c = Newline THEN "execute" ELSE "read", b2, l2, reg, k)
<1> DEFINE c == b[1]
           l2 == IF c # Newline /\ Len(l) + 1 < LineMax THEN Append(l, c) ELSE l
<1>0. Len(b) \in Nat /\ Len(b2) \in Nat /\ LineMax \in Nat /\ LineMax >= 2
  BY LenProperties, Sizes
<1>1. /\ k > 0 /\ reg = <<k - 1, k - 1>>
      /\ \A i \in 1 .. Len(b) : b[i] = IF i = Len(b) THEN Newline ELSE k
      /\ \E n \in Lens : n + 1 >= Len(b) /\ l = Copies(k, Cut(n + 1 - Len(b)))
  <2>1. b # <<>>
    BY <1>0
  <2> QED
    BY <2>1 DEF AtLine
<1>2. PICK n \in Lens : n + 1 >= Len(b) /\ l = Copies(k, Cut(n + 1 - Len(b)))
  BY <1>1
<1>3. n \in Nat
  BY LensIs
<1>4. PICK m \in Nat : m = n + 1 - Len(b)
  BY <1>0, <1>2, <1>3
<1>5. Cut(m) = (IF m <= LineMax - 1 THEN m ELSE LineMax - 1) /\ Cut(m) \in Nat /\ Cut(m) < LineMax
  BY CutIs
<1>6. l = Copies(k, Cut(m)) /\ l \in Seq(Nat) /\ Len(l) = Cut(m)
  BY <1>2, <1>4, <1>5, CopiesIs
<1>7. CASE Len(b) = 1
  <2>1. c = Newline
    <3>1. 1 \in 1 .. Len(b)
      BY <1>7
    <3> QED
      BY <1>1, <1>7, <3>1
  <2>2. l2 = l
    BY <2>1
  <2>3. b2 = <<>>
    BY <1>7, EmptySeq
  <2>4. m = n
    BY <1>3, <1>4, <1>7
  <2>5. AtLine("execute", b2, l, reg, k)
    BY <1>1, <1>6, <2>3, <2>4 DEF AtLine
  <2> QED
    BY <1>5, <1>6, <2>1, <2>2, <2>5
<1>8. CASE Len(b) # 1
  <2>1. c = k /\ c # Newline
    <3>1. 1 \in 1 .. Len(b) /\ 1 # Len(b)
      BY <1>0, <1>8
    <3>2. c = k
      BY <1>1, <3>1
    <3> QED
      BY <1>1, <3>2 DEF Newline
  <2>2. l2 = Copies(k, Cut(m + 1))
    <3>1. PICK p \in Nat : p = m + 1
      OBVIOUS
    <3>2. Cut(p) = IF p <= LineMax - 1 THEN p ELSE LineMax - 1
      BY CutIs
    <3>3. CASE Len(l) + 1 < LineMax
      <4>1. Cut(m) = m /\ Cut(p) = m + 1
        BY <1>0, <1>5, <1>6, <3>1, <3>2, <3>3
      <4>2. Append(l, k) = Copies(k, m + 1)
        BY <1>6, <4>1, CopiesMore
      <4>3. l2 = Append(l, k)
        BY <2>1, <3>3
      <4> QED
        BY <3>1, <4>1, <4>2, <4>3
    <3>4. CASE ~(Len(l) + 1 < LineMax)
      <4>1. Cut(p) = Cut(m)
        BY <1>0, <1>5, <1>6, <3>1, <3>2, <3>4
      <4>2. l2 = l
        BY <3>4
      <4> QED
        BY <1>6, <3>1, <4>1, <4>2
    <3> QED
      BY <3>3, <3>4
  <2>3. \A i \in 1 .. Len(b2) : b2[i] = IF i = Len(b2) THEN Newline ELSE k
    <3> TAKE i \in 1 .. Len(b2)
    <3>1. i + 1 \in 1 .. Len(b) /\ (i = Len(b2) <=> i + 1 = Len(b))
      BY <1>0
    <3>2. b2[i] = b[i + 1]
      OBVIOUS
    <3> QED
      BY <1>1, <3>1, <3>2
  <2>4. n + 1 >= Len(b2) /\ n + 1 - Len(b2) = m + 1 /\ Len(b2) > 0
    BY <1>0, <1>2, <1>3, <1>4, <1>8
  <2> HIDE DEF l2, c
  <2>5. AtLine("read", b2, l2, reg, k)
    BY <1>1, <2>2, <2>3, <2>4 DEF AtLine
  <2>6. l2 \in Seq(Nat) /\ Len(l2) < LineMax
    <3>1. PICK p \in Nat : p = m + 1
      OBVIOUS
    <3>2. Cut(p) \in Nat /\ Cut(p) < LineMax
      BY CutIs
    <3>3. Copies(k, Cut(p)) \in Seq(Nat) /\ Len(Copies(k, Cut(p))) = Cut(p)
      BY <3>2, CopiesIs
    <3> QED
      BY <2>2, <3>1, <3>2, <3>3
  <2> QED
    BY <2>1, <2>5, <2>6 DEF l2, c
<1> QED
  BY <1>7, <1>8

\* The line a working driver has is its command's, and is not empty.
LEMMA WorkingLine ==
  ASSUME NEW k \in Nat, NEW d, d \in {"execute", "update", "update2", "reply"}, NEW b, NEW l, NEW reg, AtLine(d, b, l, reg, k)
  PROVE  /\ k > 0 /\ b = <<>> /\ l # <<>> /\ Head(l) = k
         /\ \E n \in Lens : l = Copies(k, Cut(n))
<1>1. k > 0 /\ b = <<>> /\ \E n \in Lens : l = Copies(k, Cut(n))
  BY DEF AtLine
<1>2. PICK n \in Lens : l = Copies(k, Cut(n))
  BY <1>1
<1>3. n \in Nat /\ n # 0
  BY LensIs
<1>4. Cut(n) \in Nat /\ Cut(n) >= 1
  BY <1>3, CutIs, Sizes
<1>5. l \in Seq(Nat) /\ Len(l) = Cut(n) /\ \A i \in 1 .. Cut(n) : l[i] = k
  BY <1>2, <1>4, CopiesIs
<1>6. l # <<>> /\ Head(l) = k
  BY <1>4, <1>5
<1> QED
  BY <1>1, <1>6

-----------------------------------------------------------------------------
(* The host and the records on their way to it. *)

\* A record of a trace changes nothing for the host.
LEMMA HostTraced ==
  ASSUME NEW h, NEW rep, NEW c, NEW d, NEW b, NEW m, NEW k, NEW q,
         NEW w \in Seq(Records), NEW r \in Records, ~r.reply,
         AtHost(h, rep, c, d, b, m, w, k, q)
  PROVE  AtHost(h, rep, c, d, b, m, Append(w, r), k, q)
<1> DEFINE v == Append(w, r)
<1>1. /\ Len(w) \in Nat /\ Len(v) = Len(w) + 1 /\ \A i \in 1 .. Len(w) : v[i] = w[i]
      /\ v[Len(w) + 1] = r
  BY AppendIs, LenProperties
<1> HIDE DEF v
<1>2. \A i \in 1 .. Len(v) : v[i].reply => i \in 1 .. Len(w) /\ w[i].reply /\ w[i].cmd = v[i].cmd
  <2> TAKE i \in 1 .. Len(v)
  <2>1. i \in 1 .. Len(w) \/ i = Len(w) + 1
    BY <1>1
  <2> QED
    BY <1>1, <2>1
<1>3. /\ h \in {"answered", "idle"} => \A i \in 1 .. Len(v) : ~v[i].reply
      /\ \A i \in 1 .. Len(v) : v[i].reply =>
           /\ d \in {"read", "over"} /\ b = <<>> /\ v[i].cmd = k
           /\ \A j \in 1 .. Len(v) : v[j].reply => j = i
  BY <1>2 DEF AtHost
<1>4. AtHost(h, rep, c, d, b, m, v, k, q)
  BY <1>3 DEF AtHost
<1> QED
  BY <1>4 DEF v

\* While the driver is not back in its loop there is no reply on the way; then
\* there is the one to the last command, or none.
LEMMA HostReplied ==
  ASSUME NEW h, NEW rep, NEW c, NEW d, NEW d2, NEW b, NEW m, NEW k, NEW q,
         NEW w \in Seq(Records), NEW r \in Records, r.cmd = k,
         d \in {"ready", "reply"}, d2 \in {"read", "over"}, d2 = "over" => ~m, b = <<>>,
         h \in {"await", "answered", "idle", "exiting", "closed"},
         AtHost(h, rep, c, d, b, m, w, k, q)
  PROVE  AtHost(h, rep, c, d2, b, m, Append(w, r), k, q) /\ AtHost(h, rep, c, d2, b, m, w, k, q)
<1> DEFINE v == Append(w, r)
<1>1. /\ Len(w) \in Nat /\ Len(v) = Len(w) + 1 /\ \A i \in 1 .. Len(w) : v[i] = w[i]
      /\ v[Len(w) + 1] = r
  BY AppendIs, LenProperties
<1> HIDE DEF v
<1>2. /\ h \in {"await", "exiting", "closed"} /\ \A i \in 1 .. Len(w) : ~w[i].reply
  BY DEF AtHost
<1>3. \A i \in 1 .. Len(v) : v[i].reply => i = Len(w) + 1 /\ v[i].cmd = k
  <2> TAKE i \in 1 .. Len(v)
  <2>1. i \in 1 .. Len(w) \/ i = Len(w) + 1
    BY <1>1
  <2> QED
    BY <1>1, <1>2, <2>1
<1>4. \A i \in 1 .. Len(v) : v[i].reply =>
           /\ d2 \in {"read", "over"} /\ b = <<>> /\ v[i].cmd = k
           /\ \A j \in 1 .. Len(v) : v[j].reply => j = i
  BY <1>3
<1>5. /\ rep = IF k = 0 THEN 0 ELSE k - 1
      /\ q = 0 \/ (q = k /\ h \in {"exiting", "closed"})
      /\ ~m => h \in {"exiting", "closed"}
      /\ c # <<>> => h = "answered" /\ c = <<k>>
  BY <1>2 DEF AtHost
<1>6. AtHost(h, rep, c, d2, b, m, v, k, q)
  BY <1>2, <1>4, <1>5 DEF AtHost
<1>7. AtHost(h, rep, c, d2, b, m, w, k, q)
  BY <1>2, <1>5 DEF AtHost
<1> QED
  BY <1>6, <1>7 DEF v

\* A step of the driver that neither ends nor begins the wait for a reply.
LEMMA HostWaits ==
  ASSUME NEW h, NEW rep, NEW c, NEW d, NEW d2, NEW b, NEW b2, NEW m, NEW m2, NEW k, NEW q, NEW w,
         h \in {"await", "answered", "idle", "exiting", "closed"},
         d # "read" \/ b # <<>>, d # "over", d2 # "over", ~m2 => ~m \/ h \in {"exiting", "closed"},
         d \notin {"read", "over"} \/ b # <<>>,
         AtHost(h, rep, c, d, b, m, w, k, q)
  PROVE  AtHost(h, rep, c, d2, b2, m2, w, k, q)
<1>1. h \in {"await", "exiting", "closed"} /\ \A i \in 1 .. Len(w) : ~w[i].reply
  BY DEF AtHost
<1>2. /\ rep = IF k = 0 THEN 0 ELSE k - 1
      /\ q = 0 \/ (q = k /\ h \in {"exiting", "closed"})
      /\ ~m => h \in {"exiting", "closed"}
      /\ c # <<>> => h = "answered" /\ c = <<k>>
  BY <1>1 DEF AtHost
<1> QED
  BY <1>1, <1>2 DEF AtHost

\* The host takes the first record: what is left is as it was, one place on.
LEMMA WayLeft ==
  ASSUME NEW d, NEW b, NEW k, NEW w, NEW v,
         Len(w) \in Nat, Len(w) > 0, Len(v) = Len(w) - 1, \A i \in 1 .. Len(v) : v[i] = w[i + 1],
         \A i \in 1 .. Len(w) : w[i].reply =>
           /\ d \in {"read", "over"} /\ b = <<>> /\ w[i].cmd = k
           /\ \A j \in 1 .. Len(w) : w[j].reply => j = i
  PROVE  /\ \A i \in 1 .. Len(v) : v[i].reply =>
              /\ d \in {"read", "over"} /\ b = <<>> /\ v[i].cmd = k
              /\ \A j \in 1 .. Len(v) : v[j].reply => j = i
         /\ w[1].reply => \A i \in 1 .. Len(v) : ~v[i].reply
<1>1. \A i \in 1 .. Len(v) : i + 1 \in 1 .. Len(w) /\ v[i] = w[i + 1]
  OBVIOUS
<1>2. \A i \in 1 .. Len(v) : v[i].reply =>
         /\ d \in {"read", "over"} /\ b = <<>> /\ v[i].cmd = k
         /\ \A j \in 1 .. Len(v) : v[j].reply => j = i
  <2> SUFFICES ASSUME NEW i \in 1 .. Len(v), v[i].reply
               PROVE  /\ d \in {"read", "over"} /\ b = <<>> /\ v[i].cmd = k
                      /\ \A j \in 1 .. Len(v) : v[j].reply => j = i
    OBVIOUS
  <2>1. i + 1 \in 1 .. Len(w) /\ w[i + 1].reply /\ w[i + 1].cmd = v[i].cmd
    BY <1>1
  <2>2. ASSUME NEW j \in 1 .. Len(v), v[j].reply PROVE j = i
    <3>1. j + 1 \in 1 .. Len(w) /\ w[j + 1].reply
      BY <1>1, <2>2
    <3>2. j + 1 = i + 1
      BY <2>1, <3>1
    <3> QED
      BY <3>2
  <2> QED
    BY <2>1, <2>2
<1>3. ASSUME w[1].reply, NEW i \in 1 .. Len(v), v[i].reply PROVE FALSE
  <2>1. i + 1 \in 1 .. Len(w) /\ w[i + 1].reply /\ 1 \in 1 .. Len(w)
    BY <1>1, <1>3
  <2>2. i + 1 = 1
    BY <1>3, <2>1
  <2> QED
    BY <2>2
<1> QED
  BY <1>2, <1>3

\* A trace record leaves it waiting.
LEMMA HostCollects ==
  ASSUME NEW rep, NEW c, NEW d, NEW b, NEW m, NEW k, NEW q, NEW w, NEW v,
         Len(w) \in Nat, Len(w) > 0, Len(v) = Len(w) - 1, \A i \in 1 .. Len(v) : v[i] = w[i + 1],
         AtHost("await", rep, c, d, b, m, w, k, q)
  PROVE  AtHost("await", rep, c, d, b, m, v, k, q)
<1>1. \A i \in 1 .. Len(w) : w[i].reply =>
         /\ d \in {"read", "over"} /\ b = <<>> /\ w[i].cmd = k
         /\ \A j \in 1 .. Len(w) : w[j].reply => j = i
  BY DEF AtHost
<1>2. \A i \in 1 .. Len(v) : v[i].reply =>
         /\ d \in {"read", "over"} /\ b = <<>> /\ v[i].cmd = k
         /\ \A j \in 1 .. Len(v) : v[j].reply => j = i
  BY <1>1, WayLeft
<1> QED
  BY <1>2 DEF AtHost

\* A reply ends the wait, with the driver back in its loop.
LEMMA HostAnswered ==
  ASSUME NEW rep, NEW c, NEW d, NEW b, NEW m, NEW k, NEW q, NEW w, NEW v,
         Len(w) \in Nat, Len(w) > 0, Len(v) = Len(w) - 1, \A i \in 1 .. Len(v) : v[i] = w[i + 1],
         AtHost("await", rep, c, d, b, m, w, k, q), w[1].reply
  PROVE  AtHost("answered", k, c, d, b, m, v, k, q)
<1>1. /\ \A i \in 1 .. Len(w) : w[i].reply =>
         /\ d \in {"read", "over"} /\ b = <<>> /\ w[i].cmd = k
         /\ \A j \in 1 .. Len(w) : w[j].reply => j = i
  BY DEF AtHost
<1>2. \A i \in 1 .. Len(v) : ~v[i].reply
  BY <1>1, WayLeft
<1>3. q = 0 /\ m /\ d # "over" /\ c = <<>>
  BY DEF AtHost
<1>4. 1 \in 1 .. Len(w)
  OBVIOUS
<1>5. d = "read" /\ b = <<>>
  BY <1>1, <1>3, <1>4
<1> QED
  BY <1>2, <1>3, <1>5 DEF AtHost

-----------------------------------------------------------------------------
(* The steps, each against the whole invariant. *)

\* The invariant, in the parts the steps cite; and put together again.
LEMMA Parts ==
  ASSUME IInv
  PROVE  /\ TxType /\ RxType /\ DrvType /\ HostType /\ PoolInv /\ WayInv
         /\ HeldIn(rx_head, rx_tail) <= RingSize /\ AtLine(drv, Bytes, line, region, ncmd)
         /\ AtHost(host, nreply, copy, drv, Bytes, more, Way, ncmd, quit)
         /\ Bytes \in Seq(Nat) /\ Way \in Seq(Records) /\ ncmd \in Nat
<1>1. Bytes \in Seq(Nat)
  BY BytesIs DEF IInv, RxType, Bytes
<1>2. Way \in Seq(Records)
  BY WayIs DEF IInv, TxType, Way
<1> QED
  BY <1>1, <1>2 DEF IInv, LineInv, HostInv, HostType

LEMMA Whole ==
  ASSUME TxType', RxType', DrvType', HostType', PoolInv', WayInv',
         HeldIn(rx_head', rx_tail') <= RingSize,
         AtLine(drv', Bytes', line', region', ncmd'),
         AtHost(host', nreply', copy', drv', Bytes', more', Way', ncmd', quit')
  PROVE  IInv'
BY DEF IInv, LineInv, HostInv

\* Steps of the transmit and of the receive side alone.
LEMMA TxStep ==
  ASSUME IInv, tx_done \/ Transmit
  PROVE  IInv'
<1>1. TxType' /\ PoolInv' /\ WayInv' /\ Way' = Way
  BY Parts, TxDone, Transmitted
<1>2. RxSame /\ DrvSame /\ HostSame
  BY DEF tx_done, Transmit, RxSame, DrvSame, HostSame, rxVars, drvVars, hostVars
<1>3. RxType' /\ Bytes' = Bytes /\ HeldIn(rx_head', rx_tail') <= RingSize /\ DrvType' /\ HostType'
  BY <1>2, Parts, RxFrame, DrvFrame, HostFrame
<1>4. /\ AtLine(drv', Bytes', line', region', ncmd')
      /\ AtHost(host', nreply', copy', drv', Bytes', more', Way', ncmd', quit')
  BY <1>1, <1>2, <1>3, Parts DEF DrvSame, HostSame
<1> QED
  BY <1>1, <1>3, <1>4, Whole

LEMMA RxStep ==
  ASSUME IInv, rx_done \/ Receive
  PROVE  IInv'
<1>1. RxType' /\ Bytes' = Bytes /\ HeldIn(rx_head', rx_tail') <= RingSize
  BY Parts, Drained, Received
<1>2. /\ UNCHANGED <<tx_free, content, avail, used, tx_irq, socket, nrec, nread, nevent>> /\ DrvSame /\ HostSame
  BY DEF rx_done, Receive, txVars, drvVars, hostVars, DrvSame, HostSame
<1>3. panic' \in {panic, "input"}
  BY DEF rx_done, Receive, Drain
<1>4. TxType'
  BY <1>2, <1>3, Parts DEF TxType
<1>5. Way' = Way
  BY <1>2 DEF Way
<1>6. PoolInv' /\ WayInv'
  BY <1>2, <1>5, Parts DEF PoolInv, WayInv
<1>7. DrvType' /\ HostType'
  BY <1>2, Parts, DrvFrame, HostFrame
<1>8. /\ AtLine(drv', Bytes', line', region', ncmd')
      /\ AtHost(host', nreply', copy', drv', Bytes', more', Way', ncmd', quit')
  BY <1>1, <1>2, <1>5, Parts DEF DrvSame, HostSame
<1> QED
  BY <1>1, <1>4, <1>6, <1>7, <1>8, Whole

\* A byte is taken from the ring into the line, or ends it.
LEMMA ReadlineStep ==
  ASSUME IInv, kstep_io_readline
  PROVE  IInv'
<1> DEFINE c == rx_ring[rx_tail % RingSize]
<1>0. /\ rx_ring \in [0 .. RingSize - 1 -> Nat] /\ rx_head \in 0 .. UintMod - 1 /\ rx_tail \in 0 .. UintMod - 1
      /\ filled \in Seq(Nat) /\ wire \in Seq(Nat)
  BY Parts DEF RxType
<1>1. /\ drv = "read" /\ rx_head # rx_tail /\ rx_tail' = Uint(rx_tail + 1)
      /\ drv' = IF c = Newline THEN "execute" ELSE "read"
      /\ line' = IF c # Newline /\ Len(line) + 1 < LineMax THEN Append(line, c) ELSE line
      /\ UNCHANGED <<posted, filled, rx_irq, rx_ring, rx_head, wire, more, region>>
      /\ TxSame /\ HostSame
  BY DEF kstep_io_readline, TxSame, HostSame, txVars, hostVars
<1>2. /\ rx_tail' \in 0 .. UintMod - 1
      /\ HeldIn(rx_head, rx_tail') = HeldIn(rx_head, rx_tail) - 1
      /\ Len(Bytes) \in Nat /\ Len(Bytes) > 0 /\ Len(Bytes') = Len(Bytes) - 1
      /\ Bytes[1] = c
      /\ \A i \in 1 .. Len(Bytes') : Bytes'[i] = Bytes[i + 1]
  <2> DEFINE tail2 == Uint(rx_tail + 1)
             b2 == BytesOf(rx_ring, rx_head, tail2, filled, wire)
  <2>1. /\ tail2 \in 0 .. UintMod - 1
        /\ HeldIn(rx_head, tail2) = HeldIn(rx_head, rx_tail) - 1
        /\ Len(Bytes) \in Nat /\ Len(Bytes) > 0 /\ Len(b2) = Len(Bytes) - 1
        /\ Bytes[1] = c
        /\ \A i \in 1 .. Len(b2) : b2[i] = Bytes[i + 1]
    <3> DEFINE b == BytesOf(rx_ring, rx_head, rx_tail, filled, wire)
    <3>1. rx_head # rx_tail
      BY <1>1
    <3>2. /\ tail2 \in 0 .. UintMod - 1
          /\ HeldIn(rx_head, tail2) = HeldIn(rx_head, rx_tail) - 1
          /\ Len(b) \in Nat /\ Len(b) > 0 /\ Len(b2) = Len(b) - 1
          /\ \A i \in 1 .. Len(b2) : b2[i] = b[i + 1]
      <4>1. tail2 \in 0 .. UintMod - 1
        BY <1>0, <3>1, BytesTaken
      <4>2. HeldIn(rx_head, tail2) = HeldIn(rx_head, rx_tail) - 1
        BY <1>0, <3>1, BytesTaken
      <4>3. Len(b) \in Nat /\ Len(b) > 0 /\ Len(b2) = Len(b) - 1
        <5>1. Len(b) \in Nat
          BY <1>0, <3>1, BytesTaken
        <5>2. Len(b) > 0
          BY <1>0, <3>1, BytesTaken
        <5>3. Len(b2) = Len(b) - 1
          BY <1>0, <3>1, BytesTaken
        <5> QED
          BY <5>1, <5>2, <5>3
      <4>4. \A i \in 1 .. Len(b2) : b2[i] = b[i + 1]
        BY <1>0, <3>1, BytesTaken
      <4> QED
        BY <4>1, <4>2, <4>3, <4>4
    <3>4. b[1] = rx_ring[rx_tail % RingSize]
      BY <1>0, <3>1, FirstByte, Zenon
    <3>3. Bytes = b
      BY DEF Bytes
    <3> HIDE DEF b, tail2, b2
    <3> QED
      BY <3>2, <3>3, <3>4, Zenon
  <2>2. rx_tail' = tail2
    BY <1>1
  <2>3. Bytes' = b2
    BY <1>1 DEF Bytes
  <2> HIDE DEF tail2, b2
  <2> QED
    BY <2>1, <2>2, <2>3, Zenon
<1>3. RxType'
  BY <1>1, <1>2, Parts DEF RxType
<1>4. HeldIn(rx_head', rx_tail') <= RingSize
  <2>1. HeldIn(rx_head, rx_tail) \in Nat /\ RingSize \in Nat
    BY <1>0, HeldIs, Sizes
  <2> QED
    BY <1>1, <1>2, <2>1, Parts
<1>5. Bytes' \in Seq(Nat)
  <2>1. rx_tail' \in 0 .. UintMod - 1
    BY <1>2
  <2>2. BytesOf(rx_ring, rx_head, rx_tail', filled, wire) \in Seq(Nat)
    BY <1>0, <2>1, BytesIs
  <2> QED
    BY <1>1, <2>2 DEF Bytes
<1> HIDE DEF c
<1>6. /\ line' \in Seq(Nat) /\ Len(line') < LineMax
      /\ AtLine(drv', Bytes', line', region, ncmd)
  <2>1. AtLine("read", Bytes, line, region, ncmd)
    BY <1>1, Parts
  <2> DEFINE l2 == IF Bytes[1] # Newline /\ Len(line) + 1 < LineMax THEN Append(line, Bytes[1]) ELSE line
             d2 == IF Bytes[1] = Newline THEN "execute" ELSE "read"
  <2>2. l2 \in Seq(Nat) /\ Len(l2) < LineMax /\ AtLine(d2, Bytes', l2, region, ncmd)
    BY <1>2, <1>5, <2>1, Parts, LineTaken
  <2>3. line' = l2 /\ drv' = d2
    BY <1>1, <1>2
  <2> HIDE DEF l2, d2
  <2> QED
    BY <2>2, <2>3
<1>7. DrvType'
  BY <1>1, <1>6, Parts DEF DrvType
<1>8. HostType' /\ TxType' /\ PoolInv' /\ WayInv' /\ Way' = Way
  BY <1>1, Parts, HostFrame, TxFrame
<1>9. AtHost(host, nreply, copy, drv', Bytes', more, Way, ncmd, quit)
  <2>1. Bytes # <<>>
    BY <1>2
  <2>2. drv # "over" /\ drv' # "over"
    BY <1>1
  <2>3. host \in {"await", "answered", "idle", "exiting", "closed"}
    BY Parts DEF HostType
  <2> QED
    BY <2>1, <2>2, <2>3, Parts, HostWaits
<1>10. /\ AtLine(drv', Bytes', line', region', ncmd')
       /\ AtHost(host', nreply', copy', drv', Bytes', more', Way', ncmd', quit')
  BY <1>1, <1>6, <1>8, <1>9 DEF HostSame
<1> QED
  BY <1>3, <1>4, <1>7, <1>8, <1>10, Whole

\* The steps that write.
LEMMA TraceStep ==
  ASSUME IInv, TraceRecord
  PROVE  IInv'
<1> DEFINE r == [reply |-> FALSE, cmd |-> 0, no |-> 0]
<1>1. /\ kstep_io_write(r) /\ UNCHANGED <<tx_irq, socket, nread>> /\ nevent' = nevent + 1
      /\ RxSame /\ DrvSame /\ HostSame
  BY DEF TraceRecord, rxVars, drvVars, hostVars, RxSame, DrvSame, HostSame
<1>2. r \in Records /\ ~r.reply
  BY DEF Records
<1> HIDE DEF r
<1>3. nevent' \in Nat /\ nrec + 1 \in Nat
  BY <1>1, Parts DEF TxType
<1> DEFINE r2 == [r EXCEPT !.no = nrec + 1]
<1>4. r2 \in Records /\ r2.reply = r.reply
  BY <1>2, <1>3, Renumbered
<1> HIDE DEF r2
<1>5. TxType' /\ PoolInv' /\ WayInv' /\ (Way' = Way \/ Way' = Append(Way, r2))
  BY <1>1, <1>2, <1>3, Parts, Written DEF r2
<1>6. RxType' /\ Bytes' = Bytes /\ HeldIn(rx_head', rx_tail') <= RingSize /\ DrvType' /\ HostType'
  BY <1>1, Parts, RxFrame, DrvFrame, HostFrame
<1>7. AtHost(host, nreply, copy, drv, Bytes, more, Append(Way, r2), ncmd, quit)
  BY <1>2, <1>4, Parts, HostTraced
<1>8. /\ AtLine(drv', Bytes', line', region', ncmd')
      /\ AtHost(host', nreply', copy', drv', Bytes', more', Way', ncmd', quit')
  BY <1>1, <1>5, <1>6, <1>7, Parts DEF DrvSame, HostSame
<1> QED
  BY <1>5, <1>6, <1>8, Whole

\* The ready line and the replies: no other reply is on its way.
LEMMA AnswerStep ==
  ASSUME IInv, Ready \/ Reply
  PROVE  IInv'
<1> DEFINE k == IF drv = "ready" THEN 0 ELSE Head(line)
           r == [reply |-> TRUE, cmd |-> k, no |-> 0]
<1>1. /\ drv \in {"ready", "reply"} /\ UNCHANGED <<tx_irq, socket, nread, nevent, more, region>>
      /\ kstep_io_write(r)
      /\ RxSame /\ HostSame
      /\ drv' = IF drv = "ready" \/ more THEN "read" ELSE "over"
      /\ line' = IF drv = "ready" THEN line ELSE <<>>
  BY DEF Ready, Reply, rxVars, hostVars, RxSame, HostSame
<1>2. k = ncmd /\ Bytes = <<>> /\ region = <<ncmd, ncmd>> /\ line' = <<>>
  <2>1. CASE drv = "ready"
    BY <1>1, <2>1, Parts DEF AtLine
  <2>2. CASE drv = "reply"
    <3>1. Bytes = <<>> /\ Head(line) = ncmd
      BY <2>2, Parts, WorkingLine
    <3>2. region = <<ncmd, ncmd>>
      BY <2>2, Parts DEF AtLine
    <3> QED
      BY <1>1, <2>2, <3>1, <3>2
  <2> QED
    BY <1>1, <2>1, <2>2
<1>3. r \in Records /\ r.cmd = ncmd
  BY <1>2, Parts DEF Records
<1> HIDE DEF r, k
<1>4. nevent' \in Nat /\ nrec + 1 \in Nat
  BY <1>1, Parts DEF TxType
<1> DEFINE r2 == [r EXCEPT !.no = nrec + 1]
<1>5. r2 \in Records /\ r2.cmd = ncmd
  BY <1>3, <1>4, Renumbered
<1> HIDE DEF r2
<1>6. TxType' /\ PoolInv' /\ WayInv' /\ (Way' = Way \/ Way' = Append(Way, r2))
  BY <1>1, <1>3, <1>4, Parts, Written DEF r2
<1>7. RxType' /\ Bytes' = Bytes /\ HeldIn(rx_head', rx_tail') <= RingSize /\ HostType'
  BY <1>1, Parts, RxFrame, HostFrame
<1>8. DrvType'
  <2>1. <<>> \in Seq(Nat) /\ Len(<<>>) < LineMax
    BY Sizes
  <2> QED
    BY <1>1, <1>2, <2>1, Parts DEF DrvType
<1>9. /\ AtHost(host, nreply, copy, drv', Bytes, more, Append(Way, r2), ncmd, quit)
      /\ AtHost(host, nreply, copy, drv', Bytes, more, Way, ncmd, quit)
  <2>1. /\ drv' \in {"read", "over"} /\ (drv' = "over" => ~more)
        /\ host \in {"await", "answered", "idle", "exiting", "closed"}
    BY <1>1, Parts DEF HostType
  <2> QED
    BY <1>1, <1>2, <1>5, <2>1, Parts, HostReplied
<1>10. AtHost(host', nreply', copy', drv', Bytes', more', Way', ncmd', quit')
  BY <1>1, <1>6, <1>7, <1>9 DEF HostSame
<1>11. AtLine(drv', Bytes', line', region', ncmd')
  <2>1. drv' \in {"ready", "read", "over"} /\ drv' # "ready"
    BY <1>1
  <2>2. Bytes' = <<>> /\ line' = <<>> /\ region' = <<ncmd', ncmd'>>
    BY <1>1, <1>2, <1>7 DEF HostSame
  <2> QED
    BY <2>1, <2>2 DEF AtLine
<1> QED
  BY <1>6, <1>7, <1>8, <1>10, <1>11, Whole

\* execute(): the flag falls only for the exit the host has sent.
LEMMA ExecuteStep ==
  ASSUME IInv, execute
  PROVE  IInv'
<1>1. /\ drv = "execute" /\ more' = (Head(line) # quit) /\ drv' = "update"
      /\ UNCHANGED <<line, region>> /\ TxSame /\ RxSame /\ HostSame
  BY DEF execute, TxSame, RxSame, HostSame, txVars, rxVars, hostVars
<1>2. ncmd > 0 /\ Bytes = <<>> /\ Head(line) = ncmd
  BY <1>1, Parts, WorkingLine
<1>3. TxType' /\ PoolInv' /\ WayInv' /\ Way' = Way
  BY <1>1, Parts, TxFrame
<1>4. RxType' /\ Bytes' = Bytes /\ HeldIn(rx_head', rx_tail') <= RingSize /\ HostType'
  BY <1>1, Parts, RxFrame, HostFrame
<1>5. DrvType'
  BY <1>1, Parts DEF DrvType
<1>6. AtLine(drv', Bytes', line', region', ncmd')
  <2>1. AtLine("execute", Bytes, line, region, ncmd)
    BY <1>1, Parts
  <2>2. AtLine("update", Bytes, line, region, ncmd)
    BY <2>1 DEF AtLine
  <2> QED
    BY <1>1, <1>4, <2>2 DEF HostSame
<1>7. AtHost(host, nreply, copy, drv', Bytes, more', Way, ncmd, quit)
  <2>1. host \in {"await", "answered", "idle", "exiting", "closed"}
    BY Parts DEF HostType
  <2>2. ~more' => host \in {"exiting", "closed"}
    <3>1. quit = 0 \/ (quit = ncmd /\ host \in {"exiting", "closed"})
      BY Parts DEF AtHost
    <3>2. ~more' => ncmd = quit
      BY <1>1, <1>2
    <3>3. ncmd # 0
      BY <1>2, Parts
    <3> QED
      BY <3>1, <3>2, <3>3
  <2> QED
    BY <1>1, <2>1, <2>2, Parts, HostWaits
<1>8. AtHost(host', nreply', copy', drv', Bytes', more', Way', ncmd', quit')
  BY <1>1, <1>3, <1>4, <1>7 DEF HostSame
<1> QED
  BY <1>3, <1>4, <1>5, <1>6, <1>8, Whole

\* kstep_shm_update(): the second half catches up with the first.
LEMMA UpdateStep ==
  ASSUME IInv, kstep_shm_update
  PROVE  /\ IInv'
         /\ \/ region'[2] = region[2]
            \/ region[2] < ncmd /\ region'[2] = region[2] + 1
<1>1. /\ drv \in {"update", "update2"} /\ UNCHANGED <<line, more>> /\ TxSame /\ RxSame /\ HostSame
      /\ drv = "update" => region' = [region EXCEPT ![1] = region[1] + 1] /\ drv' = "update2"
      /\ drv = "update2" => region' = [region EXCEPT ![2] = region[2] + 1] /\ drv' = "reply"
  BY DEF kstep_shm_update, TxSame, RxSame, HostSame, txVars, rxVars, hostVars
<1>2. ncmd > 0 /\ ncmd \in Nat /\ Bytes = <<>> /\ \E n \in Lens : line = Copies(ncmd, Cut(n))
  BY <1>1, Parts, WorkingLine
<1>3. TxType' /\ PoolInv' /\ WayInv' /\ Way' = Way
  BY <1>1, Parts, TxFrame
<1>4. RxType' /\ Bytes' = Bytes /\ HeldIn(rx_head', rx_tail') <= RingSize /\ HostType'
  BY <1>1, Parts, RxFrame, HostFrame
<1>5. /\ drv = "update" => region = <<ncmd - 1, ncmd - 1>> /\ region' = <<ncmd, ncmd - 1>>
      /\ drv = "update2" => region = <<ncmd, ncmd - 1>> /\ region' = <<ncmd, ncmd>>
  <2>1. CASE drv = "update"
    <3>1. region = <<ncmd - 1, ncmd - 1>>
      BY <2>1, Parts DEF AtLine
    <3>2. region' = <<ncmd, ncmd - 1>>
      BY <1>1, <1>2, <2>1, <3>1
    <3> QED
      BY <2>1, <3>1, <3>2
  <2>2. CASE drv = "update2"
    <3>1. region = <<ncmd, ncmd - 1>>
      BY <2>2, Parts DEF AtLine
    <3>2. region' = <<ncmd, ncmd>>
      BY <1>1, <1>2, <2>2, <3>1
    <3> QED
      BY <2>2, <3>1, <3>2
  <2> QED
    BY <1>1, <2>1, <2>2
<1>6. region' \in Seq(Nat) /\ Len(region') = 2
  <2>1. PICK a \in Nat : a = ncmd - 1
    BY <1>2
  <2>2. /\ <<ncmd, a>> \in Seq(Nat) /\ Len(<<ncmd, a>>) = 2
        /\ <<ncmd, ncmd>> \in Seq(Nat) /\ Len(<<ncmd, ncmd>>) = 2
    BY <1>2
  <2>3. region' = <<ncmd, a>> \/ region' = <<ncmd, ncmd>>
    BY <1>1, <1>5, <2>1
  <2> QED
    BY <2>2, <2>3
<1>7. DrvType'
  BY <1>1, <1>6, Parts DEF DrvType
<1>8. AtLine(drv', Bytes', line', region', ncmd')
  <2>1. /\ ncmd' > 0 /\ Bytes' = <<>> /\ \E n \in Lens : line' = Copies(ncmd', Cut(n))
    BY <1>1, <1>2, <1>4 DEF HostSame
  <2>2. \/ drv' = "update2" /\ region' = <<ncmd', ncmd' - 1>>
        \/ drv' = "reply" /\ region' = <<ncmd', ncmd'>>
    BY <1>1, <1>5 DEF HostSame
  <2> QED
    BY <2>1, <2>2 DEF AtLine
<1>9. AtHost(host, nreply, copy, drv', Bytes, more, Way, ncmd, quit)
  <2>1. host \in {"await", "answered", "idle", "exiting", "closed"}
    BY Parts DEF HostType
  <2>2. drv \notin {"read", "over"} /\ drv' # "over"
    BY <1>1
  <2> QED
    BY <2>1, <2>2, Parts, HostWaits
<1>10. AtHost(host', nreply', copy', drv', Bytes', more', Way', ncmd', quit')
  BY <1>1, <1>3, <1>4, <1>9 DEF HostSame
<1>11. \/ region'[2] = region[2]
       \/ region[2] < ncmd /\ region'[2] = region[2] + 1
  BY <1>1, <1>2, <1>5
<1> QED
  BY <1>3, <1>4, <1>7, <1>8, <1>10, <1>11, Whole

\* cmd() and exit(): a line is sent to a driver that waits for it.
LEMMA SendStep ==
  ASSUME IInv, cmd \/ exit
  PROVE  IInv' /\ nreply = ncmd /\ ncmd' = ncmd + 1
<1>1. /\ host = "idle" /\ ncmd' = ncmd + 1 /\ UNCHANGED <<copy, seen, nreply>>
      /\ \E n \in Lens : wire' = wire \o LineOf(ncmd + 1, n)
      /\ TxSame /\ DrvSame /\ UNCHANGED <<posted, filled, rx_irq, rx_ring, rx_head, rx_tail>>
      /\ \/ host' = "await" /\ quit' = quit
         \/ host' = "exiting" /\ quit' = ncmd + 1
  BY DEF cmd, exit, Lens, TxSame, DrvSame, txVars, rxVars, drvVars
<1>2. PICK n \in Lens : wire' = wire \o LineOf(ncmd + 1, n)
  BY <1>1
<1>3. PICK k \in Nat \ {0} : k = ncmd + 1
  BY Parts
<1>4. /\ drv = "read" /\ Bytes = <<>> /\ nreply = ncmd
      /\ \A i \in 1 .. Len(Way) : ~Way[i].reply
      /\ quit = 0 /\ more /\ copy = <<>>
  BY <1>1, Parts DEF AtHost, DrvType
<1>5. line = <<>> /\ region = <<ncmd, ncmd>>
  <2>1. ~(Len(Bytes) > 0)
    BY <1>4
  <2> QED
    BY <1>4, <2>1, Parts DEF AtLine
<1>6. /\ LineOf(k, n) \in Seq(Nat) /\ Len(LineOf(k, n)) > 0
      /\ AtLine("read", LineOf(k, n), <<>>, <<k - 1, k - 1>>, k)
  BY LineSent
<1>7. wire' \in Seq(Nat) /\ Bytes' = LineOf(k, n)
  <2>0. /\ rx_ring \in [0 .. RingSize - 1 -> Nat] /\ rx_head \in 0 .. UintMod - 1 /\ rx_tail \in 0 .. UintMod - 1
        /\ filled \in Seq(Nat) /\ wire \in Seq(Nat)
    BY Parts DEF RxType
  <2>1. wire' = wire \o LineOf(k, n)
    BY <1>2, <1>3
  <2>2. wire \o LineOf(k, n) \in Seq(Nat)
    BY <1>6, <2>0, ConcatProperties
  <2>3. BytesOf(rx_ring, rx_head, rx_tail, filled, wire) = <<>>
    BY <1>4 DEF Bytes
  <2>4. LineOf(k, n) \in Seq(Nat)
    BY <1>6
  <2>5. BytesOf(rx_ring, rx_head, rx_tail, filled, wire \o LineOf(k, n)) = LineOf(k, n)
    BY <2>0, <2>3, <2>4, BytesSent
  <2>6. Bytes' = BytesOf(rx_ring, rx_head, rx_tail, filled, wire \o LineOf(k, n))
    BY <1>1, <2>1 DEF Bytes
  <2> QED
    BY <2>1, <2>2, <2>5, <2>6
<1>8. RxType' /\ HeldIn(rx_head', rx_tail') <= RingSize
  BY <1>1, <1>7, Parts DEF RxType
<1>9. TxType' /\ PoolInv' /\ WayInv' /\ Way' = Way /\ DrvType'
  BY <1>1, Parts, TxFrame, DrvFrame
<1>10. HostType'
  BY <1>1, <1>3, Parts DEF HostType
<1>11. AtLine(drv', Bytes', line', region', ncmd')
  <2>1. drv' = "read" /\ line' = <<>> /\ region' = <<ncmd, ncmd>> /\ ncmd' = k
    BY <1>1, <1>3, <1>4, <1>5 DEF DrvSame
  <2>2. k - 1 = ncmd
    BY <1>3, Parts
  <2> QED
    BY <1>6, <1>7, <2>1, <2>2
<1>12. AtHost(host', nreply', copy', drv', Bytes', more', Way', ncmd', quit')
  <2>1. /\ host' \in {"await", "exiting"} /\ nreply' = ncmd /\ ncmd' # 0 /\ nreply' = ncmd' - 1
    BY <1>1, <1>4, Parts
  <2>2. /\ \A i \in 1 .. Len(Way') : ~Way'[i].reply
        /\ drv' = "read" /\ more' /\ copy' = <<>>
    BY <1>1, <1>4, <1>9 DEF DrvSame
  <2>3. quit' = 0 \/ (quit' = ncmd' /\ host' = "exiting")
    BY <1>1, <1>4
  <2> QED
    BY <2>1, <2>2, <2>3 DEF AtHost
<1> QED
  BY <1>1, <1>4, <1>8, <1>9, <1>10, <1>11, <1>12, Whole

\* read_reply(): a reply counts one more command, which the region has shown.
LEMMA ReadStep ==
  ASSUME IInv, read_reply
  PROVE  /\ IInv' /\ UNCHANGED <<ncmd, seen, region>>
         /\ \/ nreply' = nreply
            \/ nreply < region[2] /\ nreply' = nreply + 1
<1>1. /\ host = "await" /\ socket # <<>> /\ socket' = Tail(socket) /\ nread' = nread + 1
      /\ Head(socket).reply => host' = "answered" /\ nreply' = IF ncmd = 0 THEN 0 ELSE nreply + 1
      /\ ~Head(socket).reply => UNCHANGED <<host, nreply>>
      /\ UNCHANGED <<tx_free, content, avail, used, tx_irq, nrec, nevent, panic>>
      /\ RxSame /\ DrvSame /\ UNCHANGED <<copy, seen, ncmd, quit>>
  BY DEF read_reply, RxSame, DrvSame, txVars, rxVars, drvVars
<1>2. /\ socket \in Seq(Records) /\ content \in [TxBuf -> Records] /\ avail \in Seq(TxBuf)
      /\ nread \in Nat /\ nrec \in Nat
  BY Parts DEF TxType
<1>3. /\ socket' \in Seq(Records) /\ Len(Way) > 0 /\ Way[1] = Head(socket)
      /\ Len(Way') = Len(Way) - 1
      /\ \A i \in 1 .. Len(Way') : Way'[i] = Way[i + 1]
  <2> DEFINE w == WayOf(socket, content, avail)
             v == WayOf(Tail(socket), content, avail)
  <2>1. Tail(socket) \in Seq(Records) /\ Len(w) > 0 /\ w[1] = Head(socket) /\ Len(v) = Len(w) - 1
        /\ \A i \in 1 .. Len(v) : v[i] = w[i + 1]
    BY <1>1, <1>2, WayRead
  <2>2. Way = w /\ Way' = v /\ socket' = Tail(socket)
    BY <1>1 DEF Way
  <2> HIDE DEF w, v
  <2> QED
    BY <2>1, <2>2, Zenon
<1>4. Len(Way) \in Nat
  BY Parts, LenProperties
<1>5. TxType'
  <2>1. nread' \in Nat
    BY <1>1, <1>2
  <2> QED
    BY <1>1, <1>3, <2>1, Parts DEF TxType
<1>6. PoolInv'
  BY <1>1, Parts DEF PoolInv
<1>7. WayInv'
  <2>1. Len(Way) = nrec - nread /\ \A i \in 1 .. Len(Way) : Way[i].no = nread + i
    BY Parts DEF WayInv, Numbered
  <2>2. ASSUME NEW i \in 1 .. Len(Way') PROVE Way'[i].no = (nread + 1) + i
    <3>1. i + 1 \in 1 .. Len(Way) /\ i \in Nat
      BY <1>3, <1>4
    <3>2. Way'[i] = Way[i + 1] /\ Way[i + 1].no = nread + (i + 1)
      BY <1>3, <2>1, <3>1
    <3> QED
      BY <1>2, <3>1, <3>2
  <2>3. Len(Way') = nrec - (nread + 1)
    BY <1>2, <1>3, <1>4, <2>1
  <2> QED
    BY <1>1, <2>2, <2>3 DEF WayInv, Numbered
<1>8. RxType' /\ Bytes' = Bytes /\ HeldIn(rx_head', rx_tail') <= RingSize /\ DrvType'
  BY <1>1, Parts, RxFrame, DrvFrame
<1>9. AtLine(drv', Bytes', line', region', ncmd')
  BY <1>1, <1>8, Parts DEF DrvSame
<1>10. host = "await" /\ AtHost("await", nreply, copy, drv, Bytes, more, Way, ncmd, quit) /\ ncmd \in Nat
  BY <1>1, Parts
<1>14. AtHost("await", nreply, copy, drv, Bytes, more, Way', ncmd, quit)
  BY <1>3, <1>4, <1>10, HostCollects
<1>15. (ncmd = 0 => nreply = 0) /\ (ncmd # 0 => nreply = ncmd - 1)
  BY <1>10 DEF AtHost
<1>16. ASSUME Way[1].reply
       PROVE AtHost("answered", ncmd, copy, drv, Bytes, more, Way', ncmd, quit) /\ drv = "read" /\ Bytes = <<>>
  <2>1. PICK w, v : w = Way /\ v = Way'
    OBVIOUS
  <2>2. /\ Len(w) \in Nat /\ Len(w) > 0 /\ Len(v) = Len(w) - 1 /\ \A i \in 1 .. Len(v) : v[i] = w[i + 1]
    BY <1>3, <1>4, <2>1
  <2>3. AtHost("await", nreply, copy, drv, Bytes, more, w, ncmd, quit) /\ w[1].reply
    BY <1>10, <1>16, <2>1
  <2>4. AtHost("answered", ncmd, copy, drv, Bytes, more, v, ncmd, quit)
    BY <2>2, <2>3, HostAnswered
  <2>5. drv = "read" /\ Bytes = <<>>
    BY <2>4 DEF AtHost
  <2> QED
    BY <2>1, <2>4, <2>5
<1>11. AtHost(host', nreply', copy', drv', Bytes', more', Way', ncmd', quit')
  <2>1. CASE Head(socket).reply
    <3>1. nreply' = ncmd
      BY <1>1, <1>3, <1>10, <1>15, <2>1
    <3> QED
      BY <1>1, <1>3, <1>8, <1>16, <2>1, <3>1 DEF DrvSame
  <2>2. CASE ~Head(socket).reply
    BY <1>1, <1>3, <1>8, <1>10, <1>14, <2>2 DEF DrvSame
  <2> QED
    BY <2>1, <2>2
<1>12. HostType'
  BY <1>1, Parts DEF HostType
<1>13. \/ nreply' = nreply
       \/ nreply < region[2] /\ nreply' = nreply + 1
  <2>1. CASE Head(socket).reply
    <3>1. drv = "read" /\ Bytes = <<>> /\ (ncmd = 0 => nreply = 0) /\ (ncmd # 0 => nreply = ncmd - 1)
      BY <1>3, <1>15, <1>16, <2>1
    <3>2. region = <<ncmd, ncmd>>
      <4>1. ~(Len(Bytes) > 0)
        BY <3>1
      <4> QED
        BY <3>1, <4>1, Parts DEF AtLine
    <3> QED
      BY <1>1, <2>1, <3>1, <3>2, Parts
  <2>2. CASE ~Head(socket).reply
    BY <1>1, <2>2
  <2> QED
    BY <2>1, <2>2
<1> QED
  BY <1>1, <1>5, <1>6, <1>7, <1>8, <1>9, <1>11, <1>12, <1>13, Whole DEF DrvSame

\* state(): the halves the host copies agree.
LEMMA StateStep ==
  ASSUME IInv, state
  PROVE  /\ IInv' /\ UNCHANGED <<ncmd, nreply, region>>
         /\ seen' = seen \/ (seen' = region[2] /\ nreply = ncmd)
<1>1. /\ host = "answered" /\ TxSame /\ RxSame /\ DrvSame /\ UNCHANGED <<ncmd, nreply, quit>>
      /\ copy = <<>> => copy' = <<region[1]>> /\ UNCHANGED <<host, seen>>
      /\ copy # <<>> => /\ seen' = IF copy[1] = region[2] THEN region[2] ELSE Torn
                        /\ copy' = <<>> /\ host' = "idle"
  BY DEF state, TxSame, RxSame, DrvSame, txVars, rxVars, drvVars
<1>2. /\ drv = "read" /\ Bytes = <<>> /\ nreply = ncmd /\ quit = 0 /\ more
      /\ \A i \in 1 .. Len(Way) : ~Way[i].reply
      /\ copy # <<>> => copy = <<ncmd>>
  BY <1>1, Parts DEF AtHost, DrvType
<1>3. region = <<ncmd, ncmd>>
  <2>1. ~(Len(Bytes) > 0)
    BY <1>2
  <2> QED
    BY <1>2, <2>1, Parts DEF AtLine
<1>4. TxType' /\ PoolInv' /\ WayInv' /\ Way' = Way
  BY <1>1, Parts, TxFrame
<1>5. RxType' /\ Bytes' = Bytes /\ HeldIn(rx_head', rx_tail') <= RingSize /\ DrvType'
  BY <1>1, Parts, RxFrame, DrvFrame
<1>6. AtLine(drv', Bytes', line', region', ncmd')
  BY <1>1, <1>5, Parts DEF DrvSame
<1>7. /\ copy' \in {<<>>, <<ncmd>>} /\ (copy' # <<>> => host' = "answered") /\ host' \in {"answered", "idle"}
      /\ seen' = seen \/ seen' = region[2]
  <2>1. CASE copy = <<>>
    BY <1>1, <1>3, <2>1
  <2>2. CASE copy # <<>>
    <3>1. copy[1] = region[2]
      BY <1>2, <1>3, <2>2
    <3> QED
      BY <1>1, <2>2, <3>1
  <2> QED
    BY <2>1, <2>2
<1>8. HostType'
  <2>0. ncmd \in Nat
    BY Parts
  <2>1. <<ncmd>> \in Seq(Nat) /\ Len(<<ncmd>>) = 1
    BY <2>0, OneSeq
  <2>2. copy' \in Seq(Nat) /\ Len(copy') <= 1
    <3>1. CASE copy' = <<>>
      BY <3>1
    <3>2. CASE copy' = <<ncmd>>
      BY <2>1, <3>2
    <3> QED
      BY <1>7, <3>1, <3>2
  <2>3. seen' \in Nat \union {Torn}
    BY <1>3, <1>7, Parts DEF HostType
  <2> QED
    BY <1>1, <1>7, <2>2, <2>3, Parts DEF HostType
<1>9. AtHost(host', nreply', copy', drv', Bytes', more', Way', ncmd', quit')
  BY <1>1, <1>2, <1>4, <1>5, <1>7 DEF AtHost, DrvSame
<1> QED
  BY <1>1, <1>2, <1>4, <1>5, <1>6, <1>7, <1>8, <1>9, Whole DEF DrvSame

\* The session ends.
LEMMA DropStep ==
  ASSUME IInv, drop
  PROVE  IInv'
<1>1. /\ host \in {"await", "exiting"} /\ host' = "closed"
      /\ TxSame /\ RxSame /\ DrvSame /\ UNCHANGED <<copy, seen, ncmd, nreply, quit>>
  BY DEF drop, TxSame, RxSame, DrvSame, txVars, rxVars, drvVars
<1>2. TxType' /\ PoolInv' /\ WayInv' /\ Way' = Way
  BY <1>1, Parts, TxFrame
<1>3. RxType' /\ Bytes' = Bytes /\ HeldIn(rx_head', rx_tail') <= RingSize /\ DrvType'
  BY <1>1, Parts, RxFrame, DrvFrame
<1>4. AtLine(drv', Bytes', line', region', ncmd')
  BY <1>1, <1>3, Parts DEF DrvSame
<1>5. HostType'
  BY <1>1, Parts DEF HostType
<1>6. AtHost("closed", nreply, copy, drv, Bytes, more, Way, ncmd, quit)
  BY <1>1, Parts DEF AtHost
<1>7. AtHost(host', nreply', copy', drv', Bytes', more', Way', ncmd', quit')
  BY <1>1, <1>2, <1>3, <1>6 DEF DrvSame
<1> QED
  BY <1>2, <1>3, <1>4, <1>5, <1>7, Whole

-----------------------------------------------------------------------------
(* The theorems. *)

\* SetToSeq() lists the buffers, each once.
LEMMA AllFree ==
  /\ SetToSeq(TxBuf) \in Seq(TxBuf) /\ Len(SetToSeq(TxBuf)) = Cardinality(TxBuf)
  /\ IsInjective(SetToSeq(TxBuf)) /\ Range(SetToSeq(TxBuf)) = TxBuf /\ Cardinality(TxBuf) \in Nat
<1> DEFINE f == SetToSeq(TxBuf)
<1>1. PICK n \in Nat : n = Cardinality(TxBuf)
  BY SizesAssumption, FS_CardinalityType
<1>2. \E g \in [1 .. n -> TxBuf] : IsInjective(g)
  <2>1. ExistsBijection(1 .. n, TxBuf)
    BY <1>1, SizesAssumption, FS_CardinalityType
  <2> QED
    BY <2>1 DEF ExistsBijection, Bijection, Injection
<1>3. f \in [1 .. n -> TxBuf] /\ IsInjective(f)
  BY <1>1, <1>2 DEF SetToSeq
<1> HIDE DEF f
<1>4. f \in Seq(TxBuf)
  BY <1>3, SeqDef
<1>5. Len(f) = n
  BY <1>3, <1>4, LenProperties
<1>6. IsFiniteSet(1 .. n) /\ Cardinality(1 .. n) = n
  <2>1. 1 \in Int /\ n \in Int
    OBVIOUS
  <2>2. IsFiniteSet(1 .. n) /\ Cardinality(1 .. n) = IF 1 > n THEN 0 ELSE n - 1 + 1
    BY <2>1, FS_Interval
  <2> QED
    BY <2>2
<1>7. f \in Surjection(1 .. n, TxBuf)
  <2>1. f \in Injection(1 .. n, TxBuf)
    BY <1>3 DEF Injection
  <2>2. Cardinality(1 .. n) = Cardinality(TxBuf)
    BY <1>1, <1>6
  <2> QED
    BY <2>1, <2>2, SizesAssumption, FS_Injection
<1>8. \A t \in TxBuf : \E i \in 1 .. n : f[i] = t
  BY <1>7 DEF Surjection
<1>9. Range(f) = TxBuf
  <2>1. Range(f) \subseteq TxBuf /\ \A x : x \in Range(f) <=> \E i \in 1 .. Len(f) : f[i] = x
    BY <1>4, RangeIn
  <2> QED
    BY <1>5, <1>8, <2>1
<1> QED
  BY <1>1, <1>3, <1>4, <1>5, <1>9 DEF f

\* The invariant holds at first,
LEMMA InitInv ==
  ASSUME Init
  PROVE  IInv
<1>0. /\ <<>> \in Seq(TxBuf) /\ <<>> \in Seq(Nat) /\ <<>> \in Seq(Records) /\ Len(<<>>) = 0
  OBVIOUS
<1>1. TxType
  <2>1. NoRecord \in Records
    BY DEF NoRecord, Records
  <2>2. content \in [TxBuf -> Records]
    BY <2>1 DEF Init
  <2> QED
    BY <1>0, <2>2, AllFree DEF Init, TxType
<1>2. RxType
  <2>1. posted \in 0 .. RxBufs /\ (posted = RxBufs <=> filled = <<>>) /\ rx_head \in 0 .. UintMod - 1 /\ rx_tail \in 0 .. UintMod - 1
    BY Sizes DEF Init
  <2>2. rx_ring \in [0 .. RingSize - 1 -> Nat]
    BY DEF Init, Newline
  <2> QED
    BY <1>0, <2>1, <2>2 DEF Init, RxType
<1>3. DrvType
  <2>1. <<0, 0>> \in Seq(Nat) /\ Len(<<0, 0>>) = 2
    OBVIOUS
  <2> QED
    BY <1>0, <2>1, Sizes DEF Init, DrvType
<1>4. HostType
  BY <1>0 DEF Init, HostType
<1>5. PoolInv
  <2>1. Len(tx_free) + Len(avail) + Len(used) = Cardinality(TxBuf)
    BY <1>0, AllFree DEF Init
  <2> QED
    BY <2>1, AllFree, EmptyRange DEF Init, PoolInv, Pool
<1>6. Way = <<>>
  <2>1. Way \in Seq(Records) /\ Len(Way) = Len(socket) + Len(avail)
    BY <1>1, WayIs DEF TxType, Way
  <2> QED
    BY <1>0, <2>1, EmptySeq DEF Init
<1>7. WayInv
  BY <1>0, <1>6 DEF Init, WayInv, Numbered
<1>8. Bytes = <<>> /\ HeldIn(rx_head, rx_tail) = 0
  <2>1. HeldIn(rx_head, rx_tail) = 0
    BY <1>2, HeldIs DEF Init, RxType
  <2>2. Bytes \in Seq(Nat) /\ Len(Bytes) = HeldIn(rx_head, rx_tail) + Len(filled) + Len(wire)
    BY <1>2, BytesIs DEF RxType, Bytes
  <2>3. Len(Bytes) = 0
    BY <1>0, <2>1, <2>2 DEF Init
  <2> QED
    BY <2>1, <2>2, <2>3, EmptySeq
<1>9. LineInv
  BY <1>8, Sizes DEF Init, LineInv, AtLine
<1>10. HostInv
  <2>1. host = "await" /\ nreply = 0 /\ copy = <<>> /\ drv = "ready" /\ more /\ ncmd = 0 /\ quit = 0
    BY DEF Init
  <2>2. \A i \in 1 .. Len(Way) : FALSE
    BY <1>0, <1>6
  <2> QED
    BY <2>1, <2>2 DEF HostInv, AtHost
<1> QED
  BY <1>1, <1>2, <1>3, <1>4, <1>5, <1>7, <1>9, <1>10 DEF IInv

\* when nothing happens,
LEMMA StutterStep ==
  ASSUME IInv, UNCHANGED vars
  PROVE  IInv'
<1>1. TxSame /\ RxSame /\ DrvSame /\ HostSame
  BY DEF vars, txVars, rxVars, drvVars, hostVars, TxSame, RxSame, DrvSame, HostSame
<1>2. TxType' /\ PoolInv' /\ WayInv' /\ Way' = Way
  BY <1>1, Parts, TxFrame
<1>3. RxType' /\ Bytes' = Bytes /\ HeldIn(rx_head', rx_tail') <= RingSize /\ DrvType' /\ HostType'
  BY <1>1, Parts, RxFrame, DrvFrame, HostFrame
<1>4. /\ AtLine(drv', Bytes', line', region', ncmd')
      /\ AtHost(host', nreply', copy', drv', Bytes', more', Way', ncmd', quit')
  BY <1>1, <1>2, <1>3, Parts DEF DrvSame, HostSame
<1> QED
  BY <1>2, <1>3, <1>4, Whole

\* and after every step.
LEMMA NextStep ==
  ASSUME IInv, [Next]_vars
  PROVE  IInv'
<1>1. CASE tx_done \/ Transmit
  BY <1>1, TxStep
<1>2. CASE rx_done \/ Receive
  BY <1>2, RxStep
<1>3. CASE kstep_io_readline
  BY <1>3, ReadlineStep
<1>4. CASE Ready \/ Reply
  BY <1>4, AnswerStep
<1>5. CASE execute
  BY <1>5, ExecuteStep
<1>6. CASE kstep_shm_update
  BY <1>6, UpdateStep
<1>7. CASE TraceRecord
  BY <1>7, TraceStep
<1>8. CASE cmd \/ exit
  BY <1>8, SendStep
<1>9. CASE read_reply
  BY <1>9, ReadStep
<1>10. CASE state
  BY <1>10, StateStep
<1>11. CASE drop
  BY <1>11, DropStep
<1>12. CASE UNCHANGED vars
  BY <1>12, StutterStep
<1> QED
  BY <1>1, <1>2, <1>3, <1>4, <1>5, <1>6, <1>7, <1>8, <1>9, <1>10, <1>11, <1>12 DEF Next, Guest, Device

\* The inductive invariant.  Types, and that every buffer is in one place, are not
\* enough: that a byte is never overwritten in rx_ring follows only from what is
\* outstanding, which the host bounds by waiting for its reply, which it gets only
\* because the driver has taken the whole line.
THEOREM Invariant == Spec => []IInv
<1>1. Init => IInv
  BY InitInv
<1>2. IInv /\ [Next]_vars => IInv'
  BY NextStep
<1> QED
  BY <1>1, <1>2, PTL DEF Spec

\* Every variable of the channel keeps to its type: in particular a line
\* kstep_io_readline() builds stays below LINE_MAX, whatever the host sends.
THEOREM TypeCorrect == Spec => []TypeOK
<1>1. IInv => TypeOK
  <2> SUFFICES ASSUME IInv PROVE TypeOK
    OBVIOUS
  <2>1. {ncmd, nreply, quit, nrec, nread, nevent} \subseteq Nat
    BY DEF IInv, TxType, HostType
  <2> QED
    BY <2>1 DEF IInv, TypeOK, TxType, RxType, DrvType, HostType
<1> QED
  BY <1>1, Invariant, PTL

\* However writes, transmissions and interrupts interleave, no transmit buffer of
\* io.c is lost or in two places.
THEOREM BuffersConserved == Spec => []PoolConserved
<1>1. IInv => PoolConserved
  <2> SUFFICES ASSUME IInv PROVE PoolConserved
    OBVIOUS
  <2>0. tx_free \in Seq(TxBuf) /\ avail \in Seq(TxBuf) /\ used \in Seq(TxBuf) /\ Pool(tx_free, avail, used)
    BY DEF IInv, TxType, PoolInv
  <2> DEFINE two == tx_free \o avail
  <2>1. two \in Seq(TxBuf)
    BY <2>0, ConcatProperties
  <2>2. Range(two) = Range(tx_free) \union Range(avail)
    BY <2>0, RangeConcat
  <2>3. IsInjective(two)
    BY <2>0, InjConcat DEF Pool
  <2> HIDE DEF two
  <2>4. Range(two) \intersect Range(used) = {} /\ Range(two) \union Range(used) = TxBuf
    BY <2>0, <2>2 DEF Pool
  <2>5. Range(two \o used) = TxBuf
    <3>1. used \in Seq(TxBuf)
      BY <2>0
    <3>2. Range(two \o used) = Range(two) \union Range(used)
      BY <2>1, <3>1, RangeConcat
    <3> QED
      BY <2>4, <3>2
  <2>6. IsInjective(two \o used)
    <3>1. IsInjective(used)
      BY <2>0 DEF Pool
    <3> QED
      BY <2>0, <2>1, <2>3, <2>4, <3>1, InjConcat
  <2> QED
    BY <2>5, <2>6 DEF two, PoolConserved
<1> QED
  BY <1>1, Invariant, PTL

\* What the host reads from the port is what was written, in order: no record is
\* lost, repeated, or overwritten in its buffer before the device has sent it.
THEOREM RecordsArriveInOrder == Spec => []RecordsInOrder
<1>1. IInv => RecordsInOrder
  <2> SUFFICES ASSUME IInv PROVE RecordsInOrder
    OBVIOUS
  <2>1. DOMAIN avail = 1 .. Len(avail) /\ DOMAIN Way = 1 .. Len(Way)
    BY Parts, LenProperties DEF TxType
  <2>2. Way = socket \o [i \in DOMAIN avail |-> content[avail[i]]]
    BY <2>1 DEF Way, WayOf, Out
  <2>3. Len(Way) = nrec - nread /\ \A i \in DOMAIN Way : Way[i].no = nread + i
    BY <2>1, Parts DEF WayInv, Numbered
  <2> QED
    BY <2>2, <2>3, Zenon DEF RecordsInOrder
<1> QED
  BY <1>1, Invariant, PTL

\* The line the driver executes is the line of the host's last command, cut at
\* LINE_MAX - 1, however its bytes were split over buffers and around rx_ring.
THEOREM LinesIntact == Spec => []LineIntact
<1>1. IInv => LineIntact
  <2> SUFFICES ASSUME IInv, drv = "execute"
               PROVE \E n \in LineLens \union {1} : line = [i \in 1 .. Min({n, LineMax - 1}) |-> ncmd]
    BY DEF LineIntact
  <2>1. \E n \in Lens : line = Copies(ncmd, Cut(n))
    BY Parts, WorkingLine
  <2> QED
    BY <2>1, Zenon DEF Lens, Copies, Cut
<1> QED
  BY <1>1, Invariant, PTL

\* The reply Session::cmd() reads is the reply to the command it sent.
THEOREM RepliesAreOwn == Spec => []OwnReply
<1>1. IInv => OwnReply
  <2> SUFFICES ASSUME IInv, host = "await", socket # <<>>, Head(socket).reply
               PROVE Head(socket).cmd = ncmd
    BY DEF OwnReply
  <2>1. Len(Way) > 0 /\ Way[1] = Head(socket)
    BY Parts, WayRead DEF TxType, Way
  <2>2. 1 \in 1 .. Len(Way)
    BY <2>1, Parts, LenProperties
  <2> QED
    BY <2>1, <2>2, Parts DEF AtHost
<1> QED
  BY <1>1, Invariant, PTL

\* Every buffer has an entry in the virtqueue, and a line fits the ring: TX_BUFS is
\* 256, and rx_ring 4096 bytes for lines the loop cuts at 128.
ChannelRoom == Cardinality(TxBuf) <= VqSize /\ \A n \in Lens : n + 1 <= RingSize

\* One line at most is outstanding, so what is under way fits the ring.
LEMMA LineFits ==
  ASSUME ChannelRoom, IInv
  PROVE  Len(Bytes) <= RingSize
<1>0. Len(Bytes) \in Nat /\ RingSize \in Nat
  BY Parts, LenProperties, Sizes
<1>1. CASE Bytes = <<>>
  BY <1>0, <1>1, Sizes
<1>2. CASE Bytes # <<>>
  <2>1. PICK n \in Lens : n + 1 >= Len(Bytes)
    BY <1>2, Parts DEF AtLine
  <2>2. n \in Nat /\ n + 1 <= RingSize
    BY LensIs DEF ChannelRoom
  <2> QED
    BY <1>0, <2>1, <2>2
<1> QED
  BY <1>1, <1>2

LEMMA PanicStep ==
  ASSUME ChannelRoom, IInv, PanicOnlyBehind, [Next]_vars
  PROVE  PanicOnlyBehind'
<1>0. Cardinality(TxBuf) \in Nat /\ VqSize \in Nat /\ ~(VqSize < Cardinality(TxBuf))
  BY AllFree, SizesAssumption DEF ChannelRoom
<1>1. CASE UNCHANGED <<panic, avail>>
  BY <1>1 DEF PanicOnlyBehind
<1>2. CASE panic' = "no"
  BY <1>2 DEF PanicOnlyBehind
<1>3. CASE tx_done \/ Receive \/ kstep_io_readline \/ execute \/ kstep_shm_update
           \/ cmd \/ exit \/ state \/ drop \/ read_reply \/ UNCHANGED vars
  <2>1. UNCHANGED <<panic, avail>>
    BY <1>3 DEF tx_done, Receive, kstep_io_readline, execute, kstep_shm_update,
                cmd, exit, state, drop, read_reply, vars, txVars
  <2> QED
    BY <1>1, <2>1
<1>4. CASE Transmit
  <2>1. panic' = panic /\ panic = "no"
    BY <1>4 DEF Transmit, Up
  <2> QED
    BY <1>2, <2>1
<1>5. CASE rx_done
  <2>1. panic' = panic /\ avail' = avail
    <3>1. avail' = avail
      BY <1>5 DEF rx_done, txVars
    <3>2. panic' = panic \/ Len(Bytes) > RingSize
      BY <1>5, Parts, Drained
    <3>3. Len(Bytes) \in Nat /\ RingSize \in Nat
      BY Parts, LenProperties, Sizes
    <3> QED
      BY <3>1, <3>2, <3>3, LineFits
  <2> QED
    BY <1>1, <2>1
<1>6. CASE TraceRecord \/ Ready \/ Reply
  <2>1. PICK r : kstep_io_write(r)
    BY <1>6 DEF TraceRecord, Ready, Reply
  <2>2. Failed \/ Wrote(r)
    BY <2>1, Parts, WriteStep DEF TxType
  <2>3. panic = "no"
    BY <1>6 DEF TraceRecord, Ready, Reply, Up
  <2>4. CASE Failed
    BY <1>0, <2>4 DEF Failed, PanicOnlyBehind
  <2>5. CASE Wrote(r)
    <3>1. panic' = panic
      BY <2>5 DEF Wrote
    <3> QED
      BY <1>2, <2>3, <3>1
  <2> QED
    BY <2>2, <2>4, <2>5
<1> QED
  BY <1>3, <1>4, <1>5, <1>6 DEF Next, Guest, Device

\* Where the virtqueue is as large as the pool (TX_BUFS) and a line fits rx_ring,
\* the only panic of io.c is that of a full channel: the write that meets it found
\* every transmit buffer with the device.  Neither virtqueue_add_outbuf() nor the
\* input ring ever fails.
THEOREM PanicsOnlyBehind ==
  ASSUME ChannelRoom
  PROVE  Spec => []PanicOnlyBehind
<1>1. Init => PanicOnlyBehind
  BY DEF Init, PanicOnlyBehind
<1>2. IInv /\ PanicOnlyBehind /\ [Next]_vars => PanicOnlyBehind'
  BY PanicStep
<1> QED
  BY <1>1, <1>2, Invariant, PTL DEF Spec

\* Refinement: the first state, and every step, of the promise.
LEMMA PromiseInit ==
  ASSUME Init
  PROVE  Promise!Init
BY DEF Init, Promise!Init

LEMMA PromiseStep ==
  ASSUME IInv, [Next]_vars
  PROVE  [Promise!Next]_Promise!vars
<1>1. CASE UNCHANGED <<ncmd, region, nreply, seen>>
  BY <1>1 DEF Promise!vars
<1>2. CASE tx_done \/ Transmit \/ rx_done \/ Receive \/ kstep_io_readline \/ execute
           \/ Ready \/ Reply \/ TraceRecord \/ drop \/ UNCHANGED vars
  <2>1. UNCHANGED <<ncmd, region, nreply, seen>>
    BY <1>2 DEF tx_done, Transmit, rx_done, Receive, kstep_io_readline, execute, Ready, Reply,
                TraceRecord, drop, vars, drvVars, hostVars
  <2> QED
    BY <1>1, <2>1
<1>3. CASE cmd \/ exit
  <2>1. nreply = ncmd /\ ncmd' = ncmd + 1
    BY <1>3, SendStep
  <2>2. UNCHANGED <<region, nreply, seen>>
    BY <1>3 DEF cmd, exit, drvVars
  <2> QED
    BY <2>1, <2>2 DEF Promise!Next, Promise!Send
<1>4. CASE kstep_shm_update
  <2>1. \/ region'[2] = region[2]
        \/ region[2] < ncmd /\ region'[2] = region[2] + 1
    BY <1>4, UpdateStep
  <2>2. UNCHANGED <<ncmd, nreply, seen>>
    BY <1>4 DEF kstep_shm_update, hostVars
  <2> QED
    BY <2>1, <2>2 DEF Promise!Next, Promise!Execute, Promise!vars
<1>5. CASE read_reply
  <2>1. /\ UNCHANGED <<ncmd, seen, region>>
        /\ \/ nreply' = nreply
           \/ nreply < region[2] /\ nreply' = nreply + 1
    BY <1>5, ReadStep
  <2> QED
    BY <2>1 DEF Promise!Next, Promise!Answer, Promise!vars
<1>6. CASE state
  <2>1. /\ UNCHANGED <<ncmd, nreply, region>>
        /\ seen' = seen \/ (seen' = region[2] /\ nreply = ncmd)
    BY <1>6, StateStep
  <2> QED
    BY <2>1 DEF Promise!Next, Promise!Observe, Promise!vars
<1> QED
  BY <1>2, <1>3, <1>4, <1>5, <1>6 DEF Next, Guest, Device

\* The channel, the loop, the region and the host together implement SessionSpec:
\* commands carried out one at a time, in order, each once, and every state read
\* after a reply is whole and is the one that command left.
THEOREM KeepsPromise == Spec => PromiseSpec
<1>1. Init => Promise!Init
  BY PromiseInit
<1>2. IInv /\ [Next]_vars => [Promise!Next]_Promise!vars
  BY PromiseStep
<1> QED
  BY <1>1, <1>2, Invariant, PTL DEF Spec, PromiseSpec, Promise!Spec
=============================================================================
