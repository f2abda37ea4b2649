-------------------------- MODULE CorrelatorProofs --------------------------
(***************************************************************************)
(* Proofs about Correlator, for any sources, signals, windows, clocks and   *)
(* bounds: the context of an event surrounds it without a gap, an event     *)
(* aggregates one window, and every signal is told once, as severely as it  *)
(* may be.                                                                 *)
(*                                                                         *)
(* ContextSurrounds is not inductive: it is about what a pending event took *)
(* from the ring when it opened, so the invariant IInv says what the ring of *)
(* each source holds, slot by slot (RingAt), and where in the observations  *)
(* of the source the event opened (Surrounded).                            *)
(*                                                                         *)
(* SignalsAreTold rests on a second one, Ledger: what the pending events    *)
(* and the echoes hold, and a balance between the signals given to Add and  *)
(* the instances told.  The instances of an event, and those of all events, *)
(* are sums over a map, so that the balance needs what a sum becomes when a *)
(* key is added, changed, split off or renamed (SumPick to SumImage), and   *)
(* what merging one signal adds (MergeOne, MergeCounts).                    *)
(***************************************************************************)
EXTENDS Correlator, Sums

\* The ring r of capacity c holds the last of the numbers 1 to n: the slots
\* before next those of the last lap, the slots from it on those of the lap before.
RingAt(r, c, n) ==
    LET size == Greatest(1, c) IN
    /\ r \in [buf : [0 .. size - 1 -> Nat], size : {size}, next : 0 .. size - 1,
              full : BOOLEAN]
    /\ r.full => n >= size
    /\ ~r.full => r.next = n
    /\ \A i \in 0 .. r.next - 1 : r.buf[i] = n - r.next + i + 1
    /\ r.full => \A i \in r.next .. size - 1 : r.buf[i] = n - r.next + i + 1 - size

\* The observations around the k-th of a source that has read n.
Before(k) == [i \in 1..Least(ContextBefore, k) |-> k - Least(ContextBefore, k) + i]
After(k, n) == [i \in 1..Least(ContextAfter, n - k) |-> k + i]

Types ==
    /\ obs \in [Sources -> [n : Nat, at : Time, change : BOOLEAN]]
    /\ stage \in [Sources -> {"idle", "detect", "flush"}]
    /\ \A s \in Sources : stage[s] # "idle" => obs[s].n >= 1
    /\ DOMAIN pending \subseteq Sources

Rings == /\ DOMAIN ring = Sources
         /\ \A s \in Sources : RingAt(ring[s], ContextBefore, obs[s].n)

\* A pending event opened at one of the observations of its source.
Surrounded(p, n) ==
    /\ {"before", "after"} \subseteq DOMAIN p
    /\ \E k \in 1..n : p.before = Before(k) /\ p.after = After(k, n)
Contexts == \A s \in DOMAIN pending : Surrounded(pending[s], obs[s].n)

\* The inductive invariant.
IInv == Types /\ Rings /\ Contexts

-----------------------------------------------------------------------------
(* The ring *)

\* Modulo wraps a number of at most two laps once.
LEMMA Wraps ==
    ASSUME NEW N \in Nat \ {0}, NEW k \in 0 .. 2 * N - 1
    PROVE  k % N = IF k < N THEN k ELSE k - N
  OBVIOUS

LEMMA NewRingHolds ==
    ASSUME NEW c \in Nat
    PROVE  RingAt(NewRing(c, 0), c, 0)
<1> DEFINE size == Greatest(1, c)
           r == NewRing(c, 0)
<1>1. size \in Nat \ {0}
  BY DEF Greatest
<1>2. r = [buf |-> [i \in 0 .. size - 1 |-> 0], size |-> size, next |-> 0, full |-> FALSE]
  BY DEF NewRing
<1> HIDE DEF size, r
<1>3. r \in [buf : [0 .. size - 1 -> Nat], size : {size}, next : 0 .. size - 1,
             full : BOOLEAN]
  BY <1>1, <1>2
<1>4. RingAt(r, c, 0)
  BY <1>1, <1>2, <1>3 DEF RingAt, size
<1> QED
  BY <1>4 DEF r

LEMMA RingAddHolds ==
    ASSUME NEW c \in Nat, NEW n \in Nat, NEW r, RingAt(r, c, n)
    PROVE  RingAt(RingAdd(r, n + 1), c, n + 1)
<1> DEFINE size == Greatest(1, c)
           q == RingAdd(r, n + 1)
           next == r.next
<1>1. /\ size \in Nat \ {0} /\ r.size = size /\ next \in 0 .. size - 1
      /\ r \in [buf : [0 .. size - 1 -> Nat], size : {size}, next : 0 .. size - 1,
                full : BOOLEAN]
      /\ r.full => n >= size
      /\ ~r.full => next = n
      /\ \A i \in 0 .. next - 1 : r.buf[i] = n - next + i + 1
      /\ r.full => \A i \in next .. size - 1 : r.buf[i] = n - next + i + 1 - size
  BY DEF Greatest, RingAt
<1>2. (next + 1) % size = IF next + 1 < size THEN next + 1 ELSE 0
  <2> HIDE DEF size, next
  <2> DEFINE k == next + 1
  <2>1. k \in 0 .. 2 * size - 1 /\ (k < size \/ k = size)
    BY <1>1
  <2> HIDE DEF k
  <2>2. k % size = IF k < size THEN k ELSE k - size
    BY <1>1, <2>1, Wraps
  <2> QED
    BY <1>1, <2>1, <2>2 DEF k
<1> DEFINE then == IF next + 1 < size THEN next + 1 ELSE 0
<1>3. q = [r EXCEPT !.buf[next] = n + 1, !.next = then, !.full = r.full \/ then = 0]
  BY <1>1, <1>2 DEF RingAdd
<1> HIDE DEF size, next, q
<1>4. then \in 0 .. size - 1 /\ (r.full \/ then = 0) \in BOOLEAN
  BY <1>1
<1> HIDE DEF then
<1>5. /\ q \in [buf : [0 .. size - 1 -> Nat], size : {size}, next : 0 .. size - 1,
                full : BOOLEAN]
      /\ q.next = then /\ (q.full <=> r.full \/ then = 0)
      /\ \A i \in 0 .. size - 1 : q.buf[i] = IF i = next THEN n + 1 ELSE r.buf[i]
  <2>1. /\ r.buf \in [0 .. size - 1 -> Nat] /\ r.full \in BOOLEAN /\ n + 1 \in Nat
        /\ r = [buf |-> r.buf, size |-> size, next |-> r.next, full |-> r.full]
    BY <1>1
  <2> DEFINE buf == [r.buf EXCEPT ![next] = n + 1]
             full == r.full \/ then = 0
  <2>2. /\ buf \in [0 .. size - 1 -> Nat]
        /\ \A i \in 0 .. size - 1 : buf[i] = IF i = next THEN n + 1 ELSE r.buf[i]
    BY <1>1, <2>1
  <2>3. q = [r EXCEPT !.buf = buf, !.next = then, !.full = full]
    BY <1>3
  <2> HIDE DEF buf, full
  <2> DEFINE old == r.buf
             at == r.next
             was == r.full
  <2>4. r = [buf |-> old, size |-> size, next |-> at, full |-> was]
    BY <2>1
  <2> HIDE DEF old, at, was
  <2>5. q = [[buf |-> old, size |-> size, next |-> at, full |-> was]
               EXCEPT !.buf = buf, !.next = then, !.full = full]
    BY <2>3, <2>4
  <2>6. q = [buf |-> buf, size |-> size, next |-> then, full |-> full]
    BY <2>5
  <2> QED
    BY <1>1, <1>4, <2>2, <2>6 DEF full
<1>6. q.full => n + 1 >= size
  BY <1>1, <1>5 DEF then
<1>7. ~q.full => then = n + 1
  BY <1>1, <1>5 DEF then
<1>8. ASSUME NEW i \in 0 .. then - 1
      PROVE  q.buf[i] = n + 1 - then + i + 1
  <2>1. then = next + 1 /\ i \in 0..next /\ q.buf[i] = IF i = next THEN n + 1 ELSE r.buf[i]
    BY <1>1, <1>5, SMTT(30) DEF then
  <2>2. i # next => r.buf[i] = n - next + i + 1
    BY <1>1, <2>1
  <2> QED
    BY <1>1, <2>1, <2>2
<1>9. ASSUME q.full, NEW i \in then .. size - 1
      PROVE  q.buf[i] = n + 1 - then + i + 1 - size
  <2>1. i \in 0 .. size - 1 /\ q.buf[i] = IF i = next THEN n + 1 ELSE r.buf[i]
    BY <1>1, <1>4, <1>5
  <2>2. CASE next + 1 < size
    <3>1. then = next + 1 /\ r.full /\ i \in next .. size - 1 /\ i # next
      BY <1>1, <1>5, <1>9, <2>2 DEF then
    <3>2. r.buf[i] = n - next + i + 1 - size
      BY <1>1, <3>1
    <3> QED
      BY <1>1, <2>1, <3>1, <3>2
  <2>3. CASE ~(next + 1 < size)
    <3>1. then = 0 /\ next = size - 1
      BY <1>1, <2>3 DEF then
    <3>2. CASE i = next
      BY <1>1, <2>1, <3>1, <3>2
    <3>3. CASE i # next
      <4>1. i \in 0 .. next - 1
        BY <1>1, <2>1, <3>1, <3>3
      <4>2. r.buf[i] = n - next + i + 1
        BY <1>1, <4>1
      <4> QED
        BY <1>1, <2>1, <3>1, <3>3, <4>2
    <3> QED
      BY <3>2, <3>3
  <2> QED
    BY <2>2, <2>3
<1>10. RingAt(q, c, n + 1)
  <2>1. q.full => \A i \in then .. size - 1 : q.buf[i] = n + 1 - then + i + 1 - size
    BY <1>9
  <2> QED
    BY <1>5, <1>6, <1>7, <1>8, <2>1, SMTT(30) DEF RingAt, size
<1> QED
  BY <1>10 DEF q

\* Last hands out one gapless run up to the latest.
LEMMA RingLastRun ==
    ASSUME NEW c \in Nat, NEW n \in Nat, NEW r, RingAt(r, c, n)
    PROVE  RingLast(r, c)
             = [i \in 1..Least(c, n) |-> n - Least(c, n) + i]
<1> DEFINE size == Greatest(1, c)
           next == r.next
           k == Least(c, RingSize(r))
           slot(i) == (next + size - k + i - 1) % size
<1>1. /\ size \in Nat \ {0} /\ r.size = size /\ next \in 0 .. size - 1
      /\ c <= size /\ (c # 0 => size = c)
      /\ r.full => n >= size
      /\ ~r.full => next = n
      /\ \A i \in 0 .. next - 1 : r.buf[i] = n - next + i + 1
      /\ r.full => \A i \in next .. size - 1 : r.buf[i] = n - next + i + 1 - size
  BY DEF Greatest, RingAt
<1>2. /\ k = Least(c, n) /\ k \in 0..size /\ k <= n
      /\ ~r.full => k <= next
  BY <1>1 DEF Least, RingSize
<1>3. RingLast(r, c) = [i \in 1..k |-> r.buf[slot(i)]]
  BY <1>1 DEF RingLast
<1> HIDE DEF k, size, next
<1>4. ASSUME NEW i \in 1..k
      PROVE  r.buf[slot(i)] = n - k + i
  <2> DEFINE j == next + size - k + i - 1
  <2>1. j \in 0 .. 2 * size - 1
    BY <1>1, <1>2
  <2>2. j % size = IF j < size THEN j ELSE j - size
    <3> HIDE DEF j
    <3> QED
      BY <1>1, <2>1, Wraps
  <2>3. CASE j < size
    <3>1. slot(i) = j /\ j \in next .. size - 1 /\ r.full
      BY <1>1, <1>2, <2>2, <2>3
    <3> HIDE DEF slot
    <3>2. r.buf[j] = n - next + j + 1 - size
      BY <1>1, <3>1
    <3> QED
      BY <1>1, <1>2, <3>1, <3>2
  <2>4. CASE ~(j < size)
    <3>1. slot(i) = j - size /\ j - size \in 0 .. next - 1
      BY <1>1, <1>2, <2>1, <2>2, <2>4
    <3> HIDE DEF slot
    <3>2. r.buf[j - size] = n - next + (j - size) + 1
      BY <1>1, <3>1
    <3> QED
      BY <1>1, <1>2, <3>1, <3>2
  <2> QED
    BY <2>3, <2>4
<1> HIDE DEF slot
<1>5. RingLast(r, c) = [i \in 1..k |-> n - k + i]
  BY <1>3, <1>4
<1> QED
  BY <1>2, <1>5
-----------------------------------------------------------------------------
(* The context *)

\* A run of numbers is a sequence.
LEMMA RunIsSeq ==
    ASSUME NEW x \in Nat, NEW m \in Nat
    PROVE  LET q == [i \in 1..m |-> x + i]
           IN q \in Seq(Nat) /\ Len(q) = m /\ \A i \in 1..m : q[i] = x + i
  OBVIOUS

LEMMA Joined ==
    ASSUME NEW p \in Seq(Nat), NEW q \in Seq(Nat)
    PROVE  /\ Len(p \o q) = Len(p) + Len(q)
           /\ \A i \in 1 .. Len(p) : (p \o q)[i] = p[i]
           /\ \A i \in 1 .. Len(q) : (p \o q)[Len(p) + i] = q[i]
  OBVIOUS

\* One more observation of the source extends the context, up to its bound.
LEMMA AfterGrows ==
    ASSUME ContextAfter \in Nat, NEW n \in Nat, NEW k \in 1..n
    PROVE  /\ Len(After(k, n)) < ContextAfter =>
                Append(After(k, n), n + 1) = After(k, n + 1)
           /\ ~(Len(After(k, n)) < ContextAfter) => After(k, n + 1) = After(k, n)
<1> DEFINE a == Least(ContextAfter, n - k)
           b == Least(ContextAfter, n + 1 - k)
<1>1. /\ a \in Nat /\ b \in Nat /\ k \in Nat /\ a <= ContextAfter
      /\ a < ContextAfter => b = a + 1 /\ k + b = n + 1
      /\ ~(a < ContextAfter) => b = a
  BY DEF Least
<1>2. After(k, n) = [i \in 1..a |-> k + i] /\ After(k, n + 1) = [i \in 1..b |-> k + i]
  BY DEF After
<1> HIDE DEF a, b
<1>3. Len(After(k, n)) = a
  BY <1>1, <1>2
<1>4. CASE a < ContextAfter
  <2>1. Append([i \in 1..a |-> k + i], n + 1)
          = [j \in 1 .. a + 1 |-> IF j = a + 1 THEN n + 1 ELSE k + j]
    BY <1>1
  <2>2. [j \in 1 .. a + 1 |-> IF j = a + 1 THEN n + 1 ELSE k + j] = [i \in 1..b |-> k + i]
    BY <1>1, <1>4
  <2> QED
    BY <1>2, <1>3, <1>4, <2>1, <2>2
<1> QED
  BY <1>1, <1>2, <1>3, <1>4

\* A context so taken is unbroken, and reaches from where it is bounded to where it
\* is bounded.
LEMMA ContextRuns ==
    ASSUME ContextBefore \in Nat, ContextAfter \in Nat, NEW n \in Nat, NEW k \in 1..n
    PROVE  LET before == Before(k)
               after == After(k, n)
               run == before \o after
           IN /\ \A i \in 1 .. Len(run) - 1 : run[i + 1] = run[i] + 1
              /\ before # <<>> => Len(before) = Least(ContextBefore, before[Len(before)])
              /\ run # <<>> /\ Len(after) < ContextAfter => run[Len(run)] = n
<1> DEFINE before == Before(k)
           after == After(k, n)
           run == before \o after
           a == Least(ContextAfter, n - k)
           b == Least(ContextBefore, k)
<1>1. /\ a \in Nat /\ b \in Nat /\ k \in Nat /\ a <= n - k /\ b <= k
      /\ b = Least(ContextBefore, k)
      /\ a < ContextAfter => a = n - k
  BY DEF Least
<1>2. before = [i \in 1..b |-> k - b + i] /\ after = [i \in 1..a |-> k + i]
  BY DEF Before, After
<1> HIDE DEF a, b, before, after
<1>3. /\ Len(before) = b /\ before \in Seq(Nat)
      /\ Len(after) = a /\ after \in Seq(Nat)
  <2> DEFINE x == k - b
  <2>1. x \in Nat
    BY <1>1
  <2> HIDE DEF x
  <2>2. before = [i \in 1..b |-> x + i]
    BY <1>2 DEF x
  <2>3. Len(before) = b /\ before \in Seq(Nat)
    BY <1>1, <2>1, <2>2, RunIsSeq
  <2>4. Len(after) = a /\ after \in Seq(Nat)
    BY <1>1, <1>2, RunIsSeq
  <2> QED
    BY <2>3, <2>4
<1>4. Len(run) = b + a /\ \A i \in 1 .. b + a : run[i] = k - b + i
  <2>1. /\ Len(run) = b + a
        /\ \A i \in 1..b : run[i] = before[i]
        /\ \A i \in 1..a : run[b + i] = after[i]
    BY <1>3, Joined
  <2> HIDE DEF run
  <2>2. ASSUME NEW i \in 1 .. b + a
        PROVE  run[i] = k - b + i
    <3>1. CASE i <= b
      <4>1. run[i] = before[i] /\ i \in 1..b
        BY <1>1, <2>1, <3>1
      <4> QED
        BY <1>2, <4>1
    <3>2. CASE ~(i <= b)
      <4> DEFINE j == i - b
      <4>1. j \in 1..a /\ i = b + j
        BY <1>1, <3>2
      <4> HIDE DEF j
      <4>2. run[b + j] = after[j] /\ after[j] = k + j
        BY <1>2, <2>1, <4>1
      <4> QED
        BY <1>1, <4>1, <4>2
    <3> QED
      BY <3>1, <3>2
  <2> QED
    BY <2>1, <2>2
<1>5. run # <<>> => b + a >= 1
  <2>1. b + a = 0 => before = <<>> /\ after = <<>>
    BY <1>1, <1>3
  <2>2. b + a = 0 => run = <<>>
    BY <2>1
  <2> QED
    BY <1>1, <2>2
<1> HIDE DEF run
<1>6. \A i \in 1 .. Len(run) - 1 : run[i + 1] = run[i] + 1
  <2> SUFFICES ASSUME NEW i \in 1 .. Len(run) - 1 PROVE run[i + 1] = run[i] + 1
    OBVIOUS
  <2>1. i \in 1 .. b + a /\ i + 1 \in 1 .. b + a
    BY <1>1, <1>4
  <2>2. run[i] = k - b + i /\ run[i + 1] = k - b + (i + 1)
    BY <1>4, <2>1
  <2> QED
    BY <1>1, <2>2
<1>7. before # <<>> => Len(before) = Least(ContextBefore, before[Len(before)])
  <2>1. before # <<>> => b \in 1..b
    BY <1>1, <1>3
  <2>2. before # <<>> => before[b] = k
    BY <1>1, <1>2, <2>1
  <2> QED
    BY <1>1, <1>3, <2>2
<1>8. run # <<>> /\ Len(after) < ContextAfter => run[Len(run)] = n
  <2> SUFFICES ASSUME run # <<>>, a < ContextAfter PROVE run[b + a] = n
    BY <1>3, <1>4
  <2>1. b + a \in 1 .. b + a /\ a = n - k
    BY <1>1, <1>5
  <2>2. run[b + a] = k - b + (b + a)
    BY <1>4, <2>1
  <2> QED
    BY <1>1, <2>1, <2>2
<1> QED
  BY <1>6, <1>7, <1>8 DEF run, before, after

-----------------------------------------------------------------------------
(* The steps *)

LEMMA InitIInv ==
    ASSUME Init PROVE IInv
<1>1. 0 \in Time /\ ContextBefore \in Nat
  BY CorrelatorAssumption DEF Time
<1>2. Types
  <2>1. [n |-> 0, at |-> 0, change |-> FALSE] \in [n : Nat, at : Time, change : BOOLEAN]
    BY <1>1
  <2>2. DOMAIN pending = {}
    BY DEF Init
  <2>3. \A s \in Sources : stage[s] = "idle"
    BY DEF Init
  <2> QED
    BY <2>1, <2>2, <2>3 DEF Init, Types
<1>3. Rings
  <2>1. RingAt(NewRing(ContextBefore, 0), ContextBefore, 0)
    BY <1>1, NewRingHolds
  <2>2. ASSUME NEW s \in Sources
        PROVE  ring[s] = NewRing(ContextBefore, 0) /\ obs[s].n = 0
    BY DEF Init
  <2>3. DOMAIN ring = Sources
    BY DEF Init
  <2> QED
    BY <2>1, <2>2, <2>3 DEF Rings
<1>4. Contexts
  BY DEF Init, Contexts
<1> QED
  BY <1>2, <1>3, <1>4 DEF IInv

\* One observation more: in the ring of its source, and after its pending event.
LEMMA ObserveStep ==
    ASSUME IInv, NEW s \in Sources, NEW at \in Time, NEW isChange \in BOOLEAN,
           Observe(s, at, isChange)
    PROVE  IInv'
<1> DEFINE n == obs[s].n
           next == RingAdd(ring[s], n + 1)
<1>1. /\ obs \in [Sources -> [n : Nat, at : Time, change : BOOLEAN]]
      /\ stage \in [Sources -> {"idle", "detect", "flush"}]
      /\ DOMAIN pending \subseteq Sources
      /\ \A t \in Sources : stage[t] # "idle" => obs[t].n >= 1
  BY DEF IInv, Types
<1>2. /\ n \in Nat /\ ContextBefore \in Nat /\ ContextAfter \in Nat
  BY <1>1, CorrelatorAssumption
<1>3. /\ obs' = [obs EXCEPT ![s] = [n |-> n + 1, at |-> at, change |-> isChange]]
      /\ ring' = [ring EXCEPT ![s] = next]
      /\ stage' = [stage EXCEPT ![s] = "detect"]
      /\ pending' = IF s \in DOMAIN pending /\ Len(pending[s].after) < ContextAfter
                    THEN [pending EXCEPT ![s].after = Append(@, n + 1)]
                    ELSE pending
  BY DEF Observe
<1>4. [n |-> n + 1, at |-> at, change |-> isChange] \in [n : Nat, at : Time, change : BOOLEAN]
  BY <1>2
<1>5. /\ obs' \in [Sources -> [n : Nat, at : Time, change : BOOLEAN]]
      /\ obs'[s].n = n + 1
      /\ \A t \in Sources \ {s} : obs'[t] = obs[t]
  BY <1>1, <1>3, <1>4
<1> HIDE DEF n, next
<1>6. Types'
  <2>1. stage' \in [Sources -> {"idle", "detect", "flush"}]
    BY <1>1, <1>3
  <2>2. ASSUME NEW t \in Sources, stage'[t] # "idle" PROVE obs'[t].n >= 1
    <3>1. CASE t = s
      BY <1>2, <1>5, <3>1
    <3>2. CASE t # s
      BY <1>1, <1>3, <1>5, <2>2, <3>2
    <3> QED
      BY <3>1, <3>2
  <2>3. DOMAIN pending' = DOMAIN pending
    BY <1>3
  <2> QED
    BY <1>1, <1>5, <2>1, <2>2, <2>3 DEF Types
<1>7. Rings'
  <2>1. RingAt(ring[s], ContextBefore, n)
    BY DEF IInv, Rings, n
  <2>2. RingAt(next, ContextBefore, n + 1)
    BY <1>2, <2>1, RingAddHolds DEF next
  <2>3. ASSUME NEW t \in Sources PROVE RingAt(ring'[t], ContextBefore, obs'[t].n)
    <3>1. CASE t = s
      BY <1>3, <1>5, <2>2, <3>1 DEF IInv, Rings
    <3>2. CASE t # s
      BY <1>3, <1>5, <3>2 DEF IInv, Rings
    <3> QED
      BY <3>1, <3>2
  <2>4. DOMAIN ring' = Sources
    BY <1>3 DEF IInv, Rings
  <2> QED
    BY <2>3, <2>4 DEF Rings
<1>8. Contexts'
  <2> SUFFICES ASSUME NEW t \in DOMAIN pending' PROVE Surrounded(pending'[t], obs'[t].n)
    BY DEF Contexts
  <2>1. t \in DOMAIN pending /\ t \in Sources /\ Surrounded(pending[t], obs[t].n)
    BY <1>1, <1>3 DEF IInv, Contexts
  <2>2. CASE t # s
    <3>1. pending'[t] = pending[t] /\ obs'[t] = obs[t]
      BY <1>3, <1>5, <2>1, <2>2
    <3> QED
      BY <2>1, <3>1
  <2>3. CASE t = s
    <3> DEFINE p == pending[s]
               q == pending'[s]
    <3>1. PICK k \in 1..n : p.before = Before(k) /\ p.after = After(k, n)
      BY <2>1, <2>3 DEF Surrounded, n
    <3>2. {"before", "after"} \subseteq DOMAIN p
      BY <2>1, <2>3 DEF Surrounded
    <3>3. q = IF Len(p.after) < ContextAfter
              THEN [p EXCEPT !.after = Append(@, n + 1)] ELSE p
      BY <1>3, <2>1, <2>3
    <3> HIDE DEF p, q
    <3>4. /\ {"before", "after"} \subseteq DOMAIN q /\ q.before = p.before
          /\ q.after = IF Len(p.after) < ContextAfter
                       THEN Append(p.after, n + 1) ELSE p.after
      BY <3>2, <3>3
    <3>5. q.after = After(k, n + 1)
      BY <1>2, <3>1, <3>4, AfterGrows
    <3>6. k \in 1 .. n + 1
      BY <1>2
    <3>7. Surrounded(q, n + 1)
      BY <3>1, <3>4, <3>5, <3>6 DEF Surrounded
    <3> QED
      BY <1>5, <2>3, <3>7 DEF q
  <2> QED
    BY <2>2, <2>3
<1> QED
  BY <1>6, <1>7, <1>8 DEF IInv

\* An event that opens does so at the observation its worker has just read, with
\* what the ring holds; merging signals leaves its context alone.
LEMMA AddStep ==
    ASSUME IInv, NEW s \in Sources, NEW signals, Add(s, signals)
    PROVE  IInv'
<1> DEFINE n == obs[s].n
<1>1. /\ obs \in [Sources -> [n : Nat, at : Time, change : BOOLEAN]]
      /\ stage \in [Sources -> {"idle", "detect", "flush"}]
      /\ DOMAIN pending \subseteq Sources
      /\ \A t \in Sources : stage[t] # "idle" => obs[t].n >= 1
  BY DEF IInv, Types
<1>2. /\ n \in Nat /\ n >= 1 /\ ContextBefore \in Nat /\ ContextAfter \in Nat
  BY <1>1, CorrelatorAssumption DEF Add
<1>3. /\ obs' = obs /\ ring' = ring
      /\ stage' = [stage EXCEPT ![s] = "flush"]
  BY DEF Add
<1>4. PICK kept : \/ pending' = pending
                 \/ pending' = With(pending, s, Opened(s, obs[s].at, signals, kept))
  BY DEF Add
<1> DEFINE p == Opened(s, obs[s].at, signals, kept)
<1>5. Surrounded(p, n)
  <2>1. CASE s \in DOMAIN pending
    <3> DEFINE was == pending[s]
               merged == MergeAll(was.signals, s, signals, kept)
    <3>1. p = [was EXCEPT !.signals = merged]
      BY <2>1 DEF Opened
    <3>2. Surrounded(was, n)
      BY <2>1 DEF IInv, Contexts
    <3> HIDE DEF was, merged, p
    <3>3. {"before", "after"} \subseteq DOMAIN p /\ p.before = was.before /\ p.after = was.after
      BY <3>1, <3>2 DEF Surrounded
    <3> QED
      BY <3>2, <3>3 DEF Surrounded
  <2>2. CASE s \notin DOMAIN pending
    <3> DEFINE before == RingLast(ring[s], ContextBefore)
               merged == MergeAll(<<>>, s, signals, kept)
    <3>1. p = [firstReceivedAt |-> now, firstSignalAt |-> obs[s].at,
               signals |-> merged, after |-> <<>>, before |-> before]
      BY <2>2 DEF Opened
    <3>2. RingAt(ring[s], ContextBefore, n)
      BY DEF IInv, Rings
    <3> HIDE DEF n
    <3>3. before = Before(n)
      BY <1>2, <3>2, RingLastRun DEF Before
    <3>4. After(n, n) = <<>>
      BY <1>2 DEF After, Least
    <3> HIDE DEF before, merged, p
    <3>5. {"before", "after"} \subseteq DOMAIN p /\ p.before = before /\ p.after = <<>>
      BY <3>1
    <3> QED
      BY <1>2, <3>3, <3>4, <3>5 DEF Surrounded
  <2> QED
    BY <2>1, <2>2
<1> HIDE DEF p
<1>6. /\ DOMAIN pending' \subseteq DOMAIN pending \cup {s}
      /\ \A t \in DOMAIN pending' :
            \/ t = s /\ pending'[t] = p
            \/ t \in DOMAIN pending /\ pending'[t] = pending[t]
  <2>1. CASE pending' = pending
    BY <2>1
  <2>2. CASE pending' = With(pending, s, p)
    BY <2>2 DEF With
  <2> QED
    BY <1>4, <2>1, <2>2 DEF p
<1>7. Types'
  <2>1. stage' \in [Sources -> {"idle", "detect", "flush"}]
    BY <1>1, <1>3
  <2>2. \A t \in Sources : stage'[t] # "idle" => obs'[t].n >= 1
    BY <1>1, <1>2, <1>3
  <2> QED
    BY <1>1, <1>3, <1>6, <2>1, <2>2 DEF Types
<1>8. Rings'
  BY <1>3 DEF IInv, Rings
<1>9. Contexts'
  BY <1>3, <1>5, <1>6 DEF IInv, Contexts
<1> QED
  BY <1>7, <1>8, <1>9 DEF IInv

\* A flush takes events away and leaves those it keeps as they were.
LEMMA FlushKeeps ==
    ASSUME NEW force, Flush(force)
    PROVE  /\ obs' = obs /\ ring' = ring /\ DOMAIN pending' \subseteq DOMAIN pending
           /\ \A t \in DOMAIN pending' : pending'[t] = pending[t]
  BY DEF Flush, Without

LEMMA KeepStep ==
    ASSUME IInv, obs' = obs, ring' = ring, DOMAIN pending' \subseteq DOMAIN pending,
           \A t \in DOMAIN pending' : pending'[t] = pending[t],
           stage' = stage \/ \E s \in Sources : stage' = [stage EXCEPT ![s] = "idle"]
    PROVE  IInv'
<1>1. Types'
  BY DEF IInv, Types
<1>2. Rings'
  BY DEF IInv, Rings
<1>3. Contexts'
  BY DEF IInv, Contexts
<1> QED
  BY <1>1, <1>2, <1>3 DEF IInv

LEMMA Invariance ==
    ASSUME IInv, [Next]_vars PROVE IInv'
<1>1. ASSUME NEW s \in Sources, NEW at \in Stamps, NEW isChange \in BOOLEAN,
             Observe(s, at, isChange)
      PROVE  IInv'
  BY <1>1, ObserveStep DEF Stamps
<1>2. ASSUME NEW s \in Sources, NEW signals, Add(s, signals)
      PROVE  IInv'
  BY <1>2, AddStep
<1>3. ASSUME NEW s \in Sources, WorkerFlush(s)
      PROVE  IInv'
  BY <1>3, FlushKeeps, KeepStep DEF WorkerFlush
<1>4. CASE TickFlush
  BY <1>4, FlushKeeps, KeepStep DEF TickFlush
<1>5. CASE FinalFlush
  BY <1>5, FlushKeeps, KeepStep DEF FinalFlush
<1>6. CASE Tick
  BY <1>6, KeepStep DEF Tick
<1>7. CASE UNCHANGED vars
  BY <1>7, KeepStep DEF vars, state
<1> QED
  BY <1>1, <1>2, <1>3, <1>4, <1>5, <1>6, <1>7 DEF Next

\* The context of every pending event is one unbroken run of the observations of
\* its source, as long before it as the ring and the stream allow and still growing
\* after it until its bound is reached (Observe before Add, window.Ring).
THEOREM ContextHolds == Spec => []ContextSurrounds
<1>1. IInv => ContextSurrounds
  <2> SUFFICES ASSUME IInv, NEW s \in DOMAIN pending
               PROVE  LET before == pending[s].before
                          after  == pending[s].after
                          run    == before \o after
                      IN /\ \A i \in 1 .. Len(run) - 1 : run[i + 1] = run[i] + 1
                         /\ before # <<>> =>
                              Len(before) = Least(ContextBefore, before[Len(before)])
                         /\ run # <<>> /\ Len(after) < ContextAfter =>
                              run[Len(run)] = obs[s].n
    BY DEF ContextSurrounds
  <2> DEFINE n == obs[s].n
  <2>1. n \in Nat /\ ContextBefore \in Nat /\ ContextAfter \in Nat
    BY CorrelatorAssumption DEF IInv, Types
  <2>2. PICK k \in 1..n : pending[s].before = Before(k) /\ pending[s].after = After(k, n)
    BY DEF IInv, Contexts, Surrounded
  <2> HIDE DEF n
  <2>3. LET before == Before(k)
            after  == After(k, n)
            run    == before \o after
        IN /\ \A i \in 1 .. Len(run) - 1 : run[i + 1] = run[i] + 1
           /\ before # <<>> => Len(before) = Least(ContextBefore, before[Len(before)])
           /\ run # <<>> /\ Len(after) < ContextAfter => run[Len(run)] = n
    BY <2>1, ContextRuns
  <2> DEFINE before == Before(k)
             after  == After(k, n)
  <2> HIDE DEF before, after
  <2> QED
    BY <2>2, <2>3 DEF n, before, after
<1> QED
  BY <1>1, InitIInv, Invariance, PTL DEF Spec


-----------------------------------------------------------------------------
(* The window *)

\* The reading of the clock configured at which the event p opened.
First(c, p) == IF c = "event" THEN p.firstSignalAt ELSE p.firstReceivedAt

\* What the clock configured reads.
Clock == IF clock = "event" THEN watermark ELSE now

\* What the clock read, h, when an event that opened at first was given signals: all
\* but the last within its window, and the last one too once the worker has flushed.
Timely(h, first, reading, flushed) ==
    /\ first \in Int /\ h # <<>>
    /\ \A i \in DOMAIN h : h[i] <= reading
    /\ \A i \in 1 .. Len(h) - 1 : h[i] - first < Window
    /\ flushed => h[Len(h)] - first < Window

\* Once the worker has flushed, the last observation of an event that is still open
\* is within its window too.
InWindow ==
    /\ clock \in Clocks /\ now \in Int /\ watermark \in Int
    /\ obs \in [Sources -> [n : Nat, at : Int, change : BOOLEAN]]
    /\ stage \in [Sources -> {"idle", "detect", "flush"}]
    /\ readings \in [Sources -> Seq(Int)]
    /\ \A s \in Sources : obs[s].at <= watermark
    /\ DOMAIN pending \subseteq Sources
    /\ \A s \in DOMAIN pending :
         /\ {"firstSignalAt", "firstReceivedAt"} \subseteq DOMAIN pending[s]
         /\ Timely(readings[s], First(clock, pending[s]), Clock, stage[s] # "flush")

LEMMA TimelyStays ==
    ASSUME NEW h \in Seq(Int), NEW first, NEW reading \in Int, NEW later \in Int,
           NEW was \in BOOLEAN, NEW is \in BOOLEAN, Timely(h, first, reading, was),
           reading <= later, is => was \/ reading - first < Window
    PROVE  Timely(h, first, later, is)
<1>1. /\ first \in Int /\ h # <<>> /\ Window \in Int
      /\ \A i \in DOMAIN h : h[i] <= reading
      /\ \A i \in 1 .. Len(h) - 1 : h[i] - first < Window
      /\ was => h[Len(h)] - first < Window
  BY CorrelatorAssumption DEF Timely
<1>2. /\ Len(h) \in DOMAIN h /\ h[Len(h)] \in Int
      /\ \A i \in DOMAIN h : h[i] \in Int
  BY <1>1
<1>3. \A i \in DOMAIN h : h[i] <= later
  BY <1>1, <1>2
<1>4. is => h[Len(h)] - first < Window
  BY <1>1, <1>2
<1> QED
  BY <1>1, <1>3, <1>4 DEF Timely

\* One more reading, once the ones before it are all within the window.
LEMMA TimelyGrows ==
    ASSUME NEW h \in Seq(Int), NEW first, NEW reading \in Int, NEW r \in Int,
           Timely(h, first, reading, TRUE), r <= reading
    PROVE  Timely(Append(h, r), first, reading, FALSE)
<1>1. /\ first \in Int /\ h # <<>>
      /\ \A i \in DOMAIN h : h[i] <= reading
      /\ \A i \in 1 .. Len(h) - 1 : h[i] - first < Window
      /\ h[Len(h)] - first < Window
  BY DEF Timely
<1>2. /\ Len(Append(h, r)) = Len(h) + 1 /\ Append(h, r) # <<>>
      /\ DOMAIN Append(h, r) = 1 .. Len(h) + 1
      /\ \A i \in 1 .. Len(h) : Append(h, r)[i] = h[i]
      /\ Append(h, r)[Len(h) + 1] = r
      /\ Len(h) \in Nat /\ DOMAIN h = 1..Len(h)
  OBVIOUS
<1> DEFINE n == Len(h)
<1>3. \A i \in 1..n : i = n \/ i \in 1 .. n - 1
  <2>1. n \in Nat
    OBVIOUS
  <2> HIDE DEF n
  <2> QED
    BY <2>1
<1>4. \A i \in 1..n : h[i] - first < Window
  BY <1>1, <1>3
<1>5. \A i \in DOMAIN Append(h, r) : Append(h, r)[i] <= reading
  BY <1>1, <1>2
<1>6. \A i \in 1 .. Len(Append(h, r)) - 1 : Append(h, r)[i] - first < Window
  BY <1>2, <1>4
<1> QED
  BY <1>1, <1>2, <1>5, <1>6 DEF Timely

LEMMA TimelyOpens ==
    ASSUME NEW r \in Int, NEW reading \in Int, r <= reading
    PROVE  Timely(<<r>>, r, reading, FALSE)
<1>1. Len(<<r>>) = 1 /\ DOMAIN <<r>> = {1} /\ <<r>>[1] = r /\ <<r>> # <<>>
  OBVIOUS
<1>2. \A i \in 1 .. Len(<<r>>) - 1 : FALSE
  BY <1>1
<1>3. \A i \in DOMAIN <<r>> : <<r>>[i] <= reading
  BY <1>1
<1> QED
  BY <1>1, <1>2, <1>3 DEF Timely

\* What is known of the events a step leaves as they opened, while the clock goes on.
LEMMA WindowStays ==
    ASSUME InWindow, clock' = clock, readings' = readings, obs' = obs,
           now' \in Int, now' >= now, watermark' = watermark,
           DOMAIN pending' \subseteq DOMAIN pending,
           \A s \in DOMAIN pending' : pending'[s] = pending[s],
           stage' \in [Sources -> {"idle", "detect", "flush"}],
           \A s \in DOMAIN pending' : stage'[s] # "flush" =>
              \/ stage[s] # "flush"
              \/ Clock - First(clock, pending[s]) < Window
    PROVE  InWindow'
<1>1. ASSUME NEW s \in DOMAIN pending'
      PROVE  Timely(readings'[s], First(clock', pending'[s]), Clock', stage'[s] # "flush")
  <2>1. /\ s \in DOMAIN pending /\ s \in Sources /\ readings[s] \in Seq(Int)
        /\ Timely(readings[s], First(clock, pending[s]), Clock, stage[s] # "flush")
    BY DEF InWindow
  <2>2. First(clock', pending'[s]) = First(clock, pending[s])
    BY <2>1
  <2>3. Clock \in Int /\ Clock' \in Int /\ Clock <= Clock'
    BY DEF InWindow, Clock
  <2>4. (stage[s] # "flush") \in BOOLEAN /\ (stage'[s] # "flush") \in BOOLEAN
    OBVIOUS
  <2> QED
    BY <2>1, <2>2, <2>3, <2>4, TimelyStays
<1>2. \A s \in Sources : obs'[s].at <= watermark'
  BY DEF InWindow
<1>3. \A s \in DOMAIN pending' :
          {"firstSignalAt", "firstReceivedAt"} \subseteq DOMAIN pending'[s]
  BY DEF InWindow
<1> QED
  BY <1>1, <1>2, <1>3 DEF InWindow

\* A flush that is not forced leaves only the events whose window is open.
LEMMA FlushLeaves ==
    ASSUME Flush(FALSE)
    PROVE  /\ DOMAIN pending' \subseteq DOMAIN pending
           /\ \A s \in DOMAIN pending' : pending'[s] = pending[s] /\ ~Expired(pending[s])
           /\ clock' = clock /\ now' = now /\ watermark' = watermark /\ obs' = obs
           /\ readings' = readings
  BY DEF Flush, Without

LEMMA InitWindow ==
    ASSUME Init PROVE InWindow
<1>1. DOMAIN pending = {}
  BY DEF Init
<1>2. \A s \in Sources : obs[s].at = 0 /\ watermark = 0
  BY DEF Init
<1>3. obs \in [Sources -> [n : Nat, at : Int, change : BOOLEAN]]
  BY DEF Init
<1>4. readings \in [Sources -> Seq(Int)]
  BY DEF Init
<1> QED
  BY <1>1, <1>2, <1>3, <1>4 DEF Init, InWindow

LEMMA ObserveWindow ==
    ASSUME InWindow, NEW s \in Sources, NEW at \in Time, NEW isChange \in BOOLEAN,
           Observe(s, at, isChange)
    PROVE  InWindow'
<1>1. at \in Int /\ watermark \in Int /\ Window \in Int
  BY CorrelatorAssumption DEF Time, InWindow
<1>2. /\ clock' = clock /\ now' = now /\ readings' = readings
      /\ watermark' = Greatest(watermark, at)
      /\ stage[s] = "idle" /\ stage' = [stage EXCEPT ![s] = "detect"]
      /\ obs' = [obs EXCEPT ![s] = [n |-> obs[s].n + 1, at |-> at, change |-> isChange]]
      /\ pending' = IF s \in DOMAIN pending /\ Len(pending[s].after) < ContextAfter
                    THEN [pending EXCEPT ![s].after = Append(@, obs[s].n + 1)]
                    ELSE pending
  BY DEF Observe
<1>3. watermark' \in Int /\ watermark <= watermark' /\ at <= watermark'
  BY <1>1, <1>2 DEF Greatest
<1>4. obs' \in [Sources -> [n : Nat, at : Int, change : BOOLEAN]]
  <2>1. obs[s].n + 1 \in Nat
    BY DEF InWindow
  <2> QED
    BY <1>1, <1>2, <2>1 DEF InWindow
<1>5. \A t \in Sources : obs'[t].at <= watermark'
  <2>1. ASSUME NEW t \in Sources PROVE obs'[t].at <= watermark'
    <3>1. CASE t = s
      <4>1. obs'[t].at = at
        BY <1>2, <3>1 DEF InWindow
      <4> QED
        BY <1>3, <4>1
    <3>2. CASE t # s
      <4>1. obs'[t].at = obs[t].at /\ obs[t].at \in Int /\ obs[t].at <= watermark
        BY <1>2, <3>2 DEF InWindow
      <4> QED
        BY <1>1, <1>3, <4>1
    <3> QED
      BY <3>1, <3>2
  <2> QED
    BY <2>1
<1>6. DOMAIN pending' = DOMAIN pending
  BY <1>2
<1>7. ASSUME NEW t \in DOMAIN pending
      PROVE  /\ First(clock', pending'[t]) = First(clock, pending[t])
             /\ {"firstSignalAt", "firstReceivedAt"} \subseteq DOMAIN pending'[t]
  <2> DEFINE p == pending[t]
             after == Append(p.after, obs[s].n + 1)
  <2>1. pending'[t] = p \/ pending'[t] = [p EXCEPT !.after = after]
    BY <1>2
  <2> HIDE DEF p, after
  <2>2. /\ {"firstSignalAt", "firstReceivedAt"} \subseteq DOMAIN p
    BY DEF InWindow, p
  <2>3. /\ pending'[t].firstSignalAt = p.firstSignalAt
        /\ pending'[t].firstReceivedAt = p.firstReceivedAt
        /\ DOMAIN pending'[t] = DOMAIN p
    BY <2>1, <2>2
  <2> QED
    BY <1>2, <2>2, <2>3 DEF First, p
<1>8. ASSUME NEW t \in DOMAIN pending'
      PROVE  Timely(readings'[t], First(clock', pending'[t]), Clock', stage'[t] # "flush")
  <2>1. /\ t \in DOMAIN pending /\ t \in Sources /\ readings[t] \in Seq(Int)
        /\ Timely(readings[t], First(clock, pending[t]), Clock, stage[t] # "flush")
    BY <1>6 DEF InWindow
  <2>2. Clock \in Int /\ Clock' \in Int /\ Clock <= Clock'
    BY <1>1, <1>2, <1>3 DEF InWindow, Clock
  <2>3. stage'[t] # "flush" => stage[t] # "flush"
    BY <1>2, <2>1 DEF InWindow
  <2>4. readings'[t] = readings[t] /\ First(clock', pending'[t]) = First(clock, pending[t])
    BY <1>2, <1>7, <2>1
  <2>5. (stage[t] # "flush") \in BOOLEAN /\ (stage'[t] # "flush") \in BOOLEAN
    OBVIOUS
  <2> QED
    BY <2>1, <2>2, <2>3, <2>4, <2>5, TimelyStays
<1>9. stage' \in [Sources -> {"idle", "detect", "flush"}]
  BY <1>2 DEF InWindow
<1>10. clock' \in Clocks /\ now' \in Int /\ readings' \in [Sources -> Seq(Int)]
       /\ DOMAIN pending' \subseteq Sources
  BY <1>2, <1>6 DEF InWindow
<1> QED
  BY <1>3, <1>4, <1>5, <1>6, <1>7, <1>8, <1>9, <1>10 DEF InWindow

LEMMA AddWindow ==
    ASSUME InWindow, NEW s \in Sources, NEW signals, Add(s, signals)
    PROVE  InWindow'
<1> DEFINE at == obs[s].at
           r == Reading(at)
<1>1. /\ clock' = clock /\ now' = now /\ watermark' = watermark /\ obs' = obs
      /\ stage[s] = "detect" /\ stage' = [stage EXCEPT ![s] = "flush"]
  BY DEF Add
<1>2. PICK kept : \/ pending' = pending /\ readings' = readings
                 \/ /\ pending' = With(pending, s, Opened(s, at, signals, kept))
                    /\ readings' = [readings EXCEPT ![s] = IF s \in DOMAIN pending
                                                    THEN Append(@, r) ELSE <<r>>]
  <2>1. PICK kept : /\ pending' = IF Some(signals, kept)
                                  THEN With(pending, s, Opened(s, at, signals, kept))
                                  ELSE pending
                    /\ readings' = IF Some(signals, kept)
                                THEN [readings EXCEPT ![s] = IF s \in DOMAIN pending
                                                          THEN Append(@, r) ELSE <<r>>]
                                ELSE readings
    BY DEF Add
  <2> QED
    BY <2>1
<1> DEFINE p == Opened(s, at, signals, kept)
<1>3. /\ at \in Int /\ now \in Int /\ watermark \in Int /\ at <= watermark
      /\ r \in Int /\ r <= Clock /\ Clock \in Int /\ Clock' = Clock
  <2>1. at \in Int /\ now \in Int /\ watermark \in Int /\ at <= watermark
    BY DEF InWindow
  <2> HIDE DEF at
  <2> QED
    BY <1>1, <2>1 DEF Reading, Clock
<1>4. stage' \in [Sources -> {"idle", "detect", "flush"}]
  BY <1>1 DEF InWindow
<1>5. /\ First(clock, p) = IF s \in DOMAIN pending THEN First(clock, pending[s]) ELSE r
      /\ {"firstSignalAt", "firstReceivedAt"} \subseteq DOMAIN p
  <2>1. CASE s \in DOMAIN pending
    <3> DEFINE was == pending[s]
               merged == MergeAll(was.signals, s, signals, kept)
    <3>1. p = [was EXCEPT !.signals = merged]
      BY <2>1 DEF Opened
    <3>2. {"firstSignalAt", "firstReceivedAt"} \subseteq DOMAIN was
      BY <2>1 DEF InWindow
    <3> HIDE DEF was, merged, p
    <3>3. /\ p.firstSignalAt = was.firstSignalAt /\ p.firstReceivedAt = was.firstReceivedAt
          /\ DOMAIN p = DOMAIN was
      BY <3>1, <3>2
    <3> QED
      BY <2>1, <3>2, <3>3 DEF First, was
  <2>2. CASE s \notin DOMAIN pending
    <3> DEFINE before == RingLast(ring[s], ContextBefore)
               merged == MergeAll(<<>>, s, signals, kept)
    <3>1. p = [firstReceivedAt |-> now, firstSignalAt |-> at,
               signals |-> merged, after |-> <<>>, before |-> before]
      BY <2>2 DEF Opened
    <3> HIDE DEF before, merged, p, at
    <3>2. /\ p.firstSignalAt = at /\ p.firstReceivedAt = now
          /\ {"firstSignalAt", "firstReceivedAt"} \subseteq DOMAIN p
      BY <3>1
    <3> QED
      BY <2>2, <3>2 DEF First, Reading
  <2> QED
    BY <2>1, <2>2
<1> HIDE DEF p, at
<1>6. ASSUME NEW t \in DOMAIN pending', pending'[t] = pending[t], t \in DOMAIN pending,
             readings'[t] = readings[t]
      PROVE  Timely(readings'[t], First(clock', pending'[t]), Clock', stage'[t] # "flush")
  <2>1. /\ t \in Sources /\ readings[t] \in Seq(Int)
        /\ Timely(readings[t], First(clock, pending[t]), Clock, stage[t] # "flush")
    BY <1>6 DEF InWindow
  <2>2. First(clock', pending'[t]) = First(clock, pending[t])
    BY <1>1, <1>6
  <2>3. stage'[t] # "flush" => stage[t] # "flush"
    BY <1>1, <2>1 DEF InWindow
  <2>4. (stage[t] # "flush") \in BOOLEAN /\ (stage'[t] # "flush") \in BOOLEAN
    OBVIOUS
  <2>5. Clock \in Int /\ Clock <= Clock
    BY <1>3
  <2>6. Timely(readings[t], First(clock, pending[t]), Clock, stage'[t] # "flush")
    BY <2>1, <2>3, <2>4, <2>5, TimelyStays
  <2> QED
    BY <1>3, <1>6, <2>2, <2>6
<1>7. ASSUME pending' = With(pending, s, p),
             readings' = [readings EXCEPT ![s] = IF s \in DOMAIN pending
                                           THEN Append(@, r) ELSE <<r>>]
      PROVE  Timely(readings'[s], First(clock', pending'[s]), Clock', stage'[s] # "flush")
  <2> DEFINE h == readings[s]
             first == First(clock, p)
  <2>1. pending'[s] = p /\ First(clock', pending'[s]) = first
    <3>1. pending'[s] = p
      BY <1>7 DEF With
    <3> QED
      BY <1>1, <3>1
  <2>2. readings'[s] = IF s \in DOMAIN pending THEN Append(h, r) ELSE <<r>>
    BY <1>7 DEF InWindow
  <2>3. (stage'[s] # "flush") = FALSE
    BY <1>1 DEF InWindow
  <2>4. h \in Seq(Int)
    BY DEF InWindow
  <2>5. CASE s \in DOMAIN pending
    <3>1. Timely(h, first, Clock, TRUE)
      <4>1. Timely(h, First(clock, pending[s]), Clock, stage[s] # "flush")
        BY <2>5 DEF InWindow
      <4>2. (stage[s] # "flush") = TRUE
        BY <1>1
      <4> QED
        BY <1>5, <2>5, <4>1, <4>2
    <3> HIDE DEF h, first, r
    <3>2. Timely(Append(h, r), first, Clock, FALSE)
      BY <1>3, <2>4, <3>1, TimelyGrows
    <3> QED
      BY <1>3, <2>1, <2>2, <2>3, <2>5, <3>2
  <2>6. CASE s \notin DOMAIN pending
    <3>1. first = r
      BY <1>5, <2>6
    <3> HIDE DEF h, first, r
    <3>2. Timely(<<r>>, r, Clock, FALSE)
      BY <1>3, TimelyOpens
    <3> QED
      BY <1>3, <2>1, <2>2, <2>3, <2>6, <3>1, <3>2
  <2> QED
    BY <2>5, <2>6
<1>8. ASSUME NEW t \in DOMAIN pending'
      PROVE  Timely(readings'[t], First(clock', pending'[t]), Clock', stage'[t] # "flush")
  <2>1. CASE pending' = pending /\ readings' = readings
    BY <1>6, <2>1
  <2>2. CASE /\ pending' = With(pending, s, p)
             /\ readings' = [readings EXCEPT ![s] = IF s \in DOMAIN pending
                                              THEN Append(@, r) ELSE <<r>>]
    <3>1. CASE t = s
      BY <1>7, <2>2, <3>1
    <3>2. CASE t # s
      <4>1. t \in DOMAIN pending /\ pending'[t] = pending[t]
        BY <2>2, <3>2 DEF With
      <4>2. readings'[t] = readings[t]
        BY <2>2, <3>2, <4>1 DEF InWindow
      <4> QED
        BY <1>6, <4>1, <4>2
    <3> QED
      BY <3>1, <3>2
  <2> QED
    BY <1>2, <2>1, <2>2 DEF p, at
<1>9. readings' \in [Sources -> Seq(Int)] /\ DOMAIN pending' \subseteq Sources
  <2>1. readings \in [Sources -> Seq(Int)] /\ DOMAIN pending \subseteq Sources
    BY DEF InWindow
  <2> DEFINE next == IF s \in DOMAIN pending THEN Append(readings[s], r) ELSE <<r>>
  <2>2. next \in Seq(Int)
    <3> HIDE DEF r
    <3> QED
      BY <1>3, <2>1
  <2>3. readings' = readings \/ readings' = [readings EXCEPT ![s] = next]
    BY <1>2
  <2> HIDE DEF next
  <2> QED
    BY <1>2, <2>1, <2>2, <2>3 DEF With
<1>10. \A t \in Sources : obs'[t].at <= watermark'
  BY <1>1 DEF InWindow
<1>11. \A t \in DOMAIN pending' :
          {"firstSignalAt", "firstReceivedAt"} \subseteq DOMAIN pending'[t]
  <2>1. CASE pending' = pending
    BY <2>1 DEF InWindow
  <2>2. CASE pending' = With(pending, s, p)
    BY <1>5, <2>2 DEF With, InWindow
  <2> QED
    BY <1>2, <2>1, <2>2 DEF p, at
<1> QED
  BY <1>1, <1>4, <1>8, <1>9, <1>10, <1>11 DEF InWindow

LEMMA WindowInvariance ==
    ASSUME InWindow, [Next]_vars PROVE InWindow'
<1>1. ASSUME NEW s \in Sources, NEW at \in Stamps, NEW isChange \in BOOLEAN,
             Observe(s, at, isChange)
      PROVE  InWindow'
  BY <1>1, ObserveWindow DEF Stamps
<1>2. ASSUME NEW s \in Sources, NEW signals, Add(s, signals)
      PROVE  InWindow'
  BY <1>2, AddWindow
<1>3. ASSUME NEW s \in Sources, WorkerFlush(s)
      PROVE  InWindow'
  <2>1. /\ Flush(FALSE) /\ stage' = [stage EXCEPT ![s] = "idle"]
    BY <1>3 DEF WorkerFlush
  <2>2. \A t \in DOMAIN pending' : pending'[t] = pending[t]
    BY <2>1, FlushLeaves
  <2>3. \A t \in DOMAIN pending' :
          Clock - First(clock, pending[t]) < Window
    <3> SUFFICES ASSUME NEW t \in DOMAIN pending'
                 PROVE  Clock - First(clock, pending[t]) < Window
      OBVIOUS
    <3>1. /\ ~Expired(pending[t]) /\ First(clock, pending[t]) \in Int
          /\ now \in Int /\ watermark \in Int
      BY <2>1, FlushLeaves DEF InWindow, Timely
    <3>2. Window \in Int
      BY CorrelatorAssumption
    <3> QED
      BY <3>1, <3>2 DEF Expired, First, Clock
  <2>4. stage' \in [Sources -> {"idle", "detect", "flush"}]
    BY <2>1 DEF InWindow
  <2>5. now \in Int
    BY DEF InWindow
  <2> QED
    BY <2>1, <2>2, <2>3, <2>4, <2>5, FlushLeaves, WindowStays
<1>4. CASE TickFlush
  <2>1. Flush(FALSE) /\ stage' = stage
    BY <1>4 DEF TickFlush
  <2>2. \A t \in DOMAIN pending' : pending'[t] = pending[t]
    BY <2>1, FlushLeaves
  <2>3. now \in Int /\ stage' \in [Sources -> {"idle", "detect", "flush"}]
    BY <2>1 DEF InWindow
  <2> QED
    BY <2>1, <2>2, <2>3, FlushLeaves, WindowStays
<1>5. CASE FinalFlush
  <2>1. /\ stage' = stage /\ clock' = clock /\ now' = now /\ watermark' = watermark
        /\ readings' = readings /\ obs' = obs
    BY <1>5 DEF FinalFlush, Flush
  <2>2. DOMAIN pending' = {}
    BY <1>5 DEF FinalFlush, Flush, Without
  <2>3. now \in Int /\ stage' \in [Sources -> {"idle", "detect", "flush"}]
    BY <2>1 DEF InWindow
  <2> QED
    BY <2>1, <2>2, <2>3, WindowStays
<1>6. CASE Tick
  <2>1. /\ stage' = stage /\ clock' = clock /\ now' = now + 1 /\ watermark' = watermark
        /\ readings' = readings /\ obs' = obs /\ pending' = pending
    BY <1>6 DEF Tick
  <2>2. now \in Int /\ stage' \in [Sources -> {"idle", "detect", "flush"}]
    BY <2>1 DEF InWindow
  <2> QED
    BY <2>1, <2>2, WindowStays
<1>7. CASE UNCHANGED vars
  <2>1. /\ stage' = stage /\ clock' = clock /\ now' = now /\ watermark' = watermark
        /\ readings' = readings /\ obs' = obs /\ pending' = pending
    BY <1>7 DEF vars, state
  <2> QED
    BY <2>1 DEF InWindow, Clock
<1> QED
  BY <1>1, <1>2, <1>3, <1>4, <1>5, <1>6, <1>7 DEF Next

\* An event aggregates one window: every observation that gave it signals came
\* within its window, on the clock configured, but for the last one, which the
\* flush after it closes the event on (Analysis.Process, Flush, expired).
THEOREM WindowHolds == Spec => []EventsKeepTheirWindow
<1>1. InWindow => EventsKeepTheirWindow
  BY DEF InWindow, Timely, EventsKeepTheirWindow, First
<1> QED
  BY <1>1, InitWindow, WindowInvariance, PTL DEF Spec

-----------------------------------------------------------------------------
(* Sums over the maps of Correlator *)

LEMMA SumPick ==
    ASSUME NEW D, NEW f \in [D -> Nat], IsFiniteSet(D)
    PROVE  /\ SumFunction(f) \in Nat
           /\ \A x \in D : SumFunction(f) = f[x] + SumFunction(Without(f, {x}))
<1>1. ASSUME NEW x \in D
      PROVE  SumFunction(f) = f[x] + SumFunction(Without(f, {x}))
  <2>1. Without(f, {x}) = Less(f, {x})
    BY DEF Without, Less
  <2>2. SumFunction(f) = f[x] + SumFunction(Less(f, {x}))
    BY SumLess
  <2> QED
    BY <2>1, <2>2
<1> QED
  BY <1>1, SumLess

\* A map with the value of one key set, which it may or may not have had.
LEMMA SumAt ==
    ASSUME NEW D, IsFiniteSet(D), NEW f \in [D -> Nat], NEW x,
           NEW g \in [D \cup {x} -> Nat], \A y \in D \ {x} : g[y] = f[y]
    PROVE  SumFunction(g) + (IF x \in D THEN f[x] ELSE 0) = SumFunction(f) + g[x]
<1>1. IsFiniteSet(D \cup {x})
  BY FS_AddElement
<1>2. /\ SumFunction(g) \in Nat /\ SumFunction(f) \in Nat /\ g[x] \in Nat
      /\ SumFunction(g) = g[x] + SumFunction(Without(g, {x}))
  BY <1>1, SumPick
<1>3. Without(g, {x}) = [y \in D \ {x} |-> f[y]]
  BY DEF Without
<1>4. CASE x \in D
  <2>1. Without(f, {x}) = [y \in D \ {x} |-> f[y]]
    BY DEF Without
  <2>2. SumFunction(f) = f[x] + SumFunction(Without(f, {x})) /\ f[x] \in Nat
    BY <1>4, SumPick
  <2>3. Without(f, {x}) \in [D \ {x} -> Nat] /\ IsFiniteSet(D \ {x})
    BY <2>1, FS_RemoveElement
  <2>4. SumFunction(Without(f, {x})) \in Nat
    BY <2>3, SumPick
  <2> QED
    BY <1>2, <1>3, <1>4, <2>1, <2>2, <2>4
<1>5. CASE x \notin D
  <2>1. [y \in D \ {x} |-> f[y]] = f
    BY <1>5
  <2> QED
    BY <1>2, <1>3, <1>5, <2>1
<1> QED
  BY <1>4, <1>5

\* The sum of a map is the sum of two parts of it.
LEMMA SumSplit ==
    ASSUME NEW D, IsFiniteSet(D), NEW f \in [D -> Nat]
    PROVE  \A A \in SUBSET D :
             SumFunction(f) = SumFunction(Without(f, A)) + SumFunction(Restrict(f, A))
<1> DEFINE P == {A \in SUBSET D :
             SumFunction(f) = SumFunction(Without(f, A)) + SumFunction(Restrict(f, A))}
<1>1. ASSUME NEW A \in SUBSET D, \A x \in A : A \ {x} \in P PROVE A \in P
  <2>1. CASE A = {}
    <3>1. DOMAIN Restrict(f, A) = {} /\ Without(f, A) = f
      BY <2>1 DEF Restrict, Without
    <3>2. SumFunction(Restrict(f, A)) = 0 /\ SumFunction(f) \in Nat
      BY <3>1, SumNone, SumPick
    <3> QED
      BY <3>1, <3>2
  <2>2. CASE A # {}
    <3>1. PICK x \in A : TRUE
      BY <2>2
    <3> DEFINE B == A \ {x}
               g == Without(f, B)
               h == Restrict(f, A)
    <3>2. SumFunction(f) = SumFunction(g) + SumFunction(Restrict(f, B))
      BY <1>1, <3>1
    <3>3. g \in [D \ B -> Nat] /\ h \in [A -> Nat] /\ g[x] = f[x] /\ h[x] = f[x]
      BY <3>1 DEF Without, Restrict
    <3>4. IsFiniteSet(D \ B) /\ IsFiniteSet(A)
      BY FS_Subset
    <3>5. Without(g, {x}) = Without(f, A) /\ Without(h, {x}) = Restrict(f, B)
      BY <3>1 DEF Without, Restrict
    <3>6. /\ Without(f, A) \in [D \ A -> Nat] /\ IsFiniteSet(D \ A)
          /\ Restrict(f, B) \in [B -> Nat] /\ IsFiniteSet(B)
      BY FS_Subset DEF Without, Restrict
    <3> HIDE DEF g, h
    <3>7. SumFunction(g) = f[x] + SumFunction(Without(f, A))
      BY <3>1, <3>3, <3>4, <3>5, SumPick
    <3>8. SumFunction(h) = f[x] + SumFunction(Restrict(f, B))
      BY <3>1, <3>3, <3>4, <3>5, SumPick
    <3>9. SumFunction(Without(f, A)) \in Nat /\ SumFunction(Restrict(f, B)) \in Nat
      BY <3>6, SumPick
    <3>10. f[x] \in Nat
      BY <3>1
    <3> QED
      BY <3>2, <3>7, <3>8, <3>9, <3>10 DEF h
  <2> QED
    BY <2>1, <2>2
<1>2. \A A \in SUBSET D : A \in P
  <2>1. IsFiniteSet(D)
    OBVIOUS
  <2> HIDE DEF P
  <2> QED
    BY <1>1, <2>1, FiniteInduction
<1> QED
  BY <1>2

\* Maps whose keys correspond have the same sum.
LEMMA SumImage ==
    ASSUME NEW D, IsFiniteSet(D), NEW g \in [D -> Nat], NEW b,
           \A x, y \in D : b[x] = b[y] => x = y,
           NEW f \in [{b[x] : x \in D} -> Nat], \A x \in D : f[b[x]] = g[x]
    PROVE  SumFunction(f) = SumFunction(g)
<1> DEFINE Image(A) == {b[x] : x \in A}
           P == {A \in SUBSET D :
                   /\ IsFiniteSet(Image(A))
                   /\ SumFunction(Restrict(f, Image(A))) = SumFunction(Restrict(g, A))}
<1>1. ASSUME NEW A \in SUBSET D, \A x \in A : A \ {x} \in P PROVE A \in P
  <2>1. CASE A = {}
    <3>1. /\ DOMAIN Restrict(f, Image(A)) = {} /\ DOMAIN Restrict(g, A) = {}
          /\ Image(A) = {}
      BY <2>1 DEF Restrict
    <3> QED
      BY <3>1, SumNone, FS_EmptySet
  <2>2. CASE A # {}
    <3>1. PICK x \in A : TRUE
      BY <2>2
    <3> DEFINE B == A \ {x}
               i == Restrict(f, Image(A))
               h == Restrict(g, A)
    <3>2. /\ SumFunction(Restrict(f, Image(B))) = SumFunction(Restrict(g, B))
          /\ IsFiniteSet(Image(B))
      BY <1>1, <3>1
    <3>3. /\ b[x] \in Image(A) /\ Image(B) = Image(A) \ {b[x]}
          /\ Image(A) \subseteq {b[y] : y \in D}
      BY <3>1
    <3>4. IsFiniteSet(A) /\ IsFiniteSet(Image(A))
      <4>1. IsFiniteSet(A)
        BY FS_Subset
      <4>2. Image(A) = Image(B) \cup {b[x]}
        BY <3>1
      <4> HIDE DEF Image, B
      <4>3. IsFiniteSet(Image(B) \cup {b[x]})
        BY <3>2, FS_AddElement
      <4>4. IsFiniteSet(Image(A))
        BY <4>2, <4>3, Zenon
      <4> QED
        BY <4>1, <4>4
    <3> HIDE DEF Image
    <3>5. /\ i \in [Image(A) -> Nat] /\ h \in [A -> Nat]
          /\ i[b[x]] = g[x] /\ h[x] = g[x]
      BY <3>1, <3>3 DEF Restrict
    <3>6. Without(i, {b[x]}) = Restrict(f, Image(B)) /\ Without(h, {x}) = Restrict(g, B)
      BY <3>1, <3>3 DEF Without, Restrict
    <3> HIDE DEF i, h
    <3>7. SumFunction(i) = g[x] + SumFunction(Restrict(f, Image(B)))
      <4>1. SumFunction(i) = i[b[x]] + SumFunction(Without(i, {b[x]}))
        BY <3>3, <3>4, <3>5, SumPick
      <4> QED
        BY <3>5, <3>6, <4>1
    <3>8. SumFunction(h) = g[x] + SumFunction(Restrict(g, B))
      BY <3>1, <3>4, <3>5, <3>6, SumPick
    <3>9. SumFunction(i) = SumFunction(h)
      BY <3>2, <3>7, <3>8
    <3> QED
      BY <3>4, <3>9 DEF h, i
  <2> QED
    BY <2>1, <2>2
<1>2. \A A \in SUBSET D : A \in P
  <2>1. IsFiniteSet(D)
    OBVIOUS
  <2> HIDE DEF P
  <2> QED
    BY <1>1, <2>1, FiniteInduction
<1>3. SumFunction(Restrict(f, Image(D))) = SumFunction(Restrict(g, D))
  BY <1>2
<1>4. Restrict(f, Image(D)) = f /\ Restrict(g, D) = g
  BY DEF Restrict
<1> QED
  BY <1>3, <1>4

LEMMA SumZero ==
    ASSUME NEW D, IsFiniteSet(D), NEW f \in [D -> Nat], \A x \in D : f[x] = 0
    PROVE  SumFunction(f) = 0
<1> DEFINE P == {A \in SUBSET D : SumFunction(Restrict(f, A)) = 0}
<1>1. ASSUME NEW A \in SUBSET D, \A x \in A : A \ {x} \in P PROVE A \in P
  <2>1. CASE A = {}
    <3>1. DOMAIN Restrict(f, A) = {}
      BY <2>1 DEF Restrict
    <3> QED
      BY <3>1, SumNone
  <2>2. CASE A # {}
    <3>1. PICK x \in A : TRUE
      BY <2>2
    <3> DEFINE h == Restrict(f, A)
    <3>2. h \in [A -> Nat] /\ IsFiniteSet(A) /\ h[x] = 0
          /\ Without(h, {x}) = Restrict(f, A \ {x})
      BY <3>1, FS_Subset DEF Restrict, Without
    <3>3. SumFunction(Restrict(f, A \ {x})) = 0
      BY <1>1, <3>1
    <3> HIDE DEF h
    <3>4. SumFunction(h) = 0 + 0
      BY <3>1, <3>2, <3>3, SumPick
    <3> QED
      BY <3>4 DEF h
  <2> QED
    BY <2>1, <2>2
<1>2. \A A \in SUBSET D : A \in P
  <2>1. IsFiniteSet(D)
    OBVIOUS
  <2> HIDE DEF P
  <2> QED
    BY <1>1, <2>1, FiniteInduction
<1>3. Restrict(f, D) = f
  BY DEF Restrict
<1> QED
  BY <1>2, <1>3

-----------------------------------------------------------------------------
(* What merge makes of signals *)

Keys == Sources \X {sig.key : sig \in Signals}
Entries == [signal : Signals, count : Nat \ {0}]
Aggregates == {agg \in UNION {[K -> Entries] : K \in SUBSET Keys} :
                 IsFiniteSet(DOMAIN agg)}

\* What the echo of source c holds.
Folded(c) == {agg \in Aggregates :
                \A k \in DOMAIN agg : ~agg[k].signal.asked /\ k[1] # c}

LEMMA Aggregate ==
    ASSUME NEW agg
    PROVE  agg \in Aggregates <=>
             /\ agg = [k \in DOMAIN agg |-> agg[k]]
             /\ IsFiniteSet(DOMAIN agg) /\ DOMAIN agg \subseteq Keys
             /\ \A k \in DOMAIN agg : agg[k] \in Entries
<1>1. ASSUME agg \in Aggregates
      PROVE  /\ agg = [k \in DOMAIN agg |-> agg[k]]
             /\ IsFiniteSet(DOMAIN agg) /\ DOMAIN agg \subseteq Keys
             /\ \A k \in DOMAIN agg : agg[k] \in Entries
  <2>1. PICK K \in SUBSET Keys : agg \in [K -> Entries]
    BY <1>1 DEF Aggregates
  <2>2. IsFiniteSet(DOMAIN agg)
    BY <1>1 DEF Aggregates
  <2> QED
    BY <2>1, <2>2
<1>2. ASSUME agg = [k \in DOMAIN agg |-> agg[k]], IsFiniteSet(DOMAIN agg),
             DOMAIN agg \subseteq Keys, \A k \in DOMAIN agg : agg[k] \in Entries
      PROVE  agg \in Aggregates
  <2>1. agg \in [DOMAIN agg -> Entries]
    BY <1>2
  <2>2. agg \in UNION {[K -> Entries] : K \in SUBSET Keys}
    BY <1>2, <2>1
  <2> QED
    BY <1>2, <2>2 DEF Aggregates
<1> QED
  BY <1>1, <1>2

LEMMA InstancesOf ==
    ASSUME NEW agg \in Aggregates
    PROVE  /\ Instances(agg) \in Nat
           /\ Instances(agg) = 0 <=> agg = <<>>
<1> DEFINE f == [k \in DOMAIN agg |-> agg[k].count]
<1>1. /\ agg = [k \in DOMAIN agg |-> agg[k]] /\ IsFiniteSet(DOMAIN agg)
      /\ \A k \in DOMAIN agg : agg[k].count \in Nat \ {0}
  BY Aggregate DEF Entries
<1>2. f \in [DOMAIN agg -> Nat]
  BY <1>1
<1>3. \A k \in DOMAIN agg : f[k] \in Nat \ {0}
  BY <1>1
<1>4. Instances(agg) = SumFunction(f)
  BY DEF Instances
<1>5. DOMAIN f = DOMAIN agg
  OBVIOUS
<1> HIDE DEF f
<1>6. SumFunction(f) \in Nat
  BY <1>1, <1>2, SumPick
<1>7. CASE DOMAIN agg = {}
  <2>1. SumFunction(f) = 0
    BY <1>5, <1>7, SumNone
  <2>2. agg = <<>>
    BY <1>1, <1>7
  <2> QED
    BY <1>4, <2>1, <2>2
<1>8. CASE DOMAIN agg # {}
  <2>1. PICK k \in DOMAIN agg : TRUE
    BY <1>8
  <2>2. SumFunction(f) = f[k] + SumFunction(Without(f, {k}))
    BY <1>1, <1>2, <2>1, SumPick
  <2>3. Without(f, {k}) \in [DOMAIN agg \ {k} -> Nat] /\ IsFiniteSet(DOMAIN agg \ {k})
    BY <1>1, <1>2, FS_RemoveElement DEF Without
  <2>4. SumFunction(Without(f, {k})) \in Nat
    BY <2>3, SumPick
  <2>5. SumFunction(f) # 0
    BY <1>3, <2>1, <2>2, <2>4
  <2>6. agg # <<>>
    BY <1>8
  <2> QED
    BY <1>4, <1>6, <2>5, <2>6
<1> QED
  BY <1>7, <1>8

LEMMA NoneMerged == <<>> \in Aggregates /\ Instances(<<>>) = 0
<1> DEFINE none == <<>>
<1>1. none = [k \in DOMAIN none |-> none[k]] /\ DOMAIN none = {}
  OBVIOUS
<1>2. IsFiniteSet({})
  BY FS_EmptySet
<1> HIDE DEF none
<1>3. none \in Aggregates
  BY <1>1, <1>2, Aggregate
<1> QED
  BY <1>3, InstancesOf DEF none

LEMMA MergeOne ==
    ASSUME NEW agg \in Aggregates, NEW s \in Sources, NEW sig \in Signals
    PROVE  LET merged == Merge(agg, <<s, sig.key>>, sig)
           IN /\ merged \in Aggregates
              /\ Instances(merged) = Instances(agg) + 1
              /\ \A k \in DOMAIN merged :
                    \/ k \in DOMAIN agg /\ merged[k].signal = agg[k].signal
                    \/ k = <<s, sig.key>> /\ merged[k].signal = sig
<1> DEFINE key == <<s, sig.key>>
           merged == Merge(agg, key, sig)
<1>1. /\ agg = [k \in DOMAIN agg |-> agg[k]] /\ IsFiniteSet(DOMAIN agg)
      /\ DOMAIN agg \subseteq Keys /\ \A k \in DOMAIN agg : agg[k] \in Entries
  BY Aggregate
<1>2. key \in Keys
  BY DEF Keys
<1> DEFINE entry == IF key \in DOMAIN agg
                    THEN [signal |-> IF sig.score > agg[key].signal.score THEN sig
                                     ELSE agg[key].signal,
                          count |-> agg[key].count + 1]
                    ELSE [signal |-> sig, count |-> 1]
           was == IF key \in DOMAIN agg THEN agg[key].count ELSE 0
<1>3. merged = With(agg, key, entry)
  <2>1. CASE key \in DOMAIN agg
    <3>1. merged = [agg EXCEPT ![key] = entry]
      BY <2>1 DEF Merge
    <3> HIDE DEF merged, entry, key
    <3>2. DOMAIN agg \cup {key} = DOMAIN agg
      BY <2>1
    <3> QED
      BY <1>1, <2>1, <3>1, <3>2 DEF With
  <2>2. CASE key \notin DOMAIN agg
    BY <2>2 DEF Merge
  <2> QED
    BY <2>1, <2>2
<1>4. /\ entry \in Entries /\ was \in Nat /\ entry.count = was + 1
      /\ \/ key \in DOMAIN agg /\ entry.signal = agg[key].signal
         \/ entry.signal = sig
  <2>1. CASE key \in DOMAIN agg
    <3>1. agg[key].count \in Nat \ {0} /\ agg[key].signal \in Signals
      BY <1>1, <2>1 DEF Entries
    <3> DEFINE n == agg[key].count
               old == agg[key].signal
               new == IF sig.score > old.score THEN sig ELSE old
    <3>2. entry = [signal |-> new, count |-> n + 1] /\ was = n
      BY <2>1
    <3>3. n + 1 \in Nat \ {0} /\ new \in Signals /\ (new = old \/ new = sig)
      BY <3>1
    <3> HIDE DEF n, new, entry, was
    <3> QED
      BY <2>1, <3>1, <3>2, <3>3 DEF Entries, n
  <2>2. CASE key \notin DOMAIN agg
    BY <2>2 DEF Entries
  <2> QED
    BY <2>1, <2>2
<1> HIDE DEF key, merged, entry
<1>5. /\ DOMAIN merged = DOMAIN agg \cup {key}
      /\ merged = [k \in DOMAIN merged |-> merged[k]]
      /\ merged[key] = entry
      /\ \A k \in DOMAIN agg \ {key} : merged[k] = agg[k]
  BY <1>3 DEF With
<1>6. merged \in Aggregates
  <2>1. IsFiniteSet(DOMAIN merged) /\ DOMAIN merged \subseteq Keys
    BY <1>1, <1>2, <1>5, FS_AddElement
  <2>2. \A k \in DOMAIN merged : merged[k] \in Entries
    BY <1>1, <1>4, <1>5
  <2> QED
    BY <1>5, <2>1, <2>2, Aggregate
<1>7. Instances(merged) = Instances(agg) + 1
  <2> DEFINE f == [k \in DOMAIN agg |-> agg[k].count]
             g == [k \in DOMAIN merged |-> merged[k].count]
  <2>1. f \in [DOMAIN agg -> Nat]
    BY <1>1 DEF Entries
  <2>2. g \in [DOMAIN agg \cup {key} -> Nat]
    BY <1>5, <1>6, Aggregate DEF Entries
  <2>3. /\ \A k \in DOMAIN agg \ {key} : g[k] = f[k]
        /\ g[key] = was + 1 /\ was = IF key \in DOMAIN agg THEN f[key] ELSE 0
    BY <1>4, <1>5 DEF key
  <2>4. Instances(merged) = SumFunction(g) /\ Instances(agg) = SumFunction(f)
    BY DEF Instances
  <2> HIDE DEF f, g, was
  <2>5. SumFunction(g) + was = SumFunction(f) + (was + 1)
    BY <1>1, <2>1, <2>2, <2>3, SumAt
  <2>6. SumFunction(g) \in Nat /\ SumFunction(f) \in Nat
    BY <1>6, <2>4, InstancesOf
  <2> QED
    BY <1>4, <2>4, <2>5, <2>6
<1>8. \A k \in DOMAIN merged :
         \/ k \in DOMAIN agg /\ merged[k].signal = agg[k].signal
         \/ k = key /\ merged[k].signal = sig
  BY <1>4, <1>5
<1> QED
  BY <1>6, <1>7, <1>8 DEF merged, key

\* The recursion of MergeAll, step by step.
LEMMA MergedAll ==
    ASSUME NEW agg \in Aggregates, NEW s \in Sources, NEW signals \in Seq(Signals), NEW kept
    PROVE  \E m : /\ m[0] = agg /\ m[Len(signals)] = MergeAll(agg, s, signals, kept)
                  /\ \A i \in 0..Len(signals) : m[i] \in Aggregates
                  /\ \A i \in 1..Len(signals) :
                       m[i] = IF signals[i].asked \in kept
                              THEN Merge(m[i - 1], <<s, signals[i].key>>, signals[i])
                              ELSE m[i - 1]
<1> DEFINE N == Len(signals)
           S == [i \in 0..N |-> Aggregates]
           D == [p \in Aggregates \X (1..N) |->
                   IF signals[p[2]].asked \in kept
                   THEN Merge(p[1], <<s, signals[p[2]].key>>, signals[p[2]]) ELSE p[1]]
           Merges(m) == m = [i \in 0..N |->
                   IF i = 0 THEN agg
                   ELSE IF signals[i].asked \in kept
                   THEN Merge(m[i - 1], <<s, signals[i].key>>, signals[i])
                   ELSE m[i - 1]]
<1>1. N \in Nat /\ 0 \in 0..N /\ \A i \in 1..N : signals[i] \in Signals
  OBVIOUS
<1>2. ASSUME NEW i \in 1..N, NEW a \in Aggregates
      PROVE  /\ D[<<a, i>>] = IF signals[i].asked \in kept
                              THEN Merge(a, <<s, signals[i].key>>, signals[i]) ELSE a
             /\ D[<<a, i>>] \in Aggregates
  <2>1. D[<<a, i>>] = IF signals[i].asked \in kept
                      THEN Merge(a, <<s, signals[i].key>>, signals[i]) ELSE a
    OBVIOUS
  <2>2. Merge(a, <<s, signals[i].key>>, signals[i]) \in Aggregates
    BY <1>1, MergeOne
  <2> HIDE DEF D
  <2> QED
    BY <2>1, <2>2
<1> HIDE DEF D, N
<1>3. PICK f : Solves(f, N, agg, D) /\ \A i \in 0..N : f[i] \in S[i]
  <2>1. agg \in S[0] /\ \A i \in 1..N : \A v \in S[i - 1] : D[<<v, i>>] \in S[i]
    <3>1. \A i \in 0..N : S[i] = Aggregates
      OBVIOUS
    <3>2. \A i \in 1..N : i \in 0..N /\ i - 1 \in 0..N
      BY <1>1
    <3> HIDE DEF S
    <3> QED
      BY <1>1, <1>2, <3>1, <3>2
  <2> HIDE DEF S
  <2> QED
    BY <1>1, <2>1, Recursion
<1>4. \A i \in 0..N : f[i] \in Aggregates
  BY <1>3
<1>5. f = [i \in 0..N |-> IF i = 0 THEN agg ELSE D[<<f[i - 1], i>>]]
  BY <1>3 DEF Solves
<1>6. Merges(f)
  <2>1. ASSUME NEW i \in 0..N
        PROVE  f[i] = IF i = 0 THEN agg
                      ELSE IF signals[i].asked \in kept
                      THEN Merge(f[i - 1], <<s, signals[i].key>>, signals[i])
                      ELSE f[i - 1]
    <3>1. CASE i = 0
      BY <1>5, <3>1
    <3>2. CASE i # 0
      <4>1. i \in 1..N /\ i - 1 \in 0..N
        BY <1>1, <3>2
      <4>2. f[i - 1] \in Aggregates /\ f[i] = D[<<f[i - 1], i>>]
        BY <1>4, <1>5, <3>2, <4>1
      <4> QED
        BY <1>2, <3>2, <4>1, <4>2
    <3> QED
      BY <3>1, <3>2
  <2>2. f = [i \in 0..N |-> f[i]]
    BY <1>5
  <2> QED
    BY <2>1, <2>2, Zenon
<1> DEFINE m == CHOOSE m : Merges(m)
<1>7. Merges(m)
  BY <1>6, Zenon
<1>8. m[N] = MergeAll(agg, s, signals, kept)
  BY Zenon DEF MergeAll, N
<1> HIDE DEF m
<1>9. /\ m[0] = agg
      /\ \A i \in 1..N : m[i] = IF signals[i].asked \in kept
                                THEN Merge(m[i - 1], <<s, signals[i].key>>, signals[i])
                                ELSE m[i - 1]
  <2>1. \A i \in 0..N : m[i] = IF i = 0 THEN agg
                               ELSE IF signals[i].asked \in kept
                               THEN Merge(m[i - 1], <<s, signals[i].key>>, signals[i])
                               ELSE m[i - 1]
    BY <1>7, Zenon
  <2>2. \A i \in 1..N : i \in 0..N /\ i # 0
    OBVIOUS
  <2> QED
    BY <1>1, <2>1, <2>2
<1>10. \A i \in 0..N : m[i] \in Aggregates
  <2> DEFINE T == {i \in 0..N : m[i] \in Aggregates}
  <2>1. 0 \in T
    BY <1>1, <1>9
  <2>2. ASSUME NEW i \in 1..N, i - 1 \in T PROVE i \in T
    <3>1. Merge(m[i - 1], <<s, signals[i].key>>, signals[i]) \in Aggregates
      BY <1>1, <2>2, MergeOne
    <3>2. i \in 0..N
      BY <1>1
    <3> QED
      BY <1>9, <2>2, <3>1, <3>2
  <2>3. 0..N \subseteq T
    <3> HIDE DEF T
    <3> QED
      BY <1>1, <2>1, <2>2, Induction
  <2> QED
    BY <2>3
<1> QED
  BY <1>8, <1>9, <1>10 DEF N

\* How many of the signals are in the share.
Share(signals, kept, i) == {j \in 1..i : signals[j].asked \in kept}

LEMMA MergeCounts ==
    ASSUME NEW agg \in Aggregates, NEW s \in Sources, NEW signals \in Seq(Signals), NEW kept
    PROVE  /\ MergeAll(agg, s, signals, kept) \in Aggregates
           /\ Instances(MergeAll(agg, s, signals, kept))
                = Instances(agg) + Cardinality(Share(signals, kept, Len(signals)))
<1>0. PICK m : /\ m[0] = agg /\ m[Len(signals)] = MergeAll(agg, s, signals, kept)
               /\ \A i \in 0..Len(signals) : m[i] \in Aggregates
               /\ \A i \in 1..Len(signals) :
                    m[i] = IF signals[i].asked \in kept
                           THEN Merge(m[i - 1], <<s, signals[i].key>>, signals[i])
                           ELSE m[i - 1]
  BY MergedAll, Z3
<1> DEFINE N == Len(signals)
<1>1. N \in Nat /\ \A i \in 1..N : signals[i] \in Signals
  OBVIOUS
<1>2. /\ m[0] = agg /\ m[N] = MergeAll(agg, s, signals, kept)
      /\ \A i \in 0..N : m[i] \in Aggregates
      /\ \A i \in 1..N :
           m[i] = IF signals[i].asked \in kept
                  THEN Merge(m[i - 1], <<s, signals[i].key>>, signals[i])
                  ELSE m[i - 1]
  BY <1>0, Zenon
<1> HIDE DEF N
<1>3. \A i \in 0..N : IsFiniteSet(Share(signals, kept, i))
                      /\ Cardinality(Share(signals, kept, i)) \in Nat
  <2> TAKE i \in 0..N
  <2>1. IsFiniteSet(1..i) /\ Share(signals, kept, i) \subseteq 1..i
    BY <1>1, FS_Interval DEF Share
  <2> QED
    BY <2>1, FS_Subset, FS_CardinalityType
<1> DEFINE T == {i \in 0..N :
                   Instances(m[i]) = Instances(agg) + Cardinality(Share(signals, kept, i))}
<1>4. 0 \in T
  <2>1. Share(signals, kept, 0) = {}
    BY DEF Share
  <2>2. Cardinality({}) = 0
    BY FS_EmptySet
  <2>3. Instances(agg) \in Nat /\ 0 \in 0..N
    BY <1>1, InstancesOf
  <2>4. Instances(m[0]) = Instances(agg) + 0
    BY <1>2, <2>3
  <2>5. Cardinality(Share(signals, kept, 0)) = 0
    BY <2>1, <2>2
  <2> QED
    BY <2>3, <2>4, <2>5
<1>5. ASSUME NEW i \in 1..N, i - 1 \in T PROVE i \in T
  <2>1. /\ i \in 0..N /\ i - 1 \in 0..N /\ i \in Nat /\ m[i - 1] \in Aggregates
        /\ Instances(agg) \in Nat /\ i \notin 1 .. i - 1
    BY <1>1, <1>2, InstancesOf
  <2>2. CASE signals[i].asked \in kept
    <3>1. Share(signals, kept, i) = Share(signals, kept, i - 1) \cup {i}
      BY <2>1, <2>2 DEF Share
    <3>2. i \notin Share(signals, kept, i - 1)
      BY <2>1 DEF Share
    <3>3. Cardinality(Share(signals, kept, i))
            = Cardinality(Share(signals, kept, i - 1)) + 1
      BY <1>3, <2>1, <3>1, <3>2, FS_AddElement
    <3>4. Instances(m[i]) = Instances(m[i - 1]) + 1
      <4>1. m[i] = Merge(m[i - 1], <<s, signals[i].key>>, signals[i])
        BY <1>2, <2>2
      <4>2. signals[i] \in Signals
        BY <1>1
      <4> QED
        BY <2>1, <4>1, <4>2, MergeOne
    <3> QED
      BY <1>3, <1>5, <2>1, <3>3, <3>4
  <2>3. CASE signals[i].asked \notin kept
    <3>1. Share(signals, kept, i) = Share(signals, kept, i - 1)
      BY <2>1, <2>3 DEF Share
    <3>2. m[i] = m[i - 1]
      BY <1>2, <2>3
    <3> QED
      BY <1>5, <2>1, <3>1, <3>2
  <2> QED
    BY <2>2, <2>3
<1>6. N \in T
  <2> HIDE DEF T
  <2>1. 0..N \subseteq T
    BY <1>1, <1>4, <1>5, Induction
  <2> QED
    BY <1>1, <2>1
<1>7. m[N] \in Aggregates
  BY <1>1, <1>2
<1> QED
  BY <1>2, <1>6, <1>7 DEF N

\* A share that some signals are in counts for one at least, an empty one for none,
\* and what is asked for and what is not make up the whole.
LEMMA Shares ==
    ASSUME NEW signals \in Seq(Signals)
    PROVE  /\ \A kept : LET n == Cardinality(Share(signals, kept, Len(signals)))
                        IN n \in Nat /\ (n = 0 <=> ~Some(signals, kept))
           /\ Cardinality(Share(signals, BOOLEAN, Len(signals))) = Len(signals)
           /\ Cardinality(Share(signals, {TRUE}, Len(signals)))
                + Cardinality(Share(signals, {FALSE}, Len(signals))) = Len(signals)
<1> DEFINE N == Len(signals)
<1>1. /\ N \in Nat /\ DOMAIN signals = 1..N
      /\ \A i \in 1..N : signals[i].asked \in BOOLEAN
  BY CorrelatorAssumption
<1> HIDE DEF N
<1>2. IsFiniteSet(1..N) /\ Cardinality(1..N) = N
  BY <1>1, FS_Interval
<1>3. ASSUME NEW kept
      PROVE  /\ IsFiniteSet(Share(signals, kept, N))
             /\ Cardinality(Share(signals, kept, N)) \in Nat
             /\ Cardinality(Share(signals, kept, N)) = 0 <=> ~Some(signals, kept)
  <2>1. Share(signals, kept, N) \subseteq 1..N
    BY DEF Share
  <2>2. IsFiniteSet(Share(signals, kept, N))
    BY <1>2, <2>1, FS_Subset
  <2>3. Share(signals, kept, N) = {} <=> ~Some(signals, kept)
    BY <1>1 DEF Share, Some
  <2> QED
    BY <2>2, <2>3, FS_CardinalityType, FS_EmptySet
<1>4. Share(signals, BOOLEAN, N) = 1..N
  BY <1>1 DEF Share
<1>5. Cardinality(Share(signals, {TRUE}, N)) + Cardinality(Share(signals, {FALSE}, N)) = N
  <2>1. /\ Share(signals, {TRUE}, N) \cup Share(signals, {FALSE}, N) = 1..N
        /\ Share(signals, {TRUE}, N) \cap Share(signals, {FALSE}, N) = {}
    BY <1>1 DEF Share
  <2>2. Cardinality(1..N) = Cardinality(Share(signals, {TRUE}, N))
                             + Cardinality(Share(signals, {FALSE}, N))
    <3> DEFINE A == Share(signals, {TRUE}, N)
               B == Share(signals, {FALSE}, N)
    <3>1. /\ IsFiniteSet(A) /\ IsFiniteSet(B) /\ Cardinality({}) = 0
          /\ Cardinality(A) \in Nat /\ Cardinality(B) \in Nat
      BY <1>3, FS_EmptySet
    <3> HIDE DEF A, B
    <3>2. Cardinality(A \cup B) = Cardinality(A) + Cardinality(B) - Cardinality(A \cap B)
      BY <3>1, FS_Union
    <3>3. A \cup B = 1..N /\ A \cap B = {}
      BY <2>1 DEF A, B
    <3>4. Cardinality(1..N) = Cardinality(A) + Cardinality(B) - 0
      BY <3>1, <3>2, <3>3
    <3>5. Cardinality(A) + Cardinality(B) - 0 = Cardinality(A) + Cardinality(B)
      BY <3>1
    <3> QED
      BY <3>4, <3>5 DEF A, B
  <2> QED
    BY <1>2, <2>2
<1> QED
  BY <1>2, <1>3, <1>4, <1>5 DEF N

\* What is folded into the echo of another source stays what an echo may hold.
LEMMA MergeFolds ==
    ASSUME NEW c, NEW agg \in Folded(c), NEW s \in Sources \ {c},
           NEW signals \in Seq(Signals)
    PROVE  MergeAll(agg, s, signals, {FALSE}) \in Folded(c)
<1> DEFINE kept == {FALSE}
<1>0. PICK m : /\ m[0] = agg /\ m[Len(signals)] = MergeAll(agg, s, signals, kept)
               /\ \A i \in 0..Len(signals) : m[i] \in Aggregates
               /\ \A i \in 1..Len(signals) :
                    m[i] = IF signals[i].asked \in kept
                           THEN Merge(m[i - 1], <<s, signals[i].key>>, signals[i])
                           ELSE m[i - 1]
  <2>1. s \in Sources /\ agg \in Aggregates /\ signals \in Seq(Signals)
    BY DEF Folded
  <2> HIDE DEF kept
  <2> QED
    BY <2>1, MergedAll, Z3
<1> DEFINE N == Len(signals)
<1>1. N \in Nat /\ (\A i \in 1..N : signals[i] \in Signals) /\ agg \in Aggregates
  BY DEF Folded
<1>2. /\ m[0] = agg /\ m[N] = MergeAll(agg, s, signals, kept)
      /\ \A i \in 0..N : m[i] \in Aggregates
      /\ \A i \in 1..N :
           m[i] = IF signals[i].asked \in kept
                  THEN Merge(m[i - 1], <<s, signals[i].key>>, signals[i])
                  ELSE m[i - 1]
  BY <1>0, Zenon
<1>6. \A x : x \in kept <=> x = FALSE
  OBVIOUS
<1> HIDE DEF kept
<1> HIDE DEF N
<1> DEFINE U == {i \in 0..N : m[i] \in Folded(c)}
<1>3. 0 \in U
  BY <1>1, <1>2
<1>4. ASSUME NEW i \in 1..N, i - 1 \in U PROVE i \in U
  <2>1. i \in 0..N /\ m[i - 1] \in Folded(c) /\ m[i - 1] \in Aggregates /\ m[i] \in Aggregates
    BY <1>1, <1>2, <1>4
  <2>2. CASE signals[i].asked = FALSE
    <3>1. m[i] = Merge(m[i - 1], <<s, signals[i].key>>, signals[i])
      BY <1>2, <1>6, <2>2
    <3>2. \A k \in DOMAIN m[i] :
             \/ k \in DOMAIN m[i - 1] /\ m[i][k].signal = m[i - 1][k].signal
             \/ k = <<s, signals[i].key>> /\ m[i][k].signal = signals[i]
      BY <1>1, <2>1, <3>1, MergeOne
    <3>3. ASSUME NEW k \in DOMAIN m[i] PROVE ~m[i][k].signal.asked /\ k[1] # c
      <4>1. CASE k \in DOMAIN m[i - 1] /\ m[i][k].signal = m[i - 1][k].signal
        BY <2>1, <4>1 DEF Folded
      <4>2. CASE k = <<s, signals[i].key>> /\ m[i][k].signal = signals[i]
        BY <2>2, <4>2
      <4> QED
        BY <3>2, <4>1, <4>2
    <3> QED
      BY <2>1, <3>3 DEF Folded
  <2>3. CASE signals[i].asked # FALSE
    BY <1>2, <1>6, <2>1, <2>3
  <2> QED
    BY <2>2, <2>3
<1>5. N \in U
  <2> HIDE DEF U
  <2>1. 0..N \subseteq U
    BY <1>1, <1>3, <1>4, Induction
  <2> QED
    BY <1>1, <2>1
<1> QED
  BY <1>2, <1>5 DEF kept

-----------------------------------------------------------------------------
(* The events that are open *)

LEMMA ToldNat ==
    ASSUME NEW ev, IsFiniteSet(DOMAIN ev), \A x \in DOMAIN ev : ev[x].signals \in Aggregates
    PROVE  Told(ev) \in Nat
<1> DEFINE f == [x \in DOMAIN ev |-> Instances(ev[x].signals)]
<1>1. f \in [DOMAIN ev -> Nat]
  BY InstancesOf
<1>2. Told(ev) = SumFunction(f)
  BY DEF Told
<1> HIDE DEF f
<1> QED
  BY <1>1, <1>2, SumPick

LEMMA ToldSame ==
    ASSUME NEW ev, NEW other, DOMAIN other = DOMAIN ev,
           \A x \in DOMAIN ev : other[x].signals = ev[x].signals
    PROVE  Told(other) = Told(ev)
<1>1. [x \in DOMAIN other |-> Instances(other[x].signals)]
        = [x \in DOMAIN ev |-> Instances(ev[x].signals)]
  OBVIOUS
<1> QED
  BY <1>1 DEF Told

\* Two maps of events that differ at s.
DifferAt(ev, s, other) ==
    /\ IsFiniteSet(DOMAIN ev) /\ \A x \in DOMAIN ev : ev[x].signals \in Aggregates
    /\ DOMAIN other = DOMAIN ev \cup {s} /\ other[s].signals \in Aggregates
    /\ \A x \in DOMAIN ev \ {s} : other[x].signals = ev[x].signals

LEMMA ToldAt ==
    ASSUME NEW ev, NEW s, NEW other, DifferAt(ev, s, other)
    PROVE  /\ Told(ev) \in Nat /\ Told(other) \in Nat
           /\ s \in DOMAIN ev => Told(other) + Instances(ev[s].signals)
                                   = Told(ev) + Instances(other[s].signals)
           /\ s \notin DOMAIN ev => Told(other) = Told(ev) + Instances(other[s].signals)
<1> USE DEF DifferAt
<1> DEFINE f == [x \in DOMAIN ev |-> Instances(ev[x].signals)]
           g == [x \in DOMAIN other |-> Instances(other[x].signals)]
<1>1. f \in [DOMAIN ev -> Nat]
  BY InstancesOf
<1>2. \A x \in DOMAIN other : other[x].signals \in Aggregates
  OBVIOUS
<1>3. g \in [DOMAIN ev \cup {s} -> Nat]
  BY <1>2, InstancesOf
<1>4. /\ \A x \in DOMAIN ev \ {s} : g[x] = f[x]
      /\ g[s] = Instances(other[s].signals)
      /\ s \in DOMAIN ev => f[s] = Instances(ev[s].signals)
  OBVIOUS
<1>5. Told(ev) = SumFunction(f) /\ Told(other) = SumFunction(g)
  BY DEF Told
<1>6. IsFiniteSet(DOMAIN other)
  BY FS_AddElement
<1> HIDE DEF f, g
<1>7. SumFunction(g) + (IF s \in DOMAIN ev THEN f[s] ELSE 0) = SumFunction(f) + g[s]
  <2> DEFINE D == DOMAIN ev
  <2>1. f \in [D -> Nat] /\ g \in [D \cup {s} -> Nat] /\ IsFiniteSet(D)
        /\ \A x \in D \ {s} : g[x] = f[x]
    BY <1>1, <1>3, <1>4
  <2> HIDE DEF D
  <2>2. SumFunction(g) + (IF s \in D THEN f[s] ELSE 0) = SumFunction(f) + g[s]
    BY <2>1, SumAt, Z3
  <2> QED
    BY <2>2 DEF D
<1> QED
  <2>1. Told(ev) \in Nat /\ Told(other) \in Nat
    BY <1>2, <1>6, ToldNat
  <2>2. CASE s \in DOMAIN ev
    BY <1>4, <1>5, <1>7, <2>1, <2>2
  <2>3. CASE s \notin DOMAIN ev
    BY <1>4, <1>5, <1>7, <2>1, <2>3
  <2> QED
    BY <2>1, <2>2, <2>3

\* What the events taken out of a map told, and what those left in it tell.
LEMMA ToldSplit ==
    ASSUME NEW ev, IsFiniteSet(DOMAIN ev), NEW A \in SUBSET DOMAIN ev,
           \A x \in DOMAIN ev : ev[x].signals \in Aggregates
    PROVE  /\ Told(Without(ev, A)) \in Nat /\ Told(Restrict(ev, A)) \in Nat
           /\ Told(ev) = Told(Without(ev, A)) + Told(Restrict(ev, A))
<1> DEFINE f == [x \in DOMAIN ev |-> Instances(ev[x].signals)]
           left == Without(ev, A)
           gone == Restrict(ev, A)
<1>1. f \in [DOMAIN ev -> Nat]
  BY InstancesOf
<1>2. /\ DOMAIN left = DOMAIN ev \ A /\ \A x \in DOMAIN left : left[x] = ev[x]
      /\ DOMAIN gone = A /\ \A x \in A : gone[x] = ev[x]
  BY DEF Without, Restrict
<1> HIDE DEF left, gone
<1>3. Without(f, A) = [x \in DOMAIN left |-> Instances(left[x].signals)]
  BY <1>2 DEF Without
<1>4. Restrict(f, A) = [x \in DOMAIN gone |-> Instances(gone[x].signals)]
  BY <1>2 DEF Restrict
<1>5. Told(ev) = SumFunction(f)
  BY DEF Told
<1> HIDE DEF f
<1>6. SumFunction(f) = SumFunction(Without(f, A)) + SumFunction(Restrict(f, A))
  BY <1>1, SumSplit
<1>7. IsFiniteSet(DOMAIN left) /\ IsFiniteSet(DOMAIN gone)
  BY <1>2, FS_Subset
<1>8. Told(left) \in Nat /\ Told(gone) \in Nat
  BY <1>2, <1>7, ToldNat
<1>9. Told(left) = SumFunction(Without(f, A)) /\ Told(gone) = SumFunction(Restrict(f, A))
  BY <1>3, <1>4 DEF Told
<1> QED
  BY <1>5, <1>6, <1>8, <1>9 DEF left, gone

\* Events that are built one for each key tell what the keys held.
BuiltFrom(ev, b, built) ==
    /\ IsFiniteSet(DOMAIN ev) /\ \A x \in DOMAIN ev : ev[x].signals \in Aggregates
    /\ DOMAIN built = {b[x] : x \in DOMAIN ev}
    /\ \A x, y \in DOMAIN ev : b[x] = b[y] => x = y
    /\ \A x \in DOMAIN ev : built[b[x]].signals = ev[x].signals

LEMMA ToldBuilt ==
    ASSUME NEW ev, NEW b, NEW built, BuiltFrom(ev, b, built)
    PROVE  Told(built) = Told(ev)
<1> USE DEF BuiltFrom
<1> DEFINE f == [x \in DOMAIN ev |-> Instances(ev[x].signals)]
           g == [e \in DOMAIN built |-> Instances(built[e].signals)]
<1>1. f \in [DOMAIN ev -> Nat]
  BY InstancesOf
<1>2. g \in [{b[x] : x \in DOMAIN ev} -> Nat]
  BY InstancesOf
<1>3. \A x \in DOMAIN ev : g[b[x]] = f[x]
  OBVIOUS
<1>4. Told(ev) = SumFunction(f) /\ Told(built) = SumFunction(g)
  BY DEF Told
<1> HIDE DEF f, g
<1>5. SumFunction(g) = SumFunction(f)
  <2> DEFINE D == DOMAIN ev
  <2>1. /\ f \in [D -> Nat] /\ g \in [{b[x] : x \in D} -> Nat] /\ IsFiniteSet(D)
        /\ \A x \in D : g[b[x]] = f[x]
        /\ \A x, y \in D : b[x] = b[y] => x = y
    BY <1>1, <1>2, <1>3
  <2> HIDE DEF D
  <2> QED
    BY <2>1, SumImage
<1> QED
  BY <1>4, <1>5

\* What prune leaves of the changes tracked.
LEMMA LastOf ==
    ASSUME NEW S, NEW q \in Seq(S), NEW i \in 1 .. Len(q) + 1
    PROVE  LET r == SubSeq(q, i, Len(q))
           IN r \in Seq(S) /\ Len(r) = Len(q) - i + 1 /\ Range(r) \subseteq Range(q)
<1> DEFINE n == Len(q)
           r == SubSeq(q, i, n)
<1>1. /\ r \in Seq(S) /\ Len(r) = n - i + 1
      /\ \A j \in 1 .. n - i + 1 : r[j] = q[i + j - 1]
  OBVIOUS
<1>2. \A j \in 1 .. n - i + 1 : i + j - 1 \in 1..n /\ q[i + j - 1] \in S
  OBVIOUS
<1>3. n - i + 1 \in Nat
  OBVIOUS
<1> HIDE DEF r
<1>4. DOMAIN r = 1 .. n - i + 1 /\ DOMAIN q = 1..n
  BY <1>1, <1>3
<1>5. Range(r) \subseteq Range(q)
  BY <1>1, <1>2, <1>4 DEF Range
<1> QED
  BY <1>1, <1>5 DEF r

LEMMA PruneHolds ==
    ASSUME NEW tracked \in Seq(Time), NEW mark
    PROVE  LET left == Prune(tracked, mark)
           IN /\ left \in Seq(Time) /\ Len(left) <= MaxTrackedChanges
              /\ Range(left) \subseteq Range(tracked)
<1> DEFINE kept == {i \in DOMAIN tracked :
                      \E j \in 1..i : mark - tracked[j] <= ChangeHorizon}
           recent == SubSeq(tracked, Len(tracked) - Cardinality(kept) + 1, Len(tracked))
           left == SubSeq(recent, Greatest(0, Len(recent) - MaxTrackedChanges) + 1,
                          Len(recent))
<1>1. Cardinality(kept) \in 0..Len(tracked)
  <2>1. kept \subseteq 1..Len(tracked)
    OBVIOUS
  <2>2. IsFiniteSet(1..Len(tracked)) /\ Cardinality(1..Len(tracked)) = Len(tracked)
    <3> DEFINE n == Len(tracked)
    <3>1. n \in Nat
      OBVIOUS
    <3> HIDE DEF n, kept, recent, left
    <3>2. IsFiniteSet(1..n) /\ Cardinality(1..n) = n
      BY <3>1, FS_Interval
    <3> QED
      BY <3>2 DEF n
  <2> HIDE DEF kept
  <2> QED
    <3>1. Cardinality(kept) <= Cardinality(1..Len(tracked)) /\ IsFiniteSet(kept)
      BY <2>1, <2>2, FS_Subset
    <3>2. Cardinality(kept) \in Nat /\ Len(tracked) \in Nat
      BY <3>1, FS_CardinalityType
    <3> QED
      BY <2>2, <3>1, <3>2
<1> HIDE DEF kept
<1>2. Len(tracked) - Cardinality(kept) + 1 \in 1 .. Len(tracked) + 1
  BY <1>1
<1>3. recent \in Seq(Time) /\ Range(recent) \subseteq Range(tracked)
  BY <1>2, LastOf
<1> HIDE DEF recent
<1>4. Len(recent) \in Nat /\ MaxTrackedChanges \in Nat
  BY <1>3, CorrelatorAssumption
<1> DEFINE over == Greatest(0, Len(recent) - MaxTrackedChanges)
<1>5. over + 1 \in 1 .. Len(recent) + 1 /\ Len(recent) - (over + 1) + 1 <= MaxTrackedChanges
  BY <1>4 DEF Greatest
<1> HIDE DEF over
<1>6. LET r == SubSeq(recent, over + 1, Len(recent))
      IN /\ r \in Seq(Time) /\ Len(r) = Len(recent) - (over + 1) + 1
         /\ Range(r) \subseteq Range(recent)
  BY <1>3, <1>5, LastOf
<1>7. left \in Seq(Time) /\ Len(left) <= MaxTrackedChanges /\ Range(left) \subseteq Range(recent)
  BY <1>5, <1>6 DEF over
<1>8. left = Prune(tracked, mark)
  BY DEF Prune, recent, kept
<1> HIDE DEF left
<1> QED
  BY <1>3, <1>7, <1>8

-----------------------------------------------------------------------------
(* The second inductive invariant: where the signals are *)

Bounded ==
    /\ clock \in Clocks /\ {now, watermark} \subseteq Time /\ stopped \in BOOLEAN
    /\ \A s \in Sources : obs[s].n \in 0..MaxObs[clock][s]

Tracked ==
    /\ changes \in [Sources -> Seq(Time)] /\ declared \in [Sources -> SUBSET Time]
    /\ \A s \in Sources : /\ Range(changes[s]) \subseteq declared[s]
                          /\ Len(changes[s]) <= MaxTrackedChanges

Open(p) == /\ {"signals", "firstSignalAt"} \subseteq DOMAIN p
           /\ p.signals \in Aggregates \ {<<>>}
Echoing(e, c) ==
    /\ e \in [signals : Folded(c), changes : Seq(Time), firstSignalAt : Time \cup {-1},
              lastChangeAt : Time, lastReceivedAt : Time]
    /\ e.firstSignalAt = -1 <=> e.signals = <<>>

Held ==
    /\ DOMAIN pending \subseteq Sources /\ IsFiniteSet(DOMAIN pending)
    /\ DOMAIN echoes \subseteq Sources /\ IsFiniteSet(DOMAIN echoes)
    /\ \A s \in DOMAIN pending : Open(pending[s])
    /\ \A c \in DOMAIN echoes : Echoing(echoes[c], c)
    /\ stopped => /\ pending = <<>> /\ echoes = <<>>
                  /\ \A s \in Sources : stage[s] = "idle"

Balanced == /\ added \in Nat /\ reported \in Nat
            /\ added = reported + Told(pending) + Told(echoes)

Corroborated ==
    \A e \in out : e.severity = "critical" =>
        /\ e.kind = "anomaly"
        /\ \/ Asked(e.signals)
           \/ Logged(e.signals) /\ Measured(e.signals)
           \/ Logged(e.signals) /\ \E t \in declared[e.source] :
                                    t - e.at \in -ChangeHorizon .. Window

Ledger == Bounded /\ Tracked /\ Held /\ Balanced /\ Corroborated

LEMMA InitLedger ==
    ASSUME Init PROVE Ledger
<1>1. 0 \in Time /\ MaxTrackedChanges \in Nat
  BY CorrelatorAssumption DEF Time
<1>2. Bounded
  <2>1. ASSUME NEW s \in Sources PROVE obs[s].n \in 0..MaxObs[clock][s]
    <3>1. obs[s].n = 0 /\ clock \in Clocks
      BY DEF Init
    <3>2. MaxObs[clock][s] \in Nat
      BY <3>1, CorrelatorAssumption
    <3> QED
      BY <3>1, <3>2
  <2> QED
    BY <1>1, <2>1 DEF Init, Bounded
<1>3. Tracked
  <2>1. /\ changes = [s \in Sources |-> <<>>] /\ declared = [s \in Sources |-> {}]
    BY DEF Init
  <2>2. Range(<<>>) = {} /\ Len(<<>>) = 0 /\ <<>> \in Seq(Time)
    BY DEF Range
  <2> QED
    BY <1>1, <2>1, <2>2 DEF Tracked
<1>4. pending = <<>> /\ echoes = <<>> /\ DOMAIN pending = {} /\ DOMAIN echoes = {}
  BY DEF Init
<1>5. Held
  BY <1>4, FS_EmptySet DEF Held, Init
<1>6. Balanced
  <2>1. Told(<<>>) = 0
    <3> DEFINE f == [x \in DOMAIN <<>> |-> Instances(<<>>[x].signals)]
    <3>1. DOMAIN f = {}
      OBVIOUS
    <3>2. Told(<<>>) = SumFunction(f)
      BY DEF Told
    <3> HIDE DEF f
    <3> QED
      BY <3>1, <3>2, SumNone
  <2> QED
    BY <1>4, <2>1 DEF Init, Balanced
<1>7. Corroborated
  BY DEF Init, Corroborated
<1> QED
  BY <1>2, <1>3, <1>5, <1>6, <1>7 DEF Ledger

\* What the open events tell is a number.
LEMMA Sums ==
    ASSUME Held
    PROVE  /\ Told(pending) \in Nat /\ Told(echoes) \in Nat
           /\ \A s \in DOMAIN pending : pending[s].signals \in Aggregates
           /\ \A c \in DOMAIN echoes : echoes[c].signals \in Aggregates
<1>1. \A s \in DOMAIN pending : pending[s].signals \in Aggregates
  BY DEF Held, Open
<1>2. \A c \in DOMAIN echoes : echoes[c].signals \in Aggregates
  BY DEF Held, Echoing, Folded
<1> QED
  BY <1>1, <1>2, ToldNat DEF Held

\* A change opens the echo of its source, or extends it; no signal goes anywhere.
LEMMA OpenEchoHolds ==
    ASSUME Held, Bounded, NEW s \in Sources, NEW at \in Time
    PROVE  LET more == OpenEcho(s, at)
           IN /\ DOMAIN more \subseteq Sources /\ IsFiniteSet(DOMAIN more)
              /\ \A c \in DOMAIN more : Echoing(more[c], c)
              /\ Told(more) = Told(echoes)
<1> DEFINE more == OpenEcho(s, at)
<1>1. CASE EchoWindow = 0
  <2>1. more = echoes
    BY <1>1 DEF OpenEcho
  <2> QED
    BY <2>1 DEF Held
<1>2. CASE EchoWindow # 0
  <2> DEFINE echo == IF s \in DOMAIN echoes THEN echoes[s]
                     ELSE [signals |-> <<>>, changes |-> <<>>, firstSignalAt |-> -1]
             all == Append(echo.changes, at)
             last == SubSeq(all, Greatest(0, Len(all) - MaxTrackedChanges) + 1, Len(all))
             new == [signals |-> echo.signals, firstSignalAt |-> echo.firstSignalAt,
                     changes |-> last, lastChangeAt |-> at, lastReceivedAt |-> now]
  <2>1. more = With(echoes, s, new)
    BY <1>2 DEF OpenEcho
  <2>2. /\ echo.signals \in Folded(s) /\ echo.changes \in Seq(Time)
        /\ echo.firstSignalAt \in Time \cup {-1}
        /\ echo.firstSignalAt = -1 <=> echo.signals = <<>>
    <3>1. CASE s \in DOMAIN echoes
      BY <3>1 DEF Held, Echoing
    <3>2. CASE s \notin DOMAIN echoes
      <4>1. <<>> \in Folded(s) /\ <<>> \in Seq(Time)
        BY NoneMerged DEF Folded
      <4> QED
        BY <3>2, <4>1
    <3> QED
      BY <3>1, <3>2
  <2> HIDE DEF echo
  <2>3. all \in Seq(Time)
    BY <2>2
  <2> HIDE DEF all
  <2>4. last \in Seq(Time)
    <3>1. Len(all) \in Nat /\ MaxTrackedChanges \in Nat
      BY <2>3, CorrelatorAssumption
    <3>2. Greatest(0, Len(all) - MaxTrackedChanges) + 1 \in 1 .. Len(all) + 1
      BY <3>1 DEF Greatest
    <3> QED
      BY <2>3, <3>2, LastOf
  <2> HIDE DEF last
  <2>5. Echoing(new, s) /\ new.signals = echo.signals
    <3>1. now \in Time
      BY DEF Bounded
    <3> QED
      BY <2>2, <2>4, <3>1 DEF Echoing
  <2> HIDE DEF new, more
  <2>6. /\ DOMAIN more = DOMAIN echoes \cup {s} /\ more[s] = new
        /\ \A c \in DOMAIN echoes \ {s} : more[c] = echoes[c]
    BY <2>1 DEF With
  <2>7. /\ DOMAIN more \subseteq Sources /\ IsFiniteSet(DOMAIN more)
        /\ \A c \in DOMAIN more : Echoing(more[c], c)
    BY <2>5, <2>6, FS_AddElement DEF Held
  <2>8. Told(more) = Told(echoes)
    <3>1. new.signals \in Aggregates
      BY <2>2, <2>5 DEF Folded
    <3>2. /\ Told(echoes) \in Nat /\ Told(more) \in Nat
          /\ s \in DOMAIN echoes => Told(more) + Instances(echoes[s].signals)
                                      = Told(echoes) + Instances(new.signals)
          /\ s \notin DOMAIN echoes => Told(more) = Told(echoes) + Instances(new.signals)
      <4>1. DifferAt(echoes, s, more)
        BY <2>6, <3>1, Sums DEF Held, DifferAt
      <4>2. /\ Told(echoes) \in Nat /\ Told(more) \in Nat
            /\ s \in DOMAIN echoes => Told(more) + Instances(echoes[s].signals)
                                        = Told(echoes) + Instances(more[s].signals)
            /\ s \notin DOMAIN echoes => Told(more) = Told(echoes) + Instances(more[s].signals)
        BY <4>1, ToldAt
      <4> QED
        BY <2>6, <4>2
    <3>3. /\ Instances(new.signals) \in Nat
          /\ Instances(new.signals)
               = IF s \in DOMAIN echoes THEN Instances(echoes[s].signals) ELSE 0
      BY <2>5, <3>1, InstancesOf, NoneMerged DEF echo
    <3> QED
      BY <3>2, <3>3
  <2> QED
    BY <2>7, <2>8 DEF more
<1> QED
  BY <1>1, <1>2

LEMMA ObserveLedger ==
    ASSUME IInv, Ledger, NEW s \in Sources, NEW at \in Time, NEW isChange \in BOOLEAN,
           Observe(s, at, isChange)
    PROVE  Ledger'
<1>1. /\ ~stopped /\ obs[s].n < MaxObs[clock][s]
      /\ obs' = [obs EXCEPT ![s] = [n |-> obs[s].n + 1, at |-> at, change |-> isChange]]
      /\ watermark' = Greatest(watermark, at) /\ out' = {}
      /\ pending' = IF s \in DOMAIN pending /\ Len(pending[s].after) < ContextAfter
                    THEN [pending EXCEPT ![s].after = Append(@, obs[s].n + 1)]
                    ELSE pending
      /\ clock' = clock /\ now' = now /\ stopped' = stopped
      /\ added' = added /\ reported' = reported
  BY DEF Observe
<1>2. Bounded'
  <2>1. obs \in [Sources -> [n : Nat, at : Time, change : BOOLEAN]] /\ clock \in Clocks
    BY DEF IInv, Types, Ledger, Bounded
  <2>2. MaxObs[clock] \in [Sources -> Nat]
    BY <2>1, CorrelatorAssumption
  <2>3. ASSUME NEW t \in Sources PROVE obs'[t].n \in 0..MaxObs[clock][t]
    <3>1. MaxObs[clock][t] \in Nat /\ obs[t].n \in 0..MaxObs[clock][t]
      BY <2>2 DEF Ledger, Bounded
    <3>2. obs'[t].n = IF t = s THEN obs[s].n + 1 ELSE obs[t].n
      BY <1>1, <2>1
    <3> QED
      BY <1>1, <3>1, <3>2
  <2>4. watermark' \in Time
    BY <1>1 DEF Greatest, Ledger, Bounded
  <2> QED
    BY <1>1, <2>3, <2>4 DEF Ledger, Bounded
<1>3. /\ DOMAIN pending' = DOMAIN pending
      /\ \A t \in DOMAIN pending : /\ pending'[t].signals = pending[t].signals
                                   /\ Open(pending'[t])
  <2>1. \A t \in DOMAIN pending : Open(pending[t])
    BY DEF Ledger, Held
  <2>2. CASE pending' = pending
    BY <2>1, <2>2
  <2>3. CASE s \in DOMAIN pending
             /\ pending' = [pending EXCEPT ![s].after = Append(@, obs[s].n + 1)]
    <3>1. DOMAIN pending' = DOMAIN pending /\ \A t \in DOMAIN pending \ {s} :
                                                   pending'[t] = pending[t]
      BY <2>3
    <3> DEFINE p == pending[s]
               next == Append(p.after, obs[s].n + 1)
    <3>2. pending'[s] = [p EXCEPT !.after = next]
      BY <2>3
    <3>3. {"signals", "firstSignalAt"} \subseteq DOMAIN p
          /\ p.signals \in Aggregates \ {<<>>}
      BY <2>1, <2>3 DEF Open
    <3> HIDE DEF p, next
    <3>4. /\ DOMAIN pending'[s] = DOMAIN p
          /\ pending'[s].signals = p.signals
      BY <3>2, <3>3
    <3>5. Open(pending'[s]) /\ pending'[s].signals = pending[s].signals
      BY <3>3, <3>4 DEF Open, p
    <3> QED
      BY <2>1, <3>1, <3>5
  <2> QED
    BY <1>1, <2>2, <2>3
<1>4. Told(pending') = Told(pending)
  BY <1>3, ToldSame
<1>5. /\ DOMAIN echoes' \subseteq Sources /\ IsFiniteSet(DOMAIN echoes')
      /\ \A c \in DOMAIN echoes' : Echoing(echoes'[c], c)
      /\ Told(echoes') = Told(echoes)
  <2>1. CASE ~isChange
    <3>1. echoes' = echoes
      BY <2>1 DEF Observe
    <3> QED
      BY <3>1 DEF Ledger, Held
  <2>2. CASE isChange
    <3>1. echoes' = OpenEcho(s, at)
      BY <2>2 DEF Observe
    <3> QED
      BY <3>1, OpenEchoHolds DEF Ledger
  <2> QED
    BY <2>1, <2>2
<1>6. Held'
  BY <1>1, <1>3, <1>5 DEF Ledger, Held
<1>7. Balanced'
  BY <1>1, <1>4, <1>5 DEF Ledger, Balanced
<1>8. Tracked'
  <2>1. CASE ~isChange
    <3>1. changes' = changes /\ declared' = declared
      BY <2>1 DEF Observe
    <3> QED
      BY <3>1 DEF Ledger, Tracked
  <2>2. CASE isChange
    <3> DEFINE q == Append(changes[s], at)
               left == Prune(q, watermark')
    <3>1. /\ changes' = [changes EXCEPT ![s] = left]
          /\ declared' = [declared EXCEPT ![s] = @ \cup {at}]
      BY <2>2 DEF Observe
    <3>2. /\ changes \in [Sources -> Seq(Time)] /\ declared \in [Sources -> SUBSET Time]
          /\ changes[s] \in Seq(Time) /\ Range(changes[s]) \subseteq declared[s]
      BY DEF Ledger, Tracked
    <3>3. q \in Seq(Time) /\ Range(q) \subseteq declared[s] \cup {at}
      <4>1. /\ q \in Seq(Time) /\ DOMAIN q = 1 .. Len(changes[s]) + 1
            /\ \A i \in 1 .. Len(changes[s]) + 1 :
                 q[i] = IF i = Len(changes[s]) + 1 THEN at ELSE changes[s][i]
        BY <3>2
      <4>2. DOMAIN changes[s] = 1..Len(changes[s]) /\ Len(changes[s]) \in Nat
        BY <3>2
      <4> HIDE DEF q
      <4>3. ASSUME NEW i \in DOMAIN q PROVE q[i] \in declared[s] \cup {at}
        <5>1. CASE i = Len(changes[s]) + 1
          BY <4>1, <5>1
        <5>2. CASE i # Len(changes[s]) + 1
          <6>1. i \in DOMAIN changes[s] /\ q[i] = changes[s][i]
            BY <4>1, <4>2, <5>2
          <6> QED
            BY <3>2, <6>1 DEF Range
        <5> QED
          BY <5>1, <5>2
      <4> QED
        BY <4>1, <4>3 DEF Range
    <3> HIDE DEF q
    <3>4. left \in Seq(Time) /\ Len(left) <= MaxTrackedChanges
          /\ Range(left) \subseteq Range(q)
      BY <3>3, PruneHolds
    <3> HIDE DEF left
    <3>5. /\ changes' \in [Sources -> Seq(Time)] /\ declared' \in [Sources -> SUBSET Time]
          /\ changes'[s] = left /\ declared'[s] = declared[s] \cup {at}
          /\ \A t \in Sources \ {s} : changes'[t] = changes[t] /\ declared'[t] = declared[t]
      BY <3>1, <3>2, <3>4
    <3> QED
      BY <3>3, <3>4, <3>5 DEF Ledger, Tracked
  <2> QED
    BY <2>1, <2>2
<1>9. Corroborated'
  BY <1>1 DEF Corroborated
<1> QED
  BY <1>2, <1>6, <1>7, <1>8, <1>9 DEF Ledger

\* A signal goes into one event: that of its source, or the echo it is folded into.
LEMMA AddLedger ==
    ASSUME IInv, Ledger, NEW s \in Sources, NEW signals \in Seq(Signals), Add(s, signals)
    PROVE  Ledger'
<1> DEFINE N == Len(signals)
           at == obs[s].at
           count(kept) == Cardinality(Share(signals, kept, N))
<1>1. /\ stage[s] = "detect" /\ added' = added + N /\ out' = {}
      /\ clock' = clock /\ now' = now /\ watermark' = watermark /\ obs' = obs
      /\ stopped' = stopped /\ declared' = declared /\ reported' = reported
  BY DEF Add
<1>2. PICK tracked, fold, kept :
        /\ tracked = changes[s] \/ tracked = Prune(changes[s], watermark)
        /\ changes' = [changes EXCEPT ![s] = tracked]
        /\ fold = {} \/ \E c \in DOMAIN echoes \ {s} : fold = {c}
        /\ kept = IF fold = {} THEN BOOLEAN ELSE {TRUE}
        /\ echoes' = [c \in DOMAIN echoes |->
                        IF c \in fold /\ Some(signals, {FALSE})
                        THEN Fold(echoes[c], s, at, signals) ELSE echoes[c]]
        /\ pending' = IF Some(signals, kept)
                      THEN With(pending, s, Opened(s, at, signals, kept)) ELSE pending
  <2> DEFINE tracked == IF signals # <<>> /\ echoes # <<>> /\ EchoWindow > 0
                        THEN Prune(changes[s], watermark) ELSE changes[s]
             found == IF signals = <<>> THEN {} ELSE EchoFor(s, at, tracked)
             own(fold) == IF fold = {} THEN BOOLEAN ELSE {TRUE}
  <2>1. /\ changes' = [changes EXCEPT ![s] = tracked]
        /\ \E fold \in IF found = {} THEN {{}} ELSE {{c} : c \in found} :
             /\ echoes' = [c \in DOMAIN echoes |->
                             IF c \in fold /\ Some(signals, {FALSE})
                             THEN Fold(echoes[c], s, at, signals) ELSE echoes[c]]
             /\ pending' = IF Some(signals, own(fold))
                           THEN With(pending, s, Opened(s, at, signals, own(fold)))
                           ELSE pending
    BY Zenon DEF Add
  <2>2. found \subseteq DOMAIN echoes \ {s}
    BY DEF EchoFor, Covering
  <2> HIDE DEF tracked, found
  <2>3. PICK fold \in IF found = {} THEN {{}} ELSE {{c} : c \in found} :
             /\ echoes' = [c \in DOMAIN echoes |->
                             IF c \in fold /\ Some(signals, {FALSE})
                             THEN Fold(echoes[c], s, at, signals) ELSE echoes[c]]
             /\ pending' = IF Some(signals, own(fold))
                           THEN With(pending, s, Opened(s, at, signals, own(fold)))
                           ELSE pending
    BY <2>1
  <2>4. fold = {} \/ \E c \in DOMAIN echoes \ {s} : fold = {c}
    BY <2>2, <2>3
  <2>5. tracked = changes[s] \/ tracked = Prune(changes[s], watermark)
    BY DEF tracked
  <2> QED
    BY <2>1, <2>3, <2>4, <2>5, Zenon
<1>3. at \in Time /\ N \in Nat /\ ~stopped
  BY <1>1 DEF IInv, Types, Ledger, Held
<1>4. /\ count(kept) \in Nat /\ count({FALSE}) \in Nat
      /\ Some(signals, kept) <=> count(kept) # 0
      /\ Some(signals, {FALSE}) <=> count({FALSE}) # 0
      /\ fold = {} => count(kept) = N
      /\ fold # {} => count(kept) + count({FALSE}) = N
  BY <1>2, Shares
<1>5. Bounded'
  BY <1>1 DEF Ledger, Bounded
<1>6. Tracked'
  <2>1. /\ changes \in [Sources -> Seq(Time)] /\ changes[s] \in Seq(Time)
        /\ Range(changes[s]) \subseteq declared[s] /\ Len(changes[s]) <= MaxTrackedChanges
    BY DEF Ledger, Tracked
  <2>2. /\ tracked \in Seq(Time) /\ Range(tracked) \subseteq declared[s]
        /\ Len(tracked) <= MaxTrackedChanges
    BY <1>2, <2>1, PruneHolds
  <2> QED
    BY <1>1, <1>2, <2>1, <2>2 DEF Ledger, Tracked
<1>7. /\ \A c \in DOMAIN echoes : Echoing(echoes'[c], c)
      /\ DOMAIN echoes' = DOMAIN echoes
      /\ Told(echoes') = Told(echoes) + (IF fold = {} THEN 0 ELSE count({FALSE}))
  <2>1. \A c \in DOMAIN echoes : Echoing(echoes[c], c)
    BY DEF Ledger, Held
  <2>2. CASE fold = {} \/ ~Some(signals, {FALSE})
    <3>1. /\ DOMAIN echoes' = DOMAIN echoes
          /\ \A c \in DOMAIN echoes : echoes'[c] = echoes[c]
      BY <1>2, <2>2
    <3>2. Told(echoes') = Told(echoes) /\ Told(echoes) \in Nat
      BY <3>1, ToldSame, Sums DEF Ledger
    <3> QED
      BY <1>4, <2>1, <2>2, <3>1, <3>2
  <2>3. CASE fold # {} /\ Some(signals, {FALSE})
    <3>1. PICK c \in DOMAIN echoes \ {s} : fold = {c}
      BY <1>2, <2>3
    <3> DEFINE e == echoes[c]
               n == echoes'[c]
               merged == MergeAll(e.signals, s, signals, {FALSE})
               first == IF e.firstSignalAt = -1 \/ at < e.firstSignalAt
                        THEN at ELSE e.firstSignalAt
    <3>2. /\ DOMAIN echoes' = DOMAIN echoes /\ n = Fold(e, s, at, signals)
          /\ \A d \in DOMAIN echoes \ {c} : echoes'[d] = echoes[d]
      BY <1>2, <2>3, <3>1
    <3>3. n = [e EXCEPT !.firstSignalAt = first, !.signals = merged]
      BY <3>2 DEF Fold
    <3>4. /\ e.signals \in Folded(c) /\ e.signals \in Aggregates
          /\ e.firstSignalAt \in Time \cup {-1}
          /\ e = [signals |-> e.signals, changes |-> e.changes,
                  firstSignalAt |-> e.firstSignalAt,
                  lastChangeAt |-> e.lastChangeAt, lastReceivedAt |-> e.lastReceivedAt]
          /\ e.changes \in Seq(Time) /\ e.lastChangeAt \in Time /\ e.lastReceivedAt \in Time
      BY <2>1, <3>1 DEF Echoing, Folded
    <3>5. /\ merged \in Folded(c) /\ merged \in Aggregates
          /\ Instances(merged) = Instances(e.signals) + count({FALSE})
      BY <3>1, <3>4, MergeFolds, MergeCounts
    <3>6. merged # <<>> /\ Instances(e.signals) \in Nat
      BY <1>4, <2>3, <3>4, <3>5, InstancesOf
    <3>7. first \in Time /\ first # -1
      BY <1>3, <3>4 DEF Time
    <3> HIDE DEF e, n, merged, first
    <3>8. n = [signals |-> merged, changes |-> e.changes, firstSignalAt |-> first,
               lastChangeAt |-> e.lastChangeAt, lastReceivedAt |-> e.lastReceivedAt]
      <4> DEFINE old == e.signals
                 when == e.firstSignalAt
                 ch == e.changes
                 lc == e.lastChangeAt
                 lr == e.lastReceivedAt
      <4>1. e = [signals |-> old, changes |-> ch, firstSignalAt |-> when,
                 lastChangeAt |-> lc, lastReceivedAt |-> lr]
        BY <3>4
      <4> HIDE DEF old, when, ch, lc, lr
      <4>2. n = [signals |-> merged, changes |-> ch, firstSignalAt |-> first,
                 lastChangeAt |-> lc, lastReceivedAt |-> lr]
        BY <3>3, <4>1
      <4> QED
        BY <4>2 DEF ch, lc, lr
    <3>9. Echoing(n, c) /\ n.signals = merged
      BY <3>4, <3>5, <3>6, <3>7, <3>8 DEF Echoing
    <3>10. /\ Told(echoes) \in Nat /\ Told(echoes') \in Nat
           /\ Told(echoes') + Instances(e.signals) = Told(echoes) + Instances(merged)
      <4>1. /\ c \in DOMAIN echoes /\ echoes[c].signals = e.signals
            /\ DOMAIN echoes' = DOMAIN echoes \cup {c} /\ echoes'[c].signals = merged
        BY <3>1, <3>2, <3>9 DEF e, n
      <4>2. IsFiniteSet(DOMAIN echoes) /\ \A d \in DOMAIN echoes : echoes[d].signals \in Aggregates
        BY Sums DEF Ledger, Held
      <4> QED
        <5>1. DifferAt(echoes, c, echoes')
          BY <3>2, <3>5, <4>1, <4>2 DEF DifferAt
        <5> QED
          BY <4>1, <5>1, ToldAt
    <3>11. Told(echoes') = Told(echoes) + count({FALSE})
      <4> DEFINE told == Told(echoes')
                 before == Told(echoes)
                 x == Instances(e.signals)
                 y == Instances(merged)
                 more == count({FALSE})
      <4>1. /\ told \in Nat /\ before \in Nat /\ x \in Nat /\ more \in Nat
            /\ told + x = before + y /\ y = x + more
        BY <1>4, <3>5, <3>6, <3>10
      <4> HIDE DEF told, before, x, y, more
      <4>2. told = before + more
        BY <4>1
      <4> QED
        BY <4>2 DEF told, before, more
    <3>12. \A d \in DOMAIN echoes : Echoing(echoes'[d], d)
      BY <2>1, <3>2, <3>9 DEF n
    <3> QED
      BY <2>3, <3>2, <3>11, <3>12
  <2> QED
    BY <2>2, <2>3
<1>8. /\ DOMAIN pending' \subseteq Sources /\ IsFiniteSet(DOMAIN pending')
      /\ \A t \in DOMAIN pending' : Open(pending'[t])
      /\ Told(pending') = Told(pending) + count(kept)
  <2>1. /\ \A t \in DOMAIN pending : Open(pending[t])
        /\ DOMAIN pending \subseteq Sources /\ IsFiniteSet(DOMAIN pending)
    BY DEF Ledger, Held
  <2>2. CASE ~Some(signals, kept)
    <3>1. pending' = pending /\ Told(pending) \in Nat
      BY <1>2, <2>2, Sums DEF Ledger
    <3> QED
      BY <1>4, <2>1, <2>2, <3>1
  <2>3. CASE Some(signals, kept)
    <3> DEFINE p == Opened(s, at, signals, kept)
               was == IF s \in DOMAIN pending THEN pending[s].signals ELSE <<>>
               merged == MergeAll(was, s, signals, kept)
    <3>1. pending' = With(pending, s, p)
      BY <1>2, <2>3
    <3>2. was \in Aggregates
      BY <2>1, NoneMerged DEF Open
    <3>3. merged \in Aggregates /\ Instances(merged) = Instances(was) + count(kept)
      BY <3>2, MergeCounts
    <3>4. merged # <<>> /\ Instances(was) \in Nat
      BY <1>4, <2>3, <3>2, <3>3, InstancesOf
    <3>5. {"signals", "firstSignalAt"} \subseteq DOMAIN p /\ p.signals = merged
      <4>1. CASE s \in DOMAIN pending
        <5> DEFINE old == pending[s]
        <5>1. p = [old EXCEPT !.signals = merged]
          BY <4>1 DEF Opened
        <5>2. {"signals", "firstSignalAt"} \subseteq DOMAIN old
          BY <2>1, <4>1 DEF Open
        <5> HIDE DEF old, merged, p
        <5> QED
          BY <5>1, <5>2
      <4>2. CASE s \notin DOMAIN pending
        <5> DEFINE new == [firstReceivedAt |-> now, firstSignalAt |-> at,
                           signals |-> <<>>, after |-> <<>>,
                           before |-> RingLast(ring[s], ContextBefore)]
        <5>1. p = [new EXCEPT !.signals = merged]
          BY <4>2 DEF Opened
        <5> HIDE DEF merged, p
        <5> QED
          BY <5>1
      <4> QED
        BY <4>1, <4>2
    <3> HIDE DEF p, merged
    <3>6. Open(p)
      BY <3>3, <3>4, <3>5 DEF Open
    <3>7. /\ DOMAIN pending' = DOMAIN pending \cup {s} /\ pending'[s] = p
          /\ \A t \in DOMAIN pending \ {s} : pending'[t] = pending[t]
      BY <3>1 DEF With
    <3>8. /\ Told(pending) \in Nat /\ Told(pending') \in Nat
          /\ s \in DOMAIN pending => Told(pending') + Instances(pending[s].signals)
                                       = Told(pending) + Instances(merged)
          /\ s \notin DOMAIN pending => Told(pending') = Told(pending) + Instances(merged)
      <4>1. \A t \in DOMAIN pending : pending[t].signals \in Aggregates
        BY Sums DEF Ledger
      <4> QED
        <5>1. /\ pending'[s].signals \in Aggregates
              /\ \A t \in DOMAIN pending \ {s} : pending'[t].signals = pending[t].signals
          BY <3>3, <3>5, <3>7
        <5>2. /\ Told(pending) \in Nat /\ Told(pending') \in Nat
              /\ s \in DOMAIN pending => Told(pending') + Instances(pending[s].signals)
                                           = Told(pending) + Instances(pending'[s].signals)
              /\ s \notin DOMAIN pending =>
                   Told(pending') = Told(pending) + Instances(pending'[s].signals)
          <6>1. IsFiniteSet(DOMAIN pending) /\ DOMAIN pending' = DOMAIN pending \cup {s}
            BY <2>1, <3>7
          <6> QED
            <7>1. DifferAt(pending, s, pending')
              BY <4>1, <5>1, <6>1 DEF DifferAt
            <7> QED
              BY <7>1, ToldAt
        <5> QED
          BY <3>5, <3>7, <5>2
    <3>9. Instances(was) = IF s \in DOMAIN pending THEN Instances(pending[s].signals) ELSE 0
      BY NoneMerged
    <3> HIDE DEF was
    <3>10. Told(pending') = Told(pending) + count(kept)
      <4> DEFINE told == Told(pending')
                 before == Told(pending)
                 held == Instances(was)
                 all == Instances(merged)
                 more == count(kept)
      <4>1. /\ told \in Nat /\ before \in Nat /\ held \in Nat /\ more \in Nat
            /\ all = held + more
        BY <1>4, <3>3, <3>4, <3>8
      <4>2. told + held = before + all
        BY <3>8, <3>9, <4>1
      <4> HIDE DEF told, before, held, all, more
      <4>3. told = before + more
        BY <4>1, <4>2
      <4> QED
        BY <4>3 DEF told, before, more
    <3>11. DOMAIN pending' \subseteq Sources /\ IsFiniteSet(DOMAIN pending')
      BY <2>1, <3>7, FS_AddElement
    <3> QED
      BY <2>1, <3>6, <3>7, <3>10, <3>11
  <2> QED
    BY <2>2, <2>3
<1>9. Held'
  BY <1>1, <1>3, <1>7, <1>8 DEF Ledger, Held
<1>10. Balanced'
  <2>1. /\ added \in Nat /\ reported \in Nat /\ Told(pending) \in Nat /\ Told(echoes) \in Nat
        /\ added = reported + Told(pending) + Told(echoes)
    BY Sums DEF Ledger, Balanced
  <2> QED
    <3> DEFINE x == Told(pending)
               y == Told(echoes)
               a == count(kept)
               b == IF fold = {} THEN 0 ELSE count({FALSE})
    <3>1. /\ Told(pending') = x + a /\ Told(echoes') = y + b
          /\ x \in Nat /\ y \in Nat /\ a \in Nat /\ b \in Nat /\ added = reported + x + y
          /\ a + b = N
      BY <1>3, <1>4, <1>7, <1>8, <2>1
    <3> HIDE DEF x, y, a, b, N
    <3>2. added + N = reported + (x + a) + (y + b) /\ added + N \in Nat
      <4>1. reported \in Nat /\ N = a + b
        BY <2>1, <3>1
      <4>2. \A r, p, q, u, v \in Nat :
              r + p + q + (u + v) = r + (p + u) + (q + v) /\ r + p + q + (u + v) \in Nat
        OBVIOUS
      <4>3. /\ reported + x + y + (a + b) = reported + (x + a) + (y + b)
            /\ reported + x + y + (a + b) \in Nat
        BY <3>1, <4>1, <4>2, Zenon
      <4>4. added + N = reported + x + y + (a + b)
        BY <3>1, <4>1, Zenon
      <4> QED
        BY <4>3, <4>4, Zenon
    <3>3. added + N = reported + Told(pending') + Told(echoes')
      BY <3>1, <3>2
    <3> QED
      BY <1>1, <2>1, <3>2, <3>3 DEF Balanced
<1>11. Corroborated'
  BY <1>1 DEF Corroborated
<1> QED
  BY <1>5, <1>6, <1>9, <1>10, <1>11 DEF Ledger

\* A critical severity has one of three reasons.
LEMMA CriticalHas ==
    ASSUME NEW agg, NEW multimodal \in BOOLEAN, NEW near \in BOOLEAN,
           SeverityOf(agg, multimodal, near) = "critical"
    PROVE  multimodal \/ (near /\ Logged(agg)) \/ Asked(agg)
<1>1. ~Below(agg, 60) /\ ~Below(agg, 85)
  BY DEF SeverityOf
<1> QED
  BY <1>1 DEF SeverityOf

\* What a flush emits is what it takes away, and it is as severe as it may be.
LEMMA FlushHolds ==
    ASSUME IInv, Ledger, NEW force \in BOOLEAN, Flush(force)
    PROVE  /\ DOMAIN pending' \subseteq DOMAIN pending
           /\ \A s \in DOMAIN pending' : pending'[s] = pending[s]
           /\ DOMAIN echoes' \subseteq DOMAIN echoes
           /\ \A c \in DOMAIN echoes' : echoes'[c] = echoes[c]
           /\ force => pending' = <<>> /\ echoes' = <<>>
           /\ Balanced' /\ Corroborated'
<1> DEFINE due == {s \in DOMAIN pending : force \/ Expired(pending[s])}
           over == {s \in DOMAIN echoes : force \/ EchoExpired(echoes[s])}
           heard == {c \in over : echoes[c].signals # <<>>}
           own == {Build(s) : s \in due}
           echoed == {BuildEcho(c) : c \in heard}
           events == [e \in out' |-> e]
<1>1. /\ out' = own \cup echoed
      /\ pending' = Without(pending, due) /\ echoes' = Without(echoes, over)
      /\ reported' = reported + Told(events)
      /\ added' = added /\ declared' = declared
  BY DEF Flush
<1>2. /\ due \subseteq DOMAIN pending /\ over \subseteq DOMAIN echoes /\ heard \subseteq over
      /\ force => due = DOMAIN pending /\ over = DOMAIN echoes
      /\ \A c \in over \ heard : echoes[c].signals = <<>>
  OBVIOUS
<1> HIDE DEF due, over, heard
<1>3. /\ IsFiniteSet(DOMAIN pending) /\ IsFiniteSet(DOMAIN echoes)
      /\ DOMAIN pending \subseteq Sources
      /\ Told(pending) \in Nat /\ Told(echoes) \in Nat
      /\ \A s \in DOMAIN pending : pending[s].signals \in Aggregates
      /\ \A c \in DOMAIN echoes : Echoing(echoes[c], c)
      /\ \A c \in DOMAIN echoes : echoes[c].signals \in Aggregates
  BY Sums DEF Ledger, Held
<1>4. /\ DOMAIN pending' = DOMAIN pending \ due /\ DOMAIN echoes' = DOMAIN echoes \ over
      /\ \A s \in DOMAIN pending' : pending'[s] = pending[s]
      /\ \A c \in DOMAIN echoes' : echoes'[c] = echoes[c]
  BY <1>1 DEF Without
<1>5. force => pending' = <<>> /\ echoes' = <<>>
  <2> SUFFICES ASSUME force PROVE pending' = <<>> /\ echoes' = <<>>
    OBVIOUS
  <2>1. pending' = [x \in {} |-> pending[x]] /\ echoes' = [x \in {} |-> echoes[x]]
    BY <1>1, <1>2 DEF Without
  <2> QED
    BY <2>1
<1>6. \A s \in due : /\ Build(s).kind = "anomaly" /\ Build(s).source = s
                     /\ Build(s).signals = pending[s].signals
  BY DEF Build
<1>7. \A c \in heard : /\ BuildEcho(c).kind = "change_echo" /\ BuildEcho(c).source = c
                       /\ BuildEcho(c).signals = echoes[c].signals
  BY DEF BuildEcho
<1>8. own \cap echoed = {}
  <2> SUFFICES ASSUME NEW s \in due, NEW c \in heard, Build(s) = BuildEcho(c) PROVE FALSE
    OBVIOUS
  <2> QED
    BY <1>6, <1>7
<1>9. IsFiniteSet(own) /\ IsFiniteSet(echoed)
  <2>1. IsFiniteSet(due) /\ IsFiniteSet(heard)
    BY <1>2, <1>3, FS_Subset
  <2> DEFINE b == [s \in due |-> Build(s)]
             d == [c \in heard |-> BuildEcho(c)]
  <2>2. own = {b[s] : s \in due} /\ echoed = {d[c] : c \in heard}
    OBVIOUS
  <2> HIDE DEF b, d, own, echoed
  <2>3. IsFiniteSet({b[s] : s \in due}) /\ IsFiniteSet({d[c] : c \in heard})
    BY <2>1, FiniteImage
  <2> QED
    BY <2>2, <2>3
<1>10. Told(Restrict(events, own)) = Told(Restrict(pending, due))
  <2> DEFINE b == [s \in due |-> Build(s)]
             gone == Restrict(pending, due)
             built == Restrict(events, own)
  <2>1. /\ DOMAIN gone = due /\ \A s \in due : gone[s] = pending[s]
        /\ DOMAIN built = own /\ \A e \in own : built[e] = e
    BY <1>1 DEF Restrict
  <2>2. IsFiniteSet(DOMAIN gone) /\ \A s \in DOMAIN gone : gone[s].signals \in Aggregates
    BY <1>2, <1>3, <2>1, FS_Subset
  <2>3. DOMAIN built = {b[s] : s \in DOMAIN gone}
    BY <2>1
  <2>4. /\ \A s, t \in DOMAIN gone : b[s] = b[t] => s = t
        /\ \A s \in DOMAIN gone : built[b[s]].signals = gone[s].signals
    BY <1>6, <2>1
  <2>5. BuiltFrom(gone, b, built)
    BY <2>2, <2>3, <2>4 DEF BuiltFrom
  <2> HIDE DEF b, gone, built
  <2>6. Told(built) = Told(gone)
    BY <2>5, ToldBuilt
  <2> QED
    BY <2>6 DEF built, gone
<1>11. Told(Without(events, own)) = Told(Restrict(echoes, heard))
  <2> DEFINE b == [c \in heard |-> BuildEcho(c)]
             gone == Restrict(echoes, heard)
             built == Without(events, own)
  <2>1. /\ DOMAIN gone = heard /\ \A c \in heard : gone[c] = echoes[c]
        /\ DOMAIN built = echoed /\ \A e \in echoed : built[e] = e
    <3>1. out' \ own = echoed
      BY <1>1, <1>8
    <3> QED
      BY <1>1, <3>1 DEF Restrict, Without
  <2>2. IsFiniteSet(DOMAIN gone) /\ \A c \in DOMAIN gone : gone[c].signals \in Aggregates
    BY <1>2, <1>3, <2>1, FS_Subset
  <2>3. DOMAIN built = {b[c] : c \in DOMAIN gone}
    BY <2>1
  <2>4. /\ \A c, d \in DOMAIN gone : b[c] = b[d] => c = d
        /\ \A c \in DOMAIN gone : built[b[c]].signals = gone[c].signals
    BY <1>7, <2>1
  <2>5. BuiltFrom(gone, b, built)
    BY <2>2, <2>3, <2>4 DEF BuiltFrom
  <2> HIDE DEF b, gone, built
  <2>6. Told(built) = Told(gone)
    BY <2>5, ToldBuilt
  <2> QED
    BY <2>6 DEF built, gone
<1>12. /\ Told(Without(events, own)) \in Nat /\ Told(Restrict(events, own)) \in Nat
       /\ Told(events) = Told(Without(events, own)) + Told(Restrict(events, own))
  <2>1. ASSUME NEW e \in out' PROVE e.signals \in Aggregates
    <3>1. CASE e \in own
      BY <1>2, <1>3, <1>6, <3>1
    <3>2. CASE e \in echoed
      BY <1>2, <1>3, <1>7, <3>2
    <3> QED
      BY <1>1, <3>1, <3>2
  <2>2. DOMAIN events = out' /\ \A e \in out' : events[e] = e
    OBVIOUS
  <2>3. IsFiniteSet(out') /\ own \subseteq out'
    BY <1>1, <1>9, FS_Union
  <2> HIDE DEF events, own
  <2>4. /\ IsFiniteSet(DOMAIN events) /\ own \in SUBSET DOMAIN events
        /\ \A e \in DOMAIN events : events[e].signals \in Aggregates
    BY <2>1, <2>2, <2>3
  <2> QED
    BY <2>4, ToldSplit
<1>13. /\ Told(pending') \in Nat
       /\ Told(pending) = Told(pending') + Told(Restrict(pending, due))
  BY <1>1, <1>2, <1>3, ToldSplit
<1>14. /\ Told(echoes') \in Nat
       /\ Told(echoes) = Told(echoes') + Told(Restrict(echoes, heard))
  <2> DEFINE left == Without(echoes, heard)
             silent == over \ heard
  <2>1. Told(echoes) = Told(left) + Told(Restrict(echoes, heard))
    BY <1>2, <1>3, ToldSplit
  <2>2. /\ DOMAIN left = DOMAIN echoes \ heard
        /\ \A c \in DOMAIN left : left[c] = echoes[c]
    BY DEF Without
  <2>3. /\ IsFiniteSet(DOMAIN left) /\ silent \in SUBSET DOMAIN left
        /\ \A c \in DOMAIN left : left[c].signals \in Aggregates
    BY <1>2, <1>3, <2>2, FS_Subset
  <2>4. Without(left, silent) = echoes'
    <3>1. (DOMAIN echoes \ heard) \ silent = DOMAIN echoes \ over
      BY <1>2
    <3> QED
      BY <1>1, <2>2, <3>1 DEF Without
  <2>5. Told(Restrict(left, silent)) = 0
    <3> DEFINE f == [c \in silent |-> Instances(Restrict(left, silent)[c].signals)]
    <3>1. Told(Restrict(left, silent)) = SumFunction(f)
      BY DEF Told, Restrict
    <3>2. \A c \in silent : Restrict(left, silent)[c].signals = <<>>
      BY <1>2, <2>2, <2>3 DEF Restrict
    <3>3. \A c \in silent : Instances(Restrict(left, silent)[c].signals) = 0
      BY <3>2, NoneMerged
    <3>4. IsFiniteSet(silent)
      BY <2>3, FS_Subset
    <3>5. \A c \in silent : f[c] = 0
      BY <3>3
    <3>6. f \in [silent -> Nat]
      <4>1. \A c \in silent : f[c] \in Nat
        BY <3>5
      <4>2. f = [c \in silent |-> f[c]]
        OBVIOUS
      <4> HIDE DEF f
      <4> QED
        BY <4>1, <4>2
    <3> HIDE DEF f, silent, left
    <3>7. SumFunction(f) = 0
      BY <3>4, <3>5, <3>6, SumZero
    <3> QED
      BY <3>1, <3>7
  <2> HIDE DEF left, silent
  <2>6. /\ Told(Without(left, silent)) \in Nat /\ Told(Restrict(left, silent)) \in Nat
        /\ Told(left) = Told(Without(left, silent)) + Told(Restrict(left, silent))
    BY <2>3, ToldSplit
  <2>7. Told(Restrict(echoes, heard)) \in Nat
    BY <1>11, <1>12
  <2> QED
    BY <2>1, <2>4, <2>5, <2>6, <2>7
<1>15. Balanced'
  <2>1. added \in Nat /\ reported \in Nat /\ added = reported + Told(pending) + Told(echoes)
    BY DEF Ledger, Balanced
  <2> DEFINE a == Told(Restrict(pending, due))
             b == Told(Restrict(echoes, heard))
             x == Told(pending')
             y == Told(echoes')
  <2>2. /\ Told(events) = a + b /\ a \in Nat /\ b \in Nat /\ x \in Nat /\ y \in Nat
        /\ Told(pending) = x + a /\ Told(echoes) = y + b
    BY <1>10, <1>11, <1>12, <1>13, <1>14
  <2>3. added' = added /\ reported' = reported + Told(events)
    BY <1>1
  <2> HIDE DEF a, b, x, y, events
  <2>4. /\ added' \in Nat /\ reported' \in Nat /\ added' = reported' + x + y
    BY <2>1, <2>2, <2>3
  <2> QED
    BY <2>4 DEF Balanced, x, y
<1>16. Corroborated'
  <2> SUFFICES ASSUME NEW e \in out', e.severity = "critical"
               PROVE  /\ e.kind = "anomaly"
                      /\ \/ Asked(e.signals)
                         \/ Logged(e.signals) /\ Measured(e.signals)
                         \/ Logged(e.signals) /\ \E t \in declared'[e.source] :
                                                  t - e.at \in -ChangeHorizon .. Window
    BY DEF Corroborated
  <2>1. CASE e \in own
    <3>1. PICK s \in due : e = Build(s)
      BY <2>1
    <3> DEFINE p == pending[s]
               both == Logged(p.signals) /\ Measured(p.signals)
               near == Related(s, p) # {}
    <3>2. /\ e.kind = "anomaly" /\ e.source = s /\ e.at = p.firstSignalAt
          /\ e.signals = p.signals /\ e.severity = SeverityOf(p.signals, both, near)
      BY <3>1 DEF Build
    <3> HIDE DEF p
    <3>3. both \/ (near /\ Logged(p.signals)) \/ Asked(p.signals)
      <4>1. both \in BOOLEAN /\ near \in BOOLEAN
        BY DEF Logged, Measured, Carries
      <4> HIDE DEF both, near
      <4> QED
        BY <3>2, <4>1, CriticalHas
    <3>4. near => \E t \in declared'[s] : t - p.firstSignalAt \in -ChangeHorizon .. Window
      <4>1. Range(changes[s]) \subseteq declared'[s]
        BY <1>1, <1>2, <1>3, <3>1 DEF Ledger, Tracked
      <4> QED
        BY <4>1 DEF Related
    <3> QED
      BY <3>2, <3>3, <3>4
  <2>2. CASE e \in echoed
    <3>1. PICK c \in heard : e = BuildEcho(c)
      BY <2>2
    <3> DEFINE held == echoes[c].signals
    <3>2. e.severity = SeverityOf(held, FALSE, FALSE)
      BY <3>1 DEF BuildEcho
    <3> HIDE DEF held
    <3>3. Asked(held)
      BY <3>2, CriticalHas
    <3>4. \A k \in DOMAIN held : ~held[k].signal.asked
      BY <1>2, <1>3, <3>1 DEF Echoing, Folded, held
    <3> QED
      BY <3>3, <3>4 DEF Asked, Carries
  <2> QED
    BY <1>1, <2>1, <2>2
<1> QED
  BY <1>4, <1>5, <1>15, <1>16

LEMMA FlushLedger ==
    ASSUME IInv, Ledger, NEW force \in BOOLEAN, Flush(force),
           \/ ~stopped /\ stopped' = stopped
           \/ force /\ stopped' = TRUE /\ stage' = stage /\ \A s \in Sources : stage[s] = "idle"
    PROVE  Ledger'
<1>1. /\ DOMAIN pending' \subseteq DOMAIN pending
      /\ \A s \in DOMAIN pending' : pending'[s] = pending[s]
      /\ DOMAIN echoes' \subseteq DOMAIN echoes
      /\ \A c \in DOMAIN echoes' : echoes'[c] = echoes[c]
      /\ force => pending' = <<>> /\ echoes' = <<>>
      /\ Balanced' /\ Corroborated'
  BY FlushHolds
<1>2. /\ clock' = clock /\ now' = now /\ watermark' = watermark /\ obs' = obs
      /\ changes' = changes /\ declared' = declared
  BY DEF Flush
<1>3. Held'
  <2>1. IsFiniteSet(DOMAIN pending') /\ IsFiniteSet(DOMAIN echoes')
    BY <1>1, FS_Subset DEF Ledger, Held
  <2>2. /\ \A s \in DOMAIN pending' : Open(pending'[s])
        /\ \A c \in DOMAIN echoes' : Echoing(echoes'[c], c)
    BY <1>1 DEF Ledger, Held
  <2> QED
    BY <1>1, <2>1, <2>2 DEF Ledger, Held
<1>4. Bounded' /\ Tracked'
  <2>1. stopped' \in BOOLEAN
    <3>1. stopped \in BOOLEAN /\ (stopped' = stopped \/ stopped' = TRUE)
      BY DEF Ledger, Bounded
    <3> QED
      BY <3>1
  <2> QED
    BY <1>2, <2>1 DEF Ledger, Bounded, Tracked
<1> QED
  BY <1>1, <1>3, <1>4 DEF Ledger

LEMMA LedgerInvariance ==
    ASSUME IInv, Ledger, [Next]_vars
    PROVE  Ledger'
<1>1. ASSUME NEW s \in Sources, NEW at \in Stamps, NEW isChange \in BOOLEAN,
             Observe(s, at, isChange)
      PROVE  Ledger'
  <2>1. at \in Time
    BY DEF Stamps
  <2> QED
    BY <1>1, <2>1, ObserveLedger
<1>2. ASSUME NEW s \in Sources, NEW signals \in Detections(s), Add(s, signals)
      PROVE  Ledger'
  <2>1. PICK n \in 0..MaxSignals : signals \in [1..n -> Signals]
    BY DEF Detections
  <2>2. signals \in Seq(Signals)
    BY <2>1, CorrelatorAssumption
  <2> QED
    BY <1>2, <2>2, AddLedger
<1>3. ASSUME NEW s \in Sources, WorkerFlush(s)
      PROVE  Ledger'
  <2>1. stage[s] = "flush" /\ Flush(FALSE) /\ stopped' = stopped
    BY <1>3 DEF WorkerFlush
  <2>2. ~stopped
    BY <2>1 DEF Ledger, Held
  <2> QED
    BY <2>1, <2>2, FlushLedger
<1>4. ASSUME TickFlush PROVE Ledger'
  <2>1. ~stopped /\ Flush(FALSE) /\ stopped' = stopped
    BY <1>4 DEF TickFlush
  <2> QED
    BY <2>1, FlushLedger
<1>5. ASSUME FinalFlush PROVE Ledger'
  <2>1. /\ Flush(TRUE) /\ stopped' = TRUE /\ stage' = stage
        /\ \A s \in Sources : stage[s] = "idle"
    BY <1>5 DEF FinalFlush
  <2> QED
    BY <2>1, FlushLedger
<1>6. ASSUME Tick PROVE Ledger'
  <2>1. /\ now' = now + 1 /\ now < MaxTime /\ out' = {}
        /\ clock' = clock /\ watermark' = watermark /\ changes' = changes
        /\ pending' = pending /\ echoes' = echoes /\ stage' = stage /\ obs' = obs
        /\ stopped' = stopped /\ declared' = declared
        /\ added' = added /\ reported' = reported
    BY <1>6 DEF Tick
  <2>2. MaxTime \in Nat /\ now \in Time
    BY CorrelatorAssumption DEF Ledger, Bounded
  <2>3. now' \in Time
    BY <2>1, <2>2 DEF Time
  <2>4. Bounded' /\ Tracked'
    BY <2>1, <2>3 DEF Ledger, Bounded, Tracked
  <2>5. Held'
    BY <2>1 DEF Ledger, Held
  <2>6. Balanced' /\ Corroborated'
    BY <2>1 DEF Ledger, Balanced, Corroborated
  <2> QED
    BY <2>4, <2>5, <2>6 DEF Ledger
<1>7. CASE UNCHANGED vars
  <2>1. /\ now' = now /\ out' = out
        /\ clock' = clock /\ watermark' = watermark /\ changes' = changes
        /\ pending' = pending /\ echoes' = echoes /\ stage' = stage /\ obs' = obs
        /\ stopped' = stopped /\ declared' = declared
        /\ added' = added /\ reported' = reported
    BY <1>7 DEF vars, state
  <2>2. Bounded' /\ Tracked'
    BY <2>1 DEF Ledger, Bounded, Tracked
  <2>3. Held'
    BY <2>1 DEF Ledger, Held
  <2>4. Balanced' /\ Corroborated'
    BY <2>1 DEF Ledger, Balanced, Corroborated
  <2> QED
    BY <2>2, <2>3, <2>4 DEF Ledger
<1> QED
  BY <1>1, <1>2, <1>3, <1>4, <1>5, <1>6, <1>7 DEF Next

\* What the two inductive invariants say of the signals.
LEMMA LedgerTells ==
    ASSUME IInv, Ledger
    PROVE  SignalsAreTold
<1>1. TypeOK
  <2>1. \A s \in Sources : /\ stage[s] \in {"idle", "detect", "flush"}
                           /\ obs[s] \in [n : 0..MaxObs[clock][s], at : Time, change : BOOLEAN]
    <3>1. obs \in [Sources -> [n : Nat, at : Time, change : BOOLEAN]]
          /\ \A s \in Sources : obs[s].n \in 0..MaxObs[clock][s]
      BY DEF IInv, Types, Ledger, Bounded
    <3>2. ASSUME NEW s \in Sources PROVE obs[s] \in [n : 0..MaxObs[clock][s], at : Time, change : BOOLEAN]
      <4> DEFINE o == obs[s]
                 most == MaxObs[clock][s]
      <4>1. o \in [n : Nat, at : Time, change : BOOLEAN] /\ o.n \in 0..most
        BY <3>1
      <4> HIDE DEF o, most
      <4>2. o \in [n : 0..most, at : Time, change : BOOLEAN]
        BY <4>1
      <4> QED
        BY <4>2 DEF o, most
    <3> QED
      BY <3>2 DEF IInv, Types
  <2>2. \A s \in DOMAIN pending : DOMAIN pending[s].signals # {}
    <3>1. ASSUME NEW agg \in Aggregates, DOMAIN agg = {} PROVE agg = <<>>
      <4>1. agg = [k \in DOMAIN agg |-> agg[k]]
        BY DEF Aggregates
      <4>2. agg = [k \in {} |-> agg[k]]
        BY <3>1, <4>1
      <4> QED
        BY <4>2
    <3> QED
      BY <3>1 DEF Ledger, Held, Open
  <2>3. \A c \in DOMAIN echoes : echoes[c].firstSignalAt = -1 <=> echoes[c].signals = <<>>
    BY DEF Ledger, Held, Echoing
  <2>4. /\ clock \in Clocks /\ {now, watermark} \subseteq Time /\ stopped \in BOOLEAN
        /\ DOMAIN pending \subseteq Sources /\ DOMAIN echoes \subseteq Sources
        /\ added \in Nat /\ reported \in Nat
    BY DEF Ledger, Bounded, Held, Balanced
  <2>5. \A s \in Sources : /\ changes[s] \in Seq(Time)
                           /\ Range(changes[s]) \subseteq declared[s]
                           /\ Len(changes[s]) <= MaxTrackedChanges
    BY DEF Ledger, Tracked
  <2> QED
    BY <2>1, <2>2, <2>3, <2>4, <2>5 DEF TypeOK
<1>2. SignalsConserved
  BY DEF Ledger, Balanced, Held, SignalsConserved
<1>3. CriticalIsCorroborated
  <2>1. ASSUME NEW c \in DOMAIN echoes
        PROVE  /\ ~Asked(echoes[c].signals)
               /\ \A k \in DOMAIN echoes[c].signals : k[1] # c
    <3>1. echoes[c].signals \in Folded(c)
      BY DEF Ledger, Held, Echoing
    <3> QED
      BY <3>1 DEF Folded, Asked, Carries
  <2> QED
    BY <2>1 DEF Ledger, Corroborated, CriticalIsCorroborated
<1> QED
  BY <1>1, <1>2, <1>3 DEF SignalsAreTold

\* Every signal given to Add is told once, in an event emitted or still open, and no
\* event is critical on statistics alone (Add, Flush, merge, severityOf).
THEOREM SignalsHold == Spec => []SignalsAreTold
<1>1. Init => IInv /\ Ledger
  BY InitIInv, InitLedger
<1>2. IInv /\ Ledger /\ [Next]_vars => (IInv /\ Ledger)'
  BY Invariance, LedgerInvariance
<1>3. IInv /\ Ledger => SignalsAreTold
  BY LedgerTells
<1> QED
  BY <1>1, <1>2, <1>3, PTL DEF Spec
=============================================================================
