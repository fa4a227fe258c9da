--------------------------- MODULE WeakRingProofs ---------------------------
(***************************************************************************)
(* Proofs about WeakRing for every number of producers, every capacity of  *)
(* at least two and every word that the counters may wrap around in.       *)
(*                                                                         *)
(* The invariant has three layers.  What a thread or a store knows is      *)
(* closed: who has seen a store has seen all that came with it.  The last  *)
(* stores of the slots form the window of a ring without stale reads.  And *)
(* who holds a slot knows all that was done to it.                         *)
(***************************************************************************)
EXTENDS WeakRing, RingArithmetic, FiniteSetTheorems, SequenceTheorems

Last(s) == written[s][Len(written[s])]

-----------------------------------------------------------------------------
(* Knowledge. *)

ViewOK(v) ==
  /\ v \in View
  /\ start <= v.head /\ v.head <= head
  /\ v.done \subseteq accesses
  /\ \A s \in Slots : /\ v.seq[s] \in 1 .. Len(written[s])
                      /\ written[s][v.seq[s]].view.done \subseteq v.done

ViewsOK ==
  /\ \A t \in Threads : ViewOK(know[t])
  /\ \A s \in Slots : \A n \in 1 .. Len(written[s]) :
       ViewOK(written[s][n].view) /\ written[s][n].view.seq[s] = n

\* The stores to a seq grow, and none is more than a lap away from head.
StoresOK ==
  \A s \in Slots :
    /\ \A n \in 1 .. Len(written[s]) : /\ start <= written[s][n].pos
                                       /\ written[s][n].pos < head + Capacity
    /\ \A n, l \in 1 .. Len(written[s]) : n < l => written[s][n].pos < written[s][l].pos

-----------------------------------------------------------------------------
(* The window, as it is in memory. *)

WindowOK ==
  /\ start \in Starts
  /\ start <= tail /\ tail <= head /\ head <= tail + Capacity

FreeOK == \A k \in head .. tail + Capacity - 1 : Last(Slot(k)).pos = k

HeldOK ==
  \A k \in tail .. head - 1 :
    \/ Last(Slot(k)).pos = k
    \/ Last(Slot(k)).pos = k + 1 /\ data[Slot(k)] = k

Owns(p) == ppc[p] \in {"write", "publish"}

OwnersOK ==
  \A p \in Producers :
    Owns(p) => /\ tail <= phead[p] /\ phead[p] < head
               /\ Last(Slot(phead[p])).pos = phead[p]
               /\ ppc[p] = "publish" => data[Slot(phead[p])] = phead[p]

OneOwner ==
  \A p, q \in Producers : Owns(p) /\ Owns(q) /\ phead[p] = phead[q] => p = q

\* Who is about to claim has seen its slot free.
WaitersOK ==
  \A p \in Producers :
    /\ start <= phead[p] /\ phead[p] <= head
    /\ ppc[p] = "cas" =>
         written[Slot(phead[p])][know[p].seq[Slot(phead[p])]].pos = phead[p]

ConsumerOK ==
  /\ cpc \in {"read", "release"} => tail < head /\ Last(Slot(tail)).pos = tail + 1
  /\ cpc = "release" => crec = tail
  /\ Len(taken) = tail - start
  /\ \A k \in 1 .. Len(taken) : taken[k] = Position(k)

\* Every claimed position took a call, and every producer before its claim is in one.
Trying == {p \in Producers : ppc[p] \in {"slot", "cas", "reload"}}
CallsOK == IsFiniteSet(Trying) /\ head - start + Cardinality(Trying) <= calls

-----------------------------------------------------------------------------
(* Who holds a slot, and what it knows of it. *)

Holds(t, s) ==
  \/ t \in Producers /\ Owns(t) /\ s = Slot(phead[t])
  \/ t = Consumer /\ cpc \in {"read", "release"} /\ s = Slot(tail)

Touched(s) == AccessesOf({"w", "r"}, s)

HoldersKnow ==
  \A t \in Threads, s \in Slots :
    Holds(t, s) => know[t].seq[s] = Len(written[s]) /\ Touched(s) \subseteq know[t].done

\* What was done to a slot nobody holds left with its last store.
FreeSlotsTell ==
  \A s \in Slots :
    (\A t \in Threads : ~ Holds(t, s)) => Touched(s) \subseteq Last(s).view.done

Inv ==
  /\ TypeOK /\ ViewsOK /\ StoresOK
  /\ WindowOK /\ FreeOK /\ HeldOK /\ OwnersOK /\ OneOwner /\ WaitersOK /\ ConsumerOK /\ CallsOK
  /\ HoldersKnow /\ FreeSlotsTell

-----------------------------------------------------------------------------
(* Positions, slots and the counters that wrap. *)

LEMMA SlotIs == \A k \in Nat : Slot(k) = k % Capacity
<1>1. Capacity \in Nat \ {0} /\ Word \in Nat \ {0} /\ (Word % Capacity) = 0
  BY WeakRingAssumption
<1>. QED BY <1>1, ModOfMod DEF Slot

LEMMA SlotPeriodic ==
  \A a \in Nat : Slot(a) \in Slots /\ Slot(a + Capacity) = Slot(a)
<1>1. Capacity \in Nat \ {0}
  BY WeakRingAssumption
<1>2. \A a \in Nat : a + Capacity \in Nat
  BY <1>1
<1>. QED BY <1>1, <1>2, ModPeriodic, SlotIs DEF Slots

LEMMA WindowInjective ==
  ASSUME NEW t \in Nat,
         NEW j \in t .. t + Capacity - 1, NEW k \in t .. t + Capacity - 1, j # k
  PROVE  Slot(j) # Slot(k)
<1>1. Capacity \in Nat \ {0}
  BY WeakRingAssumption
<1>2. j \in Nat /\ k \in Nat /\ j < k + Capacity /\ k < j + Capacity
  BY <1>1
<1>3. CASE j < k
  BY <1>1, <1>2, <1>3, ModInjective, SlotIs
<1>4. CASE k < j
  BY <1>1, <1>2, <1>4, ModInjective, SlotIs
<1>. QED BY <1>2, <1>3, <1>4

LEMMA SlotCovered ==
  ASSUME NEW t \in Nat, NEW s \in Slots
  PROVE  \E k \in t .. t + Capacity - 1 : Slot(k) = s
<1>1. Capacity \in Nat \ {0} /\ s \in 0 .. Capacity - 1
  BY WeakRingAssumption DEF Slots
<1>2. PICK k \in t .. t + Capacity - 1 : (k % Capacity) = s
  BY <1>1, ModCovered
<1>3. k \in Nat
  BY <1>1
<1>4. Slot(k) = s
  BY <1>2, <1>3, SlotIs
<1>. QED BY <1>4

\* Of two counters less than half a word apart the program computes the difference.
LEMMA DiffIs ==
  ASSUME NEW a \in Nat, NEW b \in Nat,
         a - b < MaxPushes + Capacity, b - a < MaxPushes + Capacity
  PROVE  Diff(a, b) = a - b
<1>1. /\ Word \in Nat \ {0} /\ MaxPushes \in Nat /\ Capacity \in Nat
      /\ Word > 2 * (MaxPushes + Capacity)
  BY WeakRingAssumption
<1>2. Word \div 2 >= MaxPushes + Capacity /\ 2 * (Word \div 2) <= Word /\ Word \div 2 \in Nat
  BY <1>1
<1>. DEFINE d == (a - b) % Word
<1>3. Diff(a, b) = IF d < Word \div 2 THEN d ELSE d - Word
  BY DEF Diff
<1>4. CASE a >= b
  <2>1. a - b \in 0 .. Word - 1 /\ a - b < Word \div 2
    BY <1>1, <1>2, <1>4
  <2>2. ((Word * 0 + (a - b)) % Word) = a - b
    BY <1>1, <2>1, Remainder
  <2>3. Word * 0 + (a - b) = a - b
    BY <1>1
  <2>4. d = a - b
    BY <2>2, <2>3
  <2>. HIDE DEF d
  <2>. QED BY <1>3, <2>1, <2>4
<1>5. CASE a < b
  <2>1. a - b + Word \in 0 .. Word - 1 /\ ~ (a - b + Word < Word \div 2)
    BY <1>1, <1>2, <1>5
  <2>2. ((Word * (-1) + (a - b + Word)) % Word) = a - b + Word
    BY <1>1, <2>1, Remainder
  <2>3. Word * (-1) + (a - b + Word) = a - b
    BY <1>1
  <2>4. d = a - b + Word
    BY <2>2, <2>3
  <2>. HIDE DEF d
  <2>5. Diff(a, b) = d - Word
    BY <1>3, <2>1, <2>4
  <2>. QED BY <1>1, <2>4, <2>5
<1>. QED BY <1>4, <1>5

LEMMA Numbers ==
  ASSUME Inv
  PROVE  /\ start \in Nat /\ tail \in Nat /\ head \in Nat /\ Capacity \in Nat /\ Capacity > 1
         /\ start <= tail /\ tail <= head /\ head <= tail + Capacity
         /\ MaxPushes \in Nat /\ head <= start + MaxPushes
         /\ Consumer \in Threads /\ Consumer \notin Producers /\ Producers \subseteq Threads
<1>1. Cardinality(Trying) \in Nat
  BY FS_CardinalityType DEF Inv, CallsOK
<1>2. calls \in 0 .. MaxPushes /\ head - start + Cardinality(Trying) <= calls
      /\ MaxPushes \in Nat /\ start \in Nat /\ head \in Nat
  BY WeakRingAssumption DEF Inv, CallsOK, TypeOK
<1>3. head <= start + MaxPushes
  BY <1>1, <1>2
<1>. QED BY <1>3, WeakRingAssumption DEF Inv, TypeOK, WindowOK, Threads

\* The stores of a slot, and which of them is the last.
LEMMA Stored ==
  ASSUME Inv, NEW s \in Slots
  PROVE  /\ Len(written[s]) \in Nat \ {0} /\ DOMAIN written[s] = 1 .. Len(written[s])
         /\ Len(written[s]) \in 1 .. Len(written[s])
         /\ \A n \in 1 .. Len(written[s]) :
              /\ written[s][n] \in [pos : Nat, view : View]
              /\ written[s][n].pos \in Nat
              /\ written[s][n].pos - start < MaxPushes + Capacity
              /\ start <= written[s][n].pos
              /\ written[s][n].pos <= Last(s).pos
              /\ written[s][n].pos = Last(s).pos => n = Len(written[s])
<1>1. written[s] \in Seq([pos : Nat, view : View])
  BY DEF Inv, TypeOK
<1>2. Consumer \in Threads
  BY Numbers
<1>3. know[Consumer].seq[s] \in 1 .. Len(written[s])
  BY <1>2 DEF Inv, TypeOK
<1>4. Len(written[s]) \in Nat \ {0} /\ DOMAIN written[s] = 1 .. Len(written[s])
  BY <1>1, <1>3, LenProperties
<1>5. Len(written[s]) \in 1 .. Len(written[s])
  BY <1>4
<1>6. \A n \in 1 .. Len(written[s]) : written[s][n] \in [pos : Nat, view : View]
  BY <1>1, ElementOfSeq
<1>7. \A n \in 1 .. Len(written[s]) : written[s][n].pos \in Nat
  BY <1>6
<1>8. \A n \in 1 .. Len(written[s]) :
        /\ start <= written[s][n].pos
        /\ written[s][n].pos < head + Capacity
  BY DEF Inv, StoresOK
<1>9. \A n \in 1 .. Len(written[s]) : written[s][n].pos - start < MaxPushes + Capacity
  <2>. TAKE n \in 1 .. Len(written[s])
  <2>1. PICK x \in Nat : x = written[s][n].pos
    BY <1>7
  <2>2. x < head + Capacity
    BY <1>8, <2>1
  <2>3. x - start < MaxPushes + Capacity
    BY <2>2, Numbers
  <2>. QED BY <2>1, <2>3
<1>10. \A n, l \in 1 .. Len(written[s]) : n < l => written[s][n].pos < written[s][l].pos
  BY DEF Inv, StoresOK
<1>11. ASSUME NEW n \in 1 .. Len(written[s])
       PROVE  /\ written[s][n].pos <= Last(s).pos
              /\ written[s][n].pos = Last(s).pos => n = Len(written[s])
  <2>1. n = Len(written[s]) \/ n < Len(written[s])
    BY <1>4
  <2>2. written[s][n].pos \in Nat /\ Last(s).pos \in Nat
    BY <1>5, <1>7 DEF Last
  <2>3. CASE n = Len(written[s])
    BY <2>2, <2>3 DEF Last
  <2>4. CASE n < Len(written[s])
    <3>1. written[s][n].pos < Last(s).pos
      BY <1>5, <1>10, <2>4 DEF Last
    <3>. QED BY <2>2, <3>1
  <2>. QED BY <2>1, <2>3, <2>4
<1>. QED BY <1>4, <1>5, <1>6, <1>7, <1>8, <1>9, <1>11

\* A position of the window is that of no other in its slot, and its slot's last
\* store tells how far it is.
LEMMA InWindow ==
  ASSUME Inv, NEW k \in tail .. tail + Capacity - 1
  PROVE  /\ k \in Nat /\ Slot(k) \in Slots
         /\ \A l \in tail .. tail + Capacity - 1 : Slot(l) = Slot(k) => l = k
         /\ Last(Slot(k)).pos \in {k, k + 1}
         /\ Last(Slot(k)).pos = k + 1 => k < head /\ data[Slot(k)] = k
<1>1. k \in Nat /\ tail \in Nat /\ head \in Nat /\ Capacity \in Nat
  BY Numbers
<1>2. \A l \in tail .. tail + Capacity - 1 : Slot(l) = Slot(k) => l = k
  BY <1>1, WindowInjective
<1>3. CASE k < head
  <2>1. k \in tail .. head - 1
    BY <1>1, <1>3
  <2>. QED BY <1>1, <1>2, <1>3, <2>1, SlotPeriodic DEF Inv, HeldOK
<1>4. CASE ~ (k < head)
  <2>1. k \in head .. tail + Capacity - 1
    BY <1>1, <1>4
  <2>2. Last(Slot(k)).pos = k
    BY <2>1 DEF Inv, FreeOK
  <2>3. k # k + 1
    BY <1>1
  <2>. QED BY <1>1, <1>2, <2>2, <2>3, SlotPeriodic
<1>. QED BY <1>3, <1>4

\* A slot has one holder.
LEMMA OneHolder ==
  ASSUME Inv, NEW t \in Threads, NEW u \in Threads, NEW s \in Slots, Holds(t, s), Holds(u, s)
  PROVE  t = u
<1>. USE DEF Inv
<1>1. ASSUME NEW p \in Producers, Owns(p)
      PROVE  phead[p] \in tail .. tail + Capacity - 1 /\ Last(Slot(phead[p])).pos = phead[p]
  <2>1. phead[p] \in Nat /\ tail <= phead[p] /\ phead[p] < head
        /\ Last(Slot(phead[p])).pos = phead[p]
    BY <1>1 DEF TypeOK, OwnersOK
  <2>. QED BY <2>1, Numbers
<1>2. ASSUME NEW p \in Producers, NEW q \in Producers, Owns(p), Owns(q),
             Slot(phead[p]) = Slot(phead[q])
      PROVE  p = q
  <2>1. phead[p] = phead[q]
    BY <1>1, <1>2, InWindow
  <2>. QED BY <1>2, <2>1 DEF OneOwner
<1>3. ASSUME NEW p \in Producers, Owns(p), cpc \in {"read", "release"}, Slot(phead[p]) = Slot(tail)
      PROVE  FALSE
  <2>1. tail \in tail .. tail + Capacity - 1 /\ tail \in Nat
    BY Numbers
  <2>2. phead[p] = tail
    BY <1>1, <1>3, <2>1, InWindow
  <2>3. Last(Slot(tail)).pos = tail + 1 /\ Last(Slot(tail)).pos = tail
    BY <1>1, <1>3, <2>2 DEF ConsumerOK
  <2>. QED BY <2>1, <2>3
<1>. QED BY <1>2, <1>3 DEF Holds

-----------------------------------------------------------------------------
(* What a load teaches, and what it leaves as it was. *)

LEMMA JoinFields ==
  ASSUME NEW v \in View, NEW w \in View
  PROVE  /\ Join(v, w) \in View
         /\ Join(v, w).head \in {v.head, w.head}
         /\ Join(v, w).done = v.done \cup w.done
         /\ \A s \in Slots : /\ Join(v, w).seq[s] \in {v.seq[s], w.seq[s]}
                             /\ v.seq[s] = w.seq[s] => Join(v, w).seq[s] = w.seq[s]
BY DEF Join, View, Later

\* An Acquire load of store n of a slot: all that was known when n was stored.
LEMMA AcquireOK ==
  ASSUME Inv, NEW v, ViewOK(v), NEW s \in Slots, NEW n \in v.seq[s] .. Len(written[s])
  PROVE  LET r == Acquire([v EXCEPT !.seq[s] = n], written[s][n].view)
         IN  ViewOK(r) /\ r.seq[s] = n
<1>. DEFINE w == written[s][n].view
            u == [v EXCEPT !.seq[s] = n]
            r == Join(u, w)
<1>1. v \in View /\ v.seq[s] \in 1 .. Len(written[s]) /\ n \in 1 .. Len(written[s]) /\ n \in Nat
  <2>1. v \in View /\ v.seq[s] \in 1 .. Len(written[s])
    BY DEF ViewOK
  <2>2. Len(written[s]) \in Nat
    BY Stored
  <2>. QED BY <2>1, <2>2
<1>2. ViewOK(w) /\ w.seq[s] = n
  BY <1>1 DEF Inv, ViewsOK
<1>3. /\ u \in View /\ u.head = v.head /\ u.done = v.done /\ u.seq[s] = n
      /\ \A x \in Slots : x # s => u.seq[x] = v.seq[x]
  BY <1>1 DEF View
<1>4. w \in View
  BY <1>2 DEF ViewOK
<1>. HIDE DEF u, w
<1>5. /\ r \in View /\ r.head \in {u.head, w.head} /\ r.done = u.done \cup w.done
      /\ \A x \in Slots : /\ r.seq[x] \in {u.seq[x], w.seq[x]}
                          /\ u.seq[x] = w.seq[x] => r.seq[x] = w.seq[x]
  BY <1>3, <1>4, JoinFields
<1>. HIDE DEF r
<1>6. r.seq[s] = n
  BY <1>2, <1>3, <1>5
<1>7. start <= r.head /\ r.head <= head /\ r.done \subseteq accesses
  BY <1>2, <1>3, <1>5 DEF ViewOK
<1>8. ASSUME NEW x \in Slots
      PROVE  r.seq[x] \in 1 .. Len(written[x]) /\ written[x][r.seq[x]].view.done \subseteq r.done
  <2>1. CASE r.seq[x] = w.seq[x]
    BY <1>2, <1>5, <2>1 DEF ViewOK
  <2>2. CASE r.seq[x] # w.seq[x]
    <3>1. x # s /\ r.seq[x] = v.seq[x]
      BY <1>2, <1>3, <1>5, <2>2
    <3>. QED BY <1>3, <1>5, <3>1 DEF ViewOK
  <2>. QED BY <2>1, <2>2
<1>9. ViewOK(r)
  BY <1>5, <1>7, <1>8 DEF ViewOK
<1>. QED BY <1>6, <1>9 DEF Acquire, r, u, w

\* A Relaxed load of head teaches how far head is and nothing else.
LEMMA HeadOK ==
  ASSUME Inv, NEW v, ViewOK(v), NEW h \in v.head .. head
  PROVE  /\ ViewOK([v EXCEPT !.head = h])
         /\ h \in Nat /\ start <= h /\ h <= head
<1>1. v \in View /\ start <= v.head /\ v.head \in Nat /\ head \in Nat /\ start \in Nat
  BY Numbers DEF ViewOK, View
<1>2. h \in Nat /\ start <= h /\ h <= head
  BY <1>1
<1>. DEFINE u == [v EXCEPT !.head = h]
<1>3. u \in View /\ u.head = h /\ u.seq = v.seq /\ u.done = v.done
  BY <1>1, <1>2 DEF View
<1>. HIDE DEF u
<1>4. ViewOK(u)
  BY <1>2, <1>3 DEF ViewOK
<1>. QED BY <1>2, <1>4 DEF u

LEMMA Known ==
  ASSUME Inv, NEW t \in Threads
  PROVE  ViewOK(know[t]) /\ know[t] \in View /\ t \in DOMAIN know
BY DEF Inv, ViewsOK, TypeOK

\* Steps that leave the memory alone, and of the threads change one in what it knows.
LEMMA MemoryStays ==
  ASSUME Inv, NEW t \in Threads, NEW v, ViewOK(v),
         UNCHANGED <<start, memVars>>, know' = [know EXCEPT ![t] = v]
  PROVE  /\ ViewsOK' /\ StoresOK'
         /\ know' \in [Threads -> View] /\ know'[t] = v
         /\ \A u \in Threads : u # t => know'[u] = know[u]
         /\ \A u \in Threads : /\ know'[u].head <= head' /\ know'[u].done \subseteq accesses'
                               /\ \A s \in Slots : know'[u].seq[s] \in 1 .. Len(written'[s])
         /\ \A s : Last(s)' = Last(s) /\ Touched(s)' = Touched(s)
<1>1. UNCHANGED <<start, head, written, data, accesses>>
  BY DEF memVars
<1>2. \A w : ViewOK(w)' <=> ViewOK(w)
  BY <1>1 DEF ViewOK
<1>3. v \in View
  BY DEF ViewOK
<1>4. /\ know' \in [Threads -> View] /\ know'[t] = v
      /\ \A u \in Threads : u # t => know'[u] = know[u]
  BY <1>3 DEF Inv, TypeOK
<1>5. \A u \in Threads : ViewOK(know'[u])
  BY <1>4, Known
<1>6. ViewsOK'
  BY <1>1, <1>2, <1>5 DEF Inv, ViewsOK
<1>7. StoresOK'
  BY <1>1 DEF Inv, StoresOK
<1>8. \A u \in Threads : /\ know'[u].head <= head' /\ know'[u].done \subseteq accesses'
                         /\ \A s \in Slots : know'[u].seq[s] \in 1 .. Len(written'[s])
  BY <1>1, <1>5 DEF ViewOK
<1>9. \A s : Last(s)' = Last(s) /\ Touched(s)' = Touched(s)
  BY <1>1 DEF Last, Touched, AccessesOf
<1>. QED BY <1>4, <1>6, <1>7, <1>8, <1>9

\* What every step of push but those of an owner amounts to.
LEMMA LookHolds ==
  ASSUME Inv, NEW p \in Producers, NEW v, ViewOK(v),
         NEW h \in Nat, start <= h, h <= head,
         NEW next \in {"idle", "slot", "cas", "reload"},
         next = "cas" => written[Slot(h)][v.seq[Slot(h)]].pos = h,
         ~ Owns(p),
         UNCHANGED <<start, memVars, consVars>>,
         know' = [know EXCEPT ![p] = v],
         phead' = [phead EXCEPT ![p] = h],
         ppc' = [ppc EXCEPT ![p] = next],
         calls' \in 0 .. MaxPushes, CallsOK'
  PROVE  Inv'
<1>. USE DEF Inv
<1>1. UNCHANGED <<start, head, written, data, accesses, cpc, tail, crec, taken>>
  BY DEF memVars, consVars
<1>2. /\ ViewsOK' /\ StoresOK'
      /\ know' \in [Threads -> View] /\ know'[p] = v
      /\ \A u \in Threads : u # p => know'[u] = know[u]
      /\ \A u \in Threads : /\ know'[u].head <= head' /\ know'[u].done \subseteq accesses'
                            /\ \A s \in Slots : know'[u].seq[s] \in 1 .. Len(written'[s])
      /\ \A s : Last(s)' = Last(s) /\ Touched(s)' = Touched(s)
  BY MemoryStays, Numbers
<1>3. /\ ppc' \in [Producers -> {"idle", "slot", "cas", "reload", "write", "publish"}]
      /\ phead' \in [Producers -> Nat]
      /\ ppc'[p] = next /\ phead'[p] = h
      /\ \A q \in Producers : q # p => ppc'[q] = ppc[q] /\ phead'[q] = phead[q]
  BY DEF TypeOK
<1>4. \A q \in Producers : /\ Owns(q)' <=> Owns(q)
                           /\ Owns(q) => q # p
  BY <1>3 DEF Owns
<1>5. TypeOK'
  BY <1>1, <1>2, <1>3 DEF TypeOK
<1>6. WindowOK' /\ FreeOK' /\ HeldOK' /\ ConsumerOK'
  BY <1>1, <1>2 DEF WindowOK, FreeOK, HeldOK, ConsumerOK, Position
<1>7. OwnersOK' /\ OneOwner'
  BY <1>1, <1>2, <1>3, <1>4 DEF OwnersOK, OneOwner
<1>8. WaitersOK'
  <2>1. ASSUME NEW q \in Producers
        PROVE  /\ start' <= phead'[q] /\ phead'[q] <= head'
               /\ ppc'[q] = "cas" =>
                    written'[Slot(phead'[q])][know'[q].seq[Slot(phead'[q])]].pos = phead'[q]
    <3>1. CASE q = p
      BY <1>1, <1>2, <1>3, <3>1
    <3>2. CASE q # p
      <4>1. know'[q] = know[q] /\ ppc'[q] = ppc[q] /\ phead'[q] = phead[q]
        BY <1>2, <1>3, <3>2, Numbers
      <4>. QED BY <1>1, <4>1 DEF WaitersOK
    <3>. QED BY <3>1, <3>2
  <2>. QED BY <2>1 DEF WaitersOK
<1>9. \A t \in Threads, s \in Slots : /\ Holds(t, s)' <=> Holds(t, s)
                                      /\ Holds(t, s) => t # p
  BY <1>1, <1>3, <1>4, Numbers DEF Holds
<1>10. HoldersKnow'
  BY <1>1, <1>2, <1>9 DEF HoldersKnow
<1>11. FreeSlotsTell'
  BY <1>2, <1>9 DEF FreeSlotsTell
<1>. QED BY <1>2, <1>5, <1>6, <1>7, <1>8, <1>10, <1>11

LEMMA CallPushHolds ==
  ASSUME Inv, NEW p \in Producers, CallPush(p)
  PROVE  Inv'
<1>1. PICK h \in know[p].head .. head :
        /\ ppc[p] = "idle" /\ calls < MaxPushes /\ calls' = calls + 1
        /\ phead' = [phead EXCEPT ![p] = h]
        /\ know' = [know EXCEPT ![p] = [know[p] EXCEPT !.head = h]]
        /\ ppc' = [ppc EXCEPT ![p] = "slot"]
        /\ UNCHANGED <<start, memVars, consVars>>
  BY DEF CallPush, LoadHead
<1>2. p \in Threads /\ ViewOK(know[p])
  BY Numbers, Known
<1>3. /\ ViewOK([know[p] EXCEPT !.head = h])
      /\ h \in Nat /\ start <= h /\ h <= head
  BY <1>2, HeadOK
<1>4. calls \in 0 .. MaxPushes /\ calls' \in 0 .. MaxPushes /\ UNCHANGED <<start, head>>
  <2>1. calls \in 0 .. MaxPushes /\ MaxPushes \in Nat
    BY Numbers DEF Inv, TypeOK
  <2>2. UNCHANGED <<start, head>>
    BY <1>1 DEF memVars
  <2>. QED BY <1>1, <2>1, <2>2
<1>5. CallsOK'
  <2>1. IsFiniteSet(Trying) /\ Cardinality(Trying) \in Nat
        /\ head - start + Cardinality(Trying) <= calls
    BY FS_CardinalityType DEF Inv, CallsOK
  <2>2. Trying' = Trying \cup {p} /\ p \notin Trying
    BY <1>1 DEF Trying, Inv, TypeOK
  <2>3. IsFiniteSet(Trying') /\ Cardinality(Trying') = Cardinality(Trying) + 1
    BY <2>1, <2>2, FS_AddElement
  <2>. QED BY <1>1, <1>4, <2>1, <2>3, Numbers DEF CallsOK
<1>6. ~ Owns(p)
  BY <1>1 DEF Owns
<1>. QED BY <1>1, <1>3, <1>4, <1>5, <1>6, LookHolds

\* Between two looks the number of calls and of claims is the same.
LEMMA CallsStay ==
  ASSUME Inv, NEW p \in Trying, NEW next \in {"slot", "cas", "reload"},
         ppc' = [ppc EXCEPT ![p] = next], UNCHANGED <<start, head, calls>>
  PROVE  CallsOK' /\ calls' \in 0 .. MaxPushes
<1>1. Trying' = Trying
  BY DEF Trying, Inv, TypeOK
<1>. QED BY <1>1 DEF CallsOK, Inv, TypeOK

\* One that claims or gives up is no longer among those who try.
LEMMA TryingLess ==
  ASSUME Inv, NEW p \in Trying, NEW next \in {"idle", "write"},
         ppc' = [ppc EXCEPT ![p] = next]
  PROVE  /\ IsFiniteSet(Trying') /\ Cardinality(Trying) \in Nat
         /\ Cardinality(Trying') = Cardinality(Trying) - 1
<1>1. Trying' = Trying \ {p}
  BY DEF Trying, Inv, TypeOK
<1>. QED BY <1>1, FS_RemoveElement, FS_CardinalityType DEF Inv, CallsOK

LEMMA HeadHolds ==
  ASSUME Inv, NEW p \in Producers, ReloadHead(p) \/ LoseCas(p)
  PROVE  Inv'
<1>1. PICK h \in know[p].head .. head :
        /\ ppc[p] \in {"cas", "reload"}
        /\ phead' = [phead EXCEPT ![p] = h]
        /\ know' = [know EXCEPT ![p] = [know[p] EXCEPT !.head = h]]
        /\ ppc' = [ppc EXCEPT ![p] = "slot"]
        /\ UNCHANGED <<start, memVars, calls, consVars>>
  BY DEF ReloadHead, LoseCas, LoadHead
<1>2. p \in Threads /\ ViewOK(know[p])
  BY Numbers, Known
<1>3. /\ ViewOK([know[p] EXCEPT !.head = h])
      /\ h \in Nat /\ start <= h /\ h <= head
  BY <1>2, HeadOK
<1>4. CallsOK' /\ calls' \in 0 .. MaxPushes
  BY <1>1, CallsStay DEF Trying, memVars
<1>5. ~ Owns(p)
  BY <1>1 DEF Owns
<1>. QED BY <1>1, <1>3, <1>4, <1>5, LookHolds

\* The difference that push branches on is that of the positions.
LEMMA AheadIs ==
  ASSUME Inv, NEW p \in Producers, NEW n \in Stores(p)
  PROVE  /\ phead[p] \in Nat /\ Slot(phead[p]) \in Slots
         /\ n \in 1 .. Len(written[Slot(phead[p])])
         /\ written[Slot(phead[p])][n].pos \in Nat
         /\ Ahead(p, n) = written[Slot(phead[p])][n].pos - phead[p]
<1>. DEFINE s == Slot(phead[p])
            pos == written[s][n].pos
<1>1. phead[p] \in Nat /\ s \in Slots /\ start <= phead[p] /\ phead[p] <= head
  BY SlotPeriodic DEF Inv, TypeOK, WaitersOK
<1>2. n \in 1 .. Len(written[s])
  BY <1>1, Stored DEF Stores
<1>3. pos \in Nat /\ pos - start < MaxPushes + Capacity /\ start <= pos
  BY <1>1, <1>2, Stored
<1>. HIDE DEF pos
<1>4. pos - phead[p] < MaxPushes + Capacity /\ phead[p] - pos < MaxPushes + Capacity
  BY <1>1, <1>3, Numbers
<1>5. Diff(pos, phead[p]) = pos - phead[p]
  BY <1>1, <1>3, <1>4, DiffIs
<1>. QED BY <1>1, <1>2, <1>3, <1>5 DEF Ahead, pos

LEMMA LoadSlotIs ==
  ASSUME Inv, NEW p \in Producers, NEW n \in Stores(p), NEW next, LoadSlot(p, n, next)
  PROVE  \E v : /\ ViewOK(v) /\ v.seq[Slot(phead[p])] = n
                /\ know' = [know EXCEPT ![p] = v] /\ know'[p] = v
                /\ p \in Trying /\ ~ Owns(p)
                /\ phead' = [phead EXCEPT ![p] = phead[p]]
                /\ ppc' = [ppc EXCEPT ![p] = next]
                /\ UNCHANGED <<start, memVars, calls, consVars>>
<1>. DEFINE s == Slot(phead[p])
            v == Acquire([know[p] EXCEPT !.seq[s] = n], written[s][n].view)
<1>1. /\ ppc[p] = "slot" /\ n \in know[p].seq[s] .. Len(written[s])
      /\ know' = [know EXCEPT ![p] = v]
      /\ ppc' = [ppc EXCEPT ![p] = next]
      /\ UNCHANGED <<start, memVars, phead, calls, consVars>>
  BY DEF LoadSlot, CanLoad, LoadSeq
<1>2. p \in Threads /\ ViewOK(know[p]) /\ p \in DOMAIN know /\ s \in Slots
  BY Numbers, Known, AheadIs
<1>3. ViewOK(v) /\ v.seq[s] = n
  BY <1>1, <1>2, AcquireOK
<1>. HIDE DEF v
<1>4. know'[p] = v
  BY <1>1, <1>2
<1>5. phead' = [phead EXCEPT ![p] = phead[p]]
  BY <1>1 DEF Inv, TypeOK
<1>6. p \in Trying /\ ~ Owns(p)
  BY <1>1 DEF Trying, Owns
<1>. QED BY <1>1, <1>3, <1>4, <1>5, <1>6

LEMMA LoadHolds ==
  ASSUME Inv, NEW p \in Producers, LoadFree(p) \/ Reject(p) \/ LoadTaken(p)
  PROVE  Inv'
<1>1. PICK n \in Stores(p), next \in {"cas", "idle", "reload"} :
        /\ LoadSlot(p, n, next)
        /\ next = "cas" => IsFree(Ahead(p, n))
  BY DEF LoadFree, Reject, LoadTaken
<1>2. /\ phead[p] \in Nat /\ start <= phead[p] /\ phead[p] <= head
      /\ written[Slot(phead[p])][n].pos \in Nat
      /\ Ahead(p, n) = written[Slot(phead[p])][n].pos - phead[p]
  BY AheadIs DEF Inv, WaitersOK
<1>3. PICK v : /\ ViewOK(v) /\ v.seq[Slot(phead[p])] = n
               /\ know' = [know EXCEPT ![p] = v] /\ know'[p] = v
               /\ p \in Trying /\ ~ Owns(p)
               /\ phead' = [phead EXCEPT ![p] = phead[p]]
               /\ ppc' = [ppc EXCEPT ![p] = next]
               /\ UNCHANGED <<start, memVars, calls, consVars>>
  BY <1>1, LoadSlotIs
<1>4. next = "cas" => written[Slot(phead[p])][v.seq[Slot(phead[p])]].pos = phead[p]
  BY <1>1, <1>2, <1>3 DEF IsFree
<1>5. UNCHANGED <<start, head>>
  BY <1>3 DEF memVars
<1>6. CallsOK' /\ calls' \in 0 .. MaxPushes
  <2>1. CASE next # "idle"
    BY <1>3, <1>5, <2>1, CallsStay
  <2>2. CASE next = "idle"
    <3>1. /\ IsFiniteSet(Trying') /\ Cardinality(Trying) \in Nat
          /\ Cardinality(Trying') = Cardinality(Trying) - 1
      BY <1>3, <2>2, TryingLess
    <3>2. head - start + Cardinality(Trying) <= calls /\ calls \in 0 .. MaxPushes
      BY DEF Inv, CallsOK, TypeOK
    <3>. QED BY <1>3, <1>5, <3>1, <3>2, Numbers DEF CallsOK
  <2>. QED BY <2>1, <2>2
<1>. QED BY <1>2, <1>3, <1>4, <1>6, LookHolds

-----------------------------------------------------------------------------
(* The steps of an owner. *)

\* What was sound to know stays so: head, the stores and the accesses only grow.
LEMMA ViewGrows ==
  ASSUME Inv, start' = start, head' \in Nat, head <= head', accesses \subseteq accesses',
         \A s \in Slots :
           /\ Len(written'[s]) \in Nat /\ Len(written[s]) <= Len(written'[s])
           /\ \A n \in 1 .. Len(written[s]) : written'[s][n] = written[s][n]
  PROVE  \A v : ViewOK(v) => ViewOK(v)'
<1>. SUFFICES ASSUME NEW v, ViewOK(v) PROVE ViewOK(v)'
  OBVIOUS
<1>1. v \in View /\ v.head \in Nat
  BY DEF ViewOK, View
<1>2. start' <= v.head /\ v.head <= head' /\ v.done \subseteq accesses'
  BY <1>1, Numbers DEF ViewOK
<1>3. ASSUME NEW s \in Slots
      PROVE  /\ v.seq[s] \in 1 .. Len(written'[s])
             /\ written'[s][v.seq[s]].view.done \subseteq v.done
  <2>1. v.seq[s] \in 1 .. Len(written[s]) /\ written[s][v.seq[s]].view.done \subseteq v.done
    BY DEF ViewOK
  <2>2. Len(written[s]) \in Nat /\ Len(written'[s]) \in Nat /\ Len(written[s]) <= Len(written'[s])
    BY Stored
  <2>3. written'[s][v.seq[s]] = written[s][v.seq[s]]
    BY <2>1
  <2>4. v.seq[s] \in 1 .. Len(written'[s])
    BY <2>1, <2>2
  <2>. QED BY <2>1, <2>3, <2>4
<1>. QED BY <1>1, <1>2, <1>3 DEF ViewOK

\* At the compare-and-exchange that succeeds, the slot is free and in nobody's hands,
\* and the producer has seen its last store.
LEMMA ClaimFinds ==
  ASSUME Inv, NEW p \in Producers, ppc[p] = "cas", CasMatches(p)
  PROVE  /\ phead[p] = head /\ head < tail + Capacity /\ Slot(head) \in Slots
         /\ Last(Slot(head)).pos = head
         /\ know[p].seq[Slot(head)] = Len(written[Slot(head)])
         /\ Touched(Slot(head)) \subseteq know[p].done
         /\ \A t \in Threads : ~ Holds(t, Slot(head))
<1>. DEFINE s == Slot(head)
            n == know[p].seq[s]
<1>. USE DEF Inv
<1>1. phead[p] \in Nat /\ start <= phead[p] /\ phead[p] <= head
  BY DEF TypeOK, WaitersOK
<1>2. head - phead[p] < MaxPushes + Capacity /\ phead[p] - head < MaxPushes + Capacity
  BY <1>1, Numbers
<1>3. phead[p] = head
  <2>1. Diff(head, phead[p]) = head - phead[p]
    BY <1>1, <1>2, Numbers, DiffIs
  <2>. QED BY <1>1, <2>1, Numbers DEF CasMatches
<1>4. s \in Slots /\ p \in Threads
  BY Numbers, SlotPeriodic
<1>5. n \in 1 .. Len(written[s]) /\ written[s][n].pos = head
      /\ written[s][n].view.done \subseteq know[p].done
  BY <1>3, <1>4, Known DEF WaitersOK, ViewOK
<1>6. head <= Last(s).pos
  BY <1>4, <1>5, Stored
<1>7. head < tail + Capacity
  <2>1. SUFFICES ASSUME head = tail + Capacity PROVE FALSE
    BY Numbers
  <2>2. Slot(head) = Slot(tail) /\ tail \in tail .. tail + Capacity - 1
    BY <2>1, Numbers, SlotPeriodic
  <2>3. Last(s).pos \in {tail, tail + 1}
    BY <2>2, InWindow
  <2>. QED BY <1>6, <2>1, <2>3, Numbers
<1>8. head \in tail .. tail + Capacity - 1
  BY <1>7, Numbers
<1>9. Last(s).pos = head
  <2>1. Last(s).pos \in {head, head + 1} /\ ~ (Last(s).pos = head + 1)
    BY <1>8, InWindow, Numbers
  <2>. QED BY <2>1
<1>10. n = Len(written[s])
  BY <1>4, <1>5, <1>9, Stored
<1>11. ASSUME NEW t \in Threads, Holds(t, s) PROVE FALSE
  <2>1. CASE t \in Producers /\ Owns(t) /\ s = Slot(phead[t])
    <3>1. phead[t] \in Nat /\ tail <= phead[t] /\ phead[t] < head
      BY <2>1 DEF TypeOK, OwnersOK
    <3>2. phead[t] \in tail .. tail + Capacity - 1
      BY <3>1, Numbers
    <3>3. phead[t] = head
      BY <1>8, <2>1, <3>2, InWindow
    <3>. QED BY <3>1, <3>3
  <2>2. CASE cpc \in {"read", "release"} /\ s = Slot(tail)
    <3>1. tail < head /\ tail \in tail .. tail + Capacity - 1
      BY <2>2, Numbers DEF ConsumerOK
    <3>2. tail = head
      BY <1>8, <2>2, <3>1, InWindow
    <3>. QED BY <3>1, <3>2, Numbers
  <2>. QED BY <1>11, <2>1, <2>2 DEF Holds
<1>12. Touched(s) \subseteq know[p].done
  BY <1>4, <1>5, <1>10, <1>11 DEF FreeSlotsTell, Last
<1>. QED BY <1>3, <1>4, <1>7, <1>9, <1>10, <1>11, <1>12

LEMMA ClaimHolds ==
  ASSUME Inv, NEW p \in Producers, Claim(p)
  PROVE  Inv'
<1>. USE DEF Inv
<1>1. /\ ppc[p] = "cas" /\ CasMatches(p) /\ head' = head + 1
      /\ know' = [know EXCEPT ![p] = [know[p] EXCEPT !.head = head + 1]]
      /\ ppc' = [ppc EXCEPT ![p] = "write"]
      /\ UNCHANGED <<start, written, data, accesses, phead, calls, cpc, tail, crec, taken>>
  BY DEF Claim, consVars
<1>2. /\ phead[p] = head /\ head < tail + Capacity /\ Slot(head) \in Slots
      /\ Last(Slot(head)).pos = head
      /\ know[p].seq[Slot(head)] = Len(written[Slot(head)])
      /\ Touched(Slot(head)) \subseteq know[p].done
      /\ \A t \in Threads : ~ Holds(t, Slot(head))
  BY <1>1, ClaimFinds
<1>3. \A v : ViewOK(v) => ViewOK(v)'
  <2>1. \A s \in Slots :
           /\ Len(written'[s]) \in Nat /\ Len(written[s]) <= Len(written'[s])
           /\ \A n \in 1 .. Len(written[s]) : written'[s][n] = written[s][n]
    BY <1>1, Stored
  <2>. QED BY <1>1, <2>1, Numbers, ViewGrows
<1>4. PICK v : v = [know[p] EXCEPT !.head = head + 1]
  OBVIOUS
<1>5. /\ know[p] \in View /\ v \in View
      /\ v.seq = know[p].seq /\ v.done = know[p].done /\ v.head = head + 1
  BY <1>4, Known, Numbers DEF View
<1>6. /\ know' \in [Threads -> View] /\ know'[p] = v
      /\ \A u \in Threads : u # p => know'[u] = know[u]
      /\ \A u \in Threads : know'[u].seq = know[u].seq /\ know'[u].done = know[u].done
  BY <1>1, <1>4, <1>5, Numbers DEF TypeOK
<1>7. ViewOK(know[p])'
  <2>1. /\ v.done \subseteq accesses'
        /\ \A s \in Slots : /\ v.seq[s] \in 1 .. Len(written'[s])
                            /\ written'[s][v.seq[s]].view.done \subseteq v.done
    BY <1>1, <1>5, Known, Numbers DEF ViewOK
  <2>2. start' <= v.head /\ v.head <= head'
    BY <1>1, <1>5, Numbers
  <2>. QED BY <1>5, <1>6, <2>1, <2>2 DEF ViewOK
<1>8. ViewsOK'
  <2>1. \A u \in Threads : ViewOK(know[u])'
    BY <1>3, <1>6, <1>7, Known
  <2>. QED BY <1>1, <1>3, <2>1 DEF ViewsOK
<1>9. \A s : Last(s)' = Last(s) /\ Touched(s)' = Touched(s)
  BY <1>1 DEF Last, Touched, AccessesOf
<1>10. StoresOK'
  <2>1. \A s \in Slots : \A n \in 1 .. Len(written[s]) : written[s][n].pos < head' + Capacity
    <3>. TAKE s \in Slots
    <3>. TAKE n \in 1 .. Len(written[s])
    <3>1. PICK x \in Nat : x = written[s][n].pos
      BY Stored
    <3>2. x < head + Capacity
      BY <3>1 DEF StoresOK
    <3>3. x < head + 1 + Capacity
      BY <3>2, Numbers
    <3>. QED BY <1>1, <3>1, <3>3
  <2>. QED BY <1>1, <2>1 DEF StoresOK
<1>11. /\ ppc' \in [Producers -> {"idle", "slot", "cas", "reload", "write", "publish"}]
       /\ ppc'[p] = "write" /\ Owns(p)' /\ ~ Owns(p)
       /\ \A q \in Producers : q # p => ppc'[q] = ppc[q] /\ (Owns(q)' <=> Owns(q))
  BY <1>1 DEF TypeOK, Owns
<1>12. TypeOK'
  <2>1. \A u \in Threads :
          /\ know'[u].head <= head' /\ know'[u].done \subseteq accesses'
          /\ \A s \in Slots : know'[u].seq[s] \in 1 .. Len(written'[s])
    BY <1>8 DEF ViewsOK, ViewOK
  <2>2. head' \in Nat /\ tail' <= head'
    BY <1>1, Numbers
  <2>. QED BY <1>1, <1>6, <1>11, <2>1, <2>2 DEF TypeOK
<1>13. WindowOK' /\ FreeOK' /\ ConsumerOK'
  <2>1. WindowOK'
    BY <1>1, <1>2, Numbers DEF WindowOK
  <2>2. FreeOK'
    BY <1>1, <1>9, Numbers DEF FreeOK
  <2>3. ConsumerOK'
    BY <1>1, <1>9, Numbers DEF ConsumerOK, Position
  <2>. QED BY <2>1, <2>2, <2>3
<1>14. HeldOK'
  <2>1. ASSUME NEW k \in tail .. head
        PROVE  \/ Last(Slot(k)).pos = k
               \/ Last(Slot(k)).pos = k + 1 /\ data[Slot(k)] = k
    <3>1. k = head \/ k \in tail .. head - 1
      BY Numbers
    <3>. QED BY <1>2, <3>1 DEF HeldOK
  <2>2. tail' .. head' - 1 = tail .. head
    BY <1>1, Numbers
  <2>. QED BY <1>1, <1>9, <2>1, <2>2 DEF HeldOK
<1>15. OwnersOK' /\ OneOwner'
  <2>1. \A q \in Producers : Owns(q) => phead[q] \in Nat /\ phead[q] < head
    BY DEF OwnersOK, TypeOK
  <2>2. ASSUME NEW q \in Producers, Owns(q)'
        PROVE  /\ tail <= phead[q] /\ phead[q] < head + 1
               /\ Last(Slot(phead[q])).pos = phead[q]
               /\ ppc'[q] = "publish" => data[Slot(phead[q])] = phead[q]
    <3>1. CASE q = p
      BY <1>2, <1>11, <3>1, Numbers
    <3>2. CASE q # p
      BY <1>11, <2>1, <2>2, <3>2, Numbers DEF OwnersOK
    <3>. QED BY <3>1, <3>2
  <2>3. OwnersOK'
    BY <1>1, <1>9, <2>2 DEF OwnersOK
  <2>4. \A q \in Producers : Owns(q) => phead[q] # head
    BY <2>1, Numbers
  <2>5. OneOwner'
    BY <1>1, <1>2, <1>11, <2>4 DEF OneOwner
  <2>. QED BY <2>3, <2>5
<1>16. WaitersOK'
  <2>1. ASSUME NEW q \in Producers PROVE start <= phead[q] /\ phead[q] <= head + 1
    <3>1. start <= phead[q] /\ phead[q] <= head /\ phead[q] \in Nat
      BY DEF WaitersOK, TypeOK
    <3>. QED BY <3>1, Numbers
  <2>2. \A q \in Producers : ppc'[q] = "cas" => ppc[q] = "cas"
    BY <1>11
  <2>. QED BY <1>1, <1>6, <1>11, <2>1, <2>2 DEF WaitersOK
<1>17. CallsOK'
  <2>1. p \in Trying
    BY <1>1 DEF Trying
  <2>2. /\ IsFiniteSet(Trying') /\ Cardinality(Trying) \in Nat
        /\ Cardinality(Trying') = Cardinality(Trying) - 1
    BY <1>1, <2>1, TryingLess
  <2>3. head - start + Cardinality(Trying) <= calls /\ calls \in Nat
    BY Numbers DEF CallsOK, TypeOK
  <2>. QED BY <1>1, <2>2, <2>3, Numbers DEF CallsOK
<1>18. \A t \in Threads, s \in Slots :
         Holds(t, s)' <=> Holds(t, s) \/ (t = p /\ s = Slot(head))
  BY <1>1, <1>2, <1>11, Numbers DEF Holds
<1>19. HoldersKnow'
  <2>1. ASSUME NEW t \in Threads, NEW s \in Slots, Holds(t, s)'
        PROVE  know'[t].seq[s] = Len(written[s]) /\ Touched(s) \subseteq know'[t].done
    BY <1>2, <1>6, <1>18, <2>1 DEF HoldersKnow
  <2>. QED BY <1>1, <1>9, <2>1 DEF HoldersKnow
<1>20. FreeSlotsTell'
  BY <1>9, <1>18 DEF FreeSlotsTell
<1>. QED BY <1>8, <1>10, <1>12, <1>13, <1>14, <1>15, <1>16, <1>17, <1>19, <1>20

\* An access by who holds the slot is known to it at once, and to others with the store
\* that gives the slot away.
LEMMA TouchKeeps ==
  ASSUME Inv, NEW t \in Threads, NEW s \in Slots, Holds(t, s),
         NEW k \in Nat, Slot(k) = s, NEW kind \in {"w", "r"},
         Touch(t, <<kind, k>>), UNCHANGED <<start, head, written>>,
         \A u \in Threads, x \in Slots : Holds(u, x)' <=> Holds(u, x)
  PROVE  /\ ViewsOK' /\ StoresOK' /\ HoldersKnow' /\ FreeSlotsTell'
         /\ know' \in [Threads -> View] /\ accesses' \subseteq {"w", "r"} \X Nat
         /\ \A u \in Threads : know'[u].seq = know[u].seq
         /\ \A u \in Threads : /\ know'[u].head <= head' /\ know'[u].done \subseteq accesses'
                               /\ \A x \in Slots : know'[u].seq[x] \in 1 .. Len(written'[x])
         /\ \A x : Last(x)' = Last(x)
<1>. USE DEF Inv
<1>1. PICK a \in {"w", "r"} \X Nat : a = <<kind, k>>
  OBVIOUS
<1>2. PICK v : v = [know[t] EXCEPT !.done = know[t].done \cup {a}]
  OBVIOUS
<1>3. /\ accesses' = accesses \cup {a} /\ know' = [know EXCEPT ![t] = v]
      /\ UNCHANGED <<start, head, written>>
  BY <1>1, <1>2 DEF Touch
<1>4. /\ v \in View /\ v.seq = know[t].seq /\ v.head = know[t].head
      /\ v.done = know[t].done \cup {a}
  BY <1>1, <1>2, Known DEF View
<1>5. /\ know' \in [Threads -> View] /\ know'[t] = v
      /\ \A u \in Threads : u # t => know'[u] = know[u]
      /\ \A u \in Threads : know'[u].seq = know[u].seq /\ know[u].done \subseteq know'[u].done
  BY <1>3, <1>4 DEF TypeOK
<1>6. \A w : ViewOK(w) => ViewOK(w)'
  <2>1. \A x \in Slots :
           /\ Len(written'[x]) \in Nat /\ Len(written[x]) <= Len(written'[x])
           /\ \A n \in 1 .. Len(written[x]) : written'[x][n] = written[x][n]
    BY <1>3, Stored
  <2>. QED BY <1>3, <2>1, Numbers, ViewGrows
<1>7. ViewOK(know[t])'
  <2>1. /\ start' <= v.head /\ v.head <= head' /\ v.done \subseteq accesses'
        /\ \A x \in Slots : /\ v.seq[x] \in 1 .. Len(written'[x])
                            /\ written'[x][v.seq[x]].view.done \subseteq v.done
    BY <1>3, <1>4, Known DEF ViewOK
  <2>. QED BY <1>4, <1>5, <2>1 DEF ViewOK
<1>8. \A u \in Threads : ViewOK(know[u])'
  BY <1>5, <1>6, <1>7, Known
<1>9. ViewsOK'
  BY <1>3, <1>6, <1>8 DEF ViewsOK
<1>10. StoresOK'
  BY <1>3 DEF StoresOK
<1>11. \A x : Last(x)' = Last(x)
  BY <1>3 DEF Last
<1>12. \A x \in Slots : Touched(x)' = IF x = s THEN Touched(x) \cup {a} ELSE Touched(x)
  <2>1. a[1] \in {"w", "r"} /\ Slot(a[2]) = s
    BY <1>1
  <2>. QED BY <1>3, <2>1 DEF Touched, AccessesOf
<1>13. HoldersKnow'
  <2>1. ASSUME NEW u \in Threads, NEW x \in Slots, Holds(u, x)
        PROVE  know'[u].seq[x] = Len(written[x]) /\ Touched(x)' \subseteq know'[u].done
    <3>1. know[u].seq[x] = Len(written[x]) /\ Touched(x) \subseteq know[u].done
      BY <2>1 DEF HoldersKnow
    <3>2. CASE x = s
      <4>1. u = t
        BY <2>1, <3>2, OneHolder
      <4>. QED BY <1>4, <1>5, <1>12, <3>1, <3>2, <4>1
    <3>3. CASE x # s
      BY <1>5, <1>12, <3>1, <3>3
    <3>. QED BY <3>2, <3>3
  <2>. QED BY <1>3, <2>1 DEF HoldersKnow
<1>14. FreeSlotsTell'
  <2>1. ASSUME NEW x \in Slots, \A u \in Threads : ~ Holds(u, x)
        PROVE  Touched(x)' \subseteq Last(x).view.done
    <3>1. x # s
      BY <2>1
    <3>. QED BY <1>12, <2>1, <3>1 DEF FreeSlotsTell
  <2>. QED BY <1>11, <2>1 DEF FreeSlotsTell
<1>15. \A u \in Threads : /\ know'[u].head <= head' /\ know'[u].done \subseteq accesses'
                          /\ \A x \in Slots : know'[u].seq[x] \in 1 .. Len(written'[x])
  BY <1>8 DEF ViewOK
<1>16. accesses' \subseteq {"w", "r"} \X Nat
  BY <1>3 DEF TypeOK
<1>. QED BY <1>5, <1>9, <1>10, <1>11, <1>13, <1>14, <1>15, <1>16

\* Where an owner is.
LEMMA OwnerAt ==
  ASSUME Inv, NEW p \in Producers, Owns(p)
  PROVE  /\ phead[p] \in tail .. head - 1 /\ phead[p] \in tail .. tail + Capacity - 1
         /\ phead[p] \in Nat /\ Slot(phead[p]) \in Slots
         /\ Last(Slot(phead[p])).pos = phead[p]
         /\ p \in Threads /\ Holds(p, Slot(phead[p]))
<1>1. phead[p] \in Nat /\ tail <= phead[p] /\ phead[p] < head
      /\ Last(Slot(phead[p])).pos = phead[p]
  BY DEF Inv, TypeOK, OwnersOK
<1>2. phead[p] \in tail .. head - 1 /\ phead[p] \in tail .. tail + Capacity - 1
  BY <1>1, Numbers
<1>. QED BY <1>1, <1>2, SlotPeriodic, Numbers DEF Holds

LEMMA WriteHolds ==
  ASSUME Inv, NEW p \in Producers, Write(p)
  PROVE  Inv'
<1>. DEFINE s == Slot(phead[p])
<1>. USE DEF Inv
<1>1. /\ ppc[p] = "write" /\ Owns(p)
      /\ data' = [data EXCEPT ![s] = phead[p]]
      /\ Touch(p, <<"w", phead[p]>>)
      /\ ppc' = [ppc EXCEPT ![p] = "publish"]
      /\ UNCHANGED <<start, head, written, phead, calls, cpc, tail, crec, taken>>
  BY DEF Write, consVars, Owns
<1>2. /\ phead[p] \in tail .. head - 1 /\ phead[p] \in tail .. tail + Capacity - 1
      /\ phead[p] \in Nat /\ s \in Slots /\ Last(s).pos = phead[p]
      /\ p \in Threads /\ Holds(p, s)
  BY <1>1, OwnerAt
<1>3. /\ ppc' \in [Producers -> {"idle", "slot", "cas", "reload", "write", "publish"}]
      /\ ppc'[p] = "publish" /\ Owns(p)'
      /\ \A q \in Producers : /\ q # p => ppc'[q] = ppc[q]
                              /\ Owns(q)' <=> Owns(q)
  BY <1>1 DEF TypeOK, Owns
<1>4. \A u \in Threads, x \in Slots : Holds(u, x)' <=> Holds(u, x)
  BY <1>1, <1>3 DEF Holds
<1>5. /\ ViewsOK' /\ StoresOK' /\ HoldersKnow' /\ FreeSlotsTell'
      /\ know' \in [Threads -> View] /\ accesses' \subseteq {"w", "r"} \X Nat
      /\ \A u \in Threads : know'[u].seq = know[u].seq
      /\ \A u \in Threads : /\ know'[u].head <= head' /\ know'[u].done \subseteq accesses'
                            /\ \A x \in Slots : know'[u].seq[x] \in 1 .. Len(written'[x])
      /\ \A x : Last(x)' = Last(x)
  BY <1>1, <1>2, <1>4, TouchKeeps
<1>6. /\ data' \in [Slots -> Nat \cup {-1}] /\ data'[s] = phead[p]
      /\ \A k \in tail .. head - 1 : k # phead[p] => data'[Slot(k)] = data[Slot(k)]
  <2>1. ASSUME NEW k \in tail .. head - 1, k # phead[p] PROVE Slot(k) # s
    <3>1. k \in tail .. tail + Capacity - 1
      BY Numbers
    <3>. QED BY <1>2, <2>1, <3>1, InWindow
  <2>. QED BY <1>1, <1>2, <2>1 DEF TypeOK
<1>7. TypeOK'
  BY <1>1, <1>3, <1>5, <1>6 DEF TypeOK
<1>8. WindowOK' /\ FreeOK' /\ ConsumerOK'
  BY <1>1, <1>5 DEF WindowOK, FreeOK, ConsumerOK, Position
<1>9. HeldOK'
  <2>1. ASSUME NEW k \in tail .. head - 1
        PROVE  \/ Last(Slot(k)).pos = k
               \/ Last(Slot(k)).pos = k + 1 /\ data'[Slot(k)] = k
    BY <1>2, <1>6 DEF HeldOK
  <2>. QED BY <1>1, <1>5, <2>1 DEF HeldOK
<1>10. OwnersOK'
  <2>1. ASSUME NEW q \in Producers, Owns(q)
        PROVE  ppc'[q] = "publish" => data'[Slot(phead[q])] = phead[q]
    <3>1. CASE q = p
      BY <1>6, <3>1
    <3>2. CASE q # p
      <4>1. phead[q] # phead[p]
        BY <1>1, <2>1, <3>2 DEF OneOwner
      <4>. QED BY <1>3, <1>6, <2>1, <3>2, <4>1, OwnerAt DEF OwnersOK
    <3>. QED BY <3>1, <3>2
  <2>. QED BY <1>1, <1>3, <1>5, <2>1 DEF OwnersOK
<1>11. OneOwner'
  BY <1>1, <1>3 DEF OneOwner
<1>12. WaitersOK'
  BY <1>1, <1>3, <1>5, Numbers DEF WaitersOK
<1>13. CallsOK'
  <2>1. Trying' = Trying
    BY <1>1, <1>3 DEF Trying
  <2>. QED BY <1>1, <2>1 DEF CallsOK
<1>. QED BY <1>5, <1>7, <1>8, <1>9, <1>10, <1>11, <1>12, <1>13

LEMMA ReadHolds ==
  ASSUME Inv, Read
  PROVE  Inv'
<1>. DEFINE s == Slot(tail)
<1>. USE DEF Inv
<1>1. /\ cpc = "read" /\ cpc' = "release" /\ crec' = data[s]
      /\ Touch(Consumer, <<"r", tail>>)
      /\ UNCHANGED <<start, head, written, data, ppc, phead, calls, tail, taken>>
  BY DEF Read, prodVars
<1>2. /\ tail \in Nat /\ tail \in tail .. tail + Capacity - 1 /\ s \in Slots
      /\ Consumer \in Threads /\ Holds(Consumer, s)
  BY <1>1, Numbers, SlotPeriodic DEF Holds
<1>3. /\ \A q \in Producers : Owns(q)' <=> Owns(q)
      /\ \A u \in Threads, x \in Slots : Holds(u, x)' <=> Holds(u, x)
  BY <1>1 DEF Owns, Holds
<1>4. /\ ViewsOK' /\ StoresOK' /\ HoldersKnow' /\ FreeSlotsTell'
      /\ know' \in [Threads -> View] /\ accesses' \subseteq {"w", "r"} \X Nat
      /\ \A u \in Threads : know'[u].seq = know[u].seq
      /\ \A u \in Threads : /\ know'[u].head <= head' /\ know'[u].done \subseteq accesses'
                            /\ \A x \in Slots : know'[u].seq[x] \in 1 .. Len(written'[x])
      /\ \A x : Last(x)' = Last(x)
  BY <1>1, <1>2, <1>3, TouchKeeps
<1>5. tail < head /\ Last(s).pos = tail + 1 /\ crec' = tail
  <2>1. tail < head /\ Last(s).pos = tail + 1
    BY <1>1 DEF ConsumerOK
  <2>. QED BY <1>1, <1>2, <2>1, InWindow
<1>6. TypeOK'
  BY <1>1, <1>2, <1>4, <1>5 DEF TypeOK
<1>7. WindowOK' /\ FreeOK' /\ HeldOK'
  BY <1>1, <1>4 DEF WindowOK, FreeOK, HeldOK
<1>8. ConsumerOK'
  BY <1>1, <1>4, <1>5 DEF ConsumerOK, Position
<1>9. OwnersOK' /\ OneOwner'
  BY <1>1, <1>3, <1>4 DEF OwnersOK, OneOwner
<1>10. WaitersOK'
  BY <1>1, <1>4, Numbers DEF WaitersOK
<1>11. CallsOK'
  BY <1>1 DEF CallsOK, Trying
<1>. QED BY <1>4, <1>6, <1>7, <1>8, <1>9, <1>10, <1>11

\* A store gives the slot away, with all its holder knows.
LEMMA StoreKeeps ==
  ASSUME Inv, NEW t \in Threads, NEW s \in Slots, Holds(t, s),
         NEW pos \in Nat, Last(s).pos < pos, start <= pos, pos < head + Capacity,
         StoreSeq(t, s, pos), UNCHANGED <<start, head, accesses>>,
         \A u \in Threads, x \in Slots : Holds(u, x)' <=> Holds(u, x) /\ x # s
  PROVE  /\ ViewsOK' /\ StoresOK' /\ HoldersKnow' /\ FreeSlotsTell'
         /\ know' \in [Threads -> View]
         /\ written' \in [Slots -> Seq([pos : Nat, view : View])]
         /\ \A u \in Threads : u # t => know'[u] = know[u]
         /\ \A u \in Threads : /\ know'[u].head <= head' /\ know'[u].done \subseteq accesses'
                               /\ \A x \in Slots : know'[u].seq[x] \in 1 .. Len(written'[x])
         /\ \A x \in Slots : x # s => written'[x] = written[x] /\ Last(x)' = Last(x)
         /\ \A x \in Slots : \A n \in 1 .. Len(written[x]) : written'[x][n] = written[x][n]
         /\ Last(s)'.pos = pos
         /\ Len(written'[s]) = Len(written[s]) + 1
<1>. USE DEF Inv
<1>. DEFINE len == Len(written[s])
<1>1. PICK v : v = [know[t] EXCEPT !.seq[s] = len + 1]
  OBVIOUS
<1>2. PICK r : r = [pos |-> pos, view |-> v]
  OBVIOUS
<1>3. /\ written' = [written EXCEPT ![s] = Append(written[s], r)]
      /\ know' = [know EXCEPT ![t] = v]
  BY <1>1, <1>2 DEF StoreSeq, Released
<1>4. /\ len \in Nat \ {0} /\ len + 1 \in Nat
      /\ written[s] \in Seq([pos : Nat, view : View])
  <2>1. len \in Nat \ {0}
    BY Stored
  <2>2. written[s] \in Seq([pos : Nat, view : View])
    BY DEF TypeOK
  <2>. QED BY <2>1, <2>2
<1>5. /\ v \in View /\ v.head = know[t].head /\ v.done = know[t].done
      /\ v.seq[s] = len + 1
      /\ \A x \in Slots : x # s => v.seq[x] = know[t].seq[x]
  BY <1>1, <1>4, Known DEF View
<1>6. r \in [pos : Nat, view : View] /\ r.pos = pos /\ r.view = v
  BY <1>2, <1>5
<1>7. /\ know' \in [Threads -> View] /\ know'[t] = v
      /\ \A u \in Threads : u # t => know'[u] = know[u]
  BY <1>3, <1>5 DEF TypeOK
<1>8. /\ Append(written[s], r) \in Seq([pos : Nat, view : View])
      /\ Len(Append(written[s], r)) = len + 1
      /\ \A n \in 1 .. len : Append(written[s], r)[n] = written[s][n]
      /\ Append(written[s], r)[len + 1] = r
  BY <1>4, <1>6, AppendProperties
<1>9. /\ written' \in [Slots -> Seq([pos : Nat, view : View])]
      /\ written'[s] = Append(written[s], r)
      /\ \A x \in Slots : x # s => written'[x] = written[x]
  BY <1>3, <1>8 DEF TypeOK
<1>10. /\ Len(written'[s]) = len + 1 /\ written'[s][len + 1] = r
       /\ \A x \in Slots : \A n \in 1 .. Len(written[x]) : written'[x][n] = written[x][n]
  BY <1>8, <1>9
<1>11. /\ Last(s)' = r
       /\ \A x \in Slots : x # s => Last(x)' = Last(x)
       /\ \A x \in Slots : \A n \in 1 .. Len(written'[x]) :
            n \notin 1 .. Len(written[x]) => x = s /\ n = len + 1
  <2>1. \A n \in 1 .. len + 1 : n \notin 1 .. len => n = len + 1
    BY <1>4
  <2>. QED BY <1>9, <1>10, <2>1 DEF Last
<1>12. \A w : ViewOK(w) => ViewOK(w)'
  <2>1. \A x \in Slots :
           /\ Len(written'[x]) \in Nat /\ Len(written[x]) <= Len(written'[x])
           /\ \A n \in 1 .. Len(written[x]) : written'[x][n] = written[x][n]
    <3>1. ASSUME NEW x \in Slots
          PROVE  Len(written'[x]) \in Nat /\ Len(written[x]) <= Len(written'[x])
      BY <1>4, <1>9, <1>10, Stored
    <3>. QED BY <1>10, <3>1
  <2>. QED BY <2>1, Numbers, ViewGrows
<1>13. ViewOK(v)'
  <2>1. start' <= v.head /\ v.head <= head' /\ v.done \subseteq accesses'
    BY <1>5, Known DEF ViewOK
  <2>2. ASSUME NEW x \in Slots
        PROVE  /\ v.seq[x] \in 1 .. Len(written'[x])
               /\ written'[x][v.seq[x]].view.done \subseteq v.done
    <3>1. CASE x = s
      <4>1. len + 1 \in 1 .. len + 1
        BY <1>4
      <4>. QED BY <1>5, <1>6, <1>10, <3>1, <4>1
    <3>2. CASE x # s
      BY <1>5, <1>9, <3>2, Known DEF ViewOK
    <3>. QED BY <3>1, <3>2
  <2>. QED BY <1>5, <2>1, <2>2 DEF ViewOK
<1>14. \A u \in Threads : ViewOK(know[u])'
  BY <1>7, <1>12, <1>13, Known
<1>15. ViewsOK'
  <2>1. ASSUME NEW x \in Slots, NEW n \in 1 .. Len(written'[x])
        PROVE  ViewOK(written[x][n].view)' /\ written'[x][n].view.seq[x] = n
    <3>1. CASE n \in 1 .. Len(written[x])
      <4>1. written'[x][n] = written[x][n]
        BY <1>10, <3>1
      <4>. QED BY <1>12, <3>1, <4>1 DEF ViewsOK
    <3>2. CASE n \notin 1 .. Len(written[x])
      <4>1. x = s /\ n = len + 1
        BY <1>11, <3>2
      <4>. QED BY <1>5, <1>6, <1>10, <1>13, <4>1
    <3>. QED BY <3>1, <3>2
  <2>. QED BY <1>14, <2>1 DEF ViewsOK
<1>16. StoresOK'
  <2>1. ASSUME NEW x \in Slots, NEW n \in 1 .. Len(written'[x])
        PROVE  start <= written'[x][n].pos /\ written'[x][n].pos < head + Capacity
    <3>1. CASE n \in 1 .. Len(written[x])
      BY <1>10, <3>1 DEF StoresOK
    <3>2. CASE n \notin 1 .. Len(written[x])
      <4>1. x = s /\ n = len + 1
        BY <1>11, <3>2
      <4>. QED BY <1>6, <1>10, <4>1
    <3>. QED BY <3>1, <3>2
  <2>2. ASSUME NEW x \in Slots,
               NEW n \in 1 .. Len(written'[x]), NEW l \in 1 .. Len(written'[x]), n < l
        PROVE  written'[x][n].pos < written'[x][l].pos
    <3>1. Len(written[x]) \in Nat
      BY Stored
    <3>2. CASE l \in 1 .. Len(written[x])
      <4>1. n \in 1 .. Len(written[x])
        BY <2>2, <3>1, <3>2
      <4>. QED BY <1>10, <2>2, <3>2, <4>1 DEF StoresOK
    <3>3. CASE l \notin 1 .. Len(written[x])
      <4>1. x = s /\ l = len + 1
        BY <1>11, <3>3
      <4>2. n \in 1 .. len
        BY <1>4, <2>2, <4>1
      <4>3. written[s][n].pos <= Last(s).pos /\ written[s][n].pos \in Nat /\ Last(s).pos \in Nat
        BY <4>2, Stored DEF Last
      <4>4. written[s][n].pos < pos
        BY <4>3
      <4>. QED BY <1>6, <1>10, <4>1, <4>2, <4>4
    <3>. QED BY <3>2, <3>3
  <2>. QED BY <2>1, <2>2 DEF StoresOK
<1>17. \A x \in Slots : Touched(x)' = Touched(x)
  BY DEF Touched, AccessesOf
<1>18. HoldersKnow'
  <2>1. ASSUME NEW u \in Threads, NEW x \in Slots, Holds(u, x), x # s
        PROVE  know'[u].seq[x] = Len(written'[x]) /\ Touched(x)' \subseteq know'[u].done
    <3>1. know[u].seq[x] = Len(written[x]) /\ Touched(x) \subseteq know[u].done
      BY <2>1 DEF HoldersKnow
    <3>2. know'[u].seq[x] = know[u].seq[x] /\ know'[u].done = know[u].done
      BY <1>5, <1>7, <2>1
    <3>. QED BY <1>9, <1>17, <2>1, <3>1, <3>2
  <2>. QED BY <2>1 DEF HoldersKnow
<1>19. FreeSlotsTell'
  <2>1. Touched(s) \subseteq v.done
    BY <1>5 DEF HoldersKnow
  <2>2. ASSUME NEW x \in Slots, x # s, \A u \in Threads : ~ Holds(u, x)
        PROVE  Touched(x)' \subseteq Last(x)'.view.done
    BY <1>11, <1>17, <2>2 DEF FreeSlotsTell
  <2>. QED BY <1>6, <1>11, <1>17, <2>1, <2>2 DEF FreeSlotsTell
<1>20. \A u \in Threads : /\ know'[u].head <= head' /\ know'[u].done \subseteq accesses'
                          /\ \A x \in Slots : know'[u].seq[x] \in 1 .. Len(written'[x])
  BY <1>14 DEF ViewOK
<1>21. Last(s)'.pos = pos
  BY <1>6, <1>11
<1>. QED BY <1>7, <1>9, <1>10, <1>11, <1>15, <1>16, <1>18, <1>19, <1>20, <1>21

LEMMA PublishHolds ==
  ASSUME Inv, NEW p \in Producers, Publish(p)
  PROVE  Inv'
<1>. DEFINE s == Slot(phead[p])
<1>. USE DEF Inv
<1>1. /\ ppc[p] = "publish" /\ Owns(p)
      /\ StoreSeq(p, s, phead[p] + 1)
      /\ ppc' = [ppc EXCEPT ![p] = "idle"]
      /\ UNCHANGED <<start, head, data, accesses, phead, calls, cpc, tail, crec, taken>>
  BY DEF Publish, consVars, Owns
<1>2. /\ phead[p] \in tail .. head - 1 /\ phead[p] \in tail .. tail + Capacity - 1
      /\ phead[p] \in Nat /\ s \in Slots /\ Last(s).pos = phead[p]
      /\ p \in Threads /\ Holds(p, s)
  BY <1>1, OwnerAt
<1>3. /\ ppc' \in [Producers -> {"idle", "slot", "cas", "reload", "write", "publish"}]
      /\ ppc'[p] = "idle" /\ ~ Owns(p)'
      /\ \A q \in Producers : q # p => ppc'[q] = ppc[q] /\ (Owns(q)' <=> Owns(q))
  BY <1>1 DEF TypeOK, Owns
<1>4. \A u \in Threads, x \in Slots : Holds(u, x)' <=> Holds(u, x) /\ x # s
  <2>1. \A u \in Threads : u # p => ~ Holds(u, s)
    BY <1>2, OneHolder
  <2>2. \A x \in Slots : Holds(p, x) <=> x = s
    BY <1>1, Numbers DEF Holds
  <2>3. \A x \in Slots : ~ Holds(p, x)'
    BY <1>3, Numbers DEF Holds
  <2>4. \A u \in Threads, x \in Slots : u # p => (Holds(u, x)' <=> Holds(u, x))
    BY <1>1, <1>3 DEF Holds
  <2>. QED BY <2>1, <2>2, <2>3, <2>4
<1>5. /\ phead[p] + 1 \in Nat /\ Last(s).pos < phead[p] + 1
      /\ start <= phead[p] + 1 /\ phead[p] + 1 < head + Capacity
  BY <1>2, Numbers
<1>6. /\ ViewsOK' /\ StoresOK' /\ HoldersKnow' /\ FreeSlotsTell'
      /\ know' \in [Threads -> View]
      /\ written' \in [Slots -> Seq([pos : Nat, view : View])]
      /\ \A u \in Threads : u # p => know'[u] = know[u]
      /\ \A u \in Threads : /\ know'[u].head <= head' /\ know'[u].done \subseteq accesses'
                            /\ \A x \in Slots : know'[u].seq[x] \in 1 .. Len(written'[x])
      /\ \A x \in Slots : x # s => Last(x)' = Last(x)
      /\ \A x \in Slots : \A n \in 1 .. Len(written[x]) : written'[x][n] = written[x][n]
      /\ Last(s)'.pos = phead[p] + 1
  BY <1>1, <1>2, <1>4, <1>5, StoreKeeps
<1>7. \A k \in tail .. tail + Capacity - 1 :
        Slot(k) \in Slots /\ (k # phead[p] => Last(Slot(k))' = Last(Slot(k)))
  BY <1>2, <1>6, InWindow
<1>8. TypeOK'
  BY <1>1, <1>3, <1>6 DEF TypeOK
<1>9. WindowOK' /\ FreeOK'
  <2>1. WindowOK'
    BY <1>1 DEF WindowOK
  <2>2. \A k \in head .. tail + Capacity - 1 :
          k \in tail .. tail + Capacity - 1 /\ k # phead[p]
    BY <1>2, Numbers
  <2>. QED BY <1>1, <1>7, <2>1, <2>2 DEF FreeOK
<1>10. HeldOK'
  <2>1. ASSUME NEW k \in tail .. head - 1
        PROVE  \/ Last(Slot(k))'.pos = k
               \/ Last(Slot(k))'.pos = k + 1 /\ data[Slot(k)] = k
    <3>1. CASE k = phead[p]
      <4>1. data[s] = phead[p]
        BY <1>1 DEF OwnersOK
      <4>. QED BY <1>1, <1>6, <3>1, <4>1
    <3>2. CASE k # phead[p]
      <4>1. k \in tail .. tail + Capacity - 1
        BY Numbers
      <4>. QED BY <1>7, <3>2, <4>1 DEF HeldOK
    <3>. QED BY <3>1, <3>2
  <2>. QED BY <1>1, <2>1 DEF HeldOK
<1>11. OwnersOK' /\ OneOwner'
  <2>1. ASSUME NEW q \in Producers, Owns(q)'
        PROVE  q # p /\ Owns(q) /\ Last(Slot(phead[q]))' = Last(Slot(phead[q]))
    <3>1. q # p /\ Owns(q)
      BY <1>3, <2>1
    <3>2. phead[q] # phead[p]
      BY <1>1, <3>1 DEF OneOwner
    <3>. QED BY <1>1, <1>7, <3>1, <3>2, OwnerAt
  <2>2. OwnersOK'
    BY <1>1, <1>3, <2>1 DEF OwnersOK
  <2>3. OneOwner'
    BY <1>1, <2>1 DEF OneOwner
  <2>. QED BY <2>2, <2>3
<1>12. ConsumerOK'
  <2>1. ASSUME cpc \in {"read", "release"} PROVE Last(Slot(tail))' = Last(Slot(tail))
    <3>1. tail \in tail .. tail + Capacity - 1 /\ Consumer \in Threads /\ Consumer # p
      BY Numbers
    <3>2. Holds(Consumer, Slot(tail)) /\ Slot(tail) \in Slots
      BY <1>7, <2>1, <3>1 DEF Holds
    <3>3. Slot(tail) # s
      BY <1>2, <3>1, <3>2, OneHolder
    <3>. QED BY <1>1, <1>6, <3>2, <3>3
  <2>. QED BY <1>1, <2>1 DEF ConsumerOK, Position
<1>13. WaitersOK'
  <2>1. ASSUME NEW q \in Producers, ppc'[q] = "cas"
        PROVE  LET x == Slot(phead[q])
               IN  written'[x][know'[q].seq[x]] = written[x][know[q].seq[x]] /\ ppc[q] = "cas"
    <3>1. q # p /\ ppc[q] = "cas" /\ q \in Threads
      BY <1>3, <2>1, Numbers
    <3>2. know'[q] = know[q]
      BY <1>6, <3>1
    <3>3. Slot(phead[q]) \in Slots
      BY SlotPeriodic DEF TypeOK
    <3>. QED BY <1>6, <3>1, <3>2, <3>3, Known DEF ViewOK
  <2>. QED BY <1>1, <2>1 DEF WaitersOK
<1>14. CallsOK'
  <2>1. Trying' = Trying
    BY <1>1, <1>3 DEF Trying
  <2>. QED BY <1>1, <2>1 DEF CallsOK
<1>. QED BY <1>6, <1>8, <1>9, <1>10, <1>11, <1>12, <1>13, <1>14

-----------------------------------------------------------------------------
(* The consumer. *)

\* A poll that sees the slot written has seen its last store, and finds it in nobody's
\* hands.
LEMMA PollFinds ==
  ASSUME Inv, cpc = "idle", NEW n \in 1 .. Len(written[Slot(tail)]),
         IsWritten(written[Slot(tail)][n].pos)
  PROVE  /\ tail < head /\ Last(Slot(tail)).pos = tail + 1
         /\ n = Len(written[Slot(tail)])
         /\ \A t \in Threads : ~ Holds(t, Slot(tail))
<1>. DEFINE s == Slot(tail)
            pos == written[s][n].pos
<1>1. tail \in tail .. tail + Capacity - 1 /\ tail \in Nat /\ s \in Slots
  <2>1. tail \in tail .. tail + Capacity - 1 /\ tail \in Nat
    BY Numbers
  <2>. QED BY <2>1, SlotPeriodic
<1>2. /\ pos \in Nat /\ pos - start < MaxPushes + Capacity /\ start <= pos
      /\ pos <= Last(s).pos /\ (pos = Last(s).pos => n = Len(written[s]))
  BY <1>1, Stored
<1>3. pos = tail + 1
  <2>. HIDE DEF pos
  <2>1. /\ tail + 1 \in Nat
        /\ pos - (tail + 1) < MaxPushes + Capacity /\ (tail + 1) - pos < MaxPushes + Capacity
    <3>1. /\ tail \in Nat /\ start \in Nat /\ MaxPushes \in Nat /\ Capacity \in Nat
          /\ start <= tail /\ tail - start <= MaxPushes /\ Capacity > 1
      BY Numbers
    <3>. QED BY <1>2, <3>1
  <2>2. Diff(pos, tail + 1) = pos - (tail + 1)
    BY <1>2, <2>1, DiffIs
  <2>3. Diff(pos, tail + 1) = 0
    BY DEF IsWritten, pos
  <2>. QED BY <1>2, <2>1, <2>2, <2>3
<1>4. Last(s).pos \in {tail, tail + 1}
  BY <1>1, InWindow
<1>. HIDE DEF pos
<1>5. Last(s).pos = tail + 1
  BY <1>1, <1>2, <1>3, <1>4
<1>6. tail < head
  BY <1>1, <1>5, InWindow
<1>7. ASSUME NEW t \in Threads, Holds(t, s) PROVE FALSE
  <2>1. t \in Producers /\ Owns(t) /\ s = Slot(phead[t])
    BY <1>7 DEF Holds
  <2>2. phead[t] = tail /\ Last(s).pos = phead[t]
    BY <1>1, <2>1, OwnerAt, InWindow
  <2>. QED BY <1>1, <1>5, <2>2
<1>. QED BY <1>2, <1>3, <1>5, <1>6, <1>7

LEMMA PollHolds ==
  ASSUME Inv, Poll
  PROVE  Inv'
<1>. DEFINE s == Slot(tail)
<1>. USE DEF Inv
<1>1. tail \in Nat /\ s \in Slots /\ Consumer \in Threads /\ Consumer \notin Producers
  BY Numbers, SlotPeriodic
<1>2. PICK n \in 1 .. Len(written[s]) :
        /\ cpc = "idle" /\ n \in know[Consumer].seq[s] .. Len(written[s])
        /\ know' = [know EXCEPT ![Consumer] =
             Acquire([know[Consumer] EXCEPT !.seq[s] = n], written[s][n].view)]
        /\ cpc' = IF IsWritten(written[s][n].pos) THEN "read" ELSE "idle"
        /\ UNCHANGED <<start, memVars, ppc, phead, calls, tail, crec, taken>>
  BY <1>1, Stored DEF Poll, CanLoad, LoadSeq, prodVars
<1>3. PICK v : v = Acquire([know[Consumer] EXCEPT !.seq[s] = n], written[s][n].view)
  OBVIOUS
<1>4. ViewOK(v) /\ v.seq[s] = n
  BY <1>1, <1>2, <1>3, Known, AcquireOK
<1>5. UNCHANGED <<start, head, written, data, accesses, ppc, phead, calls, tail, crec, taken>>
  BY <1>2 DEF memVars
<1>6. /\ ViewsOK' /\ StoresOK'
      /\ know' \in [Threads -> View] /\ know'[Consumer] = v
      /\ \A u \in Threads : u # Consumer => know'[u] = know[u]
      /\ \A u \in Threads : /\ know'[u].head <= head' /\ know'[u].done \subseteq accesses'
                            /\ \A x \in Slots : know'[u].seq[x] \in 1 .. Len(written'[x])
      /\ \A x : Last(x)' = Last(x) /\ Touched(x)' = Touched(x)
  BY <1>1, <1>2, <1>3, <1>4, MemoryStays
<1>7. cpc' \in {"idle", "read"} /\ (cpc' = "read" => IsWritten(written[s][n].pos))
  BY <1>2
<1>8. cpc' = "read" => /\ tail < head /\ Last(s).pos = tail + 1 /\ n = Len(written[s])
                       /\ \A t \in Threads : ~ Holds(t, s)
  BY <1>2, <1>7, PollFinds
<1>9. TypeOK'
  BY <1>5, <1>6, <1>7 DEF TypeOK
<1>10. WindowOK' /\ FreeOK' /\ HeldOK'
  BY <1>5, <1>6 DEF WindowOK, FreeOK, HeldOK
<1>11. ConsumerOK'
  BY <1>5, <1>6, <1>7, <1>8 DEF ConsumerOK, Position
<1>12. \A q \in Producers : Owns(q)' <=> Owns(q)
  BY <1>5 DEF Owns
<1>13. OwnersOK' /\ OneOwner' /\ CallsOK'
  <2>1. OwnersOK' /\ OneOwner'
    BY <1>5, <1>6, <1>12 DEF OwnersOK, OneOwner
  <2>2. CallsOK'
    BY <1>5 DEF CallsOK, Trying
  <2>. QED BY <2>1, <2>2
<1>14. WaitersOK'
  BY <1>1, <1>5, <1>6, Numbers DEF WaitersOK
<1>15. \A u \in Threads, x \in Slots :
         Holds(u, x)' <=> Holds(u, x) \/ (u = Consumer /\ cpc' = "read" /\ x = s)
  BY <1>1, <1>2, <1>5, <1>7, <1>12 DEF Holds
<1>16. HoldersKnow'
  <2>1. ASSUME cpc' = "read"
        PROVE  v.seq[s] = Len(written[s]) /\ Touched(s) \subseteq v.done
    <3>1. Touched(s) \subseteq Last(s).view.done
      BY <1>1, <1>8, <2>1 DEF FreeSlotsTell
    <3>2. written[s][v.seq[s]].view.done \subseteq v.done
      BY <1>1, <1>4 DEF ViewOK
    <3>. QED BY <1>4, <1>8, <2>1, <3>1, <3>2 DEF Last
  <2>2. \A x \in Slots : ~ Holds(Consumer, x)
    BY <1>1, <1>2 DEF Holds
  <2>3. ASSUME NEW u \in Threads, NEW x \in Slots, Holds(u, x)'
        PROVE  know'[u].seq[x] = Len(written[x]) /\ Touched(x) \subseteq know'[u].done
    <3>1. CASE u = Consumer
      BY <1>6, <1>15, <2>1, <2>2, <2>3, <3>1
    <3>2. CASE u # Consumer
      BY <1>6, <1>15, <2>3, <3>2 DEF HoldersKnow
    <3>. QED BY <3>1, <3>2
  <2>. QED BY <1>5, <1>6, <2>3 DEF HoldersKnow
<1>17. FreeSlotsTell'
  BY <1>6, <1>15 DEF FreeSlotsTell
<1>. QED BY <1>6, <1>9, <1>10, <1>11, <1>13, <1>14, <1>16, <1>17

LEMMA ReleaseHolds ==
  ASSUME Inv, Release
  PROVE  Inv'
<1>. DEFINE s == Slot(tail)
<1>. USE DEF Inv
<1>1. /\ cpc = "release" /\ cpc' = "idle"
      /\ StoreSeq(Consumer, s, tail + Capacity)
      /\ tail' = tail + 1 /\ taken' = Append(taken, crec)
      /\ UNCHANGED <<start, head, data, accesses, ppc, phead, calls, crec>>
  BY DEF Release, prodVars
<1>2. /\ tail \in Nat /\ tail \in tail .. tail + Capacity - 1 /\ s \in Slots
      /\ Slot(tail + Capacity) = s
      /\ Consumer \in Threads /\ Consumer \notin Producers
      /\ Holds(Consumer, s)
      /\ tail < head /\ Last(s).pos = tail + 1 /\ crec = tail
  <2>1. /\ tail \in Nat /\ tail \in tail .. tail + Capacity - 1
        /\ Consumer \in Threads /\ Consumer \notin Producers
    BY Numbers
  <2>2. s \in Slots /\ Slot(tail + Capacity) = s
    BY <2>1, SlotPeriodic
  <2>. QED BY <1>1, <2>1, <2>2 DEF Holds, ConsumerOK
<1>3. \A q \in Producers : Owns(q)' <=> Owns(q)
  BY <1>1 DEF Owns
<1>4. \A u \in Threads, x \in Slots : Holds(u, x)' <=> Holds(u, x) /\ x # s
  <2>1. \A u \in Threads : u # Consumer => ~ Holds(u, s)
    BY <1>2, OneHolder
  <2>2. \A x \in Slots : Holds(Consumer, x) <=> x = s
    BY <1>1, <1>2 DEF Holds
  <2>3. \A x \in Slots : ~ Holds(Consumer, x)'
    BY <1>1, <1>2 DEF Holds
  <2>4. \A u \in Threads, x \in Slots : u # Consumer => (Holds(u, x)' <=> Holds(u, x))
    BY <1>1, <1>3 DEF Holds
  <2>. QED BY <2>1, <2>2, <2>3, <2>4
<1>5. PICK pos \in Nat : pos = tail + Capacity
  BY Numbers
<1>6. Last(s).pos < pos /\ start <= pos /\ pos < head + Capacity
  BY <1>2, <1>5, Numbers
<1>7. PICK x \in Slots : x = s
  BY <1>2
<1>8. /\ ViewsOK' /\ StoresOK' /\ HoldersKnow' /\ FreeSlotsTell'
      /\ know' \in [Threads -> View]
      /\ written' \in [Slots -> Seq([pos : Nat, view : View])]
      /\ \A u \in Threads : u # Consumer => know'[u] = know[u]
      /\ \A u \in Threads : /\ know'[u].head <= head' /\ know'[u].done \subseteq accesses'
                            /\ \A y \in Slots : know'[u].seq[y] \in 1 .. Len(written'[y])
      /\ \A y \in Slots : y # x => Last(y)' = Last(y)
      /\ \A y \in Slots : \A n \in 1 .. Len(written[y]) : written'[y][n] = written[y][n]
      /\ Last(x)'.pos = pos
  <2>1. Holds(Consumer, x) /\ Last(x).pos < pos /\ StoreSeq(Consumer, x, pos)
        /\ \A u \in Threads, y \in Slots : Holds(u, y)' <=> Holds(u, y) /\ y # x
    BY <1>1, <1>2, <1>4, <1>5, <1>6, <1>7
  <2>. QED BY <1>1, <1>2, <1>6, <2>1, StoreKeeps
<1>9. \A k \in tail + 1 .. tail + Capacity - 1 :
        Slot(k) \in Slots /\ Slot(k) # x /\ Last(Slot(k))' = Last(Slot(k))
  <2>1. \A k \in tail + 1 .. tail + Capacity - 1 :
          k \in tail .. tail + Capacity - 1 /\ k # tail
    BY Numbers
  <2>. QED BY <1>2, <1>7, <1>8, <2>1, InWindow
<1>10. /\ Len(taken) \in Nat /\ taken' \in Seq(Nat \cup {-1})
       /\ Len(taken') = Len(taken) + 1 /\ taken'[Len(taken) + 1] = tail
       /\ \A k \in 1 .. Len(taken) : taken'[k] = taken[k]
  <2>1. taken \in Seq(Nat \cup {-1}) /\ crec \in Nat \cup {-1}
    BY DEF TypeOK
  <2>2. Len(taken) \in Nat
    BY <2>1, LenProperties
  <2>. QED BY <1>1, <1>2, <2>1, <2>2, AppendProperties
<1>11. TypeOK'
  <2>1. tail' \in Nat /\ tail' <= head'
    BY <1>1, <1>2, Numbers
  <2>. QED BY <1>1, <1>8, <1>10, <2>1 DEF TypeOK
<1>12. WindowOK'
  BY <1>1, <1>2, Numbers DEF WindowOK
<1>13. FreeOK'
  <2>1. ASSUME NEW k \in head .. tail + Capacity PROVE Last(Slot(k))'.pos = k
    <3>1. CASE k = tail + Capacity
      BY <1>2, <1>5, <1>7, <1>8, <3>1
    <3>2. CASE k # tail + Capacity
      <4>1. k \in tail + 1 .. tail + Capacity - 1 /\ k \in head .. tail + Capacity - 1
        BY <1>2, <3>2, Numbers
      <4>. QED BY <1>9, <4>1 DEF FreeOK
    <3>. QED BY <3>1, <3>2
  <2>2. tail' + Capacity - 1 = tail + Capacity
    BY <1>1, Numbers
  <2>. QED BY <1>1, <2>1, <2>2 DEF FreeOK
<1>14. \A k \in tail + 1 .. head - 1 :
         k \in tail + 1 .. tail + Capacity - 1 /\ k \in tail .. head - 1
  BY Numbers
<1>15. HeldOK'
  BY <1>1, <1>9, <1>14 DEF HeldOK
<1>16. OwnersOK' /\ OneOwner'
  <2>1. ASSUME NEW q \in Producers, Owns(q)
        PROVE  phead[q] \in tail + 1 .. head - 1
    <3>1. phead[q] \in tail .. head - 1 /\ phead[q] \in Nat /\ Last(Slot(phead[q])).pos = phead[q]
      BY <2>1, OwnerAt
    <3>2. phead[q] # tail
      BY <1>2, <3>1
    <3>. QED BY <1>2, <3>1, <3>2, Numbers
  <2>2. ASSUME NEW q \in Producers, Owns(q)
        PROVE  /\ tail + 1 <= phead[q] /\ phead[q] < head
               /\ Last(Slot(phead[q]))' = Last(Slot(phead[q]))
    <3>1. phead[q] \in tail + 1 .. head - 1 /\ phead[q] \in Nat
      BY <2>1, <2>2, OwnerAt
    <3>2. tail + 1 <= phead[q] /\ phead[q] < head
      BY <3>1, Numbers
    <3>. QED BY <1>1, <1>9, <1>14, <3>1, <3>2
  <2>3. OwnersOK'
    BY <1>1, <1>3, <2>2 DEF OwnersOK
  <2>4. OneOwner'
    BY <1>1, <1>3 DEF OneOwner
  <2>. QED BY <2>3, <2>4
<1>17. WaitersOK'
  <2>1. ASSUME NEW q \in Producers
        PROVE  LET y == Slot(phead[q])
               IN  written'[y][know'[q].seq[y]] = written[y][know[q].seq[y]]
    <3>1. q \in Threads /\ q # Consumer /\ Slot(phead[q]) \in Slots
      BY <1>2, Numbers, SlotPeriodic DEF TypeOK
    <3>2. know'[q] = know[q]
      BY <1>8, <3>1
    <3>. QED BY <1>8, <3>1, <3>2, Known DEF ViewOK
  <2>. QED BY <1>1, <2>1 DEF WaitersOK
<1>18. ConsumerOK'
  <2>1. Len(taken) = tail - start /\ \A k \in 1 .. Len(taken) : taken[k] = start + k - 1
    BY DEF ConsumerOK, Position
  <2>2. Len(taken') = tail' - start'
    BY <1>1, <1>2, <1>10, <2>1, Numbers
  <2>3. ASSUME NEW k \in 1 .. Len(taken') PROVE taken'[k] = start + k - 1
    <3>1. k \in 1 .. Len(taken) \/ k = Len(taken) + 1
      BY <1>10
    <3>2. start + (Len(taken) + 1) - 1 = tail
      BY <1>2, <1>10, <2>1, Numbers, SMTT(20)
    <3>. QED BY <1>10, <2>1, <3>1, <3>2
  <2>. QED BY <1>1, <2>2, <2>3 DEF ConsumerOK, Position
<1>19. CallsOK'
  BY <1>1 DEF CallsOK, Trying
<1>. QED BY <1>8, <1>11, <1>12, <1>13, <1>15, <1>16, <1>17, <1>18, <1>19

-----------------------------------------------------------------------------
(* The invariant holds. *)

LEMMA InitHolds == Init => Inv
<1>. SUFFICES ASSUME Init PROVE Inv
  OBVIOUS
<1>1. /\ start \in Starts /\ start \in Nat /\ head = start /\ tail = start
      /\ data = [s \in Slots |-> -1] /\ crec = -1
      /\ accesses = {} /\ taken = <<>> /\ calls = 0
      /\ ppc = [p \in Producers |-> "idle"] /\ phead = [p \in Producers |-> start]
      /\ cpc = "idle"
      /\ Capacity \in Nat /\ Capacity > 1 /\ MaxPushes \in Nat
  BY WeakRingAssumption DEF Init
<1>. DEFINE seen == [head |-> start, seq |-> [s \in Slots |-> 1], done |-> {}]
            first == [s \in Slots |-> CHOOSE k \in start .. start + Capacity - 1 : Slot(k) = s]
<1>2. /\ written = [s \in Slots |-> <<[pos |-> first[s], view |-> seen]>>]
      /\ know = [t \in Threads |-> seen]
  BY DEF Init
<1>3. \A s \in Slots : first[s] \in start .. start + Capacity - 1 /\ Slot(first[s]) = s
  BY <1>1, SlotCovered
<1>4. /\ seen \in View /\ seen.head = start /\ seen.done = {}
      /\ \A s \in Slots : seen.seq[s] = 1
  BY <1>1 DEF View
<1>. HIDE DEF first, seen
<1>5. \A s \in Slots : /\ first[s] \in Nat /\ start <= first[s] /\ first[s] < start + Capacity
  BY <1>1, <1>3
<1>6. PICK rec : rec = [s \in Slots |-> [pos |-> first[s], view |-> seen]]
  OBVIOUS
<1>7. /\ \A s \in Slots : rec[s] \in [pos : Nat, view : View]
                          /\ rec[s].pos = first[s] /\ rec[s].view = seen
      /\ written = [s \in Slots |-> <<rec[s]>>]
  BY <1>2, <1>4, <1>5, <1>6
<1>8. \A s \in Slots : /\ written[s] = <<rec[s]>> /\ written[s] \in Seq([pos : Nat, view : View])
                       /\ Len(written[s]) = 1 /\ written[s][1] = rec[s]
  BY <1>7
<1>9. \A s \in Slots : Last(s).pos = first[s] /\ Last(s).view = seen
  BY <1>7, <1>8 DEF Last
<1>10. \A k \in start .. start + Capacity - 1 : Slot(k) \in Slots /\ Last(Slot(k)).pos = k
  <2>1. ASSUME NEW k \in start .. start + Capacity - 1
        PROVE  Slot(k) \in Slots /\ first[Slot(k)] = k
    <3>1. k \in Nat
      BY <1>1
    <3>2. Slot(k) \in Slots
      BY <3>1, SlotPeriodic
    <3>. QED BY <1>1, <1>3, <3>2, WindowInjective
  <2>. QED BY <1>9, <2>1
<1>11. ViewOK(seen)
  BY <1>1, <1>4, <1>7, <1>8 DEF ViewOK
<1>12. ViewsOK
  <2>1. \A t \in Threads : know[t] = seen
    BY <1>2
  <2>. QED BY <1>4, <1>7, <1>8, <1>11, <2>1 DEF ViewsOK
<1>13. StoresOK
  BY <1>1, <1>5, <1>7, <1>8 DEF StoresOK
<1>14. TypeOK
  <2>1. written \in [Slots -> Seq([pos : Nat, view : View])]
    BY <1>7, <1>8
  <2>2. know \in [Threads -> View]
    BY <1>2, <1>4
  <2>3. \A t \in Threads : /\ know[t].head <= head /\ know[t].done \subseteq accesses
                           /\ \A s \in Slots : know[t].seq[s] \in 1 .. Len(written[s])
    BY <1>12 DEF ViewsOK, ViewOK
  <2>4. /\ taken \in Seq(Nat \cup {-1}) /\ calls \in 0 .. MaxPushes
        /\ head \in Nat /\ tail \in Nat /\ tail <= head
    BY <1>1
  <2>5. /\ data \in [Slots -> Nat \cup {-1}] /\ crec \in Nat \cup {-1}
        /\ ppc \in [Producers -> {"idle", "slot", "cas", "reload", "write", "publish"}]
        /\ phead \in [Producers -> Nat] /\ cpc \in {"idle", "read", "release"}
        /\ accesses \subseteq {"w", "r"} \X Nat
    BY <1>1
  <2>. QED BY <1>1, <2>1, <2>2, <2>3, <2>4, <2>5 DEF TypeOK
<1>15. WindowOK /\ FreeOK /\ HeldOK
  BY <1>1, <1>10 DEF WindowOK, FreeOK, HeldOK
<1>16. OwnersOK /\ OneOwner /\ WaitersOK
  BY <1>1 DEF OwnersOK, OneOwner, WaitersOK, Owns
<1>17. ConsumerOK
  BY <1>1, EmptySeq DEF ConsumerOK
<1>18. CallsOK
  <2>1. Trying = {}
    BY <1>1 DEF Trying
  <2>. QED BY <1>1, <2>1, FS_EmptySet DEF CallsOK
<1>19. HoldersKnow /\ FreeSlotsTell
  <2>1. \A t \in Threads, s \in Slots : ~ Holds(t, s)
    BY <1>1 DEF Holds, Owns
  <2>2. \A s \in Slots : Touched(s) = {}
    BY <1>1 DEF Touched, AccessesOf
  <2>. QED BY <2>1, <2>2 DEF HoldersKnow, FreeSlotsTell
<1>. QED BY <1>12, <1>13, <1>14, <1>15, <1>16, <1>17, <1>18, <1>19 DEF Inv

LEMMA StutterHolds ==
  ASSUME Inv, UNCHANGED vars
  PROVE  Inv'
<1>1. UNCHANGED <<start, head, written, data, accesses, know, ppc, phead, calls,
                  cpc, tail, crec, taken>>
  BY DEF vars, memVars, prodVars, consVars
<1>. USE <1>1 DEF Inv
<1>2. /\ \A v : ViewOK(v)' <=> ViewOK(v)
      /\ \A s : Last(s)' = Last(s) /\ Touched(s)' = Touched(s)
      /\ \A t, s : Holds(t, s)' <=> Holds(t, s)
      /\ \A p : Owns(p)' <=> Owns(p)
  BY DEF ViewOK, Last, Touched, AccessesOf, Holds, Owns
<1>3. TypeOK' /\ ViewsOK' /\ StoresOK'
  BY <1>2 DEF TypeOK, ViewsOK, StoresOK
<1>4. WindowOK' /\ FreeOK' /\ HeldOK' /\ OwnersOK' /\ OneOwner' /\ WaitersOK'
  BY <1>2 DEF WindowOK, FreeOK, HeldOK, OwnersOK, OneOwner, WaitersOK
<1>5. ConsumerOK' /\ CallsOK' /\ HoldersKnow' /\ FreeSlotsTell'
  BY <1>2 DEF ConsumerOK, Position, CallsOK, Trying, HoldersKnow, FreeSlotsTell
<1>. QED BY <1>3, <1>4, <1>5

LEMMA NextHolds == Inv /\ [Next]_vars => Inv'
BY CallPushHolds, LoadHolds, HeadHolds, ClaimHolds, WriteHolds, PublishHolds,
   PollHolds, ReadHolds, ReleaseHolds, StutterHolds DEF Next

\* Every reachable state of the ring, whatever stale values its threads read.
LEMMA Invariance == Spec => []Inv
BY InitHolds, NextHolds, PTL DEF Spec

-----------------------------------------------------------------------------
(* The results. *)

\* Types; no thread has seen more of a seq than there is, nor more of head.
THEOREM TypeCorrect == Spec => []TypeOK
<1>1. Inv => TypeOK
  BY DEF Inv
<1>. QED BY <1>1, Invariance, PTL

\* No data race: whoever copies a record into a slot or out of it has every earlier
\* access to the slot before it, by the Acquire and Release of seq alone (lines 114-138,
\* 163-177).
THEOREM DataRaceFree == Spec => []HappensBefore
<1>1. ASSUME Inv PROVE HappensBefore
  <2>1. ASSUME NEW p \in Producers, ppc[p] = "write"
        PROVE  AccessesOf({"w", "r"}, Slot(phead[p])) \subseteq know[p].done
    <3>1. Owns(p)
      BY <2>1 DEF Owns
    <3>2. Holds(p, Slot(phead[p])) /\ Slot(phead[p]) \in Slots /\ p \in Threads
      BY <1>1, <3>1, OwnerAt
    <3>. QED BY <1>1, <3>2 DEF Inv, HoldersKnow, Touched
  <2>2. ASSUME cpc = "read"
        PROVE  AccessesOf({"w"}, Slot(tail)) \subseteq know[Consumer].done
    <3>1. Holds(Consumer, Slot(tail)) /\ Consumer \in Threads
      BY <1>1, <2>2, Numbers DEF Holds
    <3>2. Slot(tail) \in Slots
      BY <1>1, SlotPeriodic DEF Inv, TypeOK
    <3>3. AccessesOf({"w"}, Slot(tail)) \subseteq Touched(Slot(tail))
      BY DEF AccessesOf, Touched
    <3>. QED BY <1>1, <3>1, <3>2, <3>3 DEF Inv, HoldersKnow
  <2>. QED BY <2>1, <2>2 DEF HappensBefore
<1>2. Inv => HappensBefore
  BY <1>1
<1>. QED BY <1>2, Invariance, PTL

\* Who is about to store a slot's seq has seen its last store: the order in which the
\* stores are listed is the only one the memory allows.
THEOREM StoresAreOrdered == Spec => []StorersSeeLast
<1>1. ASSUME Inv PROVE StorersSeeLast
  <2>1. ASSUME NEW p \in Producers, ppc[p] \in {"write", "publish"}
        PROVE  know[p].seq[Slot(phead[p])] = Len(written[Slot(phead[p])])
    <3>1. Owns(p)
      BY <2>1 DEF Owns
    <3>2. Holds(p, Slot(phead[p])) /\ Slot(phead[p]) \in Slots /\ p \in Threads
      BY <1>1, <3>1, OwnerAt
    <3>. QED BY <1>1, <3>2 DEF Inv, HoldersKnow
  <2>2. ASSUME cpc \in {"read", "release"}
        PROVE  know[Consumer].seq[Slot(tail)] = Len(written[Slot(tail)])
    <3>1. Holds(Consumer, Slot(tail)) /\ Consumer \in Threads
      BY <1>1, <2>2, Numbers DEF Holds
    <3>2. Slot(tail) \in Slots
      BY <1>1, SlotPeriodic DEF Inv, TypeOK
    <3>. QED BY <1>1, <3>1, <3>2 DEF Inv, HoldersKnow
  <2>. QED BY <2>1, <2>2 DEF StorersSeeLast
<1>2. Inv => StorersSeeLast
  BY <1>1
<1>. QED BY <1>2, Invariance, PTL

\* push reports overflow only on a seq of an earlier generation than the head it read,
\* also where the counters wrap (lines 120-121 and 146).
THEOREM RefusalsAreReal == Spec => RefusedByOlder
<1>. DEFINE Older(p) == LET s == Slot(phead[p])
                        IN  written[s][know'[p].seq[s]].pos < phead[p]
<1>1. ASSUME Inv, [Next]_vars, NEW p \in Producers, ppc[p] = "slot", ppc'[p] = "idle"
      PROVE  Reject(p)
  <2>1. p \in DOMAIN ppc
    BY <1>1 DEF Inv, TypeOK
  <2>2. ASSUME NEW q \in Producers,
               \/ CallPush(q) \/ LoadFree(q) \/ LoadTaken(q) \/ ReloadHead(q)
               \/ Claim(q) \/ LoseCas(q) \/ Write(q) \/ Publish(q)
        PROVE  FALSE
    BY <1>1, <2>1, <2>2 DEF CallPush, LoadFree, LoadTaken, LoadSlot, ReloadHead, Claim, LoseCas,
       Write, Publish
  <2>3. ASSUME NEW q \in Producers, Reject(q) PROVE q = p
    BY <1>1, <2>1, <2>3 DEF Reject, LoadSlot
  <2>4. CASE UNCHANGED ppc
    BY <1>1, <2>4
  <2>. QED BY <1>1, <2>2, <2>3, <2>4 DEF Next, Poll, Read, Release, vars, prodVars
<1>2. ASSUME Inv, NEW p \in Producers, Reject(p) PROVE Older(p)
  <2>1. PICK n \in Stores(p) : IsBehind(Ahead(p, n)) /\ LoadSlot(p, n, "idle")
    BY <1>2 DEF Reject
  <2>2. PICK v : v.seq[Slot(phead[p])] = n /\ know'[p] = v
    BY <1>2, <2>1, LoadSlotIs
  <2>3. /\ phead[p] \in Nat /\ written[Slot(phead[p])][n].pos \in Nat
        /\ Ahead(p, n) = written[Slot(phead[p])][n].pos - phead[p]
    BY <1>2, AheadIs
  <2>4. written[Slot(phead[p])][n].pos < phead[p]
    BY <2>1, <2>3 DEF IsBehind
  <2>. QED BY <2>2, <2>4
<1>3. Inv /\ [Next]_vars =>
        [\A p \in Producers : ppc[p] = "slot" /\ ppc'[p] = "idle" => Older(p)]_vars
  BY <1>1, <1>2
<1>. QED BY <1>3, Invariance, PTL DEF RefusedByOlder, Spec

-----------------------------------------------------------------------------
(* The ring implements the abstract log. *)

Log == [k \in 1 .. head - start |-> Position(k)]

StoredIn(s) == {written[s][n].pos : n \in 1 .. Len(written[s])}

LEMMA LogIs ==
  ASSUME start \in Nat, head \in Nat, start <= head
  PROVE  /\ Log \in Seq(Nat) /\ Len(Log) = head - start
         /\ \A k \in 1 .. head - start : Log[k] = start + k - 1
<1>. DEFINE n == head - start
<1>1. n \in Nat /\ \A k \in 1 .. n : start + k - 1 \in Nat
  OBVIOUS
<1>2. Log \in [1 .. n -> Nat] /\ \A k \in 1 .. n : Log[k] = start + k - 1
  BY <1>1 DEF Log, Position
<1>. HIDE DEF n
<1>3. Log \in Seq(Nat)
  BY <1>1, <1>2, SeqDef
<1>4. Len(Log) \in Nat /\ 1 .. Len(Log) = 1 .. n
  BY <1>2, <1>3, LenProperties
<1>5. Len(Log) = n
  BY <1>1, <1>4
<1>. QED BY <1>2, <1>3, <1>5 DEF n

LEMMA PublishedIs ==
  ASSUME Inv
  PROVE  /\ Published = {k \in 1 .. head - start : Position(k) + 1 \in StoredIn(Slot(Position(k)))}
         /\ \A k \in 1 .. head - start :
              /\ Position(k) = start + k - 1 /\ Position(k) \in start .. head - 1
              /\ Position(k) \in Nat /\ Slot(Position(k)) \in Slots
<1>1. \A k \in 1 .. head - start :
        /\ Position(k) = start + k - 1 /\ Position(k) \in start .. head - 1 /\ Position(k) \in Nat
  BY Numbers DEF Position
<1>2. \A k \in 1 .. head - start : Slot(Position(k)) \in Slots
  BY <1>1, SlotPeriodic
<1>3. \A s \in Slots : DOMAIN written[s] = 1 .. Len(written[s])
  BY Stored
<1>4. \A k \in 1 .. head - start :
        Position(k) + 1 \in StoredIn(Slot(Position(k))) <=>
          \E n \in DOMAIN written[Slot(Position(k))] :
            written[Slot(Position(k))][n].pos = Position(k) + 1
  BY <1>2, <1>3 DEF StoredIn
<1>. QED BY <1>1, <1>2, <1>4 DEF Published

\* No store of a slot is beyond its last.
LEMMA StoredUpTo ==
  ASSUME Inv, NEW s \in Slots
  PROVE  Last(s).pos \in StoredIn(s) /\ \A x \in StoredIn(s) : x \in Nat /\ x <= Last(s).pos
BY Stored DEF StoredIn, Last

LEMMA StoreAdds ==
  ASSUME Inv, NEW t \in Threads, NEW s \in Slots, NEW pos \in Nat, StoreSeq(t, s, pos)
  PROVE  \A x \in Slots : StoredIn(x)' = StoredIn(x) \cup (IF x = s THEN {pos} ELSE {})
<1>. DEFINE len == Len(written[s])
<1>1. PICK r : r = [pos |-> pos, view |-> [know[t] EXCEPT !.seq[s] = len + 1]]
  OBVIOUS
<1>2. written' = [written EXCEPT ![s] = Append(written[s], r)] /\ r.pos = pos
  BY <1>1 DEF StoreSeq, Released
<1>3. len \in Nat \ {0}
  BY Stored
<1>4. [know[t] EXCEPT !.seq[s] = len + 1] \in View
  <2>1. know[t] \in View /\ len + 1 \in Nat \ {0}
    BY <1>3, Known
  <2>. QED BY <2>1 DEF View
<1>5. r \in [pos : Nat, view : View] /\ written[s] \in Seq([pos : Nat, view : View])
      /\ written \in [Slots -> Seq([pos : Nat, view : View])]
  BY <1>1, <1>4 DEF Inv, TypeOK
<1>6. /\ Len(Append(written[s], r)) = len + 1
      /\ \A n \in 1 .. len : Append(written[s], r)[n] = written[s][n]
      /\ Append(written[s], r)[len + 1] = r
  BY <1>5, AppendProperties
<1>7. /\ \A x \in Slots : x # s => written'[x] = written[x]
      /\ written'[s] = Append(written[s], r)
  BY <1>2, <1>5
<1>8. 1 .. len + 1 = (1 .. len) \cup {len + 1}
  BY <1>3
<1>9. StoredIn(s)' = StoredIn(s) \cup {pos}
  BY <1>2, <1>6, <1>7, <1>8 DEF StoredIn
<1>10. \A x \in Slots : x # s => StoredIn(x)' = StoredIn(x)
  BY <1>7 DEF StoredIn
<1>. QED BY <1>9, <1>10

LEMMA ClaimReserves ==
  ASSUME Inv, NEW p \in Producers, Claim(p)
  PROVE  Abstract!Next
<1>. USE DEF Inv
<1>1. /\ ppc[p] = "cas" /\ CasMatches(p) /\ head' = head + 1
      /\ UNCHANGED <<start, written, taken>>
  BY DEF Claim, consVars
<1>2. /\ head < tail + Capacity /\ Slot(head) \in Slots /\ Last(Slot(head)).pos = head
  BY <1>1, ClaimFinds
<1>3. /\ Log \in Seq(Nat) /\ Len(Log) = head - start
      /\ \A k \in 1 .. head - start : Log[k] = start + k - 1
  BY Numbers, LogIs
<1>4. /\ Log' \in Seq(Nat) /\ Len(Log') = head + 1 - start
      /\ \A k \in 1 .. head + 1 - start : Log'[k] = start + k - 1
  <2>1. start' \in Nat /\ head' \in Nat /\ start' <= head'
    BY <1>1, Numbers
  <2>2. (start \in Nat /\ head \in Nat /\ start <= head =>
           /\ Log \in Seq(Nat) /\ Len(Log) = head - start
           /\ \A k \in 1 .. head - start : Log[k] = start + k - 1)'
    BY LogIs, PTL
  <2>3. /\ Log' \in Seq(Nat) /\ Len(Log') = head' - start'
        /\ \A k \in 1 .. head' - start' : Log'[k] = start' + k - 1
    BY <2>1, <2>2
  <2>4. start' = start /\ head' - start' = head + 1 - start
    <3>1. start \in Nat /\ head \in Nat
      BY Numbers
    <3>. QED BY <1>1, <3>1
  <2>5. Log' \in Seq(Nat) /\ Len(Log') = head + 1 - start
    BY <2>3, <2>4
  <2>6. \A k \in 1 .. head + 1 - start : Log'[k] = start + k - 1
    BY <2>3, <2>4
  <2>. QED BY <2>5, <2>6
<1>5. Log' = Append(Log, head)
  <2>1. /\ Append(Log, head) \in Seq(Nat) /\ Len(Append(Log, head)) = head - start + 1
        /\ \A k \in 1 .. head - start : Append(Log, head)[k] = Log[k]
        /\ Append(Log, head)[head - start + 1] = head
    BY <1>3, Numbers, AppendProperties
  <2>2. Len(Log') = Len(Append(Log, head))
    BY <1>4, <2>1, Numbers
  <2>3. ASSUME NEW k \in 1 .. Len(Log') PROVE Log'[k] = Append(Log, head)[k]
    <3>1. k \in 1 .. head - start \/ k = head - start + 1
      BY <1>4, Numbers
    <3>2. start + (head - start + 1) - 1 = head
      BY Numbers
    <3>. QED BY <1>3, <1>4, <2>1, <3>1, <3>2
  <2>. QED BY <1>4, <2>1, <2>2, <2>3, SeqEqual
<1>6. Published' = Published
  <2>1. \A s : StoredIn(s)' = StoredIn(s)
    BY <1>1 DEF StoredIn
  <2>2. Published' = {k \in 1 .. head + 1 - start :
                        \E n \in DOMAIN written[Slot(Position(k))] :
                          written[Slot(Position(k))][n].pos = Position(k) + 1}
    <3>1. \A k : Position(k)' = Position(k)
      BY <1>1 DEF Position
    <3>2. head' - start' = head + 1 - start /\ written' = written
      <4>1. start \in Nat /\ head \in Nat
        BY Numbers
      <4>. QED BY <1>1, <4>1
    <3>. QED BY <3>1, <3>2 DEF Published, Slot
  <2>3. ASSUME NEW k \in 1 .. head + 1 - start, k \notin 1 .. head - start,
               NEW n \in DOMAIN written[Slot(Position(k))],
               written[Slot(Position(k))][n].pos = Position(k) + 1
        PROVE  FALSE
    <3>1. Position(k) = head
      BY <2>3, Numbers DEF Position
    <3>2. n \in 1 .. Len(written[Slot(head)])
      BY <1>2, <3>1, Stored
    <3>3. written[Slot(head)][n].pos <= head
      BY <1>2, <3>2, Stored
    <3>. QED BY <2>3, <3>1, <3>3, Numbers
  <2>4. 1 .. head - start \subseteq 1 .. head + 1 - start
    BY Numbers
  <2>. QED BY <2>2, <2>3, <2>4 DEF Published
<1>7. Len(Log) < Len(taken) + Capacity
  BY <1>2, <1>3, Numbers DEF ConsumerOK
<1>8. head \in UNION {k .. k + MaxPushes : k \in Starts}
  <2>1. start \in Starts /\ head \in start .. start + MaxPushes
    BY Numbers DEF WindowOK
  <2>. QED BY <2>1
<1>9. Abstract!Reserve(head)
  BY <1>1, <1>5, <1>6, <1>7 DEF Abstract!Reserve, Log
<1>. QED BY <1>8, <1>9 DEF Abstract!Next

LEMMA PublishSeals ==
  ASSUME Inv, NEW p \in Producers, Publish(p)
  PROVE  Abstract!Next
<1>. USE DEF Inv
<1>1. /\ Owns(p) /\ StoreSeq(p, Slot(phead[p]), phead[p] + 1)
      /\ UNCHANGED <<start, head, taken>>
  BY DEF Publish, consVars, Owns
<1>2. PICK h \in Nat, s \in Slots : h = phead[p] /\ s = Slot(h)
  BY <1>1, OwnerAt
<1>3. /\ h \in tail .. head - 1 /\ Last(s).pos = h /\ p \in Threads
  BY <1>1, <1>2, OwnerAt
<1>4. \A x \in Slots : StoredIn(x)' = StoredIn(x) \cup (IF x = s THEN {h + 1} ELSE {})
  BY <1>1, <1>2, <1>3, StoreAdds
<1>5. PICK k0 \in 1 .. head - start : k0 = h - start + 1
  BY <1>3, Numbers
<1>6. \A k \in 1 .. head - start : Position(k) = h <=> k = k0
  BY <1>5, Numbers DEF Position
<1>7. k0 \notin Published
  <2>1. h + 1 \notin StoredIn(s)
    BY <1>3, StoredUpTo
  <2>. QED BY <1>2, <1>5, <1>6, <2>1, PublishedIs
<1>8. Published' = Published \cup {k0}
  <2>1. Published' = {k \in 1 .. head - start : Position(k) + 1 \in StoredIn(Slot(Position(k)))'}
    <3>1. Inv'
      BY PublishHolds
    <3>2. (Inv => Published =
             {k \in 1 .. head - start : Position(k) + 1 \in StoredIn(Slot(Position(k)))})'
      BY PublishedIs, PTL
    <3>3. \A k : Position(k)' = Position(k)
      BY <1>1 DEF Position
    <3>. QED BY <1>1, <3>1, <3>2, <3>3
  <2>2. ASSUME NEW k \in 1 .. head - start
        PROVE  Position(k) + 1 \in StoredIn(Slot(Position(k)))' <=>
                 Position(k) + 1 \in StoredIn(Slot(Position(k))) \/ k = k0
    <3>1. Position(k) \in Nat /\ Slot(Position(k)) \in Slots
      BY PublishedIs
    <3>2. Position(k) + 1 = h + 1 <=> k = k0
      BY <1>6, <3>1
    <3>3. k = k0 => Slot(Position(k)) = s
      BY <1>2, <1>6
    <3>4. PICK x \in Slots : x = Slot(Position(k))
      BY <3>1
    <3>5. (Slot(Position(k)))' = x
      BY <1>1, <3>4 DEF Position, Slot
    <3>6. StoredIn(Slot(Position(k)))' = StoredIn(x)'
      BY <3>5 DEF StoredIn
    <3>7. StoredIn(x)' = StoredIn(x) \cup (IF x = s THEN {h + 1} ELSE {})
      BY <1>4
    <3>. QED BY <3>2, <3>3, <3>4, <3>6, <3>7
  <2>. QED BY <2>1, <2>2, PublishedIs
<1>9. UNCHANGED <<Log, taken>> /\ Len(Log) = head - start
  BY <1>1, Numbers, LogIs DEF Log, Position
<1>10. Abstract!Seal(k0) /\ k0 \in 1 .. Len(Log)
  BY <1>5, <1>7, <1>8, <1>9 DEF Abstract!Seal, Log
<1>. QED BY <1>10 DEF Abstract!Next, Log

LEMMA ReleaseTakes ==
  ASSUME Inv, Release
  PROVE  Abstract!Next
<1>. USE DEF Inv
<1>1. /\ cpc = "release" /\ StoreSeq(Consumer, Slot(tail), tail + Capacity)
      /\ taken' = Append(taken, crec) /\ UNCHANGED <<start, head>>
  BY DEF Release, prodVars
<1>2. /\ tail < head /\ Last(Slot(tail)).pos = tail + 1 /\ crec = tail
      /\ Len(taken) = tail - start
  BY <1>1 DEF ConsumerOK
<1>3. /\ tail \in tail .. tail + Capacity - 1 /\ Consumer \in Threads
      /\ tail + Capacity \in Nat /\ tail \in Nat
  BY Numbers
<1>4. PICK s \in Slots : s = Slot(tail)
  BY <1>3, SlotPeriodic
<1>5. \A x \in Slots : StoredIn(x)' = StoredIn(x) \cup (IF x = s THEN {tail + Capacity} ELSE {})
  <2>1. PICK pos \in Nat : pos = tail + Capacity
    BY <1>3
  <2>. QED BY <1>1, <1>3, <1>4, <2>1, StoreAdds
<1>6. Published' = Published
  <2>1. Published' = {k \in 1 .. head - start : Position(k) + 1 \in StoredIn(Slot(Position(k)))'}
    <3>1. Inv'
      BY ReleaseHolds
    <3>2. (Inv => Published =
             {k \in 1 .. head - start : Position(k) + 1 \in StoredIn(Slot(Position(k)))})'
      BY PublishedIs, PTL
    <3>3. \A k : Position(k)' = Position(k)
      BY <1>1 DEF Position
    <3>. QED BY <1>1, <3>1, <3>2, <3>3
  <2>2. ASSUME NEW k \in 1 .. head - start, Slot(Position(k)) = s, Position(k) + 1 = tail + Capacity
        PROVE  FALSE
    <3>1. Position(k) \in tail .. tail + Capacity - 1 /\ Position(k) # tail
      BY <2>2, PublishedIs, Numbers
    <3>. QED BY <1>3, <1>4, <2>2, <3>1, InWindow
  <2>3. ASSUME NEW k \in 1 .. head - start
        PROVE  Position(k) + 1 \in StoredIn(Slot(Position(k)))' <=>
                 Position(k) + 1 \in StoredIn(Slot(Position(k)))
    <3>1. Slot(Position(k)) \in Slots
      BY PublishedIs
    <3>2. PICK x \in Slots : x = Slot(Position(k))
      BY <3>1
    <3>3. (Slot(Position(k)))' = x
      BY <1>1, <3>2 DEF Position, Slot
    <3>4. StoredIn(Slot(Position(k)))' = StoredIn(x)'
      BY <3>3 DEF StoredIn
    <3>5. StoredIn(x)' = StoredIn(x) \cup (IF x = s THEN {tail + Capacity} ELSE {})
      BY <1>5
    <3>. QED BY <2>2, <3>2, <3>4, <3>5
  <2>. QED BY <2>1, <2>3, PublishedIs
<1>7. PICK k0 \in 1 .. head - start : k0 = Len(taken) + 1 /\ Position(k0) = tail
  <2>1. tail - start + 1 \in 1 .. head - start /\ start + (tail - start + 1) - 1 = tail
    BY <1>2, Numbers
  <2>. QED BY <1>2, <2>1 DEF Position
<1>8. k0 \in Published
  <2>1. tail + 1 \in StoredIn(s)
    BY <1>2, <1>4, StoredUpTo
  <2>. QED BY <1>4, <1>7, <2>1, PublishedIs
<1>9. UNCHANGED Log /\ Log[k0] = tail
  BY <1>1, <1>7 DEF Log, Position
<1>10. Abstract!Take
  BY <1>1, <1>2, <1>6, <1>7, <1>8, <1>9 DEF Abstract!Take, Log
<1>. QED BY <1>10 DEF Abstract!Next

\* Claiming a position is Reserve, publishing it is Seal and releasing it is Take; every
\* other step, and every stale value it reads, is invisible.
THEOREM RingImplementsLog == Spec => ImplementsLog
<1>1. Init => Abstract!Init
  <2>. SUFFICES ASSUME Init PROVE Abstract!Init
    OBVIOUS
  <2>1. Inv
    BY InitHolds
  <2>2. start = head /\ taken = <<>> /\ head \in Nat /\ start \in Nat
    BY <2>1, Numbers DEF Init
  <2>3. Log \in Seq(Nat) /\ Len(Log) = 0
    BY <2>2, LogIs
  <2>4. Log = <<>>
    BY <2>3, EmptySeq
  <2>5. Published = {}
    BY <2>2 DEF Published
  <2>. QED BY <2>2, <2>4, <2>5 DEF Abstract!Init, Log
<1>2. ASSUME UNCHANGED <<start, head, written, taken>>
      PROVE  UNCHANGED Abstract!vars
  BY <1>2 DEF Abstract!vars, Published, Position
<1>3. Inv /\ [Next]_vars => [Abstract!Next]_(Abstract!vars)
  <2>. SUFFICES ASSUME Inv, [Next]_vars PROVE Abstract!Next \/ UNCHANGED Abstract!vars
    OBVIOUS
  <2>1. ASSUME NEW p \in Producers,
               \/ CallPush(p) \/ LoadFree(p) \/ Reject(p) \/ LoadTaken(p) \/ ReloadHead(p)
               \/ LoseCas(p) \/ Write(p)
        PROVE  UNCHANGED <<start, head, written, taken>>
    BY <2>1 DEF CallPush, LoadFree, Reject, LoadTaken, LoadSlot, ReloadHead, LoseCas, Write,
       memVars, consVars
  <2>2. ASSUME Poll \/ Read PROVE UNCHANGED <<start, head, written, taken>>
    BY <2>2 DEF Poll, Read, memVars
  <2>3. CASE UNCHANGED vars
    BY <1>2, <2>3 DEF vars, memVars, consVars
  <2>. QED BY <1>2, <2>1, <2>2, <2>3, ClaimReserves, PublishSeals, ReleaseTakes DEF Next
<1>. QED BY <1>1, <1>3, Invariance, PTL DEF Spec, ImplementsLog, Abstract!Spec

=============================================================================
