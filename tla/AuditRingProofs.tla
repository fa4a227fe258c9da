-------------------------- MODULE AuditRingProofs ---------------------------
(***************************************************************************)
(* Proofs about AuditRing for every number of producers, every capacity of *)
(* at least two, every bound on the pushes and every set of records.  The  *)
(* theorems that need it assume the single consumer that pop asks for.     *)
(***************************************************************************)
EXTENDS AuditRing, RingArithmetic, TLAPS

SingleConsumer == \A c, d \in Consumers : c = d

-----------------------------------------------------------------------------
(* Positions and slots. *)

\* Two positions less than a lap apart never share a slot.
LEMMA SlotInjective ==
  \A a, b \in Nat : a < b /\ b < a + Capacity => Slot(a) # Slot(b)
BY AuditRingAssumption, ModInjective DEF Slot

\* A position and the one a lap later share their slot.
LEMMA SlotPeriodic ==
  \A a \in Nat : Slot(a) \in Slots /\ Slot(a + Capacity) = Slot(a)
BY AuditRingAssumption, ModPeriodic DEF Slot, Slots

\* Every window of Capacity positions reaches every slot.
LEMMA SlotCovered ==
  \A t \in Nat, i \in Slots : \E k \in t .. t + Capacity - 1 : Slot(k) = i
BY AuditRingAssumption, ModCovered DEF Slot, Slots

-----------------------------------------------------------------------------
(* Types. *)

\* A step of push or pop, or a stutter, keeps the types.
LEMMA TypeStep == TypeOK /\ [Next]_vars => TypeOK'
<1> SUFFICES ASSUME TypeOK, [Next]_vars PROVE TypeOK'
  OBVIOUS
<1> USE AuditRingAssumption DEF TypeOK
<1>1. ASSUME NEW p \in Producers, NEW r \in Records, CallPush(p, r) PROVE TypeOK'
  BY <1>1 DEF CallPush, consVars
<1>2. ASSUME NEW p \in Producers, PushStep(p) PROVE TypeOK'
  <2>1. CASE LoadFree(p) \/ Reject(p) \/ LoadTaken(p)
    BY <2>1 DEF LoadFree, Reject, LoadTaken, consVars
  <2>2. CASE ReloadHead(p) \/ LoseCas(p)
    <3>1. phead' = [phead EXCEPT ![p] = head] /\ ppc' = [ppc EXCEPT ![p] = "slot"] /\ ppc[p] # "idle"
          /\ UNCHANGED <<seq, data, head, tail, prec, consVars, calls, log, taken>>
      BY <2>2 DEF ReloadHead, LoseCas
    <3>2. /\ phead' \in [Producers -> Nat]
          /\ ppc' \in [Producers -> {"idle", "slot", "cas", "reload", "write", "publish"}]
      BY <3>1
    <3>3. \A q \in Producers : ppc'[q] # "idle" => prec'[q] \in Records
      BY <3>1
    <3> QED
      BY <3>1, <3>2, <3>3 DEF consVars
  <2>3. CASE Claim(p)
    BY <2>3 DEF Claim, consVars
  <2>4. CASE Write(p)
    BY <2>4 DEF Write, consVars
  <2>5. CASE Publish(p)
    <3>1. phead[p] + 1 \in Nat
      OBVIOUS
    <3>2. seq' \in [Slots -> Nat]
      BY <2>5, <3>1 DEF Publish
    <3> QED
      BY <2>5, <3>2 DEF Publish, consVars
  <2> QED
    BY <1>2, <2>1, <2>2, <2>3, <2>4, <2>5 DEF PushStep
<1>3. ASSUME NEW c \in Consumers, PopStep(c) PROVE TypeOK'
  <2>1. CASE CallPop(c) \/ LoadWritten(c) \/ ReturnNone(c)
    <3>1. /\ ctail' \in [Consumers -> Nat]
          /\ cpc' \in [Consumers -> {"idle", "slot", "read", "release", "advance"}]
          /\ UNCHANGED <<seq, data, head, tail, prodVars, crec, calls, log, taken>>
      BY <2>1 DEF CallPop, LoadWritten, ReturnNone
    <3> QED
      BY <3>1 DEF prodVars
  <2>2. CASE Read(c)
    <3>1. data[Slot(ctail[c])] \in Records \cup {Blank}
      BY SlotPeriodic
    <3> QED
      BY <2>2, <3>1 DEF Read, prodVars
  <2>3. CASE Release(c)
    <3>1. NextGeneration(ctail[c]) \in Nat
      BY DEF NextGeneration
    <3>2. seq' \in [Slots -> Nat]
      BY <2>3, <3>1 DEF Release
    <3> QED
      BY <2>3, <3>2 DEF Release, prodVars
  <2>4. CASE Advance(c)
    BY <2>4 DEF Advance, prodVars
  <2> QED
    BY <1>3, <2>1, <2>2, <2>3, <2>4 DEF PopStep
<1>4. ASSUME UNCHANGED vars PROVE TypeOK'
  BY <1>4 DEF vars, prodVars, consVars
<1> QED
  BY <1>1, <1>2, <1>3, <1>4 DEF Next

\* The fields and locals of the ring keep their types, however many threads
\* call push and pop.
THEOREM TypeCorrect == Spec => []TypeOK
<1>1. Init => TypeOK
  BY AuditRingAssumption DEF Init, TypeOK, Slots
<1> QED
  BY <1>1, TypeStep, PTL DEF Spec

-----------------------------------------------------------------------------
(* The inductive invariant. *)

LEMMA InitInvariant == Init => IInv
<1> SUFFICES ASSUME Init PROVE IInv
  OBVIOUS
<1> USE AuditRingAssumption DEF Init
<1>1. TypeOK
  BY DEF TypeOK, Slots
<1>2. Popped = 0 /\ head = 0 /\ Len(log) = 0
  BY DEF Popped
<1>3. WindowOK
  BY <1>2 DEF WindowOK
<1>4. FreeOK
  <2>1. \A k \in 0 .. Capacity - 1 : Slot(k) = k
    BY DEF Slot
  <2> QED
    BY <1>2, <2>1 DEF FreeOK, Slots
<1>5. HeldOK /\ OwnersOK /\ OneOwner
  BY <1>2 DEF HeldOK, OwnersOK, OneOwner, Owns
<1>6. WaitersOK /\ ConsumerOK
  BY <1>2 DEF WaitersOK, ConsumerOK
<1>7. TakenInClaimOrder /\ ClaimHasOwner
  BY DEF TakenInClaimOrder, ClaimHasOwner
<1> QED
  BY <1>1, <1>3, <1>4, <1>5, <1>6, <1>7 DEF IInv

\* Steps that change nothing but where a producer is and the head it knows,
\* and that neither start nor end an ownership.
LEMMA WaiterStep ==
  ASSUME IInv, TypeOK', NEW p \in Producers,
         \/ \E r \in Records : CallPush(p, r)
         \/ LoadFree(p) \/ Reject(p) \/ LoadTaken(p) \/ ReloadHead(p) \/ LoseCas(p)
  PROVE  IInv'
<1> USE DEF IInv, TypeOK
<1>1. /\ UNCHANGED <<seq, data, head, tail, cpc, ctail, crec, log, taken>>
      /\ \A q \in Producers : q # p => /\ ppc'[q] = ppc[q] /\ phead'[q] = phead[q]
                                       /\ prec'[q] = prec[q]
      /\ ~ Owns(p) /\ ~ Owns(p)'
  BY DEF CallPush, LoadFree, Reject, LoadTaken, ReloadHead, LoseCas, consVars, Owns
<1>2. Popped' = Popped
  BY <1>1 DEF Popped
<1>3. WindowOK' /\ FreeOK' /\ HeldOK' /\ ConsumerOK' /\ TakenInClaimOrder'
  BY <1>1, <1>2 DEF WindowOK, FreeOK, HeldOK, ConsumerOK, TakenInClaimOrder
<1>4. \A q \in Producers : /\ Owns(q)' <=> Owns(q)
                           /\ Owns(q) => phead'[q] = phead[q] /\ prec'[q] = prec[q]
                                         /\ ppc'[q] = ppc[q]
  BY <1>1 DEF Owns
<1>5. OwnersOK' /\ OneOwner' /\ ClaimHasOwner'
  <2>1. OwnersOK'
    BY <1>1, <1>2, <1>4 DEF OwnersOK
  <2>2. OneOwner'
    BY <1>4 DEF OneOwner
  <2>3. ClaimHasOwner'
    BY <1>1, <1>4 DEF ClaimHasOwner, SoleOwner
  <2> QED
    BY <2>1, <2>2, <2>3
<1>6. WaitersOK'
  <2> SUFFICES ASSUME NEW q \in Producers
               PROVE  /\ ppc'[q] \in {"slot", "cas"} => phead'[q] <= head
                      /\ ppc'[q] = "cas" /\ phead'[q] = head => head < Popped + Capacity
    BY <1>1, <1>2 DEF WaitersOK
  <2>1. CASE q # p
    BY <1>1, <2>1 DEF WaitersOK
  <2>2. CASE q = p /\ LoadFree(p)
    <3>1. SeenFree(p) /\ phead' = phead /\ phead[p] <= head
      BY <2>2 DEF LoadFree, WaitersOK
    <3>2. ASSUME phead[p] = head PROVE head < Popped + Capacity
      <4>1. Popped \in Nat /\ head <= Popped + Capacity
        BY DEF Popped, WindowOK
      <4>2. ASSUME head = Popped + Capacity PROVE FALSE
        <5>1. Slot(head) = Slot(Popped)
          BY <4>1, <4>2, SlotPeriodic
        <5>2. seq[Slot(Popped)] \in {Popped, Popped + 1}
          BY <4>1, <4>2, AuditRingAssumption DEF HeldOK
        <5> QED
          BY <3>1, <3>2, <4>1, <4>2, <5>1, <5>2, AuditRingAssumption DEF SeenFree
      <4> QED
        BY <4>1, <4>2, AuditRingAssumption
    <3> QED
      BY <2>2, <3>1, <3>2
  <2>3. CASE q = p /\ ~ LoadFree(p)
    BY <2>3 DEF CallPush, Reject, LoadTaken, ReloadHead, LoseCas
  <2> QED
    BY <2>1, <2>2, <2>3
<1> QED
  BY <1>3, <1>5, <1>6

\* Facts about the window that the remaining lemmas share.
LEMMA WindowFacts ==
  ASSUME IInv
  PROVE  /\ Popped \in Nat /\ head \in Nat /\ Capacity \in Nat /\ Capacity > 1
         /\ Popped <= head /\ head <= Popped + Capacity /\ head = Len(log)
BY AuditRingAssumption DEF IInv, TypeOK, WindowOK, Popped

LEMMA WindowInjective ==
  ASSUME NEW t \in Nat
  PROVE  \A j, k \in t .. t + Capacity - 1 : j # k => Slot(j) # Slot(k)
<1> SUFFICES ASSUME NEW j \in t .. t + Capacity - 1, NEW k \in t .. t + Capacity - 1, j # k
             PROVE  Slot(j) # Slot(k)
  OBVIOUS
<1>1. j \in Nat /\ k \in Nat /\ Capacity \in Nat
  BY AuditRingAssumption
<1>2. CASE j < k
  BY <1>1, <1>2, SlotInjective
<1>3. CASE k < j
  BY <1>1, <1>3, SlotInjective
<1> QED
  BY <1>1, <1>2, <1>3

\* The producer that wins the CAS extends the held part of the window by one.
LEMMA ClaimStep ==
  ASSUME IInv, TypeOK', NEW p \in Producers, Claim(p)
  PROVE  IInv'
<1> USE DEF IInv, TypeOK
<1>1. /\ UNCHANGED <<seq, data, tail, cpc, ctail, crec, taken, phead, prec>>
      /\ ppc[p] = "cas" /\ phead[p] = head /\ head' = head + 1
      /\ log' = Append(log, prec[p])
      /\ ppc' = [ppc EXCEPT ![p] = "write"]
  BY DEF Claim, CasMatches, consVars
<1>2. /\ Popped' = Popped /\ Popped \in Nat /\ head < Popped + Capacity
      /\ Popped <= head /\ head = Len(log) /\ Capacity \in Nat
  BY <1>1, WindowFacts DEF Popped, WaitersOK
<1>3. seq[Slot(head)] = head
  <2>1. head \in Nat /\ head \in head .. Popped + Capacity - 1
    BY <1>2
  <2> QED
    BY <2>1 DEF FreeOK
<1>4. /\ Len(log') = head + 1
      /\ \A k \in 1 .. head : log'[k] = log[k]
      /\ log'[head + 1] = prec[p]
  BY <1>1, <1>2
<1>5. ~ Owns(p) /\ Owns(p)' /\ \A q \in Producers : q # p => (Owns(q)' <=> Owns(q)) /\ ppc'[q] = ppc[q]
  BY <1>1 DEF Owns
<1>6. WindowOK'
  BY <1>1, <1>2, <1>4 DEF WindowOK
<1>7. FreeOK'
  BY <1>1, <1>2 DEF FreeOK
<1>8. HeldOK'
  <2> SUFFICES ASSUME NEW k \in Popped .. head
               PROVE  \/ seq[Slot(k)] = k
                      \/ seq[Slot(k)] = k + 1 /\ data[Slot(k)] = log'[k + 1]
    BY <1>1, <1>2 DEF HeldOK
  <2>1. CASE k = head
    BY <1>3, <2>1
  <2>2. CASE k \in Popped .. head - 1
    BY <1>2, <1>4, <2>2 DEF HeldOK
  <2> QED
    BY <1>2, <2>1, <2>2
<1>9. OwnersOK'
  <2> SUFFICES ASSUME NEW q \in Producers, Owns(q)'
               PROVE  /\ Popped <= phead[q] /\ phead[q] < head + 1
                      /\ seq[Slot(phead[q])] = phead[q]
                      /\ prec[q] = log'[phead[q] + 1]
                      /\ ppc'[q] = "publish" => data[Slot(phead[q])] = prec[q]
    BY <1>1, <1>2 DEF OwnersOK
  <2>1. CASE q = p
    BY <1>1, <1>2, <1>3, <1>4, <2>1
  <2>2. CASE q # p
    <3>1. Owns(q) /\ phead[q] \in Nat /\ Popped <= phead[q] /\ phead[q] < head
      BY <1>5, <2>2 DEF OwnersOK
    <3>2. log'[phead[q] + 1] = log[phead[q] + 1]
      BY <1>2, <1>4, <3>1, SMTT(20)
    <3> QED
      BY <1>2, <1>5, <2>2, <3>1, <3>2, SMTT(20) DEF OwnersOK
  <2> QED
    BY <2>1, <2>2
<1>10. OneOwner'
  <2>1. \A q \in Producers : Owns(q) => phead[q] < head
    BY DEF OwnersOK
  <2>2. \A q \in Producers : Owns(q) => phead[q] # head
    BY <1>2, <2>1
  <2> SUFFICES ASSUME NEW q \in Producers, NEW o \in Producers,
                      Owns(q)', Owns(o)', phead[q] = phead[o], q # o
               PROVE  FALSE
    BY <1>1 DEF OneOwner
  <2>3. CASE q = p \/ o = p
    BY <1>1, <1>5, <2>2, <2>3
  <2>4. CASE q # p /\ o # p
    BY <1>5, <2>4 DEF OneOwner
  <2> QED
    BY <2>3, <2>4
<1>11. WaitersOK'
  BY <1>1, <1>2 DEF WaitersOK
<1>12. ConsumerOK'
  <2>1. Popped < head => log'[Popped + 1] = log[Popped + 1]
    <3>1. Popped < head => Popped + 1 \in 1 .. head
      BY <1>2
    <3> QED
      BY <1>4, <3>1
  <2> QED
    BY <1>1, <1>2, <2>1 DEF ConsumerOK
<1>13. TakenInClaimOrder'
  BY <1>1, <1>2, <1>4 DEF TakenInClaimOrder, Popped
<1>14. ClaimHasOwner'
  <2> SUFFICES ASSUME NEW k \in Popped .. head, seq[Slot(k)] # k + 1
               PROVE  \E q \in Producers : SoleOwner(q, k)'
    BY <1>1, <1>2 DEF ClaimHasOwner, Popped
  <2>1. CASE k = head
    BY <1>1, <1>5, <1>10, <2>1 DEF OneOwner, SoleOwner
  <2>2. CASE k \in Popped .. head - 1
    <3>1. PICK q \in Producers : Owns(q) /\ phead[q] = k
      BY <2>2 DEF ClaimHasOwner, SoleOwner, Popped
    <3> QED
      BY <1>1, <1>5, <1>10, <3>1 DEF OneOwner, SoleOwner
  <2> QED
    BY <1>2, <2>1, <2>2
<1> QED
  BY <1>6, <1>7, <1>8, <1>9, <1>10, <1>11, <1>12, <1>13, <1>14

\* Copying the record in touches only the slot the producer owns.
LEMMA WriteStep ==
  ASSUME IInv, TypeOK', NEW p \in Producers, Write(p)
  PROVE  IInv'
<1> USE DEF IInv, TypeOK
<1>0. /\ Popped \in Nat /\ head \in Nat /\ Capacity \in Nat /\ Capacity > 1
      /\ Popped <= head /\ head <= Popped + Capacity
  BY WindowFacts
<1>1. /\ UNCHANGED <<seq, head, tail, cpc, ctail, crec, log, taken, phead, prec>>
      /\ data' = [data EXCEPT ![Slot(phead[p])] = prec[p]]
      /\ ppc[p] = "write" /\ ppc' = [ppc EXCEPT ![p] = "publish"]
      /\ Popped' = Popped
  BY DEF Write, consVars, Popped
<1>2. \A q \in Producers : /\ Owns(q)' <=> Owns(q)
                           /\ q # p => ppc'[q] = ppc[q]
  BY <1>1 DEF Owns
<1>3. /\ Owns(p) /\ phead[p] \in Popped .. head - 1 /\ seq[Slot(phead[p])] = phead[p]
      /\ Slot(phead[p]) \in Slots /\ phead[p] \in Nat
  BY <1>1, SlotPeriodic, <1>0 DEF Owns, OwnersOK
<1>4. \A k \in Popped .. head - 1 : k # phead[p] => Slot(k) # Slot(phead[p])
  <2>1. \A k \in Popped .. head - 1 : k \in Popped .. Popped + Capacity - 1
    BY <1>0
  <2> QED
    BY <1>0, <1>3, <2>1, WindowInjective
<1>5. \A k \in Popped .. head - 1 : k # phead[p] => data'[Slot(k)] = data[Slot(k)]
  BY <1>1, <1>4
<1>6. WindowOK' /\ FreeOK' /\ OneOwner' /\ WaitersOK' /\ ConsumerOK' /\ TakenInClaimOrder'
  <2>1. WindowOK' /\ FreeOK' /\ TakenInClaimOrder' /\ ConsumerOK'
    BY <1>1 DEF WindowOK, FreeOK, TakenInClaimOrder, ConsumerOK
  <2>2. OneOwner' /\ WaitersOK'
    BY <1>1, <1>2 DEF OneOwner, WaitersOK
  <2> QED
    BY <2>1, <2>2
<1>7. HeldOK'
  <2> SUFFICES ASSUME NEW k \in Popped .. head - 1
               PROVE  \/ seq[Slot(k)] = k
                      \/ seq[Slot(k)] = k + 1 /\ data'[Slot(k)] = log[k + 1]
    BY <1>1 DEF HeldOK
  <2> QED
    BY <1>3, <1>5 DEF HeldOK
<1>8. OwnersOK'
  <2> SUFFICES ASSUME NEW q \in Producers, Owns(q)
               PROVE  ppc'[q] = "publish" => data'[Slot(phead[q])] = prec[q]
    BY <1>1, <1>2 DEF OwnersOK
  <2>1. CASE q = p
    BY <1>1, <1>3, <2>1
  <2>2. CASE q # p
    <3>1. phead[q] # phead[p] /\ phead[q] \in Popped .. head - 1
      BY <1>3, <2>2, <1>0, SMTT(20) DEF OneOwner, OwnersOK
    <3> QED
      BY <1>2, <1>5, <2>2, <3>1 DEF OwnersOK
  <2> QED
    BY <2>1, <2>2
<1>9. ClaimHasOwner'
  BY <1>1, <1>2 DEF ClaimHasOwner, SoleOwner, Popped
<1> QED
  BY <1>6, <1>7, <1>8, <1>9

\* Publishing ends an ownership and makes one held position readable.
LEMMA PublishStep ==
  ASSUME IInv, TypeOK', NEW p \in Producers, Publish(p)
  PROVE  IInv'
<1> USE DEF IInv, TypeOK
<1>0. /\ Popped \in Nat /\ head \in Nat /\ Capacity \in Nat /\ Capacity > 1
      /\ Popped <= head /\ head <= Popped + Capacity
  BY WindowFacts
<1>1. /\ UNCHANGED <<data, head, tail, cpc, ctail, crec, log, taken, phead, prec>>
      /\ seq' = [seq EXCEPT ![Slot(phead[p])] = phead[p] + 1]
      /\ ppc[p] = "publish" /\ ppc' = [ppc EXCEPT ![p] = "idle"]
      /\ Popped' = Popped
  BY DEF Publish, consVars, Popped
<1>2. /\ ~ Owns(p)'
      /\ \A q \in Producers : q # p => ppc'[q] = ppc[q] /\ (Owns(q)' <=> Owns(q))
  BY <1>1 DEF Owns
<1>3. /\ Owns(p) /\ phead[p] \in Popped .. head - 1 /\ seq[Slot(phead[p])] = phead[p]
      /\ Slot(phead[p]) \in Slots /\ phead[p] \in Nat
      /\ data[Slot(phead[p])] = log[phead[p] + 1]
  <2>1. Owns(p)
    BY <1>1 DEF Owns
  <2>2. Popped <= phead[p] /\ phead[p] < head /\ phead[p] \in Nat
    BY <2>1 DEF OwnersOK
  <2>3. /\ seq[Slot(phead[p])] = phead[p]
        /\ data[Slot(phead[p])] = log[phead[p] + 1]
    BY <1>1, <2>1 DEF OwnersOK
  <2>4. phead[p] \in Popped .. head - 1
    BY <1>0, <2>2
  <2>5. Slot(phead[p]) \in Slots
    BY <2>2, SlotPeriodic
  <2> QED
    BY <2>1, <2>2, <2>3, <2>4, <2>5
<1>4. /\ seq'[Slot(phead[p])] = phead[p] + 1
      /\ \A k \in Popped .. Popped + Capacity - 1 : k # phead[p] => seq'[Slot(k)] = seq[Slot(k)]
  <2>1. \A k \in Popped .. Popped + Capacity - 1 : k # phead[p] => Slot(k) # Slot(phead[p])
    <3>1. phead[p] \in Popped .. Popped + Capacity - 1
      BY <1>0, <1>3
    <3> QED
      BY <1>0, <3>1, WindowInjective
  <2> QED
    BY <1>1, <1>3, <2>1
<1>5. WindowOK' /\ TakenInClaimOrder'
  BY <1>1 DEF WindowOK, TakenInClaimOrder
<1>6. FreeOK'
  BY <1>1, <1>3, <1>4, <1>0 DEF FreeOK
<1>7. HeldOK'
  <2> SUFFICES ASSUME NEW k \in Popped .. head - 1
               PROVE  \/ seq'[Slot(k)] = k
                      \/ seq'[Slot(k)] = k + 1 /\ data[Slot(k)] = log[k + 1]
    BY <1>1 DEF HeldOK
  <2>1. k \in Popped .. Popped + Capacity - 1
    BY <1>0
  <2> QED
    BY <1>3, <1>4, <2>1 DEF HeldOK
<1>8. \A q \in Producers : Owns(q)' => /\ q # p /\ Owns(q) /\ phead[q] # phead[p]
                                       /\ phead[q] \in Popped .. Popped + Capacity - 1
  <2> SUFFICES ASSUME NEW q \in Producers, Owns(q)'
               PROVE  /\ q # p /\ Owns(q) /\ phead[q] # phead[p]
                      /\ phead[q] \in Popped .. Popped + Capacity - 1
    OBVIOUS
  <2>1. q # p /\ Owns(q)
    BY <1>2
  <2>2. phead[q] # phead[p]
    BY <1>3, <2>1 DEF OneOwner
  <2>3. Popped <= phead[q] /\ phead[q] < head /\ phead[q] \in Nat
    BY <2>1 DEF OwnersOK
  <2> QED
    BY <1>0, <2>1, <2>2, <2>3
<1>9. OwnersOK'
  <2> SUFFICES ASSUME NEW q \in Producers, Owns(q)'
               PROVE  /\ Popped <= phead[q] /\ phead[q] < head
                      /\ seq'[Slot(phead[q])] = phead[q]
                      /\ prec[q] = log[phead[q] + 1]
                      /\ ppc'[q] = "publish" => data[Slot(phead[q])] = prec[q]
    BY <1>1 DEF OwnersOK
  <2> QED
    BY <1>2, <1>4, <1>8 DEF OwnersOK
<1>10. OneOwner' /\ WaitersOK'
  BY <1>1, <1>8 DEF OneOwner, WaitersOK
<1>11. ConsumerOK'
  <2>1. \A c \in Consumers : cpc[c] \in {"read", "release"} => Popped # phead[p]
    BY <1>3, <1>0, SMTT(20) DEF ConsumerOK
  <2>2. Popped \in Popped .. Popped + Capacity - 1
    BY <1>0
  <2> QED
    BY <1>1, <1>4, <2>1, <2>2 DEF ConsumerOK
<1>12. ClaimHasOwner'
  <2> SUFFICES ASSUME NEW k \in Popped .. head - 1, seq'[Slot(k)] # k + 1
               PROVE  \E q \in Producers : SoleOwner(q, k)'
    BY <1>1 DEF ClaimHasOwner, Popped
  <2>1. k \in Popped .. Popped + Capacity - 1
    BY <1>0
  <2>2. k # phead[p]
    BY <1>4
  <2>3. seq[Slot(k)] # k + 1
    BY <1>4, <2>1, <2>2
  <2>4. PICK q \in Producers : Owns(q) /\ phead[q] = k
    BY <2>3 DEF ClaimHasOwner, SoleOwner, Popped
  <2>5. Owns(q)'
    BY <1>2, <2>2, <2>4
  <2> QED
    BY <1>1, <1>10, <2>4, <2>5 DEF OneOwner, SoleOwner
<1> QED
  BY <1>5, <1>6, <1>7, <1>9, <1>10, <1>11, <1>12

\* Steps of the consumer that change nothing but where it is and what it holds.
LEMMA ReaderStep ==
  ASSUME SingleConsumer, IInv, TypeOK', NEW c \in Consumers,
         CallPop(c) \/ LoadWritten(c) \/ ReturnNone(c) \/ Read(c) \/ Advance(c)
  PROVE  IInv'
<1> USE DEF IInv, TypeOK
<1>0. /\ Popped \in Nat /\ head \in Nat /\ Capacity \in Nat /\ Capacity > 1
      /\ Popped <= head /\ head <= Popped + Capacity
  BY WindowFacts
<1>1. /\ UNCHANGED <<seq, data, head, ppc, phead, prec, log, taken>>
      /\ Popped' = Popped
      /\ \A p \in Producers : Owns(p)' <=> Owns(p)
  BY DEF CallPop, LoadWritten, ReturnNone, Read, Advance, prodVars, Popped, Owns
<1>2. WindowOK' /\ FreeOK' /\ HeldOK' /\ TakenInClaimOrder' /\ ClaimHasOwner'
  BY <1>1 DEF WindowOK, FreeOK, HeldOK, TakenInClaimOrder, ClaimHasOwner, SoleOwner
<1>3. OwnersOK' /\ OneOwner' /\ WaitersOK'
  BY <1>1 DEF OwnersOK, OneOwner, WaitersOK
<1>4. \A d \in Consumers : d = c
  BY DEF SingleConsumer
<1>5. ConsumerOK'
  <2>1. CASE CallPop(c) \/ ReturnNone(c)
    BY <1>1, <1>4, <2>1 DEF CallPop, ReturnNone, ConsumerOK
  <2>2. CASE LoadWritten(c)
    <3>1. ctail[c] = Popped /\ tail = Popped /\ seq[Slot(Popped)] = Popped + 1
      BY <2>2 DEF LoadWritten, SeenWritten, ConsumerOK
    <3>2. Popped < head
      <4>1. SUFFICES ASSUME head = Popped PROVE FALSE
        BY <1>0
      <4>2. Popped \in head .. Popped + Capacity - 1
        BY <1>0, <4>1
      <4>3. seq[Slot(Popped)] = Popped
        BY <4>2 DEF FreeOK
      <4> QED
        BY <1>0, <3>1, <4>3
    <3> QED
      BY <1>1, <1>4, <2>2, <3>1, <3>2 DEF LoadWritten, ConsumerOK
  <2>3. CASE Read(c)
    <3>1. ctail[c] = Popped /\ Popped < head /\ seq[Slot(Popped)] = Popped + 1
      BY <2>3 DEF Read, ConsumerOK
    <3>2. Popped \in Popped .. head - 1
      BY <1>0, <3>1
    <3>3. data[Slot(Popped)] = log[Popped + 1]
      BY <1>0, <3>1, <3>2 DEF HeldOK
    <3> QED
      BY <1>1, <1>4, <2>3, <3>1, <3>3 DEF Read, ConsumerOK
  <2>4. CASE Advance(c)
    BY <1>1, <1>4, <2>4 DEF Advance, ConsumerOK
  <2> QED
    BY <2>1, <2>2, <2>3, <2>4
<1> QED
  BY <1>2, <1>3, <1>5

\* Handing the slot back slides the window one position up.
LEMMA ReleaseStep ==
  ASSUME SingleConsumer, IInv, TypeOK', NEW c \in Consumers, Release(c)
  PROVE  IInv'
<1> USE DEF IInv, TypeOK
<1>0. /\ Popped \in Nat /\ head \in Nat /\ Capacity \in Nat /\ Capacity > 1
      /\ Popped <= head /\ head <= Popped + Capacity
  BY WindowFacts
<1>1. /\ UNCHANGED <<data, head, tail, ppc, phead, prec, ctail, crec, log>>
      /\ seq' = [seq EXCEPT ![Slot(Popped)] = Popped + Capacity]
      /\ taken' = Append(taken, log[Popped + 1])
      /\ cpc[c] = "release" /\ cpc' = [cpc EXCEPT ![c] = "advance"]
      /\ Popped < head /\ seq[Slot(Popped)] = Popped + 1 /\ ctail[c] = Popped
      /\ \A p \in Producers : Owns(p)' <=> Owns(p)
  BY DEF Release, NextGeneration, prodVars, ConsumerOK, Owns
<1>2. Popped' = Popped + 1
  BY <1>1 DEF Popped
<1>3. /\ \A k \in Popped + 1 .. Popped + Capacity - 1 : seq'[Slot(k)] = seq[Slot(k)]
      /\ seq'[Slot(Popped + Capacity)] = Popped + Capacity
  <2>1. Slot(Popped) \in Slots /\ Slot(Popped + Capacity) = Slot(Popped)
    BY <1>0, SlotPeriodic
  <2>2. \A k \in Popped + 1 .. Popped + Capacity - 1 : Slot(k) # Slot(Popped)
    <3>1. Popped \in Popped .. Popped + Capacity - 1
      BY <1>0
    <3>2. \A k \in Popped + 1 .. Popped + Capacity - 1 :
            k \in Popped .. Popped + Capacity - 1 /\ k # Popped
      BY <1>0
    <3> QED
      BY <1>0, <3>1, <3>2, WindowInjective
  <2>3. \A k \in Popped + 1 .. Popped + Capacity - 1 : Slot(k) \in Slots
    BY <1>0, SlotPeriodic
  <2> QED
    BY <1>1, <2>1, <2>2, <2>3
<1>4. WindowOK'
  BY <1>0, <1>1, <1>2 DEF WindowOK
<1>5. FreeOK'
  <2> SUFFICES ASSUME NEW k \in head .. Popped + Capacity PROVE seq'[Slot(k)] = k
    BY <1>0, <1>1, <1>2 DEF FreeOK
  <2>1. CASE k = Popped + Capacity
    BY <1>3, <2>1
  <2>2. CASE k # Popped + Capacity
    <3>1. k \in Popped + 1 .. Popped + Capacity - 1 /\ k \in head .. Popped + Capacity - 1
      BY <1>0, <1>1, <2>2
    <3> QED
      BY <1>3, <3>1 DEF FreeOK
  <2> QED
    BY <2>1, <2>2
<1>6. \A k \in Popped + 1 .. head - 1 : /\ k \in Popped .. head - 1
                                        /\ seq'[Slot(k)] = seq[Slot(k)]
  BY <1>0, <1>3
<1>7. HeldOK'
  BY <1>1, <1>2, <1>6 DEF HeldOK
<1>8. OwnersOK'
  <2> SUFFICES ASSUME NEW p \in Producers, Owns(p)
               PROVE  /\ Popped + 1 <= phead[p] /\ phead[p] < head
                      /\ seq'[Slot(phead[p])] = phead[p]
                      /\ prec[p] = log[phead[p] + 1]
                      /\ ppc[p] = "publish" => data[Slot(phead[p])] = prec[p]
    BY <1>1, <1>2 DEF OwnersOK
  <2>1. /\ phead[p] \in Nat /\ Popped <= phead[p] /\ phead[p] < head
        /\ seq[Slot(phead[p])] = phead[p]
    BY DEF OwnersOK
  <2>2. phead[p] # Popped
    BY <1>0, <1>1, <2>1
  <2>3. phead[p] \in Popped + 1 .. head - 1
    BY <1>0, <2>1, <2>2, SMTT(20)
  <2> QED
    BY <1>6, <2>1, <2>3, SMTT(20) DEF OwnersOK
<1>9. OneOwner' /\ WaitersOK'
  BY <1>0, <1>1, <1>2 DEF OneOwner, WaitersOK
<1>10. ConsumerOK'
  BY <1>0, <1>1, <1>2 DEF ConsumerOK, SingleConsumer
<1>11. TakenInClaimOrder'
  BY <1>0, <1>1, <1>2, WindowFacts DEF TakenInClaimOrder, Popped
<1>12. ClaimHasOwner'
  <2> SUFFICES ASSUME NEW k \in Popped + 1 .. head - 1, seq'[Slot(k)] # k + 1
               PROVE  \E p \in Producers : SoleOwner(p, k)'
    BY <1>1, <1>2 DEF ClaimHasOwner, Popped
  <2>1. PICK p \in Producers : SoleOwner(p, k)
    BY <1>6 DEF ClaimHasOwner, Popped
  <2> QED
    BY <1>1, <2>1 DEF SoleOwner
<1> QED
  BY <1>4, <1>5, <1>7, <1>8, <1>9, <1>10, <1>11, <1>12

LEMMA InvariantStep == ASSUME SingleConsumer, IInv, [Next]_vars PROVE IInv'
<1>1. TypeOK'
  BY TypeStep DEF IInv
<1>2. ASSUME NEW p \in Producers, PushStep(p) \/ \E r \in Records : CallPush(p, r)
      PROVE  IInv'
  BY <1>1, <1>2, WaiterStep, ClaimStep, WriteStep, PublishStep DEF PushStep
<1>3. ASSUME NEW c \in Consumers, PopStep(c) PROVE IInv'
  BY <1>1, <1>3, ReaderStep, ReleaseStep DEF PopStep
<1>4. CASE UNCHANGED vars
  BY <1>4 DEF vars, prodVars, consVars, IInv, TypeOK, WindowOK, FreeOK, HeldOK, OwnersOK,
     OneOwner, WaitersOK, ConsumerOK, TakenInClaimOrder, ClaimHasOwner, SoleOwner, Owns, Popped
<1> QED
  BY <1>2, <1>3, <1>4 DEF Next

\* Every reachable state of a ring with one consumer has the shape IInv states.
THEOREM Invariance == ASSUME SingleConsumer PROVE Spec => []IInv
BY InitInvariant, InvariantStep, PTL DEF Spec

-----------------------------------------------------------------------------
(* What follows from the invariant. *)

\* The plain accesses to slot.data never overlap, for any number of producers.
THEOREM DataRaceFree == ASSUME SingleConsumer PROVE Spec => []NoDataRace
<1>1. IInv => NoDataRace
  <2> HAVE IInv
  <2> USE DEF IInv, TypeOK
  <2>0. Popped \in Nat /\ head \in Nat /\ Capacity \in Nat /\ head <= Popped + Capacity
    BY WindowFacts
  <2>1. \A p \in Producers : ppc[p] = "write" =>
          /\ Owns(p) /\ phead[p] \in Popped .. Popped + Capacity - 1
          /\ seq[Slot(phead[p])] = phead[p]
    <3> SUFFICES ASSUME NEW p \in Producers, ppc[p] = "write"
                 PROVE  /\ Owns(p) /\ phead[p] \in Popped .. Popped + Capacity - 1
                        /\ seq[Slot(phead[p])] = phead[p]
      OBVIOUS
    <3>1. Owns(p) /\ phead[p] \in Nat
      BY DEF Owns
    <3>2. Popped <= phead[p] /\ phead[p] < head /\ seq[Slot(phead[p])] = phead[p]
      BY <3>1 DEF OwnersOK
    <3> QED
      BY <2>0, <3>1, <3>2
  <2>2. ASSUME NEW p \in Producers, NEW q \in Producers,
               p # q, ppc[p] = "write", ppc[q] = "write"
        PROVE  Slot(phead[p]) # Slot(phead[q])
    <3>1. phead[p] # phead[q]
      BY <2>1, <2>2 DEF OneOwner
    <3> QED
      BY <2>0, <2>1, <2>2, <3>1, WindowInjective
  <2>3. ASSUME NEW p \in Producers, NEW c \in Consumers, ppc[p] = "write", cpc[c] = "read"
        PROVE  Slot(phead[p]) # Slot(ctail[c])
    <3>1. ctail[c] = Popped /\ seq[Slot(Popped)] = Popped + 1 /\ Popped < head
      BY <2>3 DEF ConsumerOK
    <3>2. phead[p] # Popped
      BY <2>0, <2>1, <2>3, <3>1
    <3>3. Popped \in Popped .. Popped + Capacity - 1
      BY <2>0, AuditRingAssumption
    <3> QED
      BY <2>0, <2>1, <2>3, <3>1, <3>2, <3>3, WindowInjective
  <2> QED
    BY <2>2, <2>3 DEF NoDataRace
<1> QED
  BY <1>1, Invariance, PTL

\* The consumer gets every claimed record once, in claim order.
THEOREM DeliveryInOrder == ASSUME SingleConsumer PROVE Spec => []TakenInClaimOrder
<1>1. IInv => TakenInClaimOrder
  BY DEF IInv
<1> QED
  BY <1>1, Invariance, PTL

\* A position that is claimed and not published has exactly one producer at
\* work on it, so the consumer waits only on a slot somebody will publish.
THEOREM ClaimsAreOwned == ASSUME SingleConsumer PROVE Spec => []ClaimHasOwner
<1>1. IInv => ClaimHasOwner
  BY DEF IInv
<1> QED
  BY <1>1, Invariance, PTL

\* push answers Err only when Capacity records are waiting, although it decides
\* on a head that may be stale.
THEOREM OverflowIsReal == ASSUME SingleConsumer PROVE Spec => RejectOnlyWhenFull
<1>1. ASSUME NEW p \in Producers
      PROVE  IInv /\ Reject(p) => Len(log) = Len(taken) + Capacity
  <2> HAVE IInv /\ Reject(p)
  <2> USE DEF IInv, TypeOK
  <2>0. /\ Popped \in Nat /\ head \in Nat /\ Capacity \in Nat /\ Capacity > 1
        /\ Popped <= head /\ head <= Popped + Capacity /\ head = Len(log)
    BY WindowFacts
  <2>1. phead[p] \in Nat /\ phead[p] <= head /\ seq[Slot(phead[p])] < phead[p]
    BY DEF Reject, SeenBehind, WaitersOK
  <2>2. PICK k \in Popped .. Popped + Capacity - 1 : Slot(k) = Slot(phead[p])
    BY <2>0, <2>1, SlotPeriodic, SlotCovered
  <2>3. k \in Nat /\ seq[Slot(k)] \in Nat /\ seq[Slot(k)] >= k
    <3>1. k \in Nat
      BY <2>0
    <3>2. CASE k < head
      <4>1. k \in Popped .. head - 1
        BY <2>0, <3>1, <3>2
      <4> QED
        BY <3>1, <4>1 DEF HeldOK
    <3>3. CASE k >= head
      <4>1. k \in head .. Popped + Capacity - 1
        BY <2>0, <3>1, <3>3
      <4> QED
        BY <3>1, <4>1 DEF FreeOK
    <3> QED
      BY <2>0, <3>1, <3>2, <3>3
  <2>4. k < phead[p]
    BY <2>1, <2>2, <2>3
  <2>5. k + Capacity <= phead[p]
    <3>1. SUFFICES ASSUME phead[p] < k + Capacity PROVE FALSE
      BY <2>0, <2>1, <2>3
    <3> QED
      BY <2>1, <2>2, <2>3, <2>4, <3>1, SlotInjective
  <2> QED
    BY <2>0, <2>1, <2>3, <2>5 DEF Popped
<1>2. IInv /\ [Next]_vars =>
        [\A p \in Producers : Reject(p) => Len(log) = Len(taken) + Capacity]_vars
  BY <1>1
<1> QED
  BY <1>2, Invariance, PTL DEF RejectOnlyWhenFull, Spec

\* No slot's sequence number ever goes back.
THEOREM GenerationsGrow == ASSUME SingleConsumer PROVE Spec => SeqNeverDecreases
<1>1. IInv /\ [Next]_vars => \A i \in Slots : seq'[i] >= seq[i]
  <2> HAVE IInv /\ [Next]_vars
  <2> USE DEF IInv, TypeOK
  <2>0. Popped \in Nat /\ Capacity \in Nat /\ Capacity > 1
    BY WindowFacts
  <2>1. ASSUME NEW p \in Producers, Publish(p) PROVE \A i \in Slots : seq'[i] >= seq[i]
    <3>1. phead[p] \in Nat /\ seq[Slot(phead[p])] = phead[p]
      BY <2>1 DEF Publish, OwnersOK, Owns
    <3> QED
      BY <2>1, <3>1 DEF Publish
  <2>2. ASSUME NEW c \in Consumers, Release(c) PROVE \A i \in Slots : seq'[i] >= seq[i]
    <3>1. ctail[c] = Popped /\ seq[Slot(Popped)] = Popped + 1
      BY <2>2 DEF Release, ConsumerOK
    <3> QED
      BY <2>0, <2>2, <3>1 DEF Release, NextGeneration
  <2>3. CASE UNCHANGED seq
    BY <2>3
  <2> QED
    BY <2>1, <2>2, <2>3
    DEF Next, PushStep, PopStep, CallPush, LoadFree, Reject, LoadTaken, ReloadHead, Claim,
        LoseCas, Write, CallPop, LoadWritten, ReturnNone, Read, Advance, vars
<1>2. IInv /\ [Next]_vars => [\A i \in Slots : seq'[i] >= seq[i]]_vars
  BY <1>1
<1> QED
  BY <1>2, Invariance, PTL DEF SeqNeverDecreases, Spec

-----------------------------------------------------------------------------
(* The ring implements the abstract log. *)

LEMMA PublishedKept ==
  ASSUME UNCHANGED <<seq, log, taken>> PROVE UNCHANGED <<log, Published, taken>>
BY DEF Published

\* Claiming a position is Reserve, publishing it is Seal, handing its slot back
\* is Take; every other step of push and pop is invisible.
THEOREM RingImplementsLog == ASSUME SingleConsumer PROVE Spec => ImplementsLog
<1>1. Init => Abstract!Init
  BY DEF Init, Abstract!Init, Published
<1>2. IInv /\ [Next]_vars => [Abstract!Next]_(Abstract!vars)
  <2> HAVE IInv /\ [Next]_vars
  <2> USE DEF IInv, TypeOK
  <2>0. /\ Popped \in Nat /\ head \in Nat /\ Capacity \in Nat /\ Capacity > 1
        /\ Popped <= head /\ head <= Popped + Capacity /\ head = Len(log)
    BY WindowFacts
  <2>1. ASSUME NEW p \in Producers, Claim(p) PROVE Abstract!Reserve(prec[p])
    <3>1. /\ UNCHANGED <<seq, taken>> /\ log' = Append(log, prec[p])
          /\ head < Popped + Capacity
      BY <2>1 DEF Claim, CasMatches, WaitersOK
    <3>2. seq[Slot(head)] = head
      <4>1. head \in head .. Popped + Capacity - 1
        BY <2>0, <3>1
      <4> QED
        BY <2>0, <4>1 DEF FreeOK
    <3>3. Len(log') = head + 1
      BY <2>0, <3>1
    <3>4. Published' = Published
      BY <2>0, <3>1, <3>2, <3>3 DEF Published, Popped
    <3> QED
      BY <2>0, <3>1, <3>4 DEF Abstract!Reserve, Popped
  <2>2. ASSUME NEW p \in Producers, Publish(p)
        PROVE  phead[p] + 1 \in 1 .. Len(log) /\ Abstract!Seal(phead[p] + 1)
    <3>1. /\ UNCHANGED <<log, taken>> /\ seq' = [seq EXCEPT ![Slot(phead[p])] = phead[p] + 1]
          /\ phead[p] \in Nat /\ Popped <= phead[p] /\ phead[p] < head
          /\ seq[Slot(phead[p])] = phead[p]
      BY <2>2 DEF Publish, OwnersOK, Owns
    <3>2. phead[p] + 1 \in (1 .. Len(log)) \ Published
      <4>1. phead[p] + 1 \in 1 .. Len(log) /\ ~ (phead[p] + 1 <= Popped)
        BY <2>0, <3>1
      <4>2. phead[p] + 1 - 1 = phead[p] /\ phead[p] # phead[p] + 1
        BY <3>1
      <4>3. seq[Slot(phead[p] + 1 - 1)] # phead[p] + 1
        BY <3>1, <4>2
      <4>4. \A k \in Published : k <= Popped \/ seq[Slot(k - 1)] = k
        BY DEF Published, Popped
      <4>5. phead[p] + 1 \notin Published
        BY <4>1, <4>3, <4>4
      <4> QED
        BY <4>1, <4>5
    <3>3. \A k \in Popped + 1 .. head : k # phead[p] + 1 => seq'[Slot(k - 1)] = seq[Slot(k - 1)]
      <4>1. phead[p] \in Popped .. Popped + Capacity - 1
        BY <2>0, <3>1
      <4>2. \A k \in Popped + 1 .. head : k - 1 \in Popped .. Popped + Capacity - 1
        BY <2>0
      <4>3. \A k \in Popped + 1 .. head : k # phead[p] + 1 => k - 1 # phead[p]
        BY <2>0, <3>1
      <4>4. \A k \in Popped + 1 .. head : k # phead[p] + 1 => Slot(k - 1) # Slot(phead[p])
        BY <2>0, <4>1, <4>2, <4>3, WindowInjective
      <4> QED
        BY <3>1, <4>4
    <3>4. seq'[Slot(phead[p] + 1 - 1)] = phead[p] + 1
      BY <3>1, SlotPeriodic
    <3>5. Published' = Published \cup {phead[p] + 1}
      <4>1. ASSUME NEW k \in 1 .. head, k # phead[p] + 1, ~ (k <= Popped)
            PROVE  seq'[Slot(k - 1)] = seq[Slot(k - 1)]
        BY <2>0, <3>3, <4>1
      <4>2. Published' = {k \in 1 .. head : k <= Popped \/ seq'[Slot(k - 1)] = k}
        BY <2>0, <3>1 DEF Published, Popped
      <4>3. Published = {k \in 1 .. head : k <= Popped \/ seq[Slot(k - 1)] = k}
        BY <2>0 DEF Published, Popped
      <4>4. phead[p] + 1 \in 1 .. head
        BY <2>0, <3>2
      <4>5. ASSUME NEW k \in 1 .. head
            PROVE  k \in Published' <=> k \in Published \/ k = phead[p] + 1
        <5>1. CASE k = phead[p] + 1
          BY <3>4, <4>2, <5>1
        <5>2. CASE k # phead[p] + 1
          BY <4>1, <4>2, <4>3, <5>2
        <5> QED
          BY <5>1, <5>2
      <4> QED
        BY <4>2, <4>3, <4>4, <4>5
    <3> QED
      BY <3>1, <3>2, <3>5 DEF Abstract!Seal
  <2>3. ASSUME NEW c \in Consumers, Release(c) PROVE Abstract!Take
    <3>1. /\ UNCHANGED log /\ seq' = [seq EXCEPT ![Slot(Popped)] = Popped + Capacity]
          /\ taken' = Append(taken, log[Popped + 1])
          /\ Popped < head /\ seq[Slot(Popped)] = Popped + 1
      BY <2>3 DEF Release, NextGeneration, ConsumerOK
    <3>0. Popped' = Popped + 1
      BY <3>1 DEF Popped
    <3>2. Popped + 1 \in Published
      BY <2>0, <3>1 DEF Published
    <3>3. \A k \in Popped + 2 .. head : seq'[Slot(k - 1)] = seq[Slot(k - 1)]
      <4>1. Popped \in Popped .. Popped + Capacity - 1
        BY <2>0
      <4>2. \A k \in Popped + 2 .. head : k - 1 \in Popped .. Popped + Capacity - 1 /\ k - 1 # Popped
        BY <2>0
      <4>3. \A k \in Popped + 2 .. head : Slot(k - 1) # Slot(Popped)
        BY <2>0, <4>1, <4>2, WindowInjective
      <4> QED
        BY <3>1, <4>3
    <3>4. Published' = Published
      <4>1. ASSUME NEW k \in 1 .. head, ~ (k <= Popped + 1)
            PROVE  seq'[Slot(k - 1)] = seq[Slot(k - 1)]
        BY <2>0, <3>3, <4>1
      <4>2. Published' = {k \in 1 .. head : k <= Popped + 1 \/ seq'[Slot(k - 1)] = k}
        BY <2>0, <3>1, <3>0 DEF Published, Popped
      <4>3. Published = {k \in 1 .. head : k <= Popped \/ seq[Slot(k - 1)] = k}
        BY <2>0 DEF Published, Popped
      <4>4. \A k \in 1 .. head : k <= Popped + 1 <=> k <= Popped \/ k = Popped + 1
        BY <2>0
      <4> QED
        BY <3>2, <4>1, <4>2, <4>3, <4>4
    <3> QED
      BY <3>1, <3>2, <3>4 DEF Abstract!Take, Popped
  <2>4. CASE UNCHANGED <<seq, log, taken>>
    BY <2>4, PublishedKept DEF Abstract!vars
  <2>5. ASSUME NEW p \in Producers, PushStep(p) \/ \E r \in Records : CallPush(p, r)
        PROVE  [Abstract!Next]_(Abstract!vars)
    <3>1. CASE Claim(p)
      BY <2>1, <3>1 DEF Abstract!Next, Claim
    <3>2. CASE Publish(p)
      BY <2>2, <3>2 DEF Abstract!Next
    <3> QED
      BY <2>4, <2>5, <3>1, <3>2
      DEF PushStep, CallPush, LoadFree, Reject, LoadTaken, ReloadHead, LoseCas, Write
  <2>6. ASSUME NEW c \in Consumers, PopStep(c) PROVE [Abstract!Next]_(Abstract!vars)
    <3>1. CASE Release(c)
      BY <2>3, <3>1 DEF Abstract!Next
    <3> QED
      BY <2>4, <2>6, <3>1
      DEF PopStep, CallPop, LoadWritten, ReturnNone, Read, Advance
  <2>7. CASE UNCHANGED vars
    BY <2>4, <2>7 DEF vars
  <2> QED
    BY <2>5, <2>6, <2>7 DEF Next
<1> QED
  BY <1>1, <1>2, Invariance, PTL DEF Spec, ImplementsLog, Abstract!Spec

=============================================================================
