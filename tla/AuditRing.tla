------------------------------ MODULE AuditRing -----------------------------
(***************************************************************************)
(* The lock-free multi-producer single-consumer audit ring of              *)
(* src/audit_ring.rs, one action per atomic access or plain data access.   *)
(*                                                                         *)
(* Every slot carries an absolute generation number seq.  Position k of    *)
(* the log lives in slot k % Capacity, and seq tells whose turn the slot   *)
(* is: k = free for the producer of position k, k + 1 = written and owned  *)
(* by the consumer, k + Capacity = free for the next generation.           *)
(*                                                                         *)
(* Counters are naturals (usize wrap-around needs 2^64 pushes), and each   *)
(* atomic access takes effect in one total order.                          *)
(***************************************************************************)
EXTENDS Integers, Sequences

CONSTANTS
  Producers,  \* threads calling push
  Consumers,  \* threads calling pop; the code's comments require exactly one
  Records,    \* audit records, told apart and nothing more
  Blank,      \* AuditRecord::default(), what a slot holds before its first write
  Capacity,   \* RING_CAPACITY
  MaxPushes   \* bound: how many calls of push the callers make in all

\* RING_CAPACITY is 4096. With a single slot "written at 0" and "free for 1"
\* would be the same number, so the algorithm needs two.
ASSUME AuditRingAssumption ==
  /\ Capacity \in Nat \ {0, 1}
  /\ MaxPushes \in Nat
  /\ Blank \notin Records

VARIABLES
  seq,        \* slot -> its generation number
  data,       \* slot -> the record it holds
  head,       \* next position to claim
  tail,       \* next position to pop
  ppc,        \* producer -> where it is in push
  phead,      \* producer -> its local copy of head
  prec,       \* producer -> the record it is pushing
  cpc,        \* consumer -> where it is in pop
  ctail,      \* consumer -> its local copy of tail
  crec,       \* consumer -> the record it copied out
  calls,      \* how many times push has been called
  log,        \* history: records of the claimed positions, in claim order
  taken       \* history: records popped, in the order their slots were freed

prodVars == <<ppc, phead, prec>>
consVars == <<cpc, ctail, crec>>
vars == <<seq, data, head, tail, prodVars, consVars, calls, log, taken>>

Slots == 0 .. Capacity - 1

\* head & RING_MASK, for a capacity that is a power of two.
Slot(k) == k % Capacity

\* AuditRingBuffer::new: slot i waits for the producer of position i.
Init ==
  /\ seq = [i \in Slots |-> i]
  /\ data = [i \in Slots |-> Blank]
  /\ head = 0
  /\ tail = 0
  /\ ppc = [p \in Producers |-> "idle"]
  /\ phead = [p \in Producers |-> 0]
  /\ prec = [p \in Producers |-> Blank]
  /\ cpc = [c \in Consumers |-> "idle"]
  /\ ctail = [c \in Consumers |-> 0]
  /\ crec = [c \in Consumers |-> Blank]
  /\ calls = 0
  /\ log = <<>>
  /\ taken = <<>>

-----------------------------------------------------------------------------
(***************************************************************************)
(* push.  "slot": about to load the slot's seq; "cas": about to compare    *)
(* and exchange head; "reload": about to read head again; "write": owns    *)
(* the slot, the record not yet copied in; "publish": record copied in.    *)
(***************************************************************************)

\* let mut head = self.head.value.load(Relaxed)
CallPush(p, r) ==
  /\ ppc[p] = "idle"
  /\ calls < MaxPushes
  /\ calls' = calls + 1
  /\ prec' = [prec EXCEPT ![p] = r]
  /\ phead' = [phead EXCEPT ![p] = head]
  /\ ppc' = [ppc EXCEPT ![p] = "slot"]
  /\ UNCHANGED <<seq, data, head, tail, consVars, log, taken>>

\* Mutants of the comparisons below: the full ring is taken for a free slot;
\* every slot that is not free is taken for a full ring.
FreeOrBehind(p) == seq[Slot(phead[p])] <= phead[p]
NotFree(p) == seq[Slot(phead[p])] # phead[p]

\* The sign of seq - head, which is the sign of diff.
SeenFree(p)  == seq[Slot(phead[p])] = phead[p]
SeenBehind(p) == seq[Slot(phead[p])] < phead[p]
SeenAhead(p) == seq[Slot(phead[p])] > phead[p]

LoadFree(p) ==
  /\ ppc[p] = "slot"
  /\ SeenFree(p)
  /\ ppc' = [ppc EXCEPT ![p] = "cas"]
  /\ UNCHANGED <<seq, data, head, tail, phead, prec, consVars, calls, log, taken>>

\* diff < 0: the slot still belongs to the previous generation, push returns Err.
Reject(p) ==
  /\ ppc[p] = "slot"
  /\ SeenBehind(p)
  /\ ppc' = [ppc EXCEPT ![p] = "idle"]
  /\ UNCHANGED <<seq, data, head, tail, phead, prec, consVars, calls, log, taken>>

LoadTaken(p) ==
  /\ ppc[p] = "slot"
  /\ SeenAhead(p)
  /\ ppc' = [ppc EXCEPT ![p] = "reload"]
  /\ UNCHANGED <<seq, data, head, tail, phead, prec, consVars, calls, log, taken>>

\* Mutant: head is not read again.
RetryStaleHead(p) ==
  /\ ppc[p] = "reload"
  /\ ppc' = [ppc EXCEPT ![p] = "slot"]
  /\ UNCHANGED <<seq, data, head, tail, phead, prec, consVars, calls, log, taken>>

ReloadHead(p) ==
  /\ ppc[p] = "reload"
  /\ phead' = [phead EXCEPT ![p] = head]
  /\ ppc' = [ppc EXCEPT ![p] = "slot"]
  /\ UNCHANGED <<seq, data, head, tail, prec, consVars, calls, log, taken>>

\* Mutant: a plain increment, which does not notice that head has moved.
CasIgnoresHead(p) == head >= phead[p]

CasMatches(p) == head = phead[p]

\* compare_exchange_weak succeeds: the position is this producer's.
Claim(p) ==
  /\ ppc[p] = "cas"
  /\ CasMatches(p)
  /\ head' = head + 1
  /\ log' = Append(log, prec[p])
  /\ ppc' = [ppc EXCEPT ![p] = "write"]
  /\ UNCHANGED <<seq, data, tail, phead, prec, consVars, calls, taken>>

\* compare_exchange_weak fails, spuriously perhaps: the local head becomes the
\* value it found.
LoseCas(p) ==
  /\ ppc[p] = "cas"
  /\ phead' = [phead EXCEPT ![p] = head]
  /\ ppc' = [ppc EXCEPT ![p] = "slot"]
  /\ UNCHANGED <<seq, data, head, tail, prec, consVars, calls, log, taken>>

\* *slot.data.get() = record
Write(p) ==
  /\ ppc[p] = "write"
  /\ data' = [data EXCEPT ![Slot(phead[p])] = prec[p]]
  /\ ppc' = [ppc EXCEPT ![p] = "publish"]
  /\ UNCHANGED <<seq, head, tail, phead, prec, consVars, calls, log, taken>>

\* slot.seq.store(head + 1, Release), and push returns Ok
Publish(p) ==
  /\ ppc[p] = "publish"
  /\ seq' = [seq EXCEPT ![Slot(phead[p])] = phead[p] + 1]
  /\ ppc' = [ppc EXCEPT ![p] = "idle"]
  /\ UNCHANGED <<data, head, tail, phead, prec, consVars, calls, log, taken>>

-----------------------------------------------------------------------------
(***************************************************************************)
(* pop.  "slot": about to load the slot's seq; "read": about to copy the   *)
(* record; "release": record copied, seq not yet stored; "advance": slot   *)
(* handed back, tail not yet stored.                                       *)
(***************************************************************************)

\* let tail = self.tail.value.load(Relaxed)
CallPop(c) ==
  /\ cpc[c] = "idle"
  /\ ctail' = [ctail EXCEPT ![c] = tail]
  /\ cpc' = [cpc EXCEPT ![c] = "slot"]
  /\ UNCHANGED <<seq, data, head, tail, prodVars, crec, calls, log, taken>>

\* Mutant: compares with tail, not tail + 1.
SeenClaimed(c) == seq[Slot(ctail[c])] >= ctail[c]

SeenWritten(c) == seq[Slot(ctail[c])] = ctail[c] + 1

LoadWritten(c) ==
  /\ cpc[c] = "slot"
  /\ SeenWritten(c)
  /\ cpc' = [cpc EXCEPT ![c] = "read"]
  /\ UNCHANGED <<seq, data, head, tail, prodVars, ctail, crec, calls, log, taken>>

\* diff # 0: pop returns None
ReturnNone(c) ==
  /\ cpc[c] = "slot"
  /\ ~ SeenWritten(c)
  /\ cpc' = [cpc EXCEPT ![c] = "idle"]
  /\ UNCHANGED <<seq, data, head, tail, prodVars, ctail, crec, calls, log, taken>>

\* let record = *slot.data.get()
Read(c) ==
  /\ cpc[c] = "read"
  /\ crec' = [crec EXCEPT ![c] = data[Slot(ctail[c])]]
  /\ cpc' = [cpc EXCEPT ![c] = "release"]
  /\ UNCHANGED <<seq, data, head, tail, prodVars, ctail, calls, log, taken>>

\* Mutants: the slot index, as in new; the generation before.
SlotIndex(k) == Slot(k)
PreviousGeneration(k) == k - Capacity

\* tail + RING_MASK + 1
NextGeneration(k) == k + Capacity

\* slot.seq.store(tail + RING_MASK + 1, Release)
Release(c) ==
  /\ cpc[c] = "release"
  /\ seq' = [seq EXCEPT ![Slot(ctail[c])] = NextGeneration(ctail[c])]
  /\ taken' = Append(taken, crec[c])
  /\ cpc' = [cpc EXCEPT ![c] = "advance"]
  /\ UNCHANGED <<data, head, tail, prodVars, ctail, crec, calls, log>>

\* Mutant: returns without moving tail.
KeepTail(c) ==
  /\ cpc[c] = "advance"
  /\ cpc' = [cpc EXCEPT ![c] = "idle"]
  /\ UNCHANGED <<seq, data, head, tail, prodVars, ctail, crec, calls, log, taken>>

\* self.tail.value.store(tail + 1, Relaxed), and pop returns Some(record)
Advance(c) ==
  /\ cpc[c] = "advance"
  /\ tail' = ctail[c] + 1
  /\ cpc' = [cpc EXCEPT ![c] = "idle"]
  /\ UNCHANGED <<seq, data, head, prodVars, ctail, crec, calls, log, taken>>

-----------------------------------------------------------------------------
\* What a producer inside push does next.
PushStep(p) ==
  \/ LoadFree(p) \/ Reject(p) \/ LoadTaken(p) \/ ReloadHead(p)
  \/ Claim(p) \/ LoseCas(p) \/ Write(p) \/ Publish(p)

PopStep(c) ==
  \/ CallPop(c) \/ LoadWritten(c) \/ ReturnNone(c)
  \/ Read(c) \/ Release(c) \/ Advance(c)

Next ==
  \/ \E p \in Producers : PushStep(p) \/ \E r \in Records : CallPush(p, r)
  \/ \E c \in Consumers : PopStep(c)

Spec == Init /\ [][Next]_vars

(***************************************************************************)
(* The scheduler runs every thread that is inside push, and the audit      *)
(* consumer keeps polling.  A weak compare-and-exchange that is tried for  *)
(* ever with the right expected value does not fail every time, which is   *)
(* the strong fairness of Claim.  Nobody is obliged to call push.          *)
(***************************************************************************)
FairSpec ==
  /\ Spec
  /\ \A p \in Producers : WF_vars(PushStep(p)) /\ SF_vars(Claim(p))
  /\ \A c \in Consumers : WF_vars(PopStep(c))

-----------------------------------------------------------------------------
(***************************************************************************)
(* Properties.                                                             *)
(***************************************************************************)

\* The variables have the types of the fields and locals of audit_ring.rs.
TypeOK ==
  /\ seq \in [Slots -> Nat]
  /\ data \in [Slots -> Records \cup {Blank}]
  /\ head \in Nat
  /\ tail \in Nat
  /\ ppc \in [Producers -> {"idle", "slot", "cas", "reload", "write", "publish"}]
  /\ phead \in [Producers -> Nat]
  /\ prec \in [Producers -> Records \cup {Blank}]
  /\ \A p \in Producers : ppc[p] # "idle" => prec[p] \in Records
  /\ cpc \in [Consumers -> {"idle", "slot", "read", "release", "advance"}]
  /\ ctail \in [Consumers -> Nat]
  /\ crec \in [Consumers -> Records \cup {Blank}]
  /\ calls \in 0 .. MaxPushes
  /\ log \in Seq(Records)
  /\ taken \in Seq(Records \cup {Blank})

\* Producers that own a slot: between winning the CAS and storing seq.
Owns(p) == ppc[p] \in {"write", "publish"}

\* The plain copy into slot.data never overlaps another producer's copy into
\* the same slot, nor the consumer's copy out of it: the UnsafeCell accesses of
\* lines 135 and 171 are ordered by seq.
NoDataRace ==
  /\ \A p, q \in Producers :
       p # q /\ ppc[p] = "write" /\ ppc[q] = "write" => Slot(phead[p]) # Slot(phead[q])
  /\ \A p \in Producers, c \in Consumers :
       ppc[p] = "write" /\ cpc[c] = "read" => Slot(phead[p]) # Slot(ctail[c])

\* What pop hands out is exactly the accepted records, in the order their
\* positions were claimed: none lost, none twice, none half written.
TakenInClaimOrder ==
  /\ Len(taken) <= Len(log)
  /\ \A i \in 1 .. Len(taken) : taken[i] = log[i]

\* Producer p, and nobody else, owns position k.
SoleOwner(p, k) ==
  /\ Owns(p) /\ phead[p] = k
  /\ \A q \in Producers \ {p} : ~ (Owns(q) /\ phead[q] = k)

\* A claimed position that is not yet published always has exactly one producer
\* that is about to publish it, so the consumer never waits on a slot nobody
\* owns (lines 132-139).
ClaimHasOwner ==
  \A k \in Len(taken) .. head - 1 :
    seq[Slot(k)] # k + 1 => \E p \in Producers : SoleOwner(p, k)

\* push reports overflow only in a state where Capacity records really are
\* waiting for the consumer (the Err of lines 146-149).
RejectOnlyWhenFull ==
  [][\A p \in Producers : Reject(p) => Len(log) = Len(taken) + Capacity]_vars

\* A slot's sequence number never goes back: what the module comment (lines
\* 14-16) offers as the defence against the ABA problem.
SeqNeverDecreases ==
  [][\A i \in Slots : seq'[i] >= seq[i]]_vars

\* The ring implements the abstract log: claiming a position reserves it,
\* publishing seals it, freeing the slot takes it, and nothing else is visible.
Published == {k \in 1 .. Len(log) : k <= Len(taken) \/ seq[Slot(k - 1)] = k}

Abstract == INSTANCE AuditLog WITH sealed <- Published

ImplementsLog == Abstract!Spec

(***************************************************************************)
(* The inductive invariant behind the safety properties, for one consumer. *)
(* Positions below Len(taken) are done with; from there to head they are   *)
(* held (claimed, perhaps published); the rest of the window is free.      *)
(***************************************************************************)
Popped == Len(taken)

WindowOK == head = Len(log) /\ Popped <= head /\ head <= Popped + Capacity

FreeOK == \A k \in head .. Popped + Capacity - 1 : seq[Slot(k)] = k

HeldOK ==
  \A k \in Popped .. head - 1 :
    \/ seq[Slot(k)] = k
    \/ seq[Slot(k)] = k + 1 /\ data[Slot(k)] = log[k + 1]

OwnersOK ==
  \A p \in Producers :
    Owns(p) =>
      /\ Popped <= phead[p] /\ phead[p] < head
      /\ seq[Slot(phead[p])] = phead[p]
      /\ prec[p] = log[phead[p] + 1]
      /\ ppc[p] = "publish" => data[Slot(phead[p])] = prec[p]

OneOwner ==
  \A p, q \in Producers : Owns(p) /\ Owns(q) /\ phead[p] = phead[q] => p = q

\* What a producer that has not claimed yet knows: its head is not ahead of the
\* shared one, and if they are equal when it tries the CAS the slot is free.
WaitersOK ==
  \A p \in Producers :
    /\ ppc[p] \in {"slot", "cas"} => phead[p] <= head
    /\ ppc[p] = "cas" /\ phead[p] = head => head < Popped + Capacity

ConsumerOK ==
  \A c \in Consumers :
    /\ cpc[c] = "idle" => tail = Popped
    /\ cpc[c] \in {"slot", "read", "release"} => ctail[c] = Popped /\ tail = Popped
    /\ cpc[c] \in {"read", "release"} =>
         Popped < head /\ seq[Slot(Popped)] = Popped + 1
    /\ cpc[c] = "release" => crec[c] = log[Popped + 1]
    /\ cpc[c] = "advance" => ctail[c] + 1 = Popped

\* Together: the shape of the ring that every step keeps, and from which the
\* safety properties above follow (lines 113-184).
IInv ==
  /\ TypeOK
  /\ WindowOK
  /\ FreeOK
  /\ HeldOK
  /\ OwnersOK
  /\ OneOwner
  /\ WaitersOK
  /\ ConsumerOK
  /\ TakenInClaimOrder
  /\ ClaimHasOwner

\* Every push that is called returns, however the threads interleave.
PushReturns == \A p \in Producers : ppc[p] # "idle" ~> ppc[p] = "idle"

\* Every accepted record is eventually handed to the consumer.
AcceptedIsDelivered ==
  \A k \in 1 .. MaxPushes : Len(log) >= k ~> Len(taken) >= k

=============================================================================
