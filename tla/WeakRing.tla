------------------------------ MODULE WeakRing ------------------------------
(***************************************************************************)
(* The audit ring of src/audit_ring.rs under the memory orders it asks     *)
(* for, and with counters that wrap around.                                *)
(*                                                                         *)
(* A thread knows how much of each atomic variable it has seen and which   *)
(* accesses to the records happened before.  A load may return any value   *)
(* not older than what the thread has seen.  A Release store of seq leaves *)
(* with its value all its thread knows, and the Acquire load that reads it *)
(* learns that; Relaxed accesses of head teach nothing else.               *)
(*                                                                         *)
(* Positions are naturals, of which the program sees the value modulo      *)
(* Word = 2^64.  A record is named by the position it was pushed at.  Of   *)
(* the consumer's threads there is one, and only it uses tail.             *)
(***************************************************************************)
EXTENDS Integers, Sequences, FiniteSets

CONSTANTS
  Producers, Consumer, Capacity, MaxPushes,
  Word,    \* number of values of a usize
  Starts   \* positions the ring may have been filled and emptied up to

\* The last conjunct bounds how far a sleeping thread is left behind.
ASSUME WeakRingAssumption ==
  /\ Consumer \notin Producers
  /\ Capacity \in Nat \ {0, 1} /\ MaxPushes \in Nat /\ Starts \subseteq Nat
  /\ Word \in Nat /\ Word % Capacity = 0
  /\ Word > 2 * (MaxPushes + Capacity)

VARIABLES
  start,     \* where this behaviour begins
  head,      \* the last value of head; all stores to it add 1
  written,   \* slot -> all stores to its seq, in modification order
  data,      \* slot -> the record it holds
  accesses,  \* the plain accesses made: <<"w" or "r", position>>
  know,      \* thread -> what it has seen
  ppc, phead, \* producer -> where it is in push, its local head
  cpc, tail, crec, \* the consumer: where it is in pop, tail, its local record
  calls,
  taken      \* history: the records popped

memVars == <<head, written, data, accesses>>
prodVars == <<ppc, phead, calls>>
consVars == <<cpc, tail, crec, taken>>
vars == <<start, memVars, know, prodVars, consVars>>

Threads == Producers \cup {Consumer}
Slots == 0 .. Capacity - 1
Slot(k) == (k % Word) % Capacity

\* Mutant: the values are compared as they are.
PlainDiff(a, b) == (a % Word) - (b % Word)

\* (a as isize) - (b as isize) of a release build.
Diff(a, b) ==
  LET d == (a - b) % Word
  IN  IF d < Word \div 2 THEN d ELSE d - Word

View == [head : Nat, seq : [Slots -> Nat], done : SUBSET ({"w", "r"} \X Nat)]

Later(x, y) == IF x < y THEN y ELSE x
Join(v, w) == [head |-> Later(v.head, w.head),
               seq  |-> [s \in Slots |-> Later(v.seq[s], w.seq[s])],
               done |-> v.done \cup w.done]

\* Start 0 is a new ring; another start is one that was filled and emptied up
\* to there, in the hands of threads that began after that.
Init ==
  /\ start \in Starts
  /\ LET seen == [head |-> start, seq |-> [s \in Slots |-> 1], done |-> {}]
         first(s) == CHOOSE k \in start .. start + Capacity - 1 : Slot(k) = s
     IN  /\ written = [s \in Slots |-> <<[pos |-> first(s), view |-> seen]>>]
         /\ know = [t \in Threads |-> seen]
  /\ head = start /\ tail = start
  /\ data = [s \in Slots |-> -1] /\ crec = -1
  /\ accesses = {} /\ taken = <<>> /\ calls = 0
  /\ ppc = [p \in Producers |-> "idle"] /\ phead = [p \in Producers |-> start]
  /\ cpc = "idle"

-----------------------------------------------------------------------------
(* Accesses of a thread to memory. *)

\* Relaxed load of head, by a producer: any value it may still see.
LoadHead(p) ==
  \E h \in know[p].head .. head :
    /\ phead' = [phead EXCEPT ![p] = h]
    /\ know' = [know EXCEPT ![p].head = h]

\* Mutants: the load is Relaxed; the stores are.
Nothing(v, w) == v
Alone(v) == [head |-> start, seq |-> [s \in Slots |-> 1], done |-> {}]

Acquire(v, w) == Join(v, w)
Released(v) == v

\* Store n of slot s, loaded by thread t.
CanLoad(t, s, n) == n \in know[t].seq[s] .. Len(written[s])
LoadSeq(t, s, n) ==
  know' = [know EXCEPT ![t] = Acquire([@ EXCEPT !.seq[s] = n], written[s][n].view)]

StoreSeq(t, s, pos) ==
  LET v == [know[t] EXCEPT !.seq[s] = Len(written[s]) + 1]
  IN  /\ written' = [written EXCEPT ![s] = Append(@, [pos |-> pos, view |-> Released(v)])]
      /\ know' = [know EXCEPT ![t] = v]

Touch(t, a) ==
  /\ accesses' = accesses \cup {a}
  /\ know' = [know EXCEPT ![t].done = @ \cup {a}]

-----------------------------------------------------------------------------
(* push. *)

CallPush(p) ==
  /\ ppc[p] = "idle" /\ calls < MaxPushes
  /\ LoadHead(p)
  /\ calls' = calls + 1
  /\ ppc' = [ppc EXCEPT ![p] = "slot"]
  /\ UNCHANGED <<start, memVars, consVars>>

\* Mutant: a slot of an earlier generation passes for free.
FreeOrBehind(d) == d <= 0

IsFree(d) == d = 0
IsBehind(d) == d < 0
IsAhead(d) == d > 0

\* The load of seq takes store n of the slot; the comparison with head leads on.
Ahead(p, n) == Diff(written[Slot(phead[p])][n].pos, phead[p])
LoadSlot(p, n, next) ==
  /\ ppc[p] = "slot"
  /\ CanLoad(p, Slot(phead[p]), n)
  /\ LoadSeq(p, Slot(phead[p]), n)
  /\ ppc' = [ppc EXCEPT ![p] = next]
  /\ UNCHANGED <<start, memVars, phead, calls, consVars>>

Stores(p) == DOMAIN written[Slot(phead[p])]
LoadFree(p) == \E n \in Stores(p) : IsFree(Ahead(p, n)) /\ LoadSlot(p, n, "cas")
Reject(p) == \E n \in Stores(p) : IsBehind(Ahead(p, n)) /\ LoadSlot(p, n, "idle")
LoadTaken(p) == \E n \in Stores(p) : IsAhead(Ahead(p, n)) /\ LoadSlot(p, n, "reload")

ReloadHead(p) ==
  /\ ppc[p] = "reload"
  /\ LoadHead(p)
  /\ ppc' = [ppc EXCEPT ![p] = "slot"]
  /\ UNCHANGED <<start, memVars, calls, consVars>>

\* Mutant: a plain increment, which does not notice that head has moved.
CasIgnoresHead(p) == Diff(head, phead[p]) >= 0

CasMatches(p) == Diff(head, phead[p]) = 0

\* A compare-and-exchange that succeeds follows the last store to head.
Claim(p) ==
  /\ ppc[p] = "cas"
  /\ CasMatches(p)
  /\ head' = head + 1
  /\ know' = [know EXCEPT ![p].head = head + 1]
  /\ ppc' = [ppc EXCEPT ![p] = "write"]
  /\ UNCHANGED <<start, written, data, accesses, phead, calls, consVars>>

\* One that fails, spuriously perhaps, is a Relaxed load.
LoseCas(p) ==
  /\ ppc[p] = "cas"
  /\ LoadHead(p)
  /\ ppc' = [ppc EXCEPT ![p] = "slot"]
  /\ UNCHANGED <<start, memVars, calls, consVars>>

Write(p) ==
  /\ ppc[p] = "write"
  /\ data' = [data EXCEPT ![Slot(phead[p])] = phead[p]]
  /\ Touch(p, <<"w", phead[p]>>)
  /\ ppc' = [ppc EXCEPT ![p] = "publish"]
  /\ UNCHANGED <<start, head, written, phead, calls, consVars>>

Publish(p) ==
  /\ ppc[p] = "publish"
  /\ StoreSeq(p, Slot(phead[p]), phead[p] + 1)
  /\ ppc' = [ppc EXCEPT ![p] = "idle"]
  /\ UNCHANGED <<start, head, data, accesses, phead, calls, consVars>>

-----------------------------------------------------------------------------
(* pop.  What pop returns without a record changes nothing but know. *)

\* Mutant: compares with tail, not tail + 1.
IsClaimed(pos) == Diff(pos, tail) >= 0

IsWritten(pos) == Diff(pos, tail + 1) = 0

Poll ==
  /\ cpc = "idle"
  /\ \E n \in DOMAIN written[Slot(tail)] :
       /\ CanLoad(Consumer, Slot(tail), n)
       /\ LoadSeq(Consumer, Slot(tail), n)
       /\ cpc' = IF IsWritten(written[Slot(tail)][n].pos) THEN "read" ELSE "idle"
  /\ UNCHANGED <<start, memVars, prodVars, tail, crec, taken>>

Read ==
  /\ cpc = "read"
  /\ crec' = data[Slot(tail)]
  /\ Touch(Consumer, <<"r", tail>>)
  /\ cpc' = "release"
  /\ UNCHANGED <<start, head, written, data, prodVars, tail, taken>>

\* Stores seq and then tail, which only this thread reads.
Release ==
  /\ cpc = "release"
  /\ StoreSeq(Consumer, Slot(tail), tail + Capacity)
  /\ tail' = tail + 1 /\ taken' = Append(taken, crec)
  /\ cpc' = "idle"
  /\ UNCHANGED <<start, head, data, accesses, prodVars, crec>>

Next ==
  \/ \E p \in Producers :
       \/ CallPush(p) \/ LoadFree(p) \/ Reject(p) \/ LoadTaken(p) \/ ReloadHead(p)
       \/ Claim(p) \/ LoseCas(p) \/ Write(p) \/ Publish(p)
  \/ Poll \/ Read \/ Release

Spec == Init /\ [][Next]_vars

-----------------------------------------------------------------------------
(***************************************************************************)
(* Properties.                                                             *)
(***************************************************************************)

\* Types; nobody has seen more stores than there are.
TypeOK ==
  /\ start \in Nat /\ head \in Nat /\ tail \in Nat /\ tail <= head
  /\ written \in [Slots -> Seq([pos : Nat, view : View])]
  /\ data \in [Slots -> Nat \cup {-1}] /\ crec \in Nat \cup {-1}
  /\ accesses \subseteq {"w", "r"} \X Nat
  /\ know \in [Threads -> View]
  /\ \A t \in Threads :
       /\ know[t].head <= head /\ know[t].done \subseteq accesses
       /\ \A s \in Slots : know[t].seq[s] \in 1 .. Len(written[s])
  /\ ppc \in [Producers -> {"idle", "slot", "cas", "reload", "write", "publish"}]
  /\ phead \in [Producers -> Nat]
  /\ cpc \in {"idle", "read", "release"}
  /\ calls \in 0 .. MaxPushes /\ taken \in Seq(Nat \cup {-1})

AccessesOf(kinds, s) == {a \in accesses : a[1] \in kinds /\ Slot(a[2]) = s}

\* No data race in the sense of the language: before a producer writes a slot
\* every earlier read and write of it happened before, and before the consumer
\* reads one every write did.  Acquire and Release on seq are enough; Relaxed
\* on head and tail takes nothing away (lines 114-138, 163-177).
HappensBefore ==
  /\ \A p \in Producers :
       ppc[p] = "write" => AccessesOf({"w", "r"}, Slot(phead[p])) \subseteq know[p].done
  /\ cpc = "read" => AccessesOf({"w"}, Slot(tail)) \subseteq know[Consumer].done

\* Who is about to store a slot's seq has seen its last store, so the stores of
\* different threads to one seq cannot be ordered otherwise than they are here.
StorersSeeLast ==
  /\ \A p \in Producers : ppc[p] \in {"write", "publish"} =>
       know[p].seq[Slot(phead[p])] = Len(written[Slot(phead[p])])
  /\ cpc \in {"read", "release"} => know[Consumer].seq[Slot(tail)] = Len(written[Slot(tail)])

\* push refuses only on a seq of an earlier generation than its head, also where
\* the counters wrap (lines 120-121 and 146).
RefusedByOlder ==
  [][\A p \in Producers :
       ppc[p] = "slot" /\ ppc'[p] = "idle" =>
         LET s == Slot(phead[p])
         IN  written[s][know'[p].seq[s]].pos < phead[p]]_vars

\* The ring still implements the abstract log, whatever stale values its threads
\* read and wherever its counters wrap.
Position(k) == start + k - 1
Published ==
  {k \in 1 .. head - start :
     \E n \in DOMAIN written[Slot(Position(k))] :
       written[Slot(Position(k))][n].pos = Position(k) + 1}

Abstract == INSTANCE AuditLog
  WITH Records <- UNION {k .. k + MaxPushes : k \in Starts},
       log <- [k \in 1 .. head - start |-> Position(k)],
       sealed <- Published

ImplementsLog == Abstract!Spec

=============================================================================
