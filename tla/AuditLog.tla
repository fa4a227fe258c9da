------------------------------ MODULE AuditLog ------------------------------
(***************************************************************************)
(* What the audit ring of src/audit_ring.rs promises its users, without    *)
(* slots, sequence numbers or retries: a bounded log that producers        *)
(* reserve positions in, seal when the record is written, and that one     *)
(* consumer takes from in reservation order.                               *)
(***************************************************************************)
EXTENDS Naturals, Sequences

CONSTANTS
  Records,    \* the records a producer may append
  Capacity    \* positions that may be reserved and not yet taken

VARIABLES
  log,        \* every record ever accepted, in reservation order
  sealed,     \* the positions of log whose record is completely written
  taken       \* the records handed to the consumer, in the order it got them

vars == <<log, sealed, taken>>

Init ==
  /\ log = <<>>
  /\ sealed = {}
  /\ taken = <<>>

\* A producer is accepted only while fewer than Capacity positions are unread.
Reserve(r) ==
  /\ Len(log) < Len(taken) + Capacity
  /\ log' = Append(log, r)
  /\ UNCHANGED <<sealed, taken>>

\* The producer that reserved position k has finished writing it.
Seal(k) ==
  /\ k \in (1 .. Len(log)) \ sealed
  /\ sealed' = sealed \cup {k}
  /\ UNCHANGED <<log, taken>>

\* The consumer takes the oldest unread position, and only once it is sealed.
Take ==
  /\ Len(taken) + 1 \in sealed
  /\ taken' = Append(taken, log[Len(taken) + 1])
  /\ UNCHANGED <<log, sealed>>

Next ==
  \/ \E r \in Records : Reserve(r)
  \/ \E k \in 1 .. Len(log) : Seal(k)
  \/ Take

Spec == Init /\ [][Next]_vars

=============================================================================
