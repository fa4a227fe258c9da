--------------------------- MODULE SeccompProofs ---------------------------
(***************************************************************************)
(* Proofs about the seccomp armour, for every chain of compares whose      *)
(* jumps follow the rule written above the table (SeccompAssumption), of   *)
(* any length, and any number of threads.                                  *)
(***************************************************************************)
EXTENDS Seccomp, TLAPS

\* A filter runs for armed threads only and compares the number that was
\* called; every compare behind it has failed.
Loaded == pc \in 1 .. N + 1 => acc = nr
Passed == pc \in 1 .. N + 1 => \A j \in 1 .. N : j < pc => Jeq[j].k # nr
JudgesArmed == pc \in 0 .. N + 1 => caller \in armed
DeadIsQuiet == alive \/ pc = Off
PrivsFirst == \A t \in Threads : phase[t] = "filter" => t \in noNewPrivs

IInv ==
  /\ TypeOK /\ Loaded /\ Passed /\ JudgesArmed /\ DeadIsQuiet
  /\ FilterExact /\ KilledForCause
  /\ PrivsFirst /\ ArmedKeepsPrivs

LEMMA LengthType == N \in Nat
BY SeccompAssumption DEF N

\* A compare jumps to N + 2 on a match and to the next instruction otherwise.
LEMMA TargetOf ==
  ASSUME NEW i \in 1 .. N
  PROVE  Target(i) = IF acc = Jeq[i].k THEN N + 2 ELSE i + 1
<1>1. Jeq[i].jt = N - i + 1 /\ Jeq[i].jf = 0
  BY SeccompAssumption
<1>. QED BY <1>1, LengthType DEF Target

LEMMA InitHolds == Init => IInv
BY LengthType, SeccompAssumption
DEF Init, IInv, TypeOK, Loaded, Passed, JudgesArmed, DeadIsQuiet, FilterExact,
    KilledForCause, PrivsFirst, ArmedKeepsPrivs, Off

-----------------------------------------------------------------------------
(* The machine. *)

LEMMA LoadKeeps == IInv /\ Load => IInv'
BY LengthType, SeccompAssumption
DEF Load, IInv, TypeOK, Loaded, Passed, JudgesArmed, DeadIsQuiet, FilterExact,
    KilledForCause, PrivsFirst, ArmedKeepsPrivs, Off, Allowed

LEMMA CompareKeeps == IInv /\ Compare => IInv'
<1> SUFFICES ASSUME IInv, Compare PROVE IInv'
  OBVIOUS
<1>. USE LengthType
<1>1. pc \in 1 .. N /\ acc = nr /\ caller \in armed
  BY DEF IInv, Compare, Loaded, JudgesArmed
<1>2. pc' = IF nr = Jeq[pc].k THEN N + 2 ELSE pc + 1
  BY <1>1, TargetOf DEF Compare
<1>3. UNCHANGED <<alive, noNewPrivs, armed, phase, caller, nr, acc>>
  BY DEF Compare
<1>4. TypeOK'
  BY <1>1, <1>2, <1>3 DEF IInv, TypeOK
<1>5. Passed'
  <2>1. ASSUME NEW j \in 1 .. N, pc' \in 1 .. N + 1, j < pc' PROVE Jeq[j].k # nr
    <3>1. CASE j = pc
      BY <1>1, <1>2, <2>1, <3>1
    <3>2. CASE j # pc
      <4>1. j < pc
        BY <1>1, <1>2, <2>1, <3>2
      <4>. QED BY <1>1, <4>1 DEF IInv, Passed
    <3>. QED BY <3>1, <3>2
  <2>. QED BY <2>1, <1>3 DEF Passed
<1>6. FilterExact'
  <2>1. ASSUME pc' = N + 2 PROVE nr \in Allowed
    <3>1. nr = Jeq[pc].k
      BY <1>1, <1>2, <2>1
    <3>. QED BY <1>1, <3>1 DEF Allowed
  <2>2. ASSUME pc' = N + 1 PROVE nr \notin Allowed
    <3>1. \A j \in 1 .. N : Jeq[j].k # nr
      BY <1>5, <1>3, <2>2 DEF Passed
    <3>. QED BY <3>1 DEF Allowed
  <2>. QED BY <2>1, <2>2, <1>3 DEF FilterExact, Allowed
<1>7. (Loaded /\ JudgesArmed)'
  BY <1>1, <1>3 DEF Loaded, JudgesArmed
<1>8. (DeadIsQuiet /\ KilledForCause)'
  BY <1>1, <1>3 DEF IInv, DeadIsQuiet, KilledForCause, Off, Allowed
<1>9. (PrivsFirst /\ ArmedKeepsPrivs)'
  BY <1>3 DEF IInv, PrivsFirst, ArmedKeepsPrivs
<1>. QED BY <1>4, <1>5, <1>6, <1>7, <1>8, <1>9 DEF IInv

LEMMA KillKeeps == IInv /\ Kill => IInv'
<1> SUFFICES ASSUME IInv, Kill PROVE IInv'
  OBVIOUS
<1>. USE LengthType
<1>1. nr \notin Allowed /\ caller \in armed
  BY DEF IInv, Kill, FilterExact, JudgesArmed
<1>2. pc' = Off /\ UNCHANGED <<noNewPrivs, armed, phase, caller, nr, acc>>
  BY DEF Kill
<1>3. (TypeOK /\ DeadIsQuiet)'
  BY <1>2 DEF Kill, IInv, TypeOK, DeadIsQuiet
<1>4. (Loaded /\ Passed /\ JudgesArmed)'
  BY <1>2 DEF Loaded, Passed, JudgesArmed, Off
<1>5. (FilterExact /\ KilledForCause)'
  BY <1>1, <1>2 DEF FilterExact, KilledForCause, Off, Allowed
<1>6. (PrivsFirst /\ ArmedKeepsPrivs)'
  BY <1>2 DEF IInv, PrivsFirst, ArmedKeepsPrivs
<1>. QED BY <1>3, <1>4, <1>5, <1>6 DEF IInv

-----------------------------------------------------------------------------
(* System calls and the two prctls. *)

LEMMA EnterKeeps ==
  ASSUME NEW t \in Threads, NEW n \in Syscalls
  PROVE  IInv /\ Enter(t, n) => IInv'
BY LengthType, SeccompAssumption
DEF Enter, IInv, TypeOK, Loaded, Passed, JudgesArmed, DeadIsQuiet, FilterExact,
    KilledForCause, PrivsFirst, ArmedKeepsPrivs, Off, Allowed

LEMMA SyscallKeeps ==
  ASSUME NEW t \in Threads
  PROVE  IInv /\ Syscall(t) => IInv'
BY EnterKeeps, SeccompAssumption DEF Syscall

LEMMA CallInitKeeps ==
  ASSUME NEW t \in Threads
  PROVE  IInv /\ CallInit(t) => IInv'
<1> SUFFICES ASSUME IInv, CallInit(t) PROVE IInv'
  OBVIOUS
<1>. USE LengthType
<1>1. /\ phase' = [phase EXCEPT ![t] = "privs"]
      /\ UNCHANGED <<alive, noNewPrivs, armed, caller, nr, acc, pc>>
  BY DEF CallInit, vmVars
<1>2. (TypeOK /\ DeadIsQuiet)'
  BY <1>1 DEF IInv, TypeOK, DeadIsQuiet
<1>3. (Loaded /\ Passed /\ JudgesArmed)'
  BY <1>1 DEF IInv, Loaded, Passed, JudgesArmed
<1>4. (FilterExact /\ KilledForCause)'
  BY <1>1 DEF IInv, FilterExact, KilledForCause, Allowed
<1>5. (PrivsFirst /\ ArmedKeepsPrivs)'
  BY <1>1 DEF IInv, TypeOK, PrivsFirst, ArmedKeepsPrivs
<1>. QED BY <1>2, <1>3, <1>4, <1>5 DEF IInv

LEMMA ReturnKeeps == IInv /\ (Pass \/ GrantPrivs \/ PrctlFails) => IInv'
<1>1. IInv /\ Pass => IInv'
  BY LengthType, SeccompAssumption
  DEF Pass, IInv, TypeOK, Loaded, Passed, JudgesArmed, DeadIsQuiet, FilterExact,
      KilledForCause, PrivsFirst, ArmedKeepsPrivs, Off, Allowed
<1>2. IInv /\ GrantPrivs => IInv'
  BY LengthType, SeccompAssumption
  DEF GrantPrivs, IInv, TypeOK, Loaded, Passed, JudgesArmed, DeadIsQuiet,
      FilterExact, KilledForCause, PrivsFirst, ArmedKeepsPrivs, Off, Allowed
<1>3. IInv /\ PrctlFails => IInv'
  BY LengthType, SeccompAssumption
  DEF PrctlFails, IInv, TypeOK, Loaded, Passed, JudgesArmed, DeadIsQuiet,
      FilterExact, KilledForCause, PrivsFirst, ArmedKeepsPrivs, Off, Allowed
<1>. QED BY <1>1, <1>2, <1>3

LEMMA BindFilterKeeps == IInv /\ BindFilter => IInv'
BY LengthType, SeccompAssumption
DEF BindFilter, IInv, TypeOK, Loaded, Passed, JudgesArmed, DeadIsQuiet,
    FilterExact, KilledForCause, PrivsFirst, ArmedKeepsPrivs, Off, Allowed

-----------------------------------------------------------------------------
LEMMA NextKeeps == IInv /\ [Next]_vars => IInv'
<1>1. IInv /\ UNCHANGED vars => IInv'
  BY DEF vars, vmVars, IInv, TypeOK, Loaded, Passed, JudgesArmed, DeadIsQuiet,
         FilterExact, KilledForCause, PrivsFirst, ArmedKeepsPrivs, Allowed
<1>. QED
  BY <1>1, LoadKeeps, CompareKeeps, KillKeeps, ReturnKeeps, BindFilterKeeps,
     CallInitKeeps, SyscallKeeps
  DEF Next, Kernel

LEMMA Armour == Spec => []IInv
BY InitHolds, NextKeeps, PTL DEF Spec

\* The machine never leaves its program, whatever the length of the table.
THEOREM TypeCorrect == Spec => []TypeOK
<1>1. IInv => TypeOK
  BY DEF IInv
<1>. QED BY <1>1, Armour, PTL

\* A judged call of an armed thread is allowed exactly when its number is in the
\* table: the fall-through of the last jump and the offsets of the others agree.
THEOREM ArmourIsExact == Spec => []FilterExact
<1>1. IInv => FilterExact
  BY DEF IInv
<1>. QED BY <1>1, Armour, PTL

\* Only an armed thread's forbidden call kills the process.
THEOREM KilledOnlyForCause == Spec => []KilledForCause
<1>1. IInv => KilledForCause
  BY DEF IInv
<1>. QED BY <1>1, Armour, PTL

\* No thread is armed without no_new_privs, however many inits run and whichever
\* of their prctls fail.
THEOREM ArmedWithoutNewPrivs == Spec => []ArmedKeepsPrivs
<1>1. IInv => ArmedKeepsPrivs
  BY DEF IInv
<1>. QED BY <1>1, Armour, PTL

=============================================================================
