------------------------------ MODULE Seccomp -------------------------------
(***************************************************************************)
(* The seccomp armour of src/syscall_hardener.rs: vajra_init_seccomp,      *)
(* which binds a BPF program to the calling thread, and the BPF program    *)
(* that from then on judges every system call of that thread.              *)
(*                                                                         *)
(* The program is the table DROS_SECCOMP_FILTER: instruction 0 loads the   *)
(* system call number, instructions 1 .. N compare it with one allowed     *)
(* number each and jump, instruction N + 1 kills the process and           *)
(* instruction N + 2 allows the call.  Filters run one at a time: a run    *)
(* reads nothing that another thread can change.  The program looks at the *)
(* number alone and never at the architecture beside it, so the model has  *)
(* the one numbering the table is written for.                             *)
(***************************************************************************)
EXTENDS Integers, Sequences

CONSTANTS
  Threads,
  Syscalls,   \* the numbers a thread may call with
  Prctl,      \* SYS_PRCTL
  Jeq         \* the compare instructions: a sequence of records [k, jt, jf]

N == Len(Jeq)

\* What the comment above the table asks of the jumps (lines 382-384): all but
\* the matching one fall through, and a match lands on instruction N + 2.
ASSUME SeccompAssumption ==
  /\ Syscalls \subseteq Nat /\ Prctl \in Syscalls
  /\ Jeq \in Seq([k : Nat, jt : Nat, jf : Nat])
  /\ \A i \in 1 .. N : Jeq[i].jt = N - i + 1 /\ Jeq[i].jf = 0

Allowed == {Jeq[i].k : i \in 1 .. N}

Off == -1      \* no system call under way

VARIABLES
  alive,      \* the process has not been killed
  noNewPrivs, \* threads with PR_SET_NO_NEW_PRIVS
  armed,      \* threads with the filter
  phase,      \* thread -> where it is in vajra_init_seccomp
  caller,     \* the thread in the kernel
  nr,         \* seccomp_data.nr, the number it called with
  acc,        \* the BPF accumulator
  pc          \* the instruction to run next

vmVars == <<caller, nr, acc, pc>>
vars == <<alive, noNewPrivs, armed, phase, vmVars>>

Init ==
  /\ alive = TRUE
  /\ noNewPrivs = {}
  /\ armed = {}
  /\ phase = [t \in Threads |-> "out"]
  /\ caller \in Threads
  /\ nr = 0 /\ acc = 0
  /\ pc = Off

-----------------------------------------------------------------------------
CallInit(t) ==
  /\ alive /\ pc = Off
  /\ phase[t] = "out"
  /\ phase' = [phase EXCEPT ![t] = "privs"]
  /\ UNCHANGED <<alive, noNewPrivs, armed, vmVars>>

\* A thread enters the kernel; without a filter nothing judges the call, which
\* is what instruction N + 2 does.
Enter(t, n) ==
  /\ alive /\ pc = Off
  /\ caller' = t
  /\ nr' = n
  /\ acc' = 0
  /\ pc' = IF t \in armed THEN 0 ELSE N + 2
  /\ UNCHANGED <<alive, noNewPrivs, armed, phase>>

\* Inside vajra_init_seccomp the calls are its two prctls.
Syscall(t) ==
  \/ phase[t] = "out" /\ \E n \in Syscalls : Enter(t, n)
  \/ phase[t] # "out" /\ Enter(t, Prctl)

-----------------------------------------------------------------------------
(* The BPF machine. *)

\* BPF_LD | BPF_W | BPF_ABS at SECCOMP_DATA_NR_OFFSET
Load ==
  /\ pc = 0
  /\ acc' = nr
  /\ pc' = 1
  /\ UNCHANGED <<alive, noNewPrivs, armed, phase, caller, nr>>

\* Mutants: a match jumps one short or one too far.
MatchOneShort(i) == i + (IF acc = Jeq[i].k THEN Jeq[i].jt ELSE Jeq[i].jf + 1)
MatchTooFar(i) == i + (IF acc = Jeq[i].k THEN Jeq[i].jt + 2 ELSE Jeq[i].jf + 1)

\* Offsets count from the instruction after the jump.
Target(i) == i + 1 + (IF acc = Jeq[i].k THEN Jeq[i].jt ELSE Jeq[i].jf)

\* BPF_JMP | BPF_JEQ | BPF_K
Compare ==
  /\ pc \in 1 .. N
  /\ pc' = Target(pc)
  /\ UNCHANGED <<alive, noNewPrivs, armed, phase, caller, nr, acc>>

\* SECCOMP_RET_KILL_PROCESS
Kill ==
  /\ pc = N + 1
  /\ alive' = FALSE
  /\ pc' = Off
  /\ UNCHANGED <<noNewPrivs, armed, phase, caller, nr, acc>>

\* SECCOMP_RET_ALLOW to an ordinary call.
Pass ==
  /\ pc = N + 2
  /\ phase[caller] = "out"
  /\ pc' = Off
  /\ UNCHANGED <<alive, noNewPrivs, armed, phase, caller, nr, acc>>

\* prctl(PR_SET_NO_NEW_PRIVS, 1, 0, 0): the kernel wants a fifth argument of
\* zero too, whose register the code leaves as it is, so this may also fail.
GrantPrivs ==
  /\ pc = N + 2
  /\ phase[caller] = "privs"
  /\ noNewPrivs' = noNewPrivs \cup {caller}
  /\ phase' = [phase EXCEPT ![caller] = "filter"]
  /\ pc' = Off
  /\ UNCHANGED <<alive, armed, caller, nr, acc>>

\* prctl(PR_SET_SECCOMP, SECCOMP_MODE_FILTER, &prog).  The kernel refuses an
\* unprivileged thread without no_new_privs and takes the filter from a
\* privileged one; no guard stands for either outcome.
BindFilter ==
  /\ pc = N + 2
  /\ phase[caller] = "filter"
  /\ armed' = armed \cup {caller}
  /\ phase' = [phase EXCEPT ![caller] = "out"]
  /\ pc' = Off
  /\ UNCHANGED <<alive, noNewPrivs, caller, nr, acc>>

\* Mutant: an error of the first prctl is not returned.
GoOnAfterError ==
  /\ pc = N + 2
  /\ phase[caller] = "privs"
  /\ phase' = [phase EXCEPT ![caller] = "filter"]
  /\ pc' = Off
  /\ UNCHANGED <<alive, noNewPrivs, armed, caller, nr, acc>>

\* Either prctl returns an error and vajra_init_seccomp returns it.
PrctlFails ==
  /\ pc = N + 2
  /\ phase[caller] # "out"
  /\ phase' = [phase EXCEPT ![caller] = "out"]
  /\ pc' = Off
  /\ UNCHANGED <<alive, noNewPrivs, armed, caller, nr, acc>>

Kernel == Load \/ Compare \/ Kill \/ Pass \/ GrantPrivs \/ BindFilter \/ PrctlFails

Next == Kernel \/ \E t \in Threads : CallInit(t) \/ Syscall(t)

Spec == Init /\ [][Next]_vars

-----------------------------------------------------------------------------
(***************************************************************************)
(* Properties.                                                             *)
(***************************************************************************)

\* The machine never leaves its program, and types are kept.
TypeOK ==
  /\ alive \in BOOLEAN
  /\ noNewPrivs \subseteq Threads
  /\ armed \subseteq Threads
  /\ phase \in [Threads -> {"out", "privs", "filter"}]
  /\ caller \in Threads
  /\ nr \in Syscalls \cup {0}
  /\ acc \in Syscalls \cup {0}
  /\ pc \in {Off} \cup 0 .. N + 2

\* The filter is exact: when it has judged a call of an armed thread, the
\* verdict is allow for the numbers in the table and kill for all others,
\* however long the chain of jumps is.
FilterExact ==
  /\ caller \in armed /\ pc = N + 2 => nr \in Allowed
  /\ pc = N + 1 => nr \notin Allowed

\* The process is killed only by a thread that was armed and called with a
\* number outside the table.
KilledForCause == ~ alive => caller \in armed /\ nr \notin Allowed

\* No thread runs with the filter and without no_new_privs, in whatever order
\* the prctls of several inits succeed and fail.
ArmedKeepsPrivs == armed \subseteq noNewPrivs

=============================================================================
