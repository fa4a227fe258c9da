------------------------------- MODULE Runtime ------------------------------
(***************************************************************************)
(* The exported interface of src/ffi.rs: threads of the host call init,    *)
(* reload, decide and decide_explain, one thread drains the audit log with *)
(* audit_pop.  Every runtime has an audit ring of its own, used here at    *)
(* the level of AuditLog (reserve, seal, take), which AuditRing is shown   *)
(* to implement.  DROS_ENGINE, the atomic pointer to the current runtime,  *)
(* is the number of the runtime, and 0 when there is none.                 *)
(*                                                                         *)
(* A decision is a number given when it is asked for; what it says is the  *)
(* matter of Dct.  A guard (arc_swap) keeps the runtime a call has loaded  *)
(* until the call returns.  A runtime gets its number when it is stored:   *)
(* before that nobody but its builder knows of it.                         *)
(***************************************************************************)
EXTENDS Integers, Sequences, FiniteSets

CONSTANTS
  Threads,      \* host threads calling init, reload, decide, decide_explain
  Capacity,     \* RING_CAPACITY
  MaxRuntimes,  \* bound: runtimes that init and reload may store
  MaxDecisions, \* bound: decisions that may be asked for with valid arguments
  BadRequests,  \* what hosts get wrong: "badResource", "badIdentity", "badValue"
  Nobody        \* LAST_ERROR before its first message

ASSUME RuntimeAssumption ==
  /\ IsFiniteSet(Threads)
  /\ Capacity \in Nat \ {0}
  /\ MaxRuntimes \in Nat
  /\ MaxDecisions \in Nat
  /\ BadRequests \subseteq {"badResource", "badIdentity", "badValue"}
  /\ Nobody \notin Threads

Runtimes == 1 .. MaxRuntimes
Decisions == 1 .. MaxDecisions

VARIABLES
  engine,     \* DROS_ENGINE
  stored,     \* how many runtimes have been stored in it
  log,        \* runtime -> the decisions recorded in its ring, in claim order
  sealed,     \* runtime -> the positions of log that are published
  popped,     \* runtime -> how many of them audit_pop has taken
  popGuard,   \* the runtime the draining thread has loaded, 0 outside audit_pop
  loss,       \* AUDIT_LOSS_COUNTER
  armed,      \* threads the seccomp filter is installed on
  lastError,  \* LAST_ERROR: whose message it holds
  pc,         \* thread -> where it is in its call
  call,       \* thread -> what it calls
  guard,      \* thread -> the runtime it has loaded
  mine,       \* thread -> the decision it asks for
  slot,       \* thread -> the position it has reserved
  asked,      \* how many decisions have been asked for
  preceding,  \* history: decision -> those answered before it was asked for
  answered,   \* history: the decisions whose call has returned
  inits,      \* history: how many calls of init have returned DROS_OK
  heard       \* history: threads in set_last_error since whose call it was written

engineVars == <<engine, stored, inits>>
ringVars == <<log, sealed, popped, popGuard>>
errorVars == <<lastError, heard>>
locals == <<call, guard, mine, slot>>
vars == <<engineVars, ringVars, loss, armed, errorVars, pc, locals, asked, preceding, answered>>

Init ==
  /\ engine = 0 /\ stored = 0 /\ inits = 0
  /\ log = [e \in Runtimes |-> <<>>]
  /\ sealed = [e \in Runtimes |-> {}]
  /\ popped = [e \in Runtimes |-> 0]
  /\ popGuard = 0
  /\ loss = 0
  /\ armed = {}
  /\ lastError = Nobody /\ heard = {}
  /\ pc = [t \in Threads |-> "idle"]
  /\ call = [t \in Threads |-> "decide"]
  /\ guard = [t \in Threads |-> 0]
  /\ mine = [t \in Threads |-> 0]
  /\ slot = [t \in Threads |-> 0]
  /\ asked = 0 /\ answered = {}
  /\ preceding = [d \in Decisions |-> {}]

-----------------------------------------------------------------------------
\* Thread t is at pc "here" and moves on inside its call.
Go(t, here, there) == pc[t] = here /\ pc' = [pc EXCEPT ![t] = there]

\* Thread t's call returns: its guard is dropped and its locals are gone.
Return(t) ==
  /\ pc' = [pc EXCEPT ![t] = "idle"]
  /\ call' = [call EXCEPT ![t] = "decide"]
  /\ guard' = [guard EXCEPT ![t] = 0]
  /\ mine' = [mine EXCEPT ![t] = 0]
  /\ slot' = [slot EXCEPT ![t] = 0]

-----------------------------------------------------------------------------
(* dros_v2_decide and dros_v2_decide_explain. *)

\* The host asks for a decision, with a dynamic value that is UTF-8 ("decide")
\* or is not ("badValue") ...
CallDecide(t, request) ==
  /\ Go(t, "idle", "load")
  /\ asked < MaxDecisions
  /\ asked' = asked + 1
  /\ preceding' = [preceding EXCEPT ![asked + 1] = answered]
  /\ mine' = [mine EXCEPT ![t] = asked + 1]
  /\ call' = [call EXCEPT ![t] = request]
  /\ UNCHANGED <<engineVars, ringVars, loss, armed, errorVars, guard, slot, answered>>

\* ... or gets the other arguments wrong: a resource that is null or not UTF-8,
\* an identity that is null or whose tenant is not.  (decide_explain refuses a
\* null out_result before it touches any shared state: that is a stutter.)
CallBadly(t, request) ==
  /\ Go(t, "idle", "load")
  /\ call' = [call EXCEPT ![t] = request]
  /\ UNCHANGED <<engineVars, ringVars, loss, armed, errorVars, guard, mine, slot, asked, preceding, answered>>

\* Mutant: the guard is used without asking whether there is a runtime.
LoadUnchecked(t) ==
  /\ Go(t, "load", "loaded")
  /\ guard' = [guard EXCEPT ![t] = engine]
  /\ UNCHANGED <<engineVars, ringVars, loss, armed, errorVars, call, mine, slot, asked, preceding, answered>>

\* let engine_guard = DROS_ENGINE.load()
LoadEngine(t) ==
  /\ Go(t, "load", "loaded")
  /\ engine # 0
  /\ guard' = [guard EXCEPT ![t] = engine]
  /\ UNCHANGED <<engineVars, ringVars, loss, armed, errorVars, call, mine, slot, asked, preceding, answered>>

\* DROS_ERR_NOT_INIT
LoadNothing(t) ==
  /\ pc[t] = "load" /\ engine = 0
  /\ Return(t)
  /\ UNCHANGED <<engineVars, ringVars, loss, armed, errorVars, asked, preceding, answered>>

\* DROS_ERR_INVALID_ARG: cstr_to_str records why it fails ...
RefuseResource(t) ==
  /\ Go(t, "loaded", "report")
  /\ call[t] = "badResource"
  /\ UNCHANGED <<engineVars, ringVars, loss, armed, errorVars, locals, asked, preceding, answered>>

\* ... as it does for a bad dynamic value, which is then taken for none ...
ReportValue(t) ==
  /\ Go(t, "loaded", "report")
  /\ call[t] = "badValue"
  /\ UNCHANGED <<engineVars, ringVars, loss, armed, errorVars, locals, asked, preceding, answered>>

\* ... and a bad identity is refused without a word.
RefuseIdentity(t) ==
  /\ pc[t] = "loaded" /\ call[t] = "badIdentity"
  /\ Return(t)
  /\ UNCHANGED <<engineVars, ringVars, loss, armed, errorVars, asked, preceding, answered>>

Unread(e) == Len(log[e]) - popped[e]

HasRoom(e) == Unread(e) < Capacity

\* The decision is evaluated on the runtime the call has loaded, and
\* engine.audit.push reserves a position in that runtime's ring ...
Reserve(t) ==
  /\ Go(t, "loaded", "reserved")
  /\ call[t] = "decide" /\ HasRoom(guard[t])
  /\ log' = [log EXCEPT ![guard[t]] = Append(@, mine[t])]
  /\ slot' = [slot EXCEPT ![t] = Len(log[guard[t]]) + 1]
  /\ UNCHANGED <<engineVars, sealed, popped, popGuard, loss, armed, errorVars, call, guard, mine, asked, preceding, answered>>

\* ... and publishes the record there; the decision is returned.
Seal(t) ==
  /\ pc[t] = "reserved"
  /\ sealed' = [sealed EXCEPT ![guard[t]] = @ \cup {slot[t]}]
  /\ answered' = answered \cup {mine[t]}
  /\ Return(t)
  /\ UNCHANGED <<engineVars, log, popped, popGuard, loss, armed, errorVars, asked, preceding>>

\* The push returns Err ...
Overflow(t) ==
  /\ Go(t, "loaded", "count")
  /\ call[t] = "decide" /\ ~ HasRoom(guard[t])
  /\ UNCHANGED <<engineVars, ringVars, loss, armed, errorVars, locals, asked, preceding, answered>>

\* Mutant: a plain store where the code has fetch_add.
CountOne(t) ==
  /\ pc[t] = "count"
  /\ loss' = 1
  /\ answered' = answered \cup {mine[t]}
  /\ Return(t)
  /\ UNCHANGED <<engineVars, ringVars, armed, errorVars, asked, preceding>>

\* ... AUDIT_LOSS_COUNTER.fetch_add(1), and the decision is returned all the same.
CountLoss(t) ==
  /\ pc[t] = "count"
  /\ loss' = loss + 1
  /\ answered' = answered \cup {mine[t]}
  /\ Return(t)
  /\ UNCHANGED <<engineVars, ringVars, armed, errorVars, asked, preceding>>

-----------------------------------------------------------------------------
(* dros_v2_init and dros_v2_reload. *)

\* The bound on the runtimes, counting the calls under way.
MayStore ==
  stored + Cardinality({t \in Threads : call[t] \in {"init", "reload"}}) < MaxRuntimes

CallInit(t) ==
  /\ Go(t, "idle", "check")
  /\ MayStore
  /\ call' = [call EXCEPT ![t] = "init"]
  /\ UNCHANGED <<engineVars, ringVars, loss, armed, errorVars, guard, mine, slot, asked, preceding, answered>>

\* DROS_ERR_ALREADY_INIT
FindRunning(t) ==
  /\ pc[t] = "check" /\ engine # 0
  /\ Return(t)
  /\ UNCHANGED <<engineVars, ringVars, loss, armed, errorVars, asked, preceding, answered>>

\* Nothing is running: a ring and a DCT engine are made.
FindNothing(t) ==
  /\ Go(t, "check", "privs")
  /\ engine = 0
  /\ UNCHANGED <<engineVars, ringVars, loss, armed, errorVars, locals, asked, preceding, answered>>

\* vajra_init_seccomp: prctl(PR_SET_NO_NEW_PRIVS), then prctl(PR_SET_SECCOMP),
\* which binds the calling thread; either may fail.
SetPrivs(t) ==
  /\ Go(t, "privs", "filter")
  /\ UNCHANGED <<engineVars, ringVars, loss, armed, errorVars, locals, asked, preceding, answered>>

InstallFilter(t) ==
  /\ Go(t, "filter", "store")
  /\ armed' = armed \cup {t}
  /\ UNCHANGED <<engineVars, ringVars, loss, errorVars, locals, asked, preceding, answered>>

\* Mutant: init goes on without its armour.
CarryOn(t) ==
  /\ Go(t, "privs", "store") \/ Go(t, "filter", "store")
  /\ UNCHANGED <<engineVars, ringVars, loss, armed, errorVars, locals, asked, preceding, answered>>

HardeningFails(t) ==
  /\ Go(t, "privs", "report") \/ Go(t, "filter", "report")
  /\ UNCHANGED <<engineVars, ringVars, loss, armed, errorVars, locals, asked, preceding, answered>>

\* reload builds a runtime whatever is running.
CallReload(t) ==
  /\ Go(t, "idle", "store")
  /\ MayStore
  /\ call' = [call EXCEPT ![t] = "reload"]
  /\ UNCHANGED <<engineVars, ringVars, loss, armed, errorVars, guard, mine, slot, asked, preceding, answered>>

\* Mutant: what is running is taken down first.
TakeDown(t) ==
  /\ pc[t] = "store"
  /\ stored' = stored + 1
  /\ engine' = IF engine = 0 THEN stored + 1 ELSE 0
  /\ UNCHANGED inits
  /\ Return(t)
  /\ UNCHANGED <<ringVars, loss, armed, errorVars, asked, preceding, answered>>

\* DROS_ENGINE.store(Some(Arc::new(runtime))), DROS_OK
Store(t) ==
  /\ pc[t] = "store"
  /\ stored' = stored + 1
  /\ engine' = stored + 1
  /\ inits' = IF call[t] = "init" THEN inits + 1 ELSE inits
  /\ Return(t)
  /\ UNCHANGED <<ringVars, loss, armed, errorVars, asked, preceding, answered>>

-----------------------------------------------------------------------------
(* set_last_error: LAST_ERROR is a OnceLock holding a Mutex. *)

\* The threads inside set_last_error.
Reporting == {t \in Threads : pc[t] \in {"report", "set"}}

\* set_last_error returns: the call ends with its error, or decides without the
\* dynamic value.
Leave(t) ==
  IF call[t] = "badValue"
    THEN /\ pc' = [pc EXCEPT ![t] = "loaded"]
         /\ call' = [call EXCEPT ![t] = "decide"]
         /\ UNCHANGED <<guard, mine, slot>>
    ELSE Return(t)

WriteError(t) == lastError' = t /\ heard' = Reporting \ {t}
DropError(t) == UNCHANGED lastError /\ heard' = heard \ {t}

\* Mutant: only the first message is kept.
KeepFirstError(t) ==
  /\ pc[t] = "report" /\ lastError # Nobody
  /\ DropError(t)
  /\ Leave(t)
  /\ UNCHANGED <<engineVars, ringVars, loss, armed, asked, preceding, answered>>

\* LAST_ERROR.get() finds the mutex: lock it and write.
OverwriteError(t) ==
  /\ pc[t] = "report" /\ lastError # Nobody
  /\ WriteError(t)
  /\ Leave(t)
  /\ UNCHANGED <<engineVars, ringVars, loss, armed, asked, preceding, answered>>

FindNoError(t) ==
  /\ Go(t, "report", "set")
  /\ lastError = Nobody
  /\ UNCHANGED <<engineVars, ringVars, loss, armed, errorVars, locals, asked, preceding, answered>>

\* Mutant: waits for LAST_ERROR to be empty.
SetOrWait(t) ==
  /\ pc[t] = "set" /\ lastError = Nobody
  /\ WriteError(t)
  /\ Leave(t)
  /\ UNCHANGED <<engineVars, ringVars, loss, armed, asked, preceding, answered>>

\* let _ = LAST_ERROR.set(...): the first one wins, the others are dropped.
SetOnce(t) ==
  /\ pc[t] = "set"
  /\ IF lastError = Nobody THEN WriteError(t) ELSE DropError(t)
  /\ Leave(t)
  /\ UNCHANGED <<engineVars, ringVars, loss, armed, asked, preceding, answered>>

-----------------------------------------------------------------------------
(* dros_v2_audit_pop, called by one thread. *)

\* Mutant: what reloads have left behind in retired rings is handed out too.
CallPopAnyRing ==
  /\ popGuard = 0 /\ engine # 0
  /\ popGuard' \in 1 .. engine
  /\ UNCHANGED <<engineVars, log, sealed, popped, loss, armed, errorVars, pc, locals, asked, preceding, answered>>

\* With no runtime it returns null and nothing changes.
CallPop ==
  /\ popGuard = 0 /\ engine # 0
  /\ popGuard' = engine
  /\ UNCHANGED <<engineVars, log, sealed, popped, loss, armed, errorVars, pc, locals, asked, preceding, answered>>

\* Mutant: looks one position too far.
NextButOne(e) == popped[e] + 2 \in sealed[e]

NextReadable(e) == popped[e] + 1 \in sealed[e]

PopRecord ==
  /\ popGuard # 0 /\ NextReadable(popGuard)
  /\ popped' = [popped EXCEPT ![popGuard] = @ + 1]
  /\ popGuard' = 0
  /\ UNCHANGED <<engineVars, log, sealed, loss, armed, errorVars, pc, locals, asked, preceding, answered>>

PopNothing ==
  /\ popGuard # 0 /\ ~ NextReadable(popGuard)
  /\ popGuard' = 0
  /\ UNCHANGED <<engineVars, log, sealed, popped, loss, armed, errorVars, pc, locals, asked, preceding, answered>>

-----------------------------------------------------------------------------
DecideStep(t) ==
  \/ LoadEngine(t) \/ LoadNothing(t)
  \/ RefuseResource(t) \/ ReportValue(t) \/ RefuseIdentity(t)
  \/ Reserve(t) \/ Seal(t) \/ Overflow(t) \/ CountLoss(t)

InitStep(t) ==
  \/ FindRunning(t) \/ FindNothing(t) \/ SetPrivs(t) \/ InstallFilter(t)
  \/ HardeningFails(t) \/ Store(t)

ErrorStep(t) == OverwriteError(t) \/ FindNoError(t) \/ SetOnce(t)

\* What thread t does once it is inside a call.
Step(t) == DecideStep(t) \/ InitStep(t) \/ ErrorStep(t)

\* The host starts a call.
Start(t) ==
  \/ CallDecide(t, "decide")
  \/ "badValue" \in BadRequests /\ CallDecide(t, "badValue")
  \/ \E request \in BadRequests \ {"badValue"} : CallBadly(t, request)
  \/ CallInit(t)
  \/ CallReload(t)

Drain == CallPop \/ PopRecord \/ PopNothing

Next == (\E t \in Threads : Start(t) \/ Step(t)) \/ Drain

Spec == Init /\ [][Next]_vars

\* Threads inside a call are run, and the draining thread keeps polling.
\* Nobody is obliged to start a call.
FairSpec ==
  /\ Spec
  /\ \A t \in Threads : WF_vars(Step(t))
  /\ WF_vars(Drain)

-----------------------------------------------------------------------------
(***************************************************************************)
(* Properties.                                                             *)
(***************************************************************************)

\* The variables have the types of the statics and locals of ffi.rs.
TypeOK ==
  /\ engine \in {0} \cup Runtimes
  /\ stored \in 0 .. MaxRuntimes
  /\ log \in [Runtimes -> Seq(Decisions)]
  /\ sealed \in [Runtimes -> SUBSET Nat]
  /\ popped \in [Runtimes -> Nat]
  /\ loss \in Nat
  /\ armed \subseteq Threads
  /\ lastError \in Threads \cup {Nobody}
  /\ pc \in [Threads -> {"idle", "load", "loaded", "reserved", "count", "check",
                         "privs", "filter", "store", "report", "set"}]
  /\ call \in [Threads -> {"decide", "init", "reload"} \cup BadRequests]
  /\ guard \in [Threads -> {0} \cup Runtimes]
  /\ \A t \in Threads : pc[t] \in {"loaded", "reserved", "count"} => guard[t] # 0
  /\ mine \in [Threads -> {0} \cup Decisions]
  /\ slot \in [Threads -> Nat]
  /\ popGuard \in {0} \cup Runtimes
  /\ asked \in 0 .. MaxDecisions
  /\ preceding \in [Decisions -> SUBSET Decisions]
  /\ answered \subseteq Decisions
  /\ inits \in 0 .. MaxRuntimes
  /\ heard \subseteq Threads

\* The places where decision d is recorded for good.
Places(d) ==
  {place \in Runtimes \X (1 .. MaxDecisions) :
     place[2] \in sealed[place[1]] /\ log[place[1]][place[2]] = d}

\* Every decision a host has been given is recorded in exactly one ring, or in
\* none and then it is one of those the loss counter counts: AUDIT_LOSS_COUNTER
\* is exact, across every interleaving of pushes, overflows and reloads, and
\* counts nothing before some ring has been filled.
EvidenceExact ==
  /\ \A d \in answered : Cardinality(Places(d)) <= 1
  /\ loss = Cardinality({d \in answered : Places(d) = {}})
  /\ loss > 0 => \E e \in Runtimes : Len(log[e]) >= Capacity

\* The decisions audit_pop has handed out, from whichever ring.
HandedOut == UNION {{log[e][k] : k \in 1 .. popped[e]} : e \in Runtimes}

\* audit_pop hands decisions out in an order a host could have seen: none that was
\* answered before another was even asked for comes out after it, although
\* reloads retire rings under decisions and under audit_pop itself, and records
\* may be left behind in them.
TrailInOrder ==
  [][\A e \in Runtimes : popped'[e] # popped[e] =>
       \A d \in HandedOut : log[e][popped'[e]] \notin preceding[d]]_vars

\* NOT_INIT is answered only until the first init or reload has stored a
\* runtime: reloads never open a gap in which a decision finds no engine.
NoGapInService ==
  [][\A t \in Threads : LoadNothing(t) => stored = 0]_vars

\* A runtime that init puts in place was built by a thread with its filter on:
\* an init whose hardening failed in either prctl publishes nothing.
FailedInitPublishesNothing ==
  [][\A t \in Threads : Store(t) /\ call[t] = "init" => t \in armed]_vars

\* When set_last_error returns, LAST_ERROR holds a message that is not older than
\* the caller's own: losing the OnceLock race is harmless.
LastErrorIsRecent ==
  [][\A t \in Reporting \ Reporting' : lastError' = t \/ t \in heard]_vars

\* Every call returns, whatever reloads, overflows and failures come between.
CallsReturn == \A t \in Threads : pc[t] # "idle" ~> pc[t] = "idle"

\* A decision recorded in the current runtime reaches audit_pop's caller,
\* unless a reload replaces the runtime first.
EvidenceDrains ==
  \A e \in Runtimes, k \in 1 .. MaxDecisions :
    k \in sealed[e] /\ engine = e ~> popped[e] >= k \/ engine # e

\* Every answered decision has been drained, can still be drained, or has been
\* counted as lost (audit_ring.rs line 148: logs must not be lost).
NoSilentLoss ==
  \A d \in answered :
    \A place \in Places(d) : place[2] <= popped[place[1]] \/ place[1] \in {engine, popGuard}

\* No decision is answered by a process without its seccomp armour
\* (syscall_hardener.rs line 469).
ArmedBeforeAnswering == answered # {} => armed # {}

\* At most one init succeeds: later ones find the engine running (ffi.rs lines
\* 27 and 108).
InitOnce == inits <= 1

=============================================================================
