--------------------------- MODULE RuntimeProofs ---------------------------
(***************************************************************************)
(* Proofs about the exported interface, for any number of host threads,    *)
(* runtimes and decisions and every capacity of the rings.                 *)
(*                                                                         *)
(* The invariant comes in layers, each proved from those before it: where  *)
(* threads are in their calls (Control), what they have reported           *)
(* (Reports), where every decision asked for is (Rings), what has been     *)
(* counted (CountExact), and in which order decisions stand (InOrder).     *)
(***************************************************************************)
EXTENDS Runtime, SequenceTheorems, FiniteSetTheorems, TLAPS

\* Thread t carries the decision mine[t].
Asking(t) == pc[t] # "idle" /\ call[t] \in {"decide", "badValue"}

\* What a thread at a place of the code is calling, and that a thread which is
\* going to use a runtime or a decision has one.
CallsFit ==
  \A t \in Threads :
    /\ pc[t] = "idle" => call[t] = "decide"
    /\ pc[t] \in {"load", "loaded"} => call[t] \in {"decide"} \cup BadRequests
    /\ pc[t] \in {"reserved", "count"} => call[t] = "decide"
    /\ pc[t] \in {"check", "privs", "filter"} => call[t] = "init"
    /\ pc[t] = "store" => call[t] \in {"init", "reload"}
    /\ pc[t] \in {"report", "set"} => call[t] \in {"init", "badResource", "badValue"}
    /\ pc[t] \in {"report", "set"} /\ call[t] # "init" => guard[t] # 0
    /\ Asking(t) => mine[t] # 0

\* The runtime in service is the last one stored, every successful init stored
\* one, and the bound leaves room for what the calls under way will store.
Storing == {t \in Threads : call[t] \in {"init", "reload"}}
LastIsCurrent == engine = stored /\ inits <= stored
StoresFit == stored + Cardinality(Storing) <= MaxRuntimes

\* init stores only behind its filter.
FilterFirst == \A t \in Threads : pc[t] = "store" /\ call[t] = "init" => t \in armed

Control == TypeOK /\ CallsFit /\ LastIsCurrent /\ StoresFit /\ FilterFirst

\* A thread that has found LAST_ERROR empty hears of the message that fills it.
Reports == \A t \in Threads : pc[t] = "set" /\ lastError # Nobody => t \in heard

-----------------------------------------------------------------------------
\* A decision is carried by one thread, and no longer once it is answered.
CarriersOK ==
  /\ answered \subseteq 1 .. asked
  /\ \A t \in Threads : Asking(t) => mine[t] \in (1 .. asked) \ answered
  /\ \A t, u \in Threads : Asking(t) /\ Asking(u) /\ mine[t] = mine[u] => t = u

\* What is popped is sealed, and what is sealed was reserved.
WindowsOK ==
  \A e \in Runtimes :
    /\ sealed[e] \subseteq 1 .. Len(log[e])
    /\ popped[e] <= Len(log[e])
    /\ 1 .. popped[e] \subseteq sealed[e]

\* A thread inside push holds an open position with its own decision.
HoldersOK ==
  \A t \in Threads : pc[t] = "reserved" =>
    /\ slot[t] \in (1 .. Len(log[guard[t]])) \ sealed[guard[t]]
    /\ log[guard[t]][slot[t]] = mine[t]

\* An entry is sealed and its decision answered, or a thread is about to seal it.
EntriesOK ==
  \A e \in Runtimes : \A k \in 1 .. Len(log[e]) :
    \/ k \in sealed[e] /\ log[e][k] \in answered
    \/ \E t \in Threads : pc[t] = "reserved" /\ guard[t] = e /\ slot[t] = k

\* A decision that has not been pushed is in no ring; no decision is in two places.
PushedOnce ==
  /\ \A t \in Threads : Asking(t) /\ pc[t] # "reserved" =>
       \A e \in Runtimes : \A k \in 1 .. Len(log[e]) : log[e][k] # mine[t]
  /\ \A e, f \in Runtimes : \A k \in 1 .. Len(log[e]), l \in 1 .. Len(log[f]) :
       log[e][k] = log[f][l] => e = f /\ k = l

\* A push that failed found its ring full.
FailuresOK ==
  \A t \in Threads : pc[t] = "count" => Len(log[guard[t]]) >= Capacity

Rings == CarriersOK /\ WindowsOK /\ HoldersOK /\ EntriesOK /\ PushedOnce /\ FailuresOK

-----------------------------------------------------------------------------
\* Nothing is loaded that was not in service, and only what was is written to.
InService ==
  /\ \A t \in Threads : guard[t] <= engine
  /\ \A e \in Runtimes : e > engine => Len(log[e]) = 0

\* A decision on its way goes to no older runtime than those answered before it
\* was asked for ...
GuardsInOrder ==
  \A t \in Threads : Asking(t) /\ pc[t] # "load" =>
    \A e \in Runtimes : \A k \in 1 .. Len(log[e]) :
      log[e][k] \in preceding[mine[t]] => e <= guard[t]

\* ... and comes behind those of them that are in the same ring.
EntriesInOrder ==
  \A e, f \in Runtimes : \A k \in 1 .. Len(log[e]), l \in 1 .. Len(log[f]) :
    log[e][k] \in preceding[log[f][l]] => e < f \/ (e = f /\ k < l)

\* audit_pop never goes back: no later ring has been touched than the one it is in.
DrainsForward ==
  popGuard # 0 => \A f \in Runtimes : f > popGuard => popped[f] = 0

InOrder ==
  /\ \A d \in Decisions : preceding[d] \subseteq answered
  /\ InService /\ GuardsInOrder /\ EntriesInOrder /\ DrainsForward

-----------------------------------------------------------------------------
LEMMA ConstantTypes ==
  /\ Capacity \in Nat \ {0} /\ MaxRuntimes \in Nat /\ MaxDecisions \in Nat
  /\ IsFiniteSet(Threads)
  /\ BadRequests \subseteq {"badResource", "badIdentity", "badValue"}
  /\ Nobody \notin Threads
BY RuntimeAssumption

LEMMA StoringType == IsFiniteSet(Storing) /\ Cardinality(Storing) \in Nat
<1>1. IsFiniteSet(Storing)
  BY ConstantTypes, FS_Subset DEF Storing
<1>. QED BY <1>1, FS_CardinalityType

LEMMA InitControl == Init => Control
<1> SUFFICES ASSUME Init PROVE Control
  OBVIOUS
<1>. USE ConstantTypes
<1>1. TypeOK
  BY DEF Init, TypeOK, Runtimes, Decisions
<1>2. CallsFit /\ LastIsCurrent /\ FilterFirst
  BY DEF Init, CallsFit, Asking, LastIsCurrent, FilterFirst
<1>3. StoresFit
  <2>1. Storing = {}
    BY DEF Init, Storing
  <2>. QED BY <2>1, FS_EmptySet DEF StoresFit, Init
<1>. QED BY <1>1, <1>2, <1>3 DEF Control

-----------------------------------------------------------------------------
(* Where threads are.  Placed is Control without the count of the stores. *)

Placed == TypeOK /\ CallsFit /\ LastIsCurrent /\ FilterFirst

\* A thread about to store is one of those the bound counts.
LEMMA StorerCounts ==
  ASSUME NEW t \in Threads, Control, call[t] \in {"init", "reload"}
  PROVE  stored + 1 <= MaxRuntimes /\ Cardinality(Storing \ {t}) = Cardinality(Storing) - 1
<1>1. t \in Storing
  BY DEF Storing
<1>2. Cardinality(Storing \ {t}) = Cardinality(Storing) - 1
  BY <1>1, StoringType, FS_RemoveElement
<1>3. Cardinality(Storing \ {t}) \in Nat
  BY StoringType, FS_Subset, FS_CardinalityType
<1>. QED BY <1>2, <1>3, StoringType, ConstantTypes DEF Control, StoresFit, TypeOK

\* What a thread has when its call has returned, or when a bad dynamic value has
\* been reported and forgotten.
LocalsOK ==
  /\ pc \in [Threads -> {"idle", "load", "loaded", "reserved", "count", "check",
                         "privs", "filter", "store", "report", "set"}]
  /\ call \in [Threads -> {"decide", "init", "reload"} \cup BadRequests]
  /\ guard \in [Threads -> {0} \cup Runtimes]
  /\ \A t \in Threads : pc[t] \in {"loaded", "reserved", "count"} => guard[t] # 0
  /\ mine \in [Threads -> {0} \cup Decisions]
  /\ slot \in [Threads -> Nat]

LEMMA ReturnFits ==
  ASSUME NEW t \in Threads, Control, Return(t), armed' = armed
  PROVE  (LocalsOK /\ CallsFit /\ FilterFirst)'
BY DEF Control, Return, LocalsOK, TypeOK, CallsFit, FilterFirst, Asking

LEMMA LeaveFits ==
  ASSUME NEW t \in Threads, Control, pc[t] \in {"report", "set"}, Leave(t), armed' = armed
  PROVE  (LocalsOK /\ CallsFit /\ FilterFirst)'
<1>1. CASE call[t] = "badValue"
  <2>1. /\ pc' = [pc EXCEPT ![t] = "loaded"] /\ call' = [call EXCEPT ![t] = "decide"]
        /\ UNCHANGED <<guard, mine, slot>>
    BY <1>1 DEF Leave
  <2>2. guard[t] # 0 /\ mine[t] # 0
    BY <1>1 DEF Control, CallsFit, Asking
  <2>. QED
    BY <2>1, <2>2 DEF Control, LocalsOK, TypeOK, CallsFit, FilterFirst, Asking
<1>2. CASE call[t] # "badValue"
  BY <1>2, ReturnFits DEF Leave
<1>. QED BY <1>1, <1>2

LEMMA StartPlaced ==
  ASSUME NEW t \in Threads, Control, Start(t)
  PROVE  Placed'
<1>. USE ConstantTypes DEF Control, Go, engineVars, ringVars, errorVars, Asking,
     Placed, TypeOK, CallsFit, LastIsCurrent, FilterFirst
<1>1. ASSUME NEW r \in {"decide"} \cup BadRequests, CallDecide(t, r) PROVE Placed'
  BY <1>1 DEF CallDecide, Decisions
<1>2. ASSUME NEW r \in BadRequests \ {"badValue"}, CallBadly(t, r) PROVE Placed'
  BY <1>2 DEF CallBadly
<1>3. ASSUME CallInit(t) PROVE Placed'
  BY <1>3 DEF CallInit
<1>4. ASSUME CallReload(t) PROVE Placed'
  BY <1>4 DEF CallReload
<1>. QED BY <1>1, <1>2, <1>3, <1>4 DEF Start

LEMMA DecidePlaced ==
  ASSUME NEW t \in Threads, Control, DecideStep(t)
  PROVE  Placed'
<1>. USE ConstantTypes DEF Control, Go, Return, locals, engineVars, ringVars, errorVars,
     Asking, Placed, TypeOK, CallsFit, LastIsCurrent, FilterFirst
<1>1. ASSUME LoadEngine(t) PROVE Placed'
  BY <1>1 DEF LoadEngine
<1>2. ASSUME LoadNothing(t) PROVE Placed'
  BY <1>2 DEF LoadNothing
<1>3. ASSUME RefuseIdentity(t) PROVE Placed'
  BY <1>3 DEF RefuseIdentity
<1>4. ASSUME RefuseResource(t) PROVE Placed'
  BY <1>4 DEF RefuseResource
<1>8. ASSUME ReportValue(t) PROVE Placed'
  BY <1>8 DEF ReportValue
<1>9. ASSUME Overflow(t) PROVE Placed'
  BY <1>9 DEF Overflow
<1>5. ASSUME Reserve(t) PROVE Placed'
  <2>1. guard[t] \in Runtimes /\ log[guard[t]] \in Seq(Decisions) /\ mine[t] \in Decisions
    BY <1>5 DEF Reserve
  <2>2. Append(log[guard[t]], mine[t]) \in Seq(Decisions) /\ Len(log[guard[t]]) + 1 \in Nat
    BY <2>1, AppendProperties, LenProperties
  <2>. QED BY <1>5, <2>1, <2>2 DEF Reserve
<1>6. ASSUME Seal(t) PROVE Placed'
  BY <1>6 DEF Seal
<1>7. ASSUME CountLoss(t) PROVE Placed'
  BY <1>7 DEF CountLoss
<1>. QED BY <1>1, <1>2, <1>3, <1>4, <1>5, <1>6, <1>7, <1>8, <1>9 DEF DecideStep

LEMMA InitStepPlaced ==
  ASSUME NEW t \in Threads, Control, InitStep(t)
  PROVE  Placed'
<1>. USE ConstantTypes DEF Control, Go, Return, locals, engineVars, ringVars, errorVars,
     Asking, Placed, TypeOK, CallsFit, LastIsCurrent, FilterFirst
<1>1. ASSUME FindRunning(t) PROVE Placed'
  BY <1>1 DEF FindRunning
<1>2. ASSUME FindNothing(t) PROVE Placed'
  BY <1>2 DEF FindNothing
<1>6. ASSUME SetPrivs(t) PROVE Placed'
  BY <1>6 DEF SetPrivs
<1>3. ASSUME InstallFilter(t) PROVE Placed'
  BY <1>3 DEF InstallFilter
<1>4. ASSUME HardeningFails(t) PROVE Placed'
  <2>1. /\ pc[t] \in {"privs", "filter"} /\ call[t] = "init"
        /\ pc' = [pc EXCEPT ![t] = "report"]
    BY <1>4 DEF HardeningFails
  <2>2. UNCHANGED <<engineVars, ringVars, loss, armed, errorVars, locals, asked, preceding, answered>>
    BY <1>4 DEF HardeningFails
  <2>3. \A u \in Threads : pc'[u] = IF u = t THEN "report" ELSE pc[u]
    BY <2>1
  <2>. QED BY <2>1, <2>2, <2>3
<1>5. ASSUME Store(t) PROVE Placed'
  <2>1. stored + 1 <= MaxRuntimes
    BY <1>5, StorerCounts DEF Store
  <2>2. stored' \in 0 .. MaxRuntimes /\ engine' \in Runtimes /\ engine' = stored'
    BY <1>5, <2>1 DEF Store, Runtimes
  <2>3. inits' \in Nat /\ inits' <= stored'
    BY <1>5 DEF Store
  <2>4. (LocalsOK /\ CallsFit /\ FilterFirst)'
    BY <1>5, ReturnFits DEF Store
  <2>. QED BY <1>5, <2>1, <2>2, <2>3, <2>4 DEF Store, LocalsOK
<1>. QED BY <1>1, <1>2, <1>3, <1>4, <1>5, <1>6 DEF InitStep

LEMMA ErrorPlaced ==
  ASSUME NEW t \in Threads, Control, ErrorStep(t)
  PROVE  Placed'
<1>. USE ConstantTypes DEF Control, Go, Return, locals, engineVars, ringVars, errorVars,
     Asking, Placed, TypeOK, CallsFit, LastIsCurrent, FilterFirst
<1>1. ASSUME OverwriteError(t) PROVE Placed'
  <2>1. lastError' = t /\ heard' \subseteq Threads
    BY <1>1 DEF OverwriteError, WriteError, Reporting
  <2>2. (LocalsOK /\ CallsFit /\ FilterFirst)'
    BY <1>1, LeaveFits DEF OverwriteError
  <2>. QED BY <1>1, <2>1, <2>2 DEF OverwriteError, LocalsOK
<1>2. ASSUME FindNoError(t) PROVE Placed'
  BY <1>2 DEF FindNoError
<1>3. ASSUME SetOnce(t) PROVE Placed'
  <2>1. lastError' \in Threads \cup {Nobody} /\ heard' \subseteq Threads
    BY <1>3 DEF SetOnce, WriteError, DropError, Reporting
  <2>2. (LocalsOK /\ CallsFit /\ FilterFirst)'
    BY <1>3, LeaveFits DEF SetOnce
  <2>. QED BY <1>3, <2>1, <2>2 DEF SetOnce, LocalsOK
<1>. QED BY <1>1, <1>2, <1>3 DEF ErrorStep

LEMMA DrainPlaced == Control /\ Drain => Placed'
<1>. USE ConstantTypes DEF Control, locals, engineVars, ringVars, errorVars,
     Asking, Placed, TypeOK, CallsFit, LastIsCurrent, FilterFirst
<1>1. Control /\ CallPop => Placed'
  BY DEF CallPop
<1>2. Control /\ PopRecord => Placed'
  BY DEF PopRecord
<1>3. Control /\ PopNothing => Placed'
  BY DEF PopNothing
<1>. QED BY <1>1, <1>2, <1>3 DEF Drain

-----------------------------------------------------------------------------
(* The count of the stores. *)

\* No step other than the calls of init and reload adds to what will be stored.
LEMMA StartStores ==
  ASSUME NEW t \in Threads, Control, Start(t)
  PROVE  StoresFit'
<1>. USE ConstantTypes
<1>1. ASSUME Go(t, "idle", "check") \/ Go(t, "idle", "store"), MayStore, UNCHANGED stored,
             NEW r \in {"init", "reload"}, call' = [call EXCEPT ![t] = r]
      PROVE  StoresFit'
  <2>1. t \notin Storing
    BY <1>1 DEF Control, CallsFit, Storing, Go
  <2>2. Storing' = Storing \cup {t}
    BY <1>1 DEF Control, TypeOK, Storing
  <2>3. Cardinality(Storing') = Cardinality(Storing) + 1
    BY <2>1, <2>2, StoringType, FS_AddElement
  <2>4. stored + Cardinality(Storing) < MaxRuntimes
    BY <1>1 DEF MayStore, Storing
  <2>. QED BY <1>1, <2>3, <2>4, StoringType DEF StoresFit, Control, TypeOK
<1>2. ASSUME pc[t] = "idle", UNCHANGED stored,
             NEW r \in {"decide"} \cup BadRequests, call' = [call EXCEPT ![t] = r]
      PROVE  StoresFit'
  <2>1. Storing' = Storing
    BY <1>2 DEF Control, TypeOK, CallsFit, Storing
  <2>. QED BY <1>2, <2>1 DEF StoresFit, Control
<1>. QED
  BY <1>1, <1>2
  DEF Start, CallDecide, CallBadly, CallInit, CallReload, Go, engineVars

\* Inside a call a thread keeps its call, or ends it; only Store raises stored.
LEMMA StepStores ==
  ASSUME NEW t \in Threads, Control, Step(t)
  PROVE  StoresFit'
<1>. USE ConstantTypes, StoringType
<1>1. ASSUME Store(t)
      PROVE  StoresFit'
  <2>1. t \in Storing
    BY <1>1 DEF Store, Control, CallsFit, Storing
  <2>2. Storing' = Storing \ {t}
    BY <1>1 DEF Store, Return, Control, TypeOK, Storing
  <2>3. Cardinality(Storing') = Cardinality(Storing) - 1
    BY <2>1, <2>2, StoringType, FS_RemoveElement
  <2>. QED BY <1>1, <2>3 DEF Store, StoresFit, Control, TypeOK
<1>2. ASSUME UNCHANGED stored,
             UNCHANGED call \/ call' = [call EXCEPT ![t] = "decide"]
      PROVE  StoresFit'
  <2>1. Storing' \subseteq Storing
    BY <1>2 DEF Control, TypeOK, Storing
  <2>2. Cardinality(Storing') <= Cardinality(Storing) /\ Cardinality(Storing') \in Nat
    BY <2>1, FS_Subset, FS_CardinalityType
  <2>. QED BY <1>2, <2>2 DEF StoresFit, Control, TypeOK
<1>3. DecideStep(t) =>
        UNCHANGED stored /\ (UNCHANGED call \/ call' = [call EXCEPT ![t] = "decide"])
  BY DEF DecideStep, LoadEngine, LoadNothing, RefuseResource, ReportValue, RefuseIdentity,
         Reserve, Seal, Overflow, CountLoss, Return, engineVars, locals
<1>4. InitStep(t) /\ ~ Store(t) =>
        UNCHANGED stored /\ (UNCHANGED call \/ call' = [call EXCEPT ![t] = "decide"])
  BY DEF InitStep, FindRunning, FindNothing, SetPrivs, InstallFilter, HardeningFails,
         Return, engineVars, locals
<1>5. ErrorStep(t) =>
        UNCHANGED stored /\ (UNCHANGED call \/ call' = [call EXCEPT ![t] = "decide"])
  BY DEF ErrorStep, OverwriteError, FindNoError, SetOnce, Leave, Return, engineVars, locals
<1>. QED BY <1>1, <1>2, <1>3, <1>4, <1>5 DEF Step

LEMMA DrainStores == Control /\ Drain => StoresFit'
BY DEF Control, Drain, CallPop, PopRecord, PopNothing, StoresFit, Storing, engineVars, locals

LEMMA NextControl == Control /\ [Next]_vars => Control'
<1>1. ASSUME Control, UNCHANGED vars PROVE Control'
  BY <1>1 DEF vars, engineVars, ringVars, errorVars, locals, Control, TypeOK, CallsFit, Asking,
              LastIsCurrent, StoresFit, Storing, FilterFirst
<1>. QED
  BY <1>1, StartPlaced, DecidePlaced, InitStepPlaced, ErrorPlaced, DrainPlaced,
     StartStores, StepStores, DrainStores
  DEF Next, Step, Placed, Control

\* Every variable of the interface keeps its type: no call uses a runtime it has
\* not loaded, and the bounds are kept.
THEOREM TypeCorrect == Spec => []TypeOK
<1>1. Control => TypeOK
  BY DEF Control
<1>. QED BY <1>1, InitControl, NextControl, PTL DEF Spec

\* NOT_INIT is answered only until a runtime has been stored: the pointer holds
\* the last one stored, and reload swaps it in one step.
THEOREM ServiceHasNoGap == Spec => NoGapInService
<1>1. Control => \A t \in Threads : LoadNothing(t) => stored = 0
  BY DEF Control, LastIsCurrent, LoadNothing
<1>. QED BY <1>1, InitControl, NextControl, PTL DEF Spec, NoGapInService

\* init publishes a runtime only from a thread whose filter is on, whichever of
\* the two prctls fails and whoever else runs init or reload meanwhile.
THEOREM InitIsArmed == Spec => FailedInitPublishesNothing
<1>1. Control => \A t \in Threads : Store(t) /\ call[t] = "init" => t \in armed
  BY DEF Control, FilterFirst, Store
<1>. QED BY <1>1, InitControl, NextControl, PTL DEF Spec, FailedInitPublishesNothing

-----------------------------------------------------------------------------
(* What threads have reported.  Only set_last_error touches LAST_ERROR. *)

\* A thread that has ended its report has written the last message or has heard
\* of a newer one.
Recent == \A t \in Reporting \ Reporting' : lastError' = t \/ t \in heard

\* Thread t does something else: it neither is in set_last_error nor decides
\* there that LAST_ERROR is empty.
Silent(t) ==
  /\ UNCHANGED errorVars
  /\ \A u \in Threads \ {t} : pc'[u] = pc[u]
  /\ pc[t] \notin {"report", "set"}
  /\ pc'[t] # "set"

LEMMA SilentReports ==
  ASSUME NEW t \in Threads, Reports, Silent(t)
  PROVE  Reports' /\ Recent
BY DEF Reports, Recent, Reporting, Silent, errorVars

LEMMA OthersAreSilent ==
  ASSUME NEW t \in Threads, Control, Start(t) \/ DecideStep(t) \/ InitStep(t)
  PROVE  Silent(t)
<1>. USE DEF Control, TypeOK, Go, Return, Silent, errorVars
<1>1. Start(t) => Silent(t)
  BY DEF Start, CallDecide, CallBadly, CallInit, CallReload
<1>2. DecideStep(t) => Silent(t)
  BY DEF DecideStep, LoadEngine, LoadNothing, RefuseResource, ReportValue, RefuseIdentity,
         Reserve, Seal, Overflow, CountLoss
<1>3. InitStep(t) => Silent(t)
  BY DEF InitStep, FindRunning, FindNothing, SetPrivs, InstallFilter, HardeningFails, Store
<1>. QED BY <1>1, <1>2, <1>3

LEMMA ErrorReports ==
  ASSUME NEW t \in Threads, Control, Reports, ErrorStep(t)
  PROVE  Reports' /\ Recent
<1>. USE DEF Control, TypeOK
<1>1. ASSUME Leave(t) PROVE \A u \in Threads : pc'[u] = IF u = t THEN pc'[t] ELSE pc[u]
  BY <1>1 DEF Leave, Return
<1>2. ASSUME Leave(t) PROVE pc'[t] \notin {"report", "set"}
  BY <1>2 DEF Leave, Return
<1>3. ASSUME Leave(t), WriteError(t) PROVE Reports' /\ Recent
  BY <1>1, <1>2, <1>3 DEF WriteError, Reporting, Reports, Recent
<1>4. ASSUME Leave(t), DropError(t), pc[t] = "set", lastError # Nobody PROVE Reports' /\ Recent
  BY <1>1, <1>2, <1>4 DEF DropError, Reporting, Reports, Recent
<1>5. ASSUME FindNoError(t) PROVE Reports' /\ Recent
  BY <1>5 DEF FindNoError, Go, Reporting, Reports, Recent, errorVars
<1>. QED BY <1>3, <1>4, <1>5 DEF ErrorStep, OverwriteError, SetOnce

LEMMA NextReports == Control /\ Reports /\ [Next]_vars => Reports' /\ (Recent \/ UNCHANGED vars)
<1>1. UNCHANGED vars /\ Reports => Reports'
  BY DEF vars, errorVars, Reports
<1>2. Drain /\ Reports => Reports' /\ Recent
  BY DEF Drain, CallPop, PopRecord, PopNothing, errorVars, Reports, Recent, Reporting
<1>. QED
  BY <1>1, <1>2, OthersAreSilent, SilentReports, ErrorReports DEF Next, Step

\* set_last_error leaves a message not older than the caller's own: a thread that
\* finds LAST_ERROR empty and loses the race to fill it heard of the winner's.
THEOREM LosingTheRaceIsHarmless == Spec => LastErrorIsRecent
<1>1. Init => Reports
  BY DEF Init, Reports
<1>2. Recent => \A t \in Reporting \ Reporting' : lastError' = t \/ t \in heard
  BY DEF Recent
<1>3. Control /\ Reports /\ [Next]_vars =>
        [\A t \in Reporting \ Reporting' : lastError' = t \/ t \in heard]_vars
  BY <1>2, NextReports
<1>4. Control /\ Reports /\ [Next]_vars => Reports'
  BY NextReports
<1>. QED BY <1>1, <1>3, <1>4, InitControl, NextControl, PTL DEF Spec, LastErrorIsRecent

-----------------------------------------------------------------------------
(* Where decisions are.  A step of thread t that touches no ring leaves them  *)
(* there, unless t takes a new decision or gives one up.                      *)

ringLogs == <<log, sealed, popped>>
decisions == <<asked, answered>>

OthersKeep(t) ==
  \A u \in Threads \ {t} :
    /\ pc'[u] = pc[u] /\ call'[u] = call[u] /\ guard'[u] = guard[u]
    /\ mine'[u] = mine[u] /\ slot'[u] = slot[u]

\* Thread t goes on with the decision it has, or with none.
Quiet(t) ==
  /\ UNCHANGED <<ringLogs, decisions>>
  /\ OthersKeep(t)
  /\ pc[t] # "reserved" /\ pc'[t] # "reserved"
  /\ Asking(t)' => Asking(t) /\ mine'[t] = mine[t]
  /\ pc'[t] = "count" => Len(log[guard'[t]]) >= Capacity

LEMMA InitRings == Init => Rings
<1>. USE DEF Init, Asking, Runtimes
<1>1. Init => CarriersOK /\ HoldersOK /\ FailuresOK
  BY DEF CarriersOK, HoldersOK, FailuresOK
<1>2. Init => \A e \in Runtimes : Len(log[e]) = 0
  OBVIOUS
<1>3. Init => WindowsOK /\ EntriesOK /\ PushedOnce
  BY <1>2 DEF WindowsOK, EntriesOK, PushedOnce
<1>. QED BY <1>1, <1>3 DEF Rings

LEMMA QuietRings ==
  ASSUME NEW t \in Threads, Rings, Quiet(t)
  PROVE  Rings'
<1>. USE DEF Rings, Quiet, OthersKeep, ringLogs, decisions
<1>1. CarriersOK'
  BY DEF CarriersOK, Asking
<1>2. WindowsOK'
  BY DEF WindowsOK
<1>3. HoldersOK'
  BY DEF HoldersOK
<1>4. EntriesOK'
  BY DEF EntriesOK
<1>5. PushedOnce'
  BY DEF PushedOnce, Asking
<1>6. FailuresOK'
  BY DEF FailuresOK
<1>. QED BY <1>1, <1>2, <1>3, <1>4, <1>5, <1>6

\* What is quiet: every step but the six that move a decision or drain a ring.
LEMMA QuietStart ==
  ASSUME NEW t \in Threads, Control, Start(t)
  PROVE  Quiet(t) \/ \E r \in {"decide", "badValue"} : CallDecide(t, r)
<1>. USE ConstantTypes DEF Control, TypeOK, CallsFit, Go, Quiet, OthersKeep, Asking,
     ringLogs, decisions, ringVars
<1>1. ASSUME NEW r \in BadRequests \ {"badValue"}, CallBadly(t, r) PROVE Quiet(t)
  BY <1>1 DEF CallBadly
<1>2. ASSUME CallInit(t) \/ CallReload(t) PROVE Quiet(t)
  BY <1>2 DEF CallInit, CallReload
<1>. QED BY <1>1, <1>2 DEF Start

LEMMA QuietDecide ==
  ASSUME NEW t \in Threads, Control, WindowsOK, DecideStep(t)
  PROVE  Quiet(t) \/ Reserve(t) \/ Seal(t) \/ CountLoss(t)
<1>. USE ConstantTypes DEF Control, TypeOK, CallsFit, Go, Return, Quiet, OthersKeep, Asking,
     ringLogs, decisions, ringVars, locals
<1>1. ASSUME LoadEngine(t) PROVE Quiet(t)
  BY <1>1 DEF LoadEngine
<1>2. ASSUME LoadNothing(t) PROVE Quiet(t)
  BY <1>2 DEF LoadNothing
<1>3. ASSUME RefuseResource(t) \/ ReportValue(t) PROVE Quiet(t)
  BY <1>3 DEF RefuseResource, ReportValue
<1>4. ASSUME RefuseIdentity(t) PROVE Quiet(t)
  BY <1>4 DEF RefuseIdentity
<1>5. ASSUME Overflow(t) PROVE Quiet(t)
  <2>1. guard[t] \in Runtimes /\ popped[guard[t]] \in Nat /\ Len(log[guard[t]]) \in Nat
    BY <1>5 DEF Overflow
  <2>2. Len(log[guard[t]]) >= Capacity
    BY <1>5, <2>1 DEF Overflow, HasRoom, Unread
  <2>. QED BY <1>5, <2>2 DEF Overflow
<1>. QED BY <1>1, <1>2, <1>3, <1>4, <1>5 DEF DecideStep

LEMMA QuietInit ==
  ASSUME NEW t \in Threads, Control, InitStep(t)
  PROVE  Quiet(t)
<1>. USE ConstantTypes DEF Control, TypeOK, CallsFit, Go, Return, Quiet, OthersKeep, Asking,
     ringLogs, decisions, ringVars, locals
<1>1. ASSUME FindRunning(t) PROVE Quiet(t)
  BY <1>1 DEF FindRunning
<1>2. ASSUME FindNothing(t) \/ SetPrivs(t) \/ InstallFilter(t) PROVE Quiet(t)
  BY <1>2 DEF FindNothing, SetPrivs, InstallFilter
<1>3. ASSUME HardeningFails(t) PROVE Quiet(t)
  BY <1>3 DEF HardeningFails
<1>4. ASSUME Store(t) PROVE Quiet(t)
  BY <1>4 DEF Store
<1>. QED BY <1>1, <1>2, <1>3, <1>4 DEF InitStep

LEMMA QuietError ==
  ASSUME NEW t \in Threads, Control, ErrorStep(t)
  PROVE  Quiet(t)
<1>. USE ConstantTypes DEF Control, TypeOK, CallsFit, Go, Return, Quiet, OthersKeep, Asking,
     ringLogs, decisions, ringVars, locals
<1>1. ASSUME pc[t] \in {"report", "set"}, Leave(t), UNCHANGED <<ringLogs, decisions>>
      PROVE  Quiet(t)
  <2>1. CASE call[t] = "badValue"
    BY <1>1, <2>1 DEF Leave
  <2>2. CASE call[t] # "badValue"
    BY <1>1, <2>2 DEF Leave
  <2>. QED BY <2>1, <2>2
<1>2. ASSUME FindNoError(t) PROVE Quiet(t)
  BY <1>2 DEF FindNoError
<1>. QED BY <1>1, <1>2 DEF ErrorStep, OverwriteError, SetOnce

-----------------------------------------------------------------------------
(* The five steps that move a decision or drain a ring. *)

LEMMA PushersAsk ==
  ASSUME Control, NEW t \in Threads, pc[t] \in {"reserved", "count"}
  PROVE  Asking(t)
BY DEF Control, CallsFit, Asking

LEMMA EntriesAreAsked ==
  ASSUME Control, Rings, NEW e \in Runtimes, NEW k \in 1 .. Len(log[e])
  PROVE  log[e][k] \in 1 .. asked
<1>1. CASE log[e][k] \in answered
  BY <1>1 DEF Rings, CarriersOK
<1>2. CASE \E t \in Threads : pc[t] = "reserved" /\ guard[t] = e /\ slot[t] = k
  <2>1. PICK t \in Threads : pc[t] = "reserved" /\ guard[t] = e /\ slot[t] = k
    BY <1>2
  <2>2. log[e][k] = mine[t]
    BY <2>1 DEF Rings, HoldersOK
  <2>. QED BY <2>1, <2>2, PushersAsk DEF Rings, CarriersOK
<1>. QED BY <1>1, <1>2 DEF Rings, EntriesOK

\* A new decision is in no ring and carried by no other thread.
LEMMA CallRings ==
  ASSUME NEW t \in Threads, NEW r \in {"decide", "badValue"}, Control, Rings, CallDecide(t, r)
  PROVE  Rings'
<1>. USE DEF Rings
<1>1. /\ pc' = [pc EXCEPT ![t] = "load"] /\ pc[t] = "idle"
      /\ asked' = asked + 1 /\ mine' = [mine EXCEPT ![t] = asked + 1]
      /\ call' = [call EXCEPT ![t] = r]
      /\ UNCHANGED <<log, sealed, popped, guard, slot, answered>>
  BY DEF CallDecide, Go, ringVars
<1>2. asked \in Nat
  BY ConstantTypes DEF Control, TypeOK
<1>3. \A u \in Threads \ {t} :
        pc'[u] = pc[u] /\ call'[u] = call[u] /\ mine'[u] = mine[u]
  BY <1>1 DEF Control, TypeOK
<1>4. Asking(t)' /\ mine'[t] = asked + 1 /\ pc'[t] = "load"
  BY <1>1 DEF Control, TypeOK, Asking
<1>5. CarriersOK'
  BY <1>1, <1>2, <1>3, <1>4 DEF CarriersOK, Asking
<1>6. WindowsOK'
  BY <1>1 DEF WindowsOK
<1>7. HoldersOK' /\ FailuresOK'
  BY <1>1, <1>3, <1>4 DEF HoldersOK, FailuresOK
<1>8. EntriesOK'
  BY <1>1, <1>3 DEF EntriesOK
<1>9. PushedOnce'
  <2>1. \A e \in Runtimes : \A k \in 1 .. Len(log[e]) : log[e][k] # asked + 1
    BY <1>2, EntriesAreAsked
  <2>. QED BY <1>1, <1>3, <1>4, <2>1 DEF PushedOnce, Asking
<1>. QED BY <1>5, <1>6, <1>7, <1>8, <1>9

\* What Reserve does to the logs.
LEMMA ReserveLog ==
  ASSUME NEW t \in Threads, Control, Reserve(t)
  PROVE  /\ guard[t] \in Runtimes /\ mine[t] \in Decisions
         /\ Len(log[guard[t]]) \in Nat
         /\ log'[guard[t]] = Append(log[guard[t]], mine[t])
         /\ Len(log'[guard[t]]) = Len(log[guard[t]]) + 1
         /\ log'[guard[t]][Len(log[guard[t]]) + 1] = mine[t]
         /\ \A k \in 1 .. Len(log[guard[t]]) : log'[guard[t]][k] = log[guard[t]][k]
         /\ \A e \in Runtimes \ {guard[t]} : log'[e] = log[e]
<1>1. pc[t] = "loaded" /\ call[t] = "decide" /\ Asking(t)
  BY DEF Reserve, Go, Asking
<1>2. guard[t] \in Runtimes /\ mine[t] \in Decisions /\ log[guard[t]] \in Seq(Decisions)
  BY <1>1 DEF Control, TypeOK, CallsFit
<1>3. log' = [log EXCEPT ![guard[t]] = Append(@, mine[t])]
  BY DEF Reserve
<1>4. log'[guard[t]] = Append(log[guard[t]], mine[t])
  BY <1>2, <1>3 DEF Control, TypeOK
<1>5. \A e \in Runtimes \ {guard[t]} : log'[e] = log[e]
  BY <1>3 DEF Control, TypeOK
<1>. QED BY <1>2, <1>4, <1>5, AppendProperties, LenProperties

LEMMA ReserveRings ==
  ASSUME NEW t \in Threads, Control, Rings, Reserve(t)
  PROVE  Rings'
<1>. DEFINE g == guard[t]
            n == Len(log[g])
<1>1. /\ pc[t] = "loaded" /\ call[t] = "decide" /\ Asking(t)
      /\ pc' = [pc EXCEPT ![t] = "reserved"] /\ slot' = [slot EXCEPT ![t] = n + 1]
      /\ UNCHANGED <<sealed, popped, call, guard, mine, asked, answered>>
  BY DEF Reserve, Go, Asking
<1>2. /\ pc'[t] = "reserved" /\ slot'[t] = n + 1
      /\ \A u \in Threads \ {t} : pc'[u] = pc[u] /\ slot'[u] = slot[u]
      /\ \A u \in Threads : Asking(u)' = Asking(u)
  BY <1>1 DEF Control, TypeOK, Asking
<1>3. g \in Runtimes /\ n \in Nat
  BY ReserveLog
<1>4. \A e \in Runtimes : Len(log[e]) \in Nat /\ popped[e] \in Nat
  BY DEF Control, TypeOK
<1>5. \A e \in Runtimes : Len(log'[e]) = IF e = g THEN n + 1 ELSE Len(log[e])
  BY ReserveLog
<1>6. \A e \in Runtimes, k \in Nat :
        k \in 1 .. Len(log'[e]) =>
          IF e = g /\ k = n + 1 THEN log'[e][k] = mine[t]
                                ELSE k \in 1 .. Len(log[e]) /\ log'[e][k] = log[e][k]
  <2>. SUFFICES ASSUME NEW e \in Runtimes, NEW k \in 1 .. Len(log'[e])
                PROVE  IF e = g /\ k = n + 1
                         THEN log'[e][k] = mine[t]
                         ELSE k \in 1 .. Len(log[e]) /\ log'[e][k] = log[e][k]
    OBVIOUS
  <2>1. CASE e # g
    BY <2>1, ReserveLog
  <2>2. CASE e = g
    <3>1. k = n + 1 \/ k \in 1 .. n
      BY <1>3, <1>5, <2>2
    <3>2. k = n + 1 => log'[e][k] = mine[t]
      BY <2>2, ReserveLog
    <3>3. k \in 1 .. n => log'[e][k] = log[e][k]
      BY <2>2, ReserveLog
    <3>. QED BY <2>2, <3>1, <3>2, <3>3
  <2>. QED BY <2>1, <2>2
<1>7. \A e \in Runtimes : 1 .. Len(log[e]) \subseteq 1 .. Len(log'[e])
  BY <1>3, <1>4, <1>5
<1>. HIDE DEF g, n
<1>8. CarriersOK'
  BY <1>1, <1>2 DEF Rings, CarriersOK
<1>9. WindowsOK'
  <2>1. \A e \in Runtimes : popped[e] <= Len(log[e]) => popped[e] <= Len(log'[e])
    BY <1>3, <1>4, <1>5 DEF n
  <2>. QED BY <1>1, <1>7, <2>1 DEF Rings, WindowsOK
<1>10. HoldersOK'
  <2>. SUFFICES ASSUME NEW u \in Threads, pc'[u] = "reserved"
                PROVE  /\ slot'[u] \in (1 .. Len(log'[guard[u]])) \ sealed[guard[u]]
                       /\ log'[guard[u]][slot'[u]] = mine[u]
    BY <1>1 DEF HoldersOK
  <2>1. CASE u = t
    <3>1. n + 1 \in 1 .. Len(log'[g]) /\ log'[g][n + 1] = mine[t]
      BY <1>3, ReserveLog DEF g, n
    <3>2. n + 1 \notin sealed[g]
      BY <1>3 DEF Rings, WindowsOK, n
    <3>. QED BY <1>2, <2>1, <3>1, <3>2 DEF g
  <2>2. CASE u # t
    <3>1. pc[u] = "reserved" /\ guard[u] \in Runtimes
      BY <1>2, <2>2 DEF Control, TypeOK
    <3>2. /\ slot[u] \in (1 .. Len(log[guard[u]])) \ sealed[guard[u]]
          /\ log[guard[u]][slot[u]] = mine[u]
      BY <3>1 DEF Rings, HoldersOK
    <3>3. log'[guard[u]][slot[u]] = log[guard[u]][slot[u]]
      BY <3>1, <3>2, ReserveLog DEF g
    <3>. QED BY <1>2, <1>7, <2>2, <3>1, <3>2, <3>3
  <2>. QED BY <2>1, <2>2
<1>11. EntriesOK'
  <2>. SUFFICES ASSUME NEW e \in Runtimes, NEW k \in 1 .. Len(log'[e])
                PROVE  \/ k \in sealed[e] /\ log'[e][k] \in answered
                       \/ \E u \in Threads : pc'[u] = "reserved" /\ guard[u] = e /\ slot'[u] = k
    BY <1>1 DEF EntriesOK
  <2>1. CASE e = g /\ k = n + 1
    BY <1>2, <2>1 DEF g
  <2>2. CASE ~ (e = g /\ k = n + 1)
    <3>1. k \in 1 .. Len(log[e]) /\ log'[e][k] = log[e][k]
      BY <1>6, <2>2
    <3>2. CASE k \in sealed[e] /\ log[e][k] \in answered
      BY <3>1, <3>2
    <3>3. CASE \E u \in Threads : pc[u] = "reserved" /\ guard[u] = e /\ slot[u] = k
      BY <1>1, <1>2, <3>3
    <3>. QED BY <3>1, <3>2, <3>3 DEF Rings, EntriesOK
  <2>. QED BY <2>1, <2>2
<1>12. PushedOnce'
  <2>1. \A e \in Runtimes : \A k \in 1 .. Len(log[e]) : log[e][k] # mine[t]
    BY <1>1 DEF Rings, PushedOnce
  <2>2. ASSUME NEW u \in Threads, Asking(u), pc'[u] # "reserved",
               NEW e \in Runtimes, NEW k \in 1 .. Len(log'[e])
        PROVE  log'[e][k] # mine[u]
    <3>1. u # t /\ pc[u] # "reserved"
      BY <1>2, <2>2
    <3>2. mine[u] # mine[t]
      BY <1>1, <2>2, <3>1 DEF Rings, CarriersOK
    <3>3. \A l \in 1 .. Len(log[e]) : log[e][l] # mine[u]
      BY <2>2, <3>1 DEF Rings, PushedOnce
    <3>. QED BY <1>6, <3>2, <3>3
  <2>3. ASSUME NEW e \in Runtimes, NEW f \in Runtimes,
               NEW k \in 1 .. Len(log'[e]), NEW l \in 1 .. Len(log'[f]),
               log'[e][k] = log'[f][l]
        PROVE  e = f /\ k = l
    <3>1. CASE (e = g /\ k = n + 1) /\ (f = g /\ l = n + 1)
      BY <3>1
    <3>2. CASE (e = g /\ k = n + 1) /\ ~ (f = g /\ l = n + 1)
      BY <1>6, <2>1, <2>3, <3>2
    <3>3. CASE ~ (e = g /\ k = n + 1) /\ (f = g /\ l = n + 1)
      BY <1>6, <2>1, <2>3, <3>3
    <3>4. CASE ~ (e = g /\ k = n + 1) /\ ~ (f = g /\ l = n + 1)
      <4>1. /\ k \in 1 .. Len(log[e]) /\ log'[e][k] = log[e][k]
            /\ l \in 1 .. Len(log[f]) /\ log'[f][l] = log[f][l]
        BY <1>6, <3>4
      <4>2. log[e][k] = log[f][l] => e = f /\ k = l
        BY <4>1 DEF Rings, PushedOnce
      <4>. QED BY <2>3, <4>1, <4>2
    <3>. QED BY <3>1, <3>2, <3>3, <3>4
  <2>. QED BY <1>1, <1>2, <2>2, <2>3 DEF PushedOnce
<1>13. FailuresOK'
  <2>1. \A u \in Threads : pc'[u] = "count" => pc[u] = "count" /\ guard[u] \in Runtimes
    BY <1>1, <1>2 DEF Control, TypeOK
  <2>2. \A e \in Runtimes : Len(log[e]) >= Capacity => Len(log'[e]) >= Capacity
    BY <1>3, <1>4, <1>5, ConstantTypes DEF n
  <2>. QED BY <1>1, <2>1, <2>2 DEF Rings, FailuresOK
<1>. QED BY <1>8, <1>9, <1>10, <1>11, <1>12, <1>13 DEF Rings

\* The thread that holds a position is the only one that does, and seals it with
\* the decision it answers.
LEMMA SealRings ==
  ASSUME NEW t \in Threads, Control, Rings, Seal(t)
  PROVE  Rings'
<1>. DEFINE g == guard[t]
<1>1. /\ pc[t] = "reserved" /\ Asking(t)
      /\ sealed' = [sealed EXCEPT ![g] = @ \cup {slot[t]}]
      /\ answered' = answered \cup {mine[t]}
      /\ UNCHANGED <<log, popped, asked>>
  BY PushersAsk DEF Seal
<1>2. pc'[t] = "idle" /\ OthersKeep(t)
  BY DEF Seal, Return, OthersKeep, Control, TypeOK
<1>3. g \in Runtimes /\ slot[t] \in (1 .. Len(log[g])) \ sealed[g] /\ log[g][slot[t]] = mine[t]
  BY <1>1 DEF Rings, HoldersOK, Control, TypeOK
<1>4. \A e \in Runtimes : sealed'[e] = IF e = g THEN sealed[e] \cup {slot[t]} ELSE sealed[e]
  BY <1>1 DEF Control, TypeOK
<1>5. \A u \in Threads \ {t} : Asking(u) => mine[u] # mine[t]
  BY <1>1 DEF Rings, CarriersOK
<1>. HIDE DEF g
<1>6. CarriersOK'
  BY <1>1, <1>2, <1>5 DEF Rings, CarriersOK, OthersKeep, Asking
<1>7. WindowsOK'
  BY <1>1, <1>3, <1>4 DEF Rings, WindowsOK
<1>8. HoldersOK'
  <2>. SUFFICES ASSUME NEW u \in Threads \ {t}, pc[u] = "reserved"
                PROVE  /\ slot[u] \in (1 .. Len(log[guard[u]])) \ sealed'[guard[u]]
                       /\ log[guard[u]][slot[u]] = mine[u]
    BY <1>1, <1>2 DEF HoldersOK, OthersKeep
  <2>1. /\ slot[u] \in (1 .. Len(log[guard[u]])) \ sealed[guard[u]]
        /\ log[guard[u]][slot[u]] = mine[u] /\ guard[u] \in Runtimes
    BY DEF Rings, HoldersOK, Control, TypeOK
  <2>2. mine[u] # mine[t]
    BY <1>5, PushersAsk
  <2>. QED BY <1>3, <1>4, <2>1, <2>2
<1>9. EntriesOK'
  <2>. SUFFICES ASSUME NEW e \in Runtimes, NEW k \in 1 .. Len(log[e])
                PROVE  \/ k \in sealed'[e] /\ log[e][k] \in answered'
                       \/ \E u \in Threads : pc'[u] = "reserved" /\ guard'[u] = e /\ slot'[u] = k
    BY <1>1 DEF EntriesOK
  <2>1. CASE k \in sealed[e] /\ log[e][k] \in answered
    BY <1>1, <1>4, <2>1
  <2>2. CASE \E u \in Threads : pc[u] = "reserved" /\ guard[u] = e /\ slot[u] = k
    <3>1. PICK u \in Threads : pc[u] = "reserved" /\ guard[u] = e /\ slot[u] = k
      BY <2>2
    <3>2. CASE u = t
      <4>1. e = g /\ k = slot[t]
        BY <3>1, <3>2 DEF g
      <4>2. k \in sealed'[e]
        BY <1>4, <4>1
      <4>3. log[e][k] = mine[t]
        BY <1>3, <4>1
      <4>. QED BY <1>1, <4>2, <4>3
    <3>3. CASE u # t
      BY <1>2, <3>1, <3>3 DEF OthersKeep
    <3>. QED BY <3>2, <3>3
  <2>. QED BY <2>1, <2>2 DEF Rings, EntriesOK
<1>10. PushedOnce'
  <2>1. \A u \in Threads : Asking(u)' => u # t /\ Asking(u) /\ mine'[u] = mine[u] /\ pc'[u] = pc[u]
    BY <1>2 DEF OthersKeep, Asking
  <2>. QED BY <1>1, <2>1 DEF Rings, PushedOnce
<1>11. FailuresOK'
  BY <1>1, <1>2 DEF Rings, FailuresOK, OthersKeep
<1>. QED BY <1>6, <1>7, <1>8, <1>9, <1>10, <1>11 DEF Rings

LEMMA CountRings ==
  ASSUME NEW t \in Threads, Control, Rings, CountLoss(t)
  PROVE  Rings'
<1>. USE DEF Rings
<1>1. /\ pc[t] = "count" /\ Asking(t)
      /\ answered' = answered \cup {mine[t]}
      /\ UNCHANGED <<log, sealed, popped, asked>>
  BY PushersAsk DEF CountLoss, ringVars
<1>2. pc'[t] = "idle" /\ OthersKeep(t)
  BY DEF CountLoss, Return, OthersKeep, Control, TypeOK
<1>3. \A u \in Threads : Asking(u)' => u # t /\ Asking(u) /\ mine'[u] = mine[u] /\ pc'[u] = pc[u]
  BY <1>2 DEF OthersKeep, Asking
<1>4. CarriersOK'
  BY <1>1, <1>3 DEF CarriersOK
<1>5. WindowsOK'
  BY <1>1 DEF WindowsOK
<1>6. HoldersOK' /\ FailuresOK'
  BY <1>1, <1>2 DEF HoldersOK, FailuresOK, OthersKeep
<1>7. EntriesOK'
  BY <1>1, <1>2 DEF EntriesOK, OthersKeep
<1>8. PushedOnce'
  BY <1>1, <1>3 DEF PushedOnce
<1>. QED BY <1>4, <1>5, <1>6, <1>7, <1>8

LEMMA DrainRings == Control /\ Rings /\ Drain => Rings'
<1>. USE DEF Rings, CarriersOK, HoldersOK, EntriesOK, PushedOnce, FailuresOK, WindowsOK, Asking
<1>1. ASSUME Rings, CallPop \/ PopNothing PROVE Rings'
  <2>1. UNCHANGED <<log, sealed, popped, pc, locals, asked, preceding, answered>>
    BY <1>1 DEF CallPop, PopNothing
  <2>2. (CarriersOK /\ HoldersOK /\ EntriesOK /\ PushedOnce /\ FailuresOK)'
    BY <1>1, <2>1 DEF locals
  <2>3. WindowsOK'
    BY <1>1, <2>1
  <2>. QED BY <2>2, <2>3
<1>2. ASSUME Control, Rings, PopRecord PROVE Rings'
  <2>1. popGuard \in Runtimes /\ popped[popGuard] + 1 \in sealed[popGuard]
    BY <1>2 DEF PopRecord, NextReadable, Control, TypeOK
  <2>2. \A e \in Runtimes : popped'[e] = IF e = popGuard THEN popped[e] + 1 ELSE popped[e]
    BY <1>2 DEF PopRecord, Control, TypeOK
  <2>3. \A e \in Runtimes : popped[e] \in Nat /\ Len(log[e]) \in Nat
    BY <1>2 DEF Control, TypeOK
  <2>4. WindowsOK'
    BY <1>2, <2>1, <2>2, <2>3 DEF PopRecord
  <2>5. (CarriersOK /\ HoldersOK /\ EntriesOK /\ PushedOnce /\ FailuresOK)'
    BY <1>2 DEF PopRecord, locals
  <2>. QED BY <2>4, <2>5
<1>. QED BY <1>1, <1>2 DEF Drain

LEMMA NextRings == Control /\ Rings /\ [Next]_vars => Rings'
<1>1. Rings /\ UNCHANGED vars => Rings'
  BY DEF vars, ringVars, locals, Rings, CarriersOK, HoldersOK, EntriesOK, PushedOnce,
         FailuresOK, WindowsOK, Asking
<1>2. ASSUME Control, Rings, NEW t \in Threads, Start(t) \/ Step(t) PROVE Rings'
  <2>1. Rings => WindowsOK
    BY DEF Rings
  <2>. QED
    BY <1>2, <2>1, QuietStart, QuietDecide, QuietInit, QuietError, QuietRings,
       CallRings, ReserveRings, SealRings, CountRings DEF Step
<1>. QED BY <1>1, <1>2, DrainRings DEF Next

-----------------------------------------------------------------------------
(* What is counted. *)

\* A ring holds no more entries than decisions are asked for.
LEMMA LogsFit ==
  ASSUME Control, Rings, NEW e \in Runtimes
  PROVE  Len(log[e]) <= MaxDecisions
<1>1. log[e] \in Seq(Decisions)
  BY DEF Control, TypeOK
<1>2. log[e] \in [1 .. Len(log[e]) -> Decisions] /\ Len(log[e]) \in Nat
  BY <1>1, LenProperties
<1>3. \A k, l \in 1 .. Len(log[e]) : log[e][k] = log[e][l] => k = l
  BY DEF Rings, PushedOnce
<1>4. log[e] \in Injection(1 .. Len(log[e]), Decisions)
  BY <1>2, <1>3 DEF Injection, IsInjective
<1>5. IsFiniteSet(Decisions) /\ Cardinality(Decisions) = MaxDecisions
  BY ConstantTypes, FS_Interval DEF Decisions
<1>6. Cardinality(1 .. Len(log[e])) = Len(log[e])
  BY <1>2, FS_Interval
<1>. QED BY <1>4, <1>5, <1>6, FS_Injection

\* A decision is recorded at most once.
LEMMA OnePlace ==
  ASSUME Control, Rings, NEW d
  PROVE  Cardinality(Places(d)) <= 1
<1>1. \A p, q \in Places(d) : p = q
  <2>. SUFFICES ASSUME NEW p \in Places(d), NEW q \in Places(d) PROVE p = q
    OBVIOUS
  <2>1. /\ p = <<p[1], p[2]>> /\ p[1] \in Runtimes /\ p[2] \in sealed[p[1]] /\ log[p[1]][p[2]] = d
        /\ q = <<q[1], q[2]>> /\ q[1] \in Runtimes /\ q[2] \in sealed[q[1]] /\ log[q[1]][q[2]] = d
    BY DEF Places
  <2>2. p[2] \in 1 .. Len(log[p[1]]) /\ q[2] \in 1 .. Len(log[q[1]])
    BY <2>1 DEF Rings, WindowsOK
  <2>3. p[1] = q[1] /\ p[2] = q[2]
    BY <2>1, <2>2 DEF Rings, PushedOnce
  <2>. QED BY <2>1, <2>3
<1>2. CASE Places(d) = {}
  BY <1>2, FS_EmptySet
<1>3. CASE Places(d) # {}
  <2>1. PICK p : Places(d) = {p}
    BY <1>1, <1>3
  <2>2. Cardinality({p}) = 1
    BY FS_Singleton
  <2>. QED BY <2>1, <2>2
<1>. QED BY <1>2, <1>3

\* The decisions answered and recorded nowhere.
Lost == {d \in answered : Places(d) = {}}

LEMMA LostType == ASSUME Control PROVE IsFiniteSet(Lost) /\ Cardinality(Lost) \in Nat
<1>1. Lost \subseteq Decisions
  BY DEF Lost, Control, TypeOK
<1>2. IsFiniteSet(Decisions)
  BY ConstantTypes, FS_Interval DEF Decisions
<1>. QED BY <1>1, <1>2, FS_Subset, FS_CardinalityType

\* The counter is exact, and counts nothing before some ring has been filled.
CountExact ==
  /\ loss = Cardinality(Lost)
  /\ loss > 0 => \E e \in Runtimes : Len(log[e]) >= Capacity

LEMMA ExactIsExact == Control /\ Rings /\ CountExact => EvidenceExact
BY OnePlace DEF CountExact, Lost, EvidenceExact

\* What a step must do to keep the count: no entry is removed from a log, and the
\* lost decisions and the counter grow together, behind a full ring.
Counted ==
  /\ \A e \in Runtimes : Len(log'[e]) \in Nat /\ Len(log'[e]) >= Len(log[e])
  /\ \/ UNCHANGED loss /\ Lost' = Lost
     \/ /\ loss' = loss + 1
        /\ \E d \in Decisions \ Lost : Lost' = Lost \cup {d}
        /\ \E e \in Runtimes : Len(log[e]) >= Capacity

LEMMA CountedExact ==
  ASSUME Control, CountExact, Counted
  PROVE  CountExact'
<1>1. \A e \in Runtimes : Len(log[e]) >= Capacity => Len(log'[e]) >= Capacity
  BY ConstantTypes DEF Counted, Control, TypeOK
<1>2. CASE UNCHANGED loss /\ Lost' = Lost
  BY <1>1, <1>2 DEF CountExact
<1>3. CASE /\ loss' = loss + 1
           /\ \E d \in Decisions \ Lost : Lost' = Lost \cup {d}
           /\ \E e \in Runtimes : Len(log[e]) >= Capacity
  <2>1. PICK d \in Decisions \ Lost : Lost' = Lost \cup {d}
    BY <1>3
  <2>2. Cardinality(Lost') = Cardinality(Lost) + 1
    BY <2>1, LostType, FS_AddElement
  <2>. QED BY <1>1, <1>3, <2>2 DEF CountExact
<1>. QED BY <1>2, <1>3 DEF Counted

\* Only reserving, sealing, draining and asking touch what places are made of.
LEMMA StillCounted ==
  ASSUME Control, UNCHANGED <<log, sealed, answered, loss>>
  PROVE  Counted
<1>1. \A e \in Runtimes : Len(log[e]) \in Nat
  BY DEF Control, TypeOK
<1>2. \A d : Places(d)' = Places(d)
  BY DEF Places
<1>3. Lost' = Lost
  BY <1>2 DEF Lost
<1>. QED BY <1>1, <1>3 DEF Counted

\* A reserved position is not a place yet.
LEMMA ReserveCounted ==
  ASSUME NEW t \in Threads, Control, Rings, Reserve(t)
  PROVE  Counted
<1>. DEFINE g == guard[t]
            n == Len(log[g])
<1>1. UNCHANGED <<sealed, answered, loss>>
  BY DEF Reserve
<1>2. \A e \in Runtimes : Len(log[e]) \in Nat
  BY DEF Control, TypeOK
<1>3. \A e \in Runtimes : Len(log'[e]) = IF e = g THEN n + 1 ELSE Len(log[e])
  BY ReserveLog
<1>4. \A e \in Runtimes : \A k \in sealed[e] : log'[e][k] = log[e][k]
  <2>1. \A e \in Runtimes : sealed[e] \subseteq 1 .. Len(log[e])
    BY DEF Rings, WindowsOK
  <2>. QED BY <2>1, ReserveLog
<1>5. \A d : Places(d)' = Places(d)
  BY <1>1, <1>4 DEF Places
<1>6. Lost' = Lost
  BY <1>1, <1>5 DEF Lost
<1>. QED BY <1>1, <1>2, <1>3, <1>6 DEF Counted

\* Sealing gives the decision it answers its one place.
LEMMA SealCounted ==
  ASSUME NEW t \in Threads, Control, Rings, Seal(t)
  PROVE  Counted
<1>. DEFINE g == guard[t]
<1>1. /\ pc[t] = "reserved"
      /\ sealed' = [sealed EXCEPT ![g] = @ \cup {slot[t]}]
      /\ answered' = answered \cup {mine[t]}
      /\ UNCHANGED <<log, loss>>
  BY DEF Seal
<1>2. g \in Runtimes /\ slot[t] \in (1 .. Len(log[g])) \ sealed[g] /\ log[g][slot[t]] = mine[t]
  BY <1>1 DEF Rings, HoldersOK, Control, TypeOK
<1>3. \A e \in Runtimes : sealed'[e] = IF e = g THEN sealed[e] \cup {slot[t]} ELSE sealed[e]
  BY <1>1 DEF Control, TypeOK
<1>4. slot[t] \in 1 .. MaxDecisions
  <2>1. Len(log[g]) \in Nat
    BY <1>2 DEF Control, TypeOK
  <2>2. Len(log[g]) <= MaxDecisions
    BY <1>2, LogsFit
  <2>. QED BY <1>2, <2>1, <2>2, ConstantTypes
<1>5. \A e \in Runtimes : Len(log[e]) \in Nat
  BY DEF Control, TypeOK
<1>. HIDE DEF g
<1>6. ASSUME NEW d, d = mine[t] PROVE Places(d)' # {}
  <2>1. slot[t] \in sealed'[g] /\ log'[g][slot[t]] = d
    <3>1. slot[t] \in sealed'[g]
      BY <1>2, <1>3
    <3>2. log'[g][slot[t]] = d
      BY <1>1, <1>2, <1>6
    <3>. QED BY <3>1, <3>2
  <2>2. \A p \in Runtimes \X (1 .. MaxDecisions) :
          p[2] \in sealed'[p[1]] /\ log'[p[1]][p[2]] = d => p \in Places(d)'
    BY DEF Places
  <2>3. <<g, slot[t]>> \in Runtimes \X (1 .. MaxDecisions)
    BY <1>2, <1>4
  <2>. QED BY <2>1, <2>2, <2>3
<1>7. ASSUME NEW d, d # mine[t] PROVE Places(d)' = Places(d)
  BY <1>1, <1>2, <1>3, <1>7 DEF Places
<1>8. mine[t] \notin answered
  BY <1>1, PushersAsk DEF Rings, CarriersOK
<1>9. Lost' = Lost
  BY <1>1, <1>6, <1>7, <1>8 DEF Lost
<1>. QED BY <1>1, <1>5, <1>9 DEF Counted

\* A decision whose push has failed has no place, and was not answered before.
LEMMA LossCounted ==
  ASSUME NEW t \in Threads, Control, Rings, CountLoss(t)
  PROVE  Counted
<1>1. /\ pc[t] = "count" /\ Asking(t)
      /\ loss' = loss + 1
      /\ answered' = answered \cup {mine[t]}
      /\ UNCHANGED <<log, sealed>>
  BY PushersAsk DEF CountLoss, ringVars
<1>2. \A d : Places(d)' = Places(d)
  BY <1>1 DEF Places
<1>3. Places(mine[t]) = {}
  <2>1. \A e \in Runtimes : \A k \in sealed[e] : log[e][k] # mine[t]
    BY <1>1 DEF Rings, WindowsOK, PushedOnce
  <2>. QED BY <2>1 DEF Places
<1>4. mine[t] \in Decisions \ Lost
  <2>1. mine[t] \in (1 .. asked) \ answered
    BY <1>1 DEF Rings, CarriersOK
  <2>2. asked \in 0 .. MaxDecisions
    BY DEF Control, TypeOK
  <2>. QED BY <2>1, <2>2, ConstantTypes DEF Decisions, Lost
<1>5. Lost' = Lost \cup {mine[t]}
  BY <1>1, <1>2, <1>3 DEF Lost
<1>6. guard[t] \in Runtimes /\ Len(log[guard[t]]) >= Capacity
  BY <1>1 DEF Rings, FailuresOK, Control, TypeOK
<1>7. \A e \in Runtimes : Len(log[e]) \in Nat
  BY DEF Control, TypeOK
<1>. QED BY <1>1, <1>4, <1>5, <1>6, <1>7 DEF Counted

LEMMA NextCounted == Control /\ Rings /\ [Next]_vars => Counted
<1>1. ASSUME Control, Rings, NEW t \in Threads, Start(t) \/ Step(t) PROVE Counted
  <2>1. Start(t) \/ InitStep(t) \/ ErrorStep(t) => UNCHANGED <<log, sealed, answered, loss>>
    BY DEF Start, CallDecide, CallBadly, CallInit, CallReload, InitStep, FindRunning, FindNothing,
           SetPrivs, InstallFilter, HardeningFails, Store, ErrorStep, OverwriteError,
           FindNoError, SetOnce, ringVars
  <2>2. DecideStep(t) => \/ UNCHANGED <<log, sealed, answered, loss>>
                         \/ Reserve(t) \/ Seal(t) \/ CountLoss(t)
    BY DEF DecideStep, LoadEngine, LoadNothing, RefuseResource, ReportValue, RefuseIdentity,
           Overflow, ringVars
  <2>. QED
    BY <1>1, <2>1, <2>2, StillCounted, ReserveCounted, SealCounted, LossCounted DEF Step
<1>2. Drain \/ UNCHANGED vars => UNCHANGED <<log, sealed, answered, loss>>
  BY DEF Drain, CallPop, PopRecord, PopNothing, vars, ringVars
<1>. QED BY <1>1, <1>2, StillCounted DEF Next

\* Every decision a host was given is recorded once, or is counted as lost exactly
\* once: no interleaving of pushes, overflows, drains and reloads loses a record
\* silently or counts one that was kept.
THEOREM AccountIsExact == Spec => []EvidenceExact
<1>1. Init => CountExact
  <2>1. Init => Lost = {}
    BY DEF Init, Lost
  <2>2. Cardinality({}) = 0
    BY FS_EmptySet
  <2>3. Init => loss = 0 /\ ~ (loss > 0)
    BY DEF Init
  <2>. QED BY <2>1, <2>2, <2>3 DEF CountExact
<1>2. Control /\ Rings /\ CountExact /\ [Next]_vars => CountExact'
  BY NextCounted, CountedExact
<1>. QED
  BY <1>1, <1>2, ExactIsExact, InitControl, NextControl, InitRings, NextRings, PTL DEF Spec

-----------------------------------------------------------------------------
(* In which order decisions stand. *)

LEMMA InitInOrder == Init => InOrder
<1>. SUFFICES ASSUME Init PROVE InOrder
  OBVIOUS
<1>1. \A d \in Decisions : preceding[d] \subseteq answered
  BY DEF Init
<1>2. \A e \in Runtimes : Len(log[e]) = 0
  BY DEF Init
<1>3. InService
  BY <1>2 DEF Init, InService
<1>4. GuardsInOrder /\ DrainsForward
  BY DEF Init, GuardsInOrder, Asking, DrainsForward
<1>5. EntriesInOrder
  BY <1>2 DEF EntriesInOrder
<1>. QED BY <1>1, <1>3, <1>4, <1>5 DEF InOrder

\* Thread t keeps the runtime and the decision it has, loads the runtime in
\* service, or has no use for either.
KeepsOrLoads(t) ==
  Asking(t)' /\ pc'[t] # "load" =>
    /\ mine'[t] = mine[t]
    /\ guard'[t] = engine \/ (Asking(t) /\ pc[t] # "load" /\ guard'[t] = guard[t])

\* A step that touches neither the logs nor audit_pop.
StandsStill ==
  /\ UNCHANGED <<log, popped, popGuard, preceding>>
  /\ answered \subseteq answered'
  /\ engine <= engine'
  /\ \A t \in Threads : guard'[t] \in {0, guard[t], engine} /\ KeepsOrLoads(t)

LEMMA StillInOrder == Control /\ Control' /\ InOrder /\ StandsStill => InOrder'
<1>. SUFFICES ASSUME Control, Control', InOrder, StandsStill PROVE InOrder'
  OBVIOUS
<1>1. engine \in Nat /\ engine' \in Nat /\ \A t \in Threads : guard[t] \in Nat
  <2>1. {0} \cup Runtimes \subseteq Nat
    BY ConstantTypes DEF Runtimes
  <2>2. engine \in {0} \cup Runtimes /\ \A t \in Threads : guard[t] \in {0} \cup Runtimes
    BY DEF Control, TypeOK
  <2>3. engine' \in {0} \cup Runtimes
    BY DEF Control, TypeOK
  <2>. QED BY <2>1, <2>2, <2>3
<1>2. \A e \in Runtimes : e \in Nat
  BY ConstantTypes DEF Runtimes
<1>3. (\A d \in Decisions : preceding[d] \subseteq answered)'
  BY DEF InOrder, StandsStill
<1>4. InService'
  <2>1. \A t \in Threads : guard'[t] <= engine'
    BY <1>1 DEF InOrder, InService, StandsStill
  <2>2. \A e \in Runtimes : e > engine' => Len(log'[e]) = 0
    BY <1>1, <1>2 DEF InOrder, InService, StandsStill
  <2>. QED BY <2>1, <2>2 DEF InService
<1>5. GuardsInOrder'
  <2>. SUFFICES ASSUME NEW t \in Threads, Asking(t)', pc'[t] # "load",
                       NEW e \in Runtimes, NEW k \in 1 .. Len(log[e]),
                       log[e][k] \in preceding[mine'[t]]
                PROVE  e <= guard'[t]
    BY DEF GuardsInOrder, StandsStill
  <2>1. mine'[t] = mine[t]
    BY DEF StandsStill, KeepsOrLoads
  <2>2. CASE guard'[t] = engine
    BY <1>1, <1>2, <2>2 DEF InOrder, InService
  <2>3. CASE Asking(t) /\ pc[t] # "load" /\ guard'[t] = guard[t]
    BY <2>1, <2>3 DEF InOrder, GuardsInOrder
  <2>. QED BY <2>2, <2>3 DEF StandsStill, KeepsOrLoads
<1>6. EntriesInOrder' /\ DrainsForward'
  BY DEF InOrder, EntriesInOrder, DrainsForward, StandsStill
<1>. QED BY <1>3, <1>4, <1>5, <1>6 DEF InOrder

\* What host threads do between asking and reserving, and after it.
LEMMA ThreadsStandStill ==
  ASSUME NEW t \in Threads, Control, Start(t) \/ Step(t)
  PROVE  StandsStill \/ Reserve(t) \/ \E r \in {"decide", "badValue"} : CallDecide(t, r)
<1>. USE ConstantTypes DEF Control, TypeOK, CallsFit, LastIsCurrent, Go, Return, Asking, StandsStill,
     KeepsOrLoads, ringVars, engineVars, locals
<1>1. ASSUME NEW r \in BadRequests \ {"badValue"}, CallBadly(t, r) PROVE StandsStill
  BY <1>1 DEF CallBadly
<1>2. ASSUME CallInit(t) \/ CallReload(t) PROVE StandsStill
  BY <1>2 DEF CallInit, CallReload
<1>3. ASSUME LoadEngine(t) PROVE StandsStill
  BY <1>3 DEF LoadEngine
<1>4. ASSUME LoadNothing(t) \/ RefuseIdentity(t) \/ FindRunning(t) PROVE StandsStill
  BY <1>4 DEF LoadNothing, RefuseIdentity, FindRunning
<1>5. ASSUME RefuseResource(t) \/ ReportValue(t) \/ Overflow(t) \/ FindNothing(t)
      PROVE  StandsStill
  BY <1>5 DEF RefuseResource, ReportValue, Overflow, FindNothing
<1>6. ASSUME Seal(t) \/ CountLoss(t) PROVE StandsStill
  BY <1>6 DEF Seal, CountLoss
<1>7. ASSUME SetPrivs(t) \/ InstallFilter(t) \/ HardeningFails(t) PROVE StandsStill
  BY <1>7 DEF SetPrivs, InstallFilter, HardeningFails
<1>8. ASSUME Store(t) PROVE StandsStill
  BY <1>8 DEF Store
<1>9. ASSUME ErrorStep(t) PROVE StandsStill
  <2>1. ASSUME pc[t] \in {"report", "set"}, Leave(t),
               UNCHANGED <<engineVars, ringVars, preceding, answered>>
        PROVE  StandsStill
    <3>1. CASE call[t] = "badValue"
      BY <2>1, <3>1 DEF Leave
    <3>2. CASE call[t] # "badValue"
      BY <2>1, <3>2 DEF Leave
    <3>. QED BY <3>1, <3>2
  <2>2. ASSUME FindNoError(t) PROVE StandsStill
    BY <2>2 DEF FindNoError
  <2>. QED BY <1>9, <2>1, <2>2 DEF ErrorStep, OverwriteError, SetOnce
<1>. QED
  BY <1>1, <1>2, <1>3, <1>4, <1>5, <1>6, <1>7, <1>8, <1>9 DEF Start, Step, DecideStep, InitStep

\* A new decision is preceded by those answered so far; it stands nowhere yet.
LEMMA CallInOrder ==
  ASSUME NEW t \in Threads, NEW r \in {"decide", "badValue"},
         Control, Rings, InOrder, CallDecide(t, r)
  PROVE  InOrder'
<1>1. /\ pc[t] = "idle" /\ pc' = [pc EXCEPT ![t] = "load"]
      /\ mine' = [mine EXCEPT ![t] = asked + 1] /\ call' = [call EXCEPT ![t] = r]
      /\ preceding' = [preceding EXCEPT ![asked + 1] = answered]
      /\ UNCHANGED <<engine, log, popped, popGuard, guard, answered>>
  BY DEF CallDecide, Go, ringVars, engineVars
<1>2. asked \in Nat /\ \A d \in Decisions : d \in Nat
  BY ConstantTypes DEF Control, TypeOK, Decisions
<1>3. \A d \in Decisions : preceding'[d] = IF d = asked + 1 THEN answered ELSE preceding[d]
  BY <1>1 DEF Control, TypeOK
<1>4. \A e \in Runtimes : \A k \in 1 .. Len(log[e]) :
        log[e][k] \in Decisions /\ log[e][k] # asked + 1
  <2>1. \A e \in Runtimes : \A k \in 1 .. Len(log[e]) : log[e][k] \in Decisions
    BY LenProperties, ElementOfSeq DEF Control, TypeOK
  <2>. QED BY <1>2, <2>1, EntriesAreAsked
<1>5. (\A d \in Decisions : preceding[d] \subseteq answered)'
  BY <1>1, <1>3 DEF InOrder
<1>6. InService' /\ DrainsForward'
  BY <1>1 DEF InOrder, InService, DrainsForward
<1>7. GuardsInOrder'
  <2>. SUFFICES ASSUME NEW u \in Threads, Asking(u)', pc'[u] # "load",
                       NEW e \in Runtimes, NEW k \in 1 .. Len(log[e]),
                       log[e][k] \in preceding'[mine'[u]]
                PROVE  e <= guard[u]
    BY <1>1 DEF GuardsInOrder
  <2>1. u # t /\ Asking(u) /\ pc[u] # "load" /\ mine'[u] = mine[u]
    BY <1>1 DEF Control, TypeOK, Asking
  <2>2. mine[u] \in Decisions /\ mine[u] # asked + 1
    BY <1>2, <2>1 DEF Rings, CarriersOK, Control, TypeOK
  <2>. QED BY <1>3, <2>1, <2>2 DEF InOrder, GuardsInOrder
<1>8. EntriesInOrder'
  BY <1>1, <1>3, <1>4 DEF InOrder, EntriesInOrder
<1>. QED BY <1>5, <1>6, <1>7, <1>8 DEF InOrder

\* A decision is reserved in the runtime it has loaded, which is not older than
\* those of the answered decisions before it, and at the end of that ring.
LEMMA ReserveInOrder ==
  ASSUME NEW t \in Threads, Control, Rings, InOrder, Reserve(t)
  PROVE  InOrder'
<1>. DEFINE g == guard[t]
            n == Len(log[g])
            New(e, k) == e = g /\ k = n + 1
<1>1. /\ pc[t] = "loaded" /\ Asking(t) /\ pc' = [pc EXCEPT ![t] = "reserved"]
      /\ UNCHANGED <<engine, popped, popGuard, call, guard, mine, answered, preceding>>
  BY DEF Reserve, Go, engineVars, Asking
<1>2. g \in Runtimes /\ n \in Nat /\ \A e \in Runtimes : e \in Nat /\ Len(log[e]) \in Nat
  <2>1. g \in Runtimes /\ n \in Nat
    BY ReserveLog
  <2>2. \A e \in Runtimes : e \in Nat
    BY ConstantTypes DEF Runtimes
  <2>3. \A e \in Runtimes : Len(log[e]) \in Nat
    BY DEF Control, TypeOK
  <2>. QED BY <2>1, <2>2, <2>3
<1>3. \A e \in Runtimes : Len(log'[e]) = IF e = g THEN n + 1 ELSE Len(log[e])
  BY ReserveLog
<1>4. \A e \in Runtimes : \A k \in 1 .. Len(log'[e]) :
        IF New(e, k) THEN log'[e][k] = mine[t]
                     ELSE k \in 1 .. Len(log[e]) /\ log'[e][k] = log[e][k]
  <2>. SUFFICES ASSUME NEW e \in Runtimes, NEW k \in 1 .. Len(log'[e])
                PROVE  IF New(e, k) THEN log'[e][k] = mine[t]
                         ELSE k \in 1 .. Len(log[e]) /\ log'[e][k] = log[e][k]
    OBVIOUS
  <2>1. CASE e # g
    BY <2>1, ReserveLog
  <2>2. CASE e = g
    <3>1. k = n + 1 \/ k \in 1 .. n
      BY <1>2, <1>3, <2>2
    <3>. QED BY <2>2, <3>1, ReserveLog
  <2>. QED BY <2>1, <2>2
<1>5. mine[t] \in Decisions /\ \A d \in Decisions : mine[t] \notin preceding[d]
  BY <1>1, ReserveLog DEF Rings, CarriersOK, InOrder
<1>. HIDE DEF g, n, New
<1>6. \A e \in Runtimes : \A k \in 1 .. Len(log[e]) : log[e][k] \in Decisions
  BY LenProperties, ElementOfSeq DEF Control, TypeOK
<1>7. (\A d \in Decisions : preceding[d] \subseteq answered)'
  BY <1>1 DEF InOrder
<1>8. InService'
  <2>1. engine \in Nat /\ g <= engine
    BY ConstantTypes DEF Control, TypeOK, Runtimes, InOrder, InService, g
  <2>2. \A e \in Runtimes : e > engine => e # g
    BY <1>2, <2>1
  <2>3. \A e \in Runtimes : e > engine => Len(log'[e]) = 0
    BY <1>3, <2>2 DEF InOrder, InService
  <2>. QED BY <1>1, <2>3 DEF InOrder, InService
<1>9. GuardsInOrder'
  <2>. SUFFICES ASSUME NEW u \in Threads, Asking(u)', pc'[u] # "load",
                       NEW e \in Runtimes, NEW k \in 1 .. Len(log'[e]),
                       log'[e][k] \in preceding[mine[u]]
                PROVE  e <= guard[u]
    BY <1>1 DEF GuardsInOrder
  <2>1. Asking(u) /\ pc[u] # "load"
    BY <1>1 DEF Control, TypeOK, Asking
  <2>2. mine[u] \in Decisions
    BY <2>1 DEF Control, TypeOK, CallsFit
  <2>3. k \in 1 .. Len(log[e]) /\ log'[e][k] = log[e][k]
    BY <1>4, <1>5, <2>2
  <2>. QED BY <2>1, <2>3 DEF InOrder, GuardsInOrder
<1>10. EntriesInOrder'
  <2>. SUFFICES ASSUME NEW e \in Runtimes, NEW f \in Runtimes,
                       NEW k \in 1 .. Len(log'[e]), NEW l \in 1 .. Len(log'[f]),
                       log'[e][k] \in preceding[log'[f][l]]
                PROVE  e < f \/ (e = f /\ k < l)
    BY <1>1 DEF EntriesInOrder
  <2>1. log'[f][l] \in Decisions
    BY <1>4, <1>5, <1>6
  <2>2. k \in 1 .. Len(log[e]) /\ log'[e][k] = log[e][k]
    BY <1>4, <1>5, <2>1
  <2>3. CASE New(f, l)
    <3>1. log[e][k] \in preceding[mine[t]]
      BY <1>4, <2>2, <2>3
    <3>2. e <= g
      BY <1>1, <2>2, <3>1 DEF InOrder, GuardsInOrder, g
    <3>3. e = g => k <= n
      BY <2>2 DEF n
    <3>. QED BY <1>2, <2>3, <3>2, <3>3 DEF New
  <2>4. CASE ~ New(f, l)
    <3>1. l \in 1 .. Len(log[f]) /\ log'[f][l] = log[f][l]
      BY <1>4, <2>4
    <3>. QED BY <2>2, <3>1 DEF InOrder, EntriesInOrder
  <2>. QED BY <2>3, <2>4
<1>11. DrainsForward'
  BY <1>1 DEF InOrder, DrainsForward
<1>. QED BY <1>7, <1>8, <1>9, <1>10, <1>11 DEF InOrder

\* audit_pop looks into the runtime in service, behind which nothing is popped yet.
LEMMA DrainInOrder ==
  ASSUME Control, Rings, InOrder, Drain
  PROVE  InOrder'
<1>1. UNCHANGED <<engine, log, preceding, answered, pc, locals>>
  BY DEF Drain, CallPop, PopRecord, PopNothing, engineVars
<1>2. (\A d \in Decisions : preceding[d] \subseteq answered)' /\ EntriesInOrder'
  BY <1>1 DEF InOrder, EntriesInOrder
<1>3. InService' /\ GuardsInOrder'
  BY <1>1 DEF InOrder, InService, GuardsInOrder, Asking, locals
<1>4. DrainsForward'
  <2>1. ASSUME CallPop PROVE DrainsForward'
    <3>1. popGuard' = engine /\ popped' = popped
      BY <2>1 DEF CallPop
    <3>2. \A f \in Runtimes : f > engine => popped[f] <= 0 /\ popped[f] \in Nat
      BY DEF InOrder, InService, Rings, WindowsOK, Control, TypeOK
    <3>3. \A f \in Runtimes : f > engine => popped[f] = 0
      BY <3>2
    <3>. QED BY <3>1, <3>3 DEF DrainsForward
  <2>2. ASSUME PopRecord \/ PopNothing PROVE DrainsForward'
    BY <2>2 DEF PopRecord, PopNothing, DrainsForward
  <2>. QED BY <2>1, <2>2 DEF Drain
<1>. QED BY <1>2, <1>3, <1>4 DEF InOrder

LEMMA NextInOrder == Control /\ Control' /\ Rings /\ InOrder /\ [Next]_vars => InOrder'
<1>. SUFFICES ASSUME Control, Control', Rings, InOrder, [Next]_vars PROVE InOrder'
  OBVIOUS
<1>1. CASE UNCHANGED vars
  BY <1>1 DEF vars, ringVars, engineVars, locals, InOrder, InService, GuardsInOrder, Asking,
              EntriesInOrder, DrainsForward
<1>2. ASSUME NEW t \in Threads, Start(t) \/ Step(t) PROVE InOrder'
  BY <1>2, ThreadsStandStill, StillInOrder, CallInOrder, ReserveInOrder
<1>. QED BY <1>1, <1>2, DrainInOrder DEF Next

\* What is popped stands behind all that has been handed out before.
HandsOutInOrder ==
  \A e \in Runtimes : popped'[e] # popped[e] =>
    \A d \in HandedOut : log[e][popped'[e]] \notin preceding[d]

LEMMA PopsInOrder ==
  ASSUME Control, Rings, InOrder, PopRecord
  PROVE  HandsOutInOrder
<1>1. popGuard # 0 /\ popGuard \in Runtimes /\ popped[popGuard] + 1 \in sealed[popGuard]
  BY DEF PopRecord, NextReadable, Control, TypeOK
<1>2. \A e \in Runtimes : popped'[e] = IF e = popGuard THEN popped[e] + 1 ELSE popped[e]
  BY DEF PopRecord, Control, TypeOK
<1>. SUFFICES ASSUME NEW f \in Runtimes, NEW l \in 1 .. popped[f],
                     log[popGuard][popped[popGuard] + 1] \in preceding[log[f][l]]
              PROVE  FALSE
  BY <1>1, <1>2 DEF HandsOutInOrder, HandedOut
<1>3. \A e \in Runtimes : e \in Nat /\ popped[e] \in Nat /\ Len(log[e]) \in Nat
  BY ConstantTypes DEF Runtimes, Control, TypeOK
<1>4. f <= popGuard
  <2>1. popped[f] # 0
    BY <1>3
  <2>2. ~ (f > popGuard)
    BY <1>1, <1>3, <2>1 DEF InOrder, DrainsForward
  <2>. QED BY <1>1, <1>3, <2>2
<1>5. popped[popGuard] + 1 \in 1 .. Len(log[popGuard]) /\ l \in 1 .. Len(log[f])
  BY <1>1, <1>3 DEF Rings, WindowsOK
<1>6. popGuard < f \/ (popGuard = f /\ popped[popGuard] + 1 < l)
  BY <1>1, <1>5 DEF InOrder, EntriesInOrder
<1>. QED BY <1>1, <1>3, <1>4, <1>6

LEMMA NextHandsOutInOrder == Control /\ Rings /\ InOrder /\ [Next]_vars => HandsOutInOrder
<1>. SUFFICES ASSUME Control, Rings, InOrder, [Next]_vars PROVE HandsOutInOrder
  OBVIOUS
<1>1. ASSUME NEW t \in Threads, Start(t) \/ Step(t) PROVE popped' = popped
  BY <1>1, ThreadsStandStill DEF StandsStill, Reserve, CallDecide, ringVars
<1>2. CallPop \/ PopNothing \/ UNCHANGED vars => popped' = popped
  BY DEF CallPop, PopNothing, vars, ringVars
<1>3. popped' = popped => HandsOutInOrder
  BY DEF HandsOutInOrder
<1>. QED BY <1>1, <1>2, <1>3, PopsInOrder DEF Next, Drain

\* The audit trail respects real time, for any number of threads and reloads: of
\* two decisions, one answered before the other was asked for, the later one is
\* never handed out first.
THEOREM TrailIsInOrder == Spec => TrailInOrder
<1>1. Control /\ Rings /\ InOrder /\ [Next]_vars =>
        [\A e \in Runtimes : popped'[e] # popped[e] =>
           \A d \in HandedOut : log[e][popped'[e]] \notin preceding[d]]_vars
  BY NextHandsOutInOrder DEF HandsOutInOrder
<1>. QED
  BY <1>1, InitInOrder, NextInOrder, InitControl, NextControl, InitRings, NextRings, PTL
  DEF Spec, TrailInOrder

=============================================================================
