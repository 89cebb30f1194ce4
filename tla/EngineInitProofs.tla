-------------------------- MODULE EngineInitProofs --------------------------
(***************************************************************************)
(* Proofs about EngineInit, for any number of client threads, any number   *)
(* of steps of InitNative and any deadline.                                *)
(*                                                                         *)
(* The inductive invariant: the monitor has one owner, and what its owner  *)
(* has reached (Chain); the steps of InitNative were taken in order, each  *)
(* once (InOrder); and who has left the monitor, or read nativeOk, relies  *)
(* on a chain that is never taken back (Relied).                           *)
(***************************************************************************)
EXTENDS EngineInit, TLAPS

Labels == {"waitApp", "attempt", "threw", "sleep", "done", "idle", "fast", "enter",
           "inited", "hooking"} \cup InEnsure

TypeOK ==
    /\ appReady \in BOOLEAN
    /\ artVisible \in BOOLEAN
    /\ loaderLib \in BOOLEAN
    /\ absLib \in BOOLEAN
    /\ callbackSet \in BOOLEAN
    /\ nativeOk \in BOOLEAN
    /\ owner \in Threads \cup {Null}
    /\ libLoaded \in BOOLEAN
    /\ artTables \in {"no", "empty", "mapped"}
    /\ kInit \in {"unset", "true", "false"}
    /\ ready \in BOOLEAN
    /\ installed \in [1..Stages -> Nat]
    /\ stage \in 1..(Stages + 1)
    /\ pc \in [Threads -> Labels]
    /\ sees \in [Threads -> BOOLEAN]
    /\ budget \in 0..Budget
    /\ status \in {"none", "fail", "ok"}

\* The monitor of CoreEngineImpl.INSTANCE.
Monitor == \A t \in Threads : pc[t] \in InEnsure <=> owner = t

\* What the owner of the monitor has reached.
Chain ==
    \A t \in Threads :
        /\ pc[t] \in InEnsure => callbackSet
        /\ pc[t] \in {"init", "stages", "commit"} => libLoaded
        /\ pc[t] = "stages" => kInit = "unset"
        /\ pc[t] = "commit" => ready

\* The steps of InitNative below `stage` were taken once, the others never.
InOrder ==
    /\ \A i \in 1..Stages : installed[i] = IF i < stage THEN 1 ELSE 0
    /\ kInit = "true" => stage = Stages + 1
    /\ ready => kInit = "true"

\* What a thread outside of the monitor relies on.
Relied ==
    /\ nativeOk => ready /\ libLoaded /\ callbackSet
    /\ status = "ok" => nativeOk
    /\ \A t \in Threads : (pc[t] = "inited" => nativeOk) /\ (pc[t] = "hooking" => ready)

IInv == TypeOK /\ Monitor /\ Chain /\ InOrder /\ Relied

-----------------------------------------------------------------------------
\* The initial states satisfy the invariant.
LEMMA InitIInv == Init => IInv
<1> SUFFICES ASSUME Init PROVE IInv
  OBVIOUS
<1>1. TypeOK
  <2>1. installed \in [1..Stages -> Nat] /\ stage \in 1..(Stages + 1) /\ budget \in 0..Budget
    BY StagesAssumption, BudgetAssumption DEF Init
  <2>2. pc \in [Threads -> Labels] /\ sees \in [Threads -> BOOLEAN]
    BY DEF Init, Labels
  <2> QED BY <2>1, <2>2 DEF Init, TypeOK
<1>2. Monitor /\ Chain /\ Relied
  BY ThreadAssumption DEF Init, Monitor, Chain, Relied, Threads, InEnsure
<1>3. InOrder
  BY StagesAssumption DEF Init, InOrder
<1> QED BY <1>1, <1>2, <1>3 DEF IInv

\* What a Goto of thread t does to pc.
LEMMA Moves ==
    ASSUME TypeOK, NEW t \in Threads, NEW l \in Labels, Goto(t, l)
    PROVE  /\ pc' \in [Threads -> Labels]
           /\ pc'[t] = l
           /\ \A u \in Threads \ {t} : pc'[u] = pc[u]
BY DEF TypeOK, Goto

\* A step that moves one thread outside of the monitor, changes nothing the
\* threads share, and lets the thread go on only to where it may be.
LEMMA OutsideStep ==
    ASSUME IInv, NEW t \in Threads, NEW l \in Labels \ InEnsure, Goto(t, l),
           pc[t] \notin InEnsure,
           UNCHANGED <<hostVars, javaVars, natVars>>,
           l = "inited" => nativeOk,
           l = "hooking" => ready,
           sees' \in [Threads -> BOOLEAN],
           budget' \in 0..Budget,
           status' \in {"none", "fail", "ok"},
           status' = "ok" => nativeOk
    PROVE  IInv'
<1>1. /\ pc' \in [Threads -> Labels]
      /\ pc'[t] = l
      /\ \A u \in Threads \ {t} : pc'[u] = pc[u]
  BY Moves DEF IInv
<1>2. TypeOK'
  BY <1>1 DEF IInv, TypeOK, hostVars, javaVars, natVars
<1>3. Monitor'
  BY <1>1 DEF IInv, Monitor, javaVars
<1>4. Chain'
  BY <1>1 DEF IInv, Chain, javaVars, natVars, InEnsure
<1>5. InOrder'
  BY DEF IInv, InOrder, natVars
<1>6. Relied'
  BY <1>1 DEF IInv, Relied, javaVars, natVars
<1> QED BY <1>2, <1>3, <1>4, <1>5, <1>6 DEF IInv

\* The host changes nothing the invariant is about.
LEMMA HostStep == IInv /\ (HostAppReady \/ HostArtVisible) => IInv'
<1> SUFFICES ASSUME IInv, HostAppReady \/ HostArtVisible PROVE IInv'
  OBVIOUS
<1>1. UNCHANGED <<loaderLib, absLib, javaVars, natVars, payVars, pc, sees>>
  BY DEF HostAppReady, HostArtVisible
<1>2. TypeOK'
  <2>1. appReady' \in BOOLEAN /\ artVisible' \in BOOLEAN
    BY DEF IInv, TypeOK, HostAppReady, HostArtVisible
  <2> QED BY <1>1, <2>1 DEF IInv, TypeOK, javaVars, natVars, payVars
<1>3. Monitor' /\ Chain'
  BY <1>1 DEF IInv, Monitor, Chain, javaVars, natVars
<1>4. InOrder' /\ Relied'
  BY <1>1 DEF IInv, InOrder, Relied, javaVars, natVars, payVars
<1> QED BY <1>2, <1>3, <1>4 DEF IInv

\* The payload's own steps: the waits, the retries and the status file.
LEMMA PayloadStepIInv == IInv /\ PayloadStep => IInv'
<1> SUFFICES ASSUME IInv, PayloadStep PROVE IInv'
  OBVIOUS
<1> USE DEF InEnsure, Labels
<1>1. Payload \in Threads /\ pc[Payload] \in Labels
  BY DEF IInv, TypeOK, Threads
<1>2. /\ budget \in 0..Budget /\ budget' \in 0..Budget
      /\ sees' \in [Threads -> BOOLEAN]
  BY BudgetAssumption DEF IInv, TypeOK, PayloadStep, WaitApp, Attempt, AttemptFailed, Wake, Started, Sleep, payVars
<1>3. /\ status \in {"none", "fail", "ok"}
      /\ status = "ok" => nativeOk
      /\ pc[Payload] = "inited" => nativeOk
  BY <1>1 DEF IInv, TypeOK, Relied
<1>4. CASE WaitApp
  <2>1. CASE Goto(Payload, "attempt")
    BY <1>1, <1>2, <1>3, <1>4, <2>1, OutsideStep DEF WaitApp
  <2>2. CASE UNCHANGED pc
    <3>1. Goto(Payload, "waitApp")
      BY <1>1, <1>4, <2>2 DEF WaitApp, Goto, IInv, TypeOK
    <3> QED BY <1>1, <1>2, <1>3, <1>4, <3>1, OutsideStep DEF WaitApp
  <2> QED BY <1>4, <2>1, <2>2 DEF WaitApp
<1>5. CASE Attempt
  BY <1>1, <1>2, <1>3, <1>5, OutsideStep DEF Attempt, payVars
<1>6. CASE AttemptFailed
  BY <1>1, <1>2, <1>3, <1>6, OutsideStep DEF AttemptFailed, WriteStatus
<1>7. CASE Wake
  BY <1>1, <1>2, <1>3, <1>7, OutsideStep DEF Wake
<1>8. CASE Started
  BY <1>1, <1>2, <1>3, <1>8, OutsideStep DEF Started, WriteStatus
<1> QED BY <1>4, <1>5, <1>6, <1>7, <1>8 DEF PayloadStep

\* The steps of a client outside of the monitor, and the unsynchronised test.
LEMMA ClientStepIInv ==
    ASSUME IInv, NEW t \in Threads,
           FastPath(t) \/ ClientHook(t) \/ ClientNative(t) \/ ClientDeoptimize(t) \/ ClientReturn(t)
    PROVE  IInv'
<1> USE DEF InEnsure, Labels
<1>1. /\ budget' \in 0..Budget
      /\ status' \in {"none", "fail", "ok"}
      /\ status' = "ok" => nativeOk
      /\ sees' \in [Threads -> BOOLEAN]
  BY DEF IInv, TypeOK, Relied, FastPath, ClientHook, ClientNative, ClientDeoptimize, ClientReturn, payVars
<1>2. pc[t] \in Labels
  BY DEF IInv, TypeOK
<1>3. CASE FastPath(t)
  BY <1>1, <1>2, <1>3, OutsideStep DEF FastPath
<1>4. CASE ClientHook(t)
  BY <1>1, <1>2, <1>4, OutsideStep DEF ClientHook
<1>5. CASE ClientNative(t)
  BY <1>1, <1>2, <1>5, OutsideStep DEF ClientNative
<1>6. CASE ClientDeoptimize(t)
  BY <1>1, <1>2, <1>6, OutsideStep DEF ClientDeoptimize
<1>7. CASE ClientReturn(t)
  BY <1>1, <1>2, <1>7, OutsideStep DEF ClientReturn
<1> QED BY <1>3, <1>4, <1>5, <1>6, <1>7

\* Entering the monitor: the thread becomes its owner, or finds nativeOk.
LEMMA EnterIInv ==
    ASSUME IInv, NEW t \in Threads, Enter(t)
    PROVE  IInv'
<1> USE DEF InEnsure, Labels
<1>1. CASE nativeOk
  <2>1. /\ sees' \in [Threads -> BOOLEAN] /\ budget' \in 0..Budget
        /\ status' \in {"none", "fail", "ok"}
        /\ Goto(t, "inited") /\ UNCHANGED <<hostVars, javaVars, natVars>>
        /\ pc[t] = "enter"
    BY <1>1 DEF IInv, TypeOK, Enter, payVars, javaVars
  <2> QED BY <1>1, <2>1, OutsideStep
<1>2. CASE ~nativeOk
  <2>1. /\ pc' \in [Threads -> Labels]
        /\ pc'[t] = "load"
        /\ \A u \in Threads \ {t} : pc'[u] = pc[u]
    BY <1>2, Moves DEF IInv, Enter
  <2>2. TypeOK'
    BY <1>2, <2>1 DEF IInv, TypeOK, Enter, hostVars, natVars, payVars
  <2>3. Monitor'
    BY <1>2, <2>1, ThreadAssumption DEF IInv, Monitor, Enter, Threads
  <2>4. Chain'
    BY <1>2, <2>1 DEF IInv, Chain, Enter, natVars
  <2>5. InOrder'
    BY DEF IInv, InOrder, Enter, natVars
  <2>6. Relied'
    BY <1>2, <2>1 DEF IInv, Relied, Enter, natVars, payVars
  <2> QED BY <2>2, <2>3, <2>4, <2>5, <2>6 DEF IInv
<1> QED BY <1>1, <1>2 DEF IInv, TypeOK

\* A step of the owner t of the monitor that stays in it, at label l, or leaves
\* it: nobody else is in the monitor, so only what t has reached counts.
LEMMA OwnerStep ==
    ASSUME IInv, NEW t \in Threads, NEW l \in Labels, Goto(t, l),
           pc[t] \in InEnsure, l \in InEnsure \cup {"threw", "inited"},
           owner' = IF l \in InEnsure THEN owner ELSE Null
    PROVE  /\ pc' \in [Threads -> Labels]
           /\ pc'[t] = l
           /\ \A u \in Threads \ {t} : pc'[u] = pc[u] /\ pc[u] \notin InEnsure
           /\ owner' \in Threads \cup {Null}
           /\ Monitor'
<1>1. /\ pc' \in [Threads -> Labels]
      /\ pc'[t] = l
      /\ \A u \in Threads \ {t} : pc'[u] = pc[u]
  BY Moves DEF IInv
<1>2. owner = t /\ \A u \in Threads \ {t} : pc[u] \notin InEnsure
  BY DEF IInv, Monitor
<1>3. Monitor'
  BY <1>1, <1>2, ThreadAssumption DEF Monitor, InEnsure, Threads
<1> QED BY <1>1, <1>2, <1>3

\* Inside of the monitor: the library is loaded, Init runs, nativeOk is set.
LEMMA LoadNativeIInv ==
    ASSUME IInv, NEW t \in Threads, LoadNative(t)
    PROVE  IInv'
<1> USE DEF InEnsure, Labels
<1> DEFINE l == IF CanLoad THEN "init" ELSE "threw"
<1>1. /\ l \in Labels /\ Goto(t, l) /\ pc[t] = "load"
      /\ owner' = IF l \in InEnsure THEN owner ELSE Null
      /\ libLoaded' = (CanLoad \/ libLoaded)
  BY DEF LoadNative, Throw, IInv, TypeOK
<1>2. /\ pc' \in [Threads -> Labels] /\ pc'[t] = l
      /\ \A u \in Threads \ {t} : pc'[u] = pc[u] /\ pc[u] \notin InEnsure
      /\ owner' \in Threads \cup {Null} /\ Monitor'
  <2> HIDE DEF l
  <2>1. l \in InEnsure \cup {"threw", "inited"}
    BY DEF l
  <2> QED BY <1>1, <2>1, OwnerStep
<1>3. TypeOK'
  BY <1>1, <1>2 DEF IInv, TypeOK, LoadNative, hostVars, payVars
<1>4. Chain'
  BY <1>1, <1>2 DEF IInv, Chain, LoadNative
<1>5. InOrder'
  BY DEF IInv, InOrder, LoadNative
<1>6. Relied'
  BY <1>1, <1>2 DEF IInv, Relied, LoadNative, payVars
<1> QED BY <1>2, <1>3, <1>4, <1>5, <1>6 DEF IInv

\* nativeInitialize: its early returns, or the one evaluation of kInit.
LEMMA NativeInitializeIInv ==
    ASSUME IInv, NEW t \in Threads, NativeInitialize(t)
    PROVE  IInv'
<1> USE DEF InEnsure, Labels
<1>1. PICK l \in {"commit", "threw", "stages"} :
         /\ Goto(t, l) /\ owner' = IF l \in InEnsure THEN owner ELSE Null
         /\ l = "commit" => (ready \/ kInit = "true") /\ ready' = TRUE
         /\ l = "threw" => kInit = "false" /\ ready' = FALSE
         /\ l = "stages" => kInit = "unset" /\ ready' = ready
         /\ artTables' \in {"no", "empty", "mapped"}
  BY DEF NativeInitialize, Throw, EnsureArtTables, IInv, TypeOK
<1>2. /\ pc' \in [Threads -> Labels] /\ pc'[t] = l
      /\ \A u \in Threads \ {t} : pc'[u] = pc[u] /\ pc[u] \notin InEnsure
      /\ owner' \in Threads \cup {Null} /\ Monitor'
  BY <1>1, OwnerStep DEF NativeInitialize
<1>3. ready => ready'
  BY <1>1 DEF IInv, InOrder
<1>4. TypeOK'
  <2>1. ready' \in BOOLEAN
    BY <1>1 DEF IInv, TypeOK
  <2> QED BY <1>1, <1>2, <2>1 DEF IInv, TypeOK, NativeInitialize, hostVars, payVars
<1>5. Chain'
  BY <1>1, <1>2 DEF IInv, Chain, NativeInitialize
<1>6. InOrder'
  BY <1>1 DEF IInv, InOrder, NativeInitialize
<1>7. Relied'
  BY <1>1, <1>2, <1>3 DEF IInv, Relied, NativeInitialize, payVars
<1> QED BY <1>2, <1>4, <1>5, <1>6, <1>7 DEF IInv

\* A stage of lsplant::Init installs its hooks.
LEMMA InitStageIInv ==
    ASSUME IInv, NEW t \in Threads, InitStage(t)
    PROVE  IInv'
<1>1. stage \in 1..Stages /\ stage' = stage + 1 /\ installed' = [installed EXCEPT ![stage] = @ + 1]
  BY StagesAssumption DEF IInv, TypeOK, InitStage
<1>2. TypeOK'
  BY <1>1, StagesAssumption DEF IInv, TypeOK, InitStage, hostVars, javaVars, payVars
<1>3. Monitor' /\ Chain' /\ Relied'
  BY DEF IInv, Monitor, Chain, Relied, InitStage, javaVars, payVars
<1>4. \A i \in 1..Stages : installed'[i] = IF i < stage' THEN 1 ELSE 0
  BY <1>1, StagesAssumption DEF IInv, TypeOK, InOrder
<1>5. kInit = "unset" /\ UNCHANGED <<kInit, ready>>
  BY DEF IInv, Chain, InitStage
<1>6. InOrder'
  BY <1>4, <1>5 DEF IInv, InOrder
<1> QED BY <1>2, <1>3, <1>6 DEF IInv

\* A stage fails; what the stages before it installed stays.
LEMMA InitStageFailsIInv ==
    ASSUME IInv, NEW t \in Threads, InitStageFails(t)
    PROVE  IInv'
<1> USE DEF InEnsure, Labels
<1>1. /\ Goto(t, "threw") /\ owner' = Null /\ pc[t] = "stages"
      /\ kInit = "unset" /\ ~ready
  BY DEF InitStageFails, Throw, IInv, Chain, InOrder
<1>2. /\ pc' \in [Threads -> Labels] /\ pc'[t] = "threw"
      /\ \A u \in Threads \ {t} : pc'[u] = pc[u] /\ pc[u] \notin InEnsure
      /\ owner' \in Threads \cup {Null} /\ Monitor'
  BY <1>1, OwnerStep
<1>3. TypeOK'
  BY <1>2 DEF IInv, TypeOK, InitStageFails, hostVars, payVars
<1>4. Chain'
  BY <1>2 DEF IInv, Chain, InitStageFails
<1>5. InOrder'
  BY <1>1 DEF IInv, InOrder, InitStageFails
<1>6. Relied'
  BY <1>1, <1>2 DEF IInv, Relied, InitStageFails, payVars
<1> QED BY <1>2, <1>3, <1>4, <1>5, <1>6 DEF IInv

\* lsplant::Init has run all its stages.
LEMMA InitDoneIInv ==
    ASSUME IInv, NEW t \in Threads, InitDone(t)
    PROVE  IInv'
<1> USE DEF InEnsure, Labels
<1>1. /\ Goto(t, "commit") /\ owner' = owner /\ pc[t] = "stages" /\ stage = Stages + 1
  BY StagesAssumption DEF InitDone, IInv, TypeOK, javaVars
<1>2. /\ pc' \in [Threads -> Labels] /\ pc'[t] = "commit"
      /\ \A u \in Threads \ {t} : pc'[u] = pc[u] /\ pc[u] \notin InEnsure
      /\ owner' \in Threads \cup {Null} /\ Monitor'
  BY <1>1, OwnerStep
<1>3. TypeOK'
  BY <1>2 DEF IInv, TypeOK, InitDone, hostVars, javaVars, payVars
<1>4. Chain'
  BY <1>1, <1>2 DEF IInv, Chain, InitDone, javaVars
<1>5. InOrder'
  BY <1>1 DEF IInv, InOrder, InitDone
<1>6. Relied'
  BY <1>1, <1>2 DEF IInv, Relied, InitDone, javaVars, payVars
<1> QED BY <1>2, <1>3, <1>4, <1>5, <1>6 DEF IInv

\* ensureNative sets nativeOk and leaves the monitor.
LEMMA CommitIInv ==
    ASSUME IInv, NEW t \in Threads, Commit(t)
    PROVE  IInv'
<1> USE DEF InEnsure, Labels
<1>1. /\ Goto(t, "inited") /\ owner' = Null /\ pc[t] = "commit"
      /\ ready /\ libLoaded /\ callbackSet
  BY DEF Commit, IInv, Chain
<1>2. /\ pc' \in [Threads -> Labels] /\ pc'[t] = "inited"
      /\ \A u \in Threads \ {t} : pc'[u] = pc[u] /\ pc[u] \notin InEnsure
      /\ owner' \in Threads \cup {Null} /\ Monitor'
  BY <1>1, OwnerStep
<1>3. TypeOK'
  BY <1>2 DEF IInv, TypeOK, Commit, hostVars, natVars, payVars
<1>4. Chain'
  BY <1>2 DEF IInv, Chain, Commit, natVars
<1>5. InOrder'
  BY DEF IInv, InOrder, Commit, natVars
<1>6. Relied'
  BY <1>1, <1>2 DEF IInv, Relied, Commit, natVars, payVars
<1> QED BY <1>2, <1>3, <1>4, <1>5, <1>6 DEF IInv

-----------------------------------------------------------------------------
\* The invariant holds in every reachable state.
THEOREM Invariance == Spec => []IInv
<1>1. Init => IInv
  BY InitIInv
<1>2. IInv /\ [Next]_vars => IInv'
  <2> SUFFICES ASSUME IInv, [Next]_vars PROVE IInv'
    OBVIOUS
  <2>1. CASE UNCHANGED vars
    <3>1. UNCHANGED <<hostVars, javaVars, natVars, payVars, pc, sees>>
      BY <2>1 DEF vars
    <3>2. TypeOK'
      BY <3>1 DEF IInv, TypeOK, hostVars, javaVars, natVars, payVars
    <3>3. Monitor' /\ Chain'
      BY <3>1 DEF IInv, Monitor, Chain, javaVars, natVars
    <3>4. InOrder' /\ Relied'
      BY <3>1 DEF IInv, InOrder, Relied, javaVars, natVars, payVars
    <3> QED BY <3>2, <3>3, <3>4 DEF IInv
  <2>2. CASE HostAppReady \/ HostArtVisible
    BY <2>2, HostStep
  <2>3. CASE PayloadStep
    BY <2>3, PayloadStepIInv
  <2>4. ASSUME NEW t \in Threads, Ensure(t) PROVE IInv'
    BY <2>4, ClientStepIInv, EnterIInv, LoadNativeIInv, NativeInitializeIInv, InitStageIInv,
       InitStageFailsIInv, InitDoneIInv, CommitIInv DEF Ensure
  <2>5. ASSUME NEW t \in Clients, ClientHook(t) \/ ClientNative(t) \/ ClientDeoptimize(t) \/ ClientReturn(t)
        PROVE  IInv'
    BY <2>5, ClientStepIInv DEF Threads
  <2> QED BY <2>1, <2>2, <2>3, <2>4, <2>5 DEF Next
<1> QED BY <1>1, <1>2, PTL DEF Spec

\* A thread is inside lsplant::Hook or Deoptimize only after every step of
\* InitNative has succeeded, and nativeOk and the status file never report more
\* than what was reached, however the payload's retries and the clients race.
THEOREM FullInit == Spec => []HookOnlyAfterFullInit
<1>1. IInv => HookOnlyAfterFullInit
  <2> SUFFICES ASSUME IInv PROVE HookOnlyAfterFullInit
    OBVIOUS
  <2>1. ready => \A i \in 1..Stages : installed[i] = 1
    BY StagesAssumption DEF IInv, InOrder
  <2> QED BY <2>1 DEF IInv, InOrder, Relied, HookOnlyAfterFullInit
<1> QED BY <1>1, Invariance, PTL

\* No retry and no race through ensureNative installs the inline hooks of a step
\* of InitNative a second time.
THEOREM InstalledOnce == Spec => []HooksInstalledOnce
<1>1. IInv => HooksInstalledOnce
  BY StagesAssumption DEF IInv, InOrder, HooksInstalledOnce
<1> QED BY <1>1, Invariance, PTL
=============================================================================
