----------------------------- MODULE EngineInit -----------------------------
(***************************************************************************)
(* How the engine comes up: GlassBarEntry.startWithCore and its two waits, *)
(* CoreEngineImpl.ensureNative and loadNative, nativeInitialize and the    *)
(* symbol tables of glue.cpp, lsplant::Init and the order of InitNative.   *)
(*                                                                         *)
(* The payload thread retries until a deadline; other threads (clients)    *)
(* reach the same ensureNative through hookXxx and deoptimize.  The host   *)
(* becomes ready at any time.  The steps of InitNative are numbered        *)
(* 1..Stages; each resolves symbols of libart and installs inline hooks.   *)
(***************************************************************************)
EXTENDS Integers

CONSTANTS
    Payload,      \* the thread that runs startWithCore
    Clients,      \* threads that use the engine
    Null,         \* no owner
    Stages,       \* number of steps of InitNative
    Budget        \* sleeps that fit into a deadline of 30 s

ASSUME ThreadAssumption == Payload \notin Clients /\ Null \notin Clients \cup {Payload}
ASSUME StagesAssumption == Stages \in Nat \ {0}
ASSUME BudgetAssumption == Budget \in Nat

Threads == Clients \cup {Payload}

VARIABLES
    appReady,   \* ActivityThread has an Application
    artVisible, \* libart.so can be found, opened and mapped
    loaderLib,  \* libmq-core.so is on the library path of the core loader
    absLib,     \* libmq-core.so is at one of the absolute paths
    callbackSet,\* CoreEngineImpl.callbackMethod is not null
    nativeOk,   \* CoreEngineImpl.nativeOk
    owner,      \* owner of the monitor of CoreEngineImpl.INSTANCE
    libLoaded,  \* libmq-core.so is loaded
    artTables,  \* gArtOnce and gArt: "no" call yet, "empty" or "mapped"
    kInit,      \* the static of lsplant::Init: "unset", "true" or "false"
    ready,      \* gLsplantReady
    installed,  \* per step of InitNative: how often its hooks were installed
    stage,      \* step of InitNative that runs next
    pc,         \* per thread
    sees,       \* per thread: value it reads from callbackMethod
    budget,     \* sleeps left before the payload's current deadline
    status      \* contents of glassbar_status.txt

hostVars == <<appReady, artVisible, loaderLib, absLib>>
javaVars == <<callbackSet, nativeOk, owner>>
natVars  == <<libLoaded, artTables, kInit, ready, installed, stage>>
payVars  == <<budget, status>>
vars     == <<hostVars, javaVars, natVars, payVars, pc, sees>>

Init ==
    /\ appReady = FALSE
    /\ artVisible \in BOOLEAN
    /\ loaderLib \in BOOLEAN
    /\ absLib \in BOOLEAN
    /\ callbackSet = FALSE
    /\ nativeOk = FALSE
    /\ owner = Null
    /\ libLoaded = FALSE
    /\ artTables = "no"
    /\ kInit = "unset"
    /\ ready = FALSE
    /\ installed = [i \in 1..Stages |-> 0]
    /\ stage = 1
    /\ pc = [t \in Threads |-> IF t = Payload THEN "waitApp" ELSE "idle"]
    /\ sees = [t \in Threads |-> FALSE]
    /\ budget = Budget
    /\ status = "none"

Goto(t, label) == pc' = [pc EXCEPT ![t] = label]

-----------------------------------------------------------------------------
(* The host.                                                               *)

HostAppReady ==
    /\ ~appReady
    /\ appReady' = TRUE
    /\ UNCHANGED <<artVisible, loaderLib, absLib, javaVars, natVars, payVars, pc, sees>>

HostArtVisible ==
    /\ ~artVisible
    /\ artVisible' = TRUE
    /\ UNCHANGED <<appReady, loaderLib, absLib, javaVars, natVars, payVars, pc, sees>>

-----------------------------------------------------------------------------
(* startWithCore: waitHostAppReady, ensureEngineReady, writeStatus.        *)

\* Time passes while the payload sleeps: at least one unit of its budget.
Sleep == \E n \in 1..2 : budget' = IF n >= budget THEN 0 ELSE budget - n

\* One turn of waitHostAppReady: it returns when the Application is there (and
\* the extra sleep is over) or the deadline has passed.
WaitApp ==
    /\ pc[Payload] = "waitApp"
    /\ IF appReady \/ budget = 0
       THEN Goto(Payload, "attempt") /\ budget' = Budget
       ELSE UNCHANGED pc /\ Sleep
    /\ UNCHANGED <<hostVars, javaVars, natVars, status, sees>>

\* CoreEngineImpl.ensureInit()
Attempt ==
    /\ pc[Payload] = "attempt"
    /\ Goto(Payload, "fast")
    /\ UNCHANGED <<hostVars, javaVars, natVars, payVars, sees>>

\* Fault: the deadline is not looked at.
AttemptFailedForever ==
    /\ pc[Payload] = "threw"
    /\ Goto(Payload, "sleep")
    /\ UNCHANGED <<hostVars, javaVars, natVars, payVars, sees>>

\* writeStatus: the file is replaced, or an I/O error is ignored.
WriteStatus(s) == status' \in {s, status}

\* The attempt threw: give up after the deadline, or sleep.
AttemptFailed ==
    /\ pc[Payload] = "threw"
    /\ IF budget = 0
       THEN Goto(Payload, "done") /\ WriteStatus("fail")
       ELSE Goto(Payload, "sleep") /\ UNCHANGED status
    /\ UNCHANGED <<hostVars, javaVars, natVars, budget, sees>>

Wake ==
    /\ pc[Payload] = "sleep"
    /\ Sleep
    /\ Goto(Payload, "attempt")
    /\ UNCHANGED <<hostVars, javaVars, natVars, status, sees>>

\* ensureInit returned: schedule the attachment, write the status.
Started ==
    /\ pc[Payload] = "inited"
    /\ Goto(Payload, "done")
    /\ WriteStatus("ok")
    /\ UNCHANGED <<hostVars, javaVars, natVars, budget, sees>>

-----------------------------------------------------------------------------
(* ensureNative, by any thread.                                            *)

\* hookXxx: add() calls ensureNative() first.
ClientHook(t) ==
    /\ t \in Clients
    /\ pc[t] = "idle"
    /\ Goto(t, "fast")
    /\ UNCHANGED <<hostVars, javaVars, natVars, payVars, sees>>

\* The unsynchronised test of nativeOk.  The field is not volatile: a thread
\* that reads true without the monitor may still read the old callbackMethod,
\* and one that reads false may be late.
FastPath(t) ==
    /\ pc[t] = "fast"
    /\ \/ /\ nativeOk
          /\ \E v \in {FALSE, callbackSet} : sees' = [sees EXCEPT ![t] = v]
          /\ Goto(t, "inited")
       \/ Goto(t, "enter") /\ UNCHANGED sees
    /\ UNCHANGED <<hostVars, javaVars, natVars, payVars>>

\* synchronized (this) and the second test; callbackMethod is looked up once.
Enter(t) ==
    /\ pc[t] = "enter"
    /\ owner = Null
    /\ sees' = [sees EXCEPT ![t] = TRUE]
    /\ IF nativeOk
       THEN Goto(t, "inited") /\ UNCHANGED <<owner, callbackSet>>
       ELSE Goto(t, "load") /\ owner' = t /\ callbackSet' = TRUE
    /\ UNCHANGED <<hostVars, nativeOk, natVars, payVars>>

\* An exception leaves the monitor as IllegalStateException.
Throw(t) == Goto(t, "threw") /\ owner' = Null

\* loadNative: the loader's path, then the absolute paths, which need the
\* Application.
CanLoad == loaderLib \/ (appReady /\ absLib)

LoadNative(t) ==
    /\ pc[t] = "load"
    /\ \/ CanLoad /\ libLoaded' = TRUE /\ Goto(t, "init") /\ UNCHANGED owner
       \/ ~CanLoad /\ Throw(t) /\ UNCHANGED libLoaded
    /\ UNCHANGED <<hostVars, callbackSet, nativeOk, artTables, kInit, ready,
                   installed, stage, payVars, sees>>

\* Fault: lsplant::Init starts again after it has failed.
NativeInitializeAgain(t) ==
    /\ pc[t] = "init"
    /\ IF ready \/ kInit = "true"
       THEN ready' = TRUE /\ Goto(t, "commit") /\ UNCHANGED <<owner, artTables, stage>>
       ELSE /\ artTables' = IF artVisible THEN "mapped" ELSE "empty"
            /\ stage' = 1
            /\ Goto(t, "stages")
            /\ UNCHANGED <<owner, ready>>
    /\ UNCHANGED <<hostVars, callbackSet, nativeOk, libLoaded, kInit, installed, payVars, sees>>

\* call_once of mapArtTables, on the first symbol that is looked up: libart is
\* mapped only if it is visible then.
EnsureArtTables ==
    artTables' = IF artTables # "no" THEN artTables
                 ELSE IF artVisible THEN "mapped" ELSE "empty"

\* nativeInitialize, InitializeLsplant, lsplant::Init.  kInit is evaluated by
\* the first call only.
NativeInitialize(t) ==
    /\ pc[t] = "init"
    /\ IF ready \/ kInit = "true"
       THEN ready' = TRUE /\ Goto(t, "commit") /\ UNCHANGED <<owner, artTables>>
       ELSE IF kInit = "false"
       THEN ready' = FALSE /\ Throw(t) /\ UNCHANGED artTables
       ELSE /\ EnsureArtTables
            /\ Goto(t, "stages")
            /\ UNCHANGED <<owner, ready>>
    /\ UNCHANGED <<hostVars, callbackSet, nativeOk, libLoaded, kInit, installed,
                   stage, payVars, sees>>

\* One step of InitNative; its inline hooks stay when a later step fails.
InitStage(t) ==
    /\ pc[t] = "stages"
    /\ stage <= Stages
    /\ artTables = "mapped"
    /\ installed' = [installed EXCEPT ![stage] = @ + 1]
    /\ stage' = stage + 1
    /\ UNCHANGED <<hostVars, javaVars, libLoaded, artTables, kInit, ready,
                   payVars, pc, sees>>

\* Fault: the result of a failed lsplant::Init is not stored.
InitStageFailsReady(t) ==
    /\ pc[t] = "stages"
    /\ stage <= Stages
    /\ kInit' = "false"
    /\ ready' = TRUE
    /\ Throw(t)
    /\ UNCHANGED <<hostVars, callbackSet, nativeOk, libLoaded, artTables, installed,
                   stage, payVars, sees>>

\* A step fails: its symbols are not found, or its hook is refused.
InitStageFails(t) ==
    /\ pc[t] = "stages"
    /\ stage <= Stages
    /\ kInit' = "false"
    /\ ready' = FALSE
    /\ Throw(t)
    /\ UNCHANGED <<hostVars, callbackSet, nativeOk, libLoaded, artTables, installed,
                   stage, payVars, sees>>

InitDone(t) ==
    /\ pc[t] = "stages"
    /\ stage > Stages
    /\ kInit' = "true"
    /\ ready' = TRUE
    /\ Goto(t, "commit")
    /\ UNCHANGED <<hostVars, javaVars, libLoaded, artTables, installed, stage, payVars, sees>>

\* nativeOk = true; leave the monitor.
Commit(t) ==
    /\ pc[t] = "commit"
    /\ nativeOk' = TRUE
    /\ owner' = Null
    /\ Goto(t, "inited")
    /\ UNCHANGED <<hostVars, callbackSet, natVars, payVars, sees>>

-----------------------------------------------------------------------------
(* Clients go on.                                                          *)

\* nativeHookMethod reaches lsplant::Hook; with a null callback that returns
\* null and add() throws.
ClientNative(t) ==
    /\ t \in Clients
    /\ pc[t] = "inited"
    /\ Goto(t, IF ready /\ sees[t] THEN "hooking" ELSE "threw")
    /\ UNCHANGED <<hostVars, javaVars, natVars, payVars, sees>>

\* deoptimize() does not call ensureNative: before the library is loaded it
\* throws UnsatisfiedLinkError, before the engine is ready it returns false.
ClientDeoptimize(t) ==
    /\ t \in Clients
    /\ pc[t] = "idle"
    /\ Goto(t, IF ~libLoaded THEN "threw" ELSE IF ready THEN "hooking" ELSE "idle")
    /\ UNCHANGED <<hostVars, javaVars, natVars, payVars, sees>>

\* lsplant::Hook or Deoptimize, or the exception, is over.
ClientReturn(t) ==
    /\ t \in Clients
    /\ pc[t] \in {"hooking", "threw"}
    /\ Goto(t, "idle")
    /\ sees' = [sees EXCEPT ![t] = FALSE]
    /\ UNCHANGED <<hostVars, javaVars, natVars, payVars>>

-----------------------------------------------------------------------------
Ensure(t) ==
    \/ FastPath(t) \/ Enter(t) \/ LoadNative(t) \/ NativeInitialize(t)
    \/ InitStage(t) \/ InitStageFails(t) \/ InitDone(t) \/ Commit(t)

PayloadStep == WaitApp \/ Attempt \/ AttemptFailed \/ Wake \/ Started

Next ==
    \/ HostAppReady \/ HostArtVisible
    \/ PayloadStep
    \/ \E t \in Threads : Ensure(t)
    \/ \E t \in Clients : ClientHook(t) \/ ClientNative(t) \/ ClientDeoptimize(t) \/ ClientReturn(t)

\* Threads that can run do run.  The payload gets the monitor when it is free
\* again and again: clients hold it only for one attempt each.
Fairness ==
    /\ WF_vars(PayloadStep)
    /\ \A t \in Threads : WF_vars(Ensure(t)) /\ SF_vars(Enter(t))

Spec == Init /\ [][Next]_vars /\ Fairness

-----------------------------------------------------------------------------
(* Properties                                                              *)

InEnsure == {"load", "init", "stages", "commit"}

\* A thread is inside lsplant::Hook or Deoptimize only after every step of
\* InitNative has succeeded (gLsplantReady in glue.cpp), and who sees nativeOk or
\* reads "ok" in the status file can rely on the whole chain below it: a failed
\* or unfinished initialisation is never used or reported as done.
HookOnlyAfterFullInit ==
    /\ \A t \in Threads :
         pc[t] = "hooking" => \A i \in 1..Stages : installed[i] = 1
    /\ nativeOk \/ status = "ok" =>
         nativeOk /\ ready /\ kInit = "true" /\ libLoaded /\ callbackSet

\* Retries, and threads that race through ensureNative, install the inline
\* hooks of LSPlant at most once per process.
HooksInstalledOnce == \A i \in 1..Stages : installed[i] <= 1

\* What the comment on ensureEngineReady says: the attempts go on until libart is
\* visible.  An attempt that starts once it is has its symbols to look at,
\* whatever earlier attempts met.
RetrySeesLibart ==
    pc[Payload] = "attempt" /\ artVisible => artTables # "empty"

\* startWithCore ends: it never waits for the host or the engine for ever.
PayloadFinishes == <>(pc[Payload] = "done")
=============================================================================
