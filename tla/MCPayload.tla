----------------------------- MODULE MCPayload ------------------------------
(***************************************************************************)
(* An instance of EngineInit and GlassBar for TLC: the payload before and  *)
(* after scheduleAttach.  The Runnable uses nothing of the engine, so a    *)
(* behaviour follows one of the two; after scheduleAttach the start-up is  *)
(* over.                                                                   *)
(***************************************************************************)
EXTENDS EngineInit, GlassBar

VARIABLE part \* "start" or "bar": the one that is followed

\* The start-up is over.
Over ==
    /\ appReady = TRUE /\ artVisible = TRUE /\ loaderLib = TRUE /\ absLib = TRUE
    /\ callbackSet = TRUE /\ nativeOk = TRUE /\ owner = Null
    /\ libLoaded = TRUE /\ artTables = "mapped" /\ kInit = "true" /\ ready = TRUE
    /\ installed = [i \in 1..Stages |-> 1] /\ stage = Stages + 1
    /\ pc = [t \in Threads |-> IF t = Payload THEN "done" ELSE "idle"]
    /\ sees = [t \in Threads |-> FALSE]
    /\ budget = Budget /\ status = "ok"

PayloadInit ==
    \/ part = "start" /\ Init /\ BarInit /\ ~appSet /\ size = [p \in Procs |-> 1]
    \/ part = "bar" /\ BarInit /\ Over

\* The host may be idle once the Runnable has ended.
PayloadNext ==
    /\ \/ part = "start" /\ Next /\ UNCHANGED glassVars
       \/ part = "bar" /\ (BarNext \/ (~posted /\ UNCHANGED glassVars)) /\ UNCHANGED vars
    /\ UNCHANGED part

PayloadSpec ==
    PayloadInit /\ [][PayloadNext]_<<vars, glassVars, part>> /\ Fairness /\ BarFairness

=============================================================================
