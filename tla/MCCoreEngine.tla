---------------------------- MODULE MCCoreEngine ----------------------------
(***************************************************************************)
(* An instance of CoreEngine and Dispatch for TLC.  The registry hands a   *)
(* dispatch a copy of its entries, and what the callbacks of one call do   *)
(* with it touches nothing of the registry, so a behaviour follows one of  *)
(* the two: the registry, or one call with any copy.                       *)
(***************************************************************************)
EXTENDS CoreEngine, Dispatch

VARIABLE part \* "registry" or "call": the one that is followed

EngineStart ==
    \/ part = "registry" /\ Init /\ DispatchInit /\ list = << >> /\ void
    \/ part = "call" /\ DispatchInit /\ Init

EngineNext ==
    /\ \/ part = "registry" /\ Next /\ UNCHANGED dispatchVars
       \/ part = "call" /\ DispatchNext /\ UNCHANGED vars
    /\ UNCHANGED part

EngineSpec == EngineStart /\ [][EngineNext]_<<vars, dispatchVars, part>>
=============================================================================
