------------------------- MODULE MCDebuggableGuard -------------------------
(***************************************************************************)
(* Instances of DebuggableGuard for TLC.                                   *)
(***************************************************************************)
EXTENDS DebuggableGuard
=============================================================================
