-------------------------- MODULE MCTrampolinePool --------------------------
(***************************************************************************)
(* Instances of TrampolinePool for TLC.                                    *)
(***************************************************************************)
EXTENDS TrampolinePool
=============================================================================
