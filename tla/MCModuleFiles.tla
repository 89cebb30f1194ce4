--------------------------- MODULE MCModuleFiles ----------------------------
(***************************************************************************)
(* An instance of Staging and WebUI for TLC.  The files of the module and  *)
(* its settings are written by different programs to different places, so  *)
(* a behaviour follows one of the two.                                     *)
(*                                                                         *)
(* Versions 1 and 2 start alike, 3 does not.                               *)
(***************************************************************************)
EXTENDS Staging, WebUI

VARIABLE part \* "staging" or "page": the one that is followed

Heads == [v \in Versions |-> IF v = 3 THEN "b" ELSE "a"]

FilesInit ==
    \/ part = "staging" /\ Init /\ PageInit
    \/ part = "page" /\ PageInit /\ Init /\ dirs = {} /\ modVer = 1

FilesNext ==
    /\ \/ part = "staging" /\ Next /\ UNCHANGED pageVars
       \/ part = "page" /\ PageNext /\ UNCHANGED vars
    /\ UNCHANGED part

FilesSpec == FilesInit /\ [][FilesNext]_<<vars, pageVars, part>>
=============================================================================
