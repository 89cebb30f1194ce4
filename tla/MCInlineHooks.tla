--------------------------- MODULE MCInlineHooks ---------------------------
(* Two functions of four instructions on two pages, with a page to spare   *)
(* below them: a near block can end exactly at the first function.         *)
EXTENDS InlineHooks, TLC
MCLast == 8 :> 11 @@ 12 :> 15
=============================================================================
