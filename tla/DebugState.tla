----------------------------- MODULE DebugState -----------------------------
(***************************************************************************)
(* What JavaDebuggableGuard promises: the runtime is Java debuggable while *)
(* any thread is inside a guard, and changes only while nobody is.         *)
(***************************************************************************)
EXTENDS FiniteSets

CONSTANT Threads

VARIABLES inside, debuggable

vars == <<inside, debuggable>>

Init == inside = {} /\ debuggable = FALSE

SwitchOn == inside = {} /\ ~debuggable /\ debuggable' = TRUE /\ UNCHANGED inside

SwitchOff == inside = {} /\ debuggable /\ debuggable' = FALSE /\ UNCHANGED inside

Enter(t) ==
    /\ debuggable
    /\ t \notin inside
    /\ inside' = inside \cup {t}
    /\ UNCHANGED debuggable

Leave(t) ==
    /\ t \in inside
    /\ inside' = inside \ {t}
    /\ UNCHANGED debuggable

Next == SwitchOn \/ SwitchOff \/ \E t \in Threads : Enter(t) \/ Leave(t)

Spec == Init /\ [][Next]_vars
=============================================================================
