-------------------------- MODULE DebuggableGuard --------------------------
(***************************************************************************)
(* JavaDebuggableGuard of art/runtime/runtime.cxx, one step per atomic     *)
(* operation on count.  count is 0 when nobody is inside, 1 while a thread *)
(* changes the runtime's state, and one more than the number of guards     *)
(* otherwise.                                                              *)
(***************************************************************************)
EXTENDS Integers, FiniteSets

CONSTANT Threads

ASSUME ThreadsFinite == IsFiniteSet(Threads)

VARIABLES
    count,      \* JavaDebuggableGuard::count
    debuggable, \* the runtime is in a debuggable state
    pc,         \* per thread
    expected    \* per thread: the local of constructor and destructor

vars == <<count, debuggable, pc, expected>>

Init ==
    /\ count = 0
    /\ debuggable = FALSE
    /\ pc = [t \in Threads |-> "out"]
    /\ expected = [t \in Threads |-> 0]

Goto(t, label) == pc' = [pc EXCEPT ![t] = label]

-----------------------------------------------------------------------------
(* The constructor.                                                        *)

Construct(t) ==
    /\ pc[t] = "out"
    /\ Goto(t, "first")
    /\ UNCHANGED <<count, debuggable, expected>>

\* The first compare_exchange, 0 -> 1, and what it leaves in expected.
FirstCas(t) ==
    /\ pc[t] = "first"
    /\ expected' = [expected EXCEPT ![t] = count]
    /\ IF count = 0
       THEN count' = 1 /\ Goto(t, "setOn")
       ELSE UNCHANGED count /\ Goto(t, IF count = 1 THEN "firstWait" ELSE "join")
    /\ UNCHANGED debuggable

SetOn(t) ==
    /\ pc[t] = "setOn"
    /\ debuggable' = TRUE
    /\ Goto(t, "addOne")
    /\ UNCHANGED <<count, expected>>

\* count.fetch_add(1); notify_all
AddOne(t) ==
    /\ pc[t] = "addOne"
    /\ count' = count + 1
    /\ Goto(t, "inside")
    /\ UNCHANGED <<debuggable, expected>>

\* The second compare_exchange, expected -> expected + 1.
Join(t) ==
    /\ pc[t] = "join"
    /\ IF count = expected[t]
       THEN count' = count + 1 /\ Goto(t, "inside")
       ELSE UNCHANGED count /\ Goto(t, "first")
    /\ UNCHANGED <<debuggable, expected>>

-----------------------------------------------------------------------------
(* The destructor.                                                         *)

Destruct(t) ==
    /\ pc[t] = "inside"
    /\ Goto(t, "last")
    /\ UNCHANGED <<count, debuggable, expected>>

\* Fault: the last guard is recognised one too early.
LastCasEarly(t) ==
    /\ pc[t] = "last"
    /\ expected' = [expected EXCEPT ![t] = count]
    /\ IF count \in {2, 3}
       THEN count' = 1 /\ Goto(t, "setOff")
       ELSE UNCHANGED count /\ Goto(t, IF count = 1 THEN "lastWait" ELSE "quit")
    /\ UNCHANGED debuggable

\* The first compare_exchange, 2 -> 1.
LastCas(t) ==
    /\ pc[t] = "last"
    /\ expected' = [expected EXCEPT ![t] = count]
    /\ IF count = 2
       THEN count' = 1 /\ Goto(t, "setOff")
       ELSE UNCHANGED count /\ Goto(t, IF count = 1 THEN "lastWait" ELSE "quit")
    /\ UNCHANGED debuggable

SetOff(t) ==
    /\ pc[t] = "setOff"
    /\ debuggable' = FALSE
    /\ Goto(t, "subOne")
    /\ UNCHANGED <<count, expected>>

\* Fault: the change is not ended.
SubOneForgotten(t) ==
    /\ pc[t] = "subOne"
    /\ Goto(t, "out")
    /\ UNCHANGED <<count, debuggable, expected>>

\* count.fetch_sub(1); notify_all
SubOne(t) ==
    /\ pc[t] = "subOne"
    /\ count' = count - 1
    /\ Goto(t, "out")
    /\ UNCHANGED <<debuggable, expected>>

\* The second compare_exchange, expected -> expected - 1.
Quit(t) ==
    /\ pc[t] = "quit"
    /\ IF count = expected[t]
       THEN count' = count - 1 /\ Goto(t, "out")
       ELSE UNCHANGED count /\ Goto(t, "last")
    /\ UNCHANGED <<debuggable, expected>>

\* count.wait(1) of either; then the loop starts again.
WaitForChange(t) ==
    /\ pc[t] \in {"firstWait", "lastWait"}
    /\ count # 1
    /\ Goto(t, IF pc[t] = "firstWait" THEN "first" ELSE "last")
    /\ UNCHANGED <<count, debuggable, expected>>

-----------------------------------------------------------------------------
Step(t) ==
    \/ FirstCas(t) \/ SetOn(t) \/ AddOne(t) \/ Join(t)
    \/ LastCas(t) \/ SetOff(t) \/ SubOne(t) \/ Quit(t)
    \/ WaitForChange(t)

Next == \E t \in Threads : Construct(t) \/ Destruct(t) \/ Step(t)

\* A thread runs on while it is in a constructor, a guarded block or a
\* destructor; it need not construct another guard.
Spec == Init /\ [][Next]_vars /\ \A t \in Threads : WF_vars(Destruct(t) \/ Step(t))

-----------------------------------------------------------------------------
(* Properties                                                              *)

Labels == {"out", "first", "setOn", "addOne", "firstWait", "join", "inside",
           "last", "setOff", "subOne", "lastWait", "quit"}

\* Threads whose guard counts.
Holders == {t \in Threads : pc[t] \in {"inside", "last", "lastWait", "quit"}}

\* Threads that are changing the runtime's state.
Changers == {t \in Threads : pc[t] \in {"setOn", "addOne", "setOff", "subOne"}}

\* Every variable has its type.
TypeOK ==
    /\ count \in Nat
    /\ debuggable \in BOOLEAN
    /\ pc \in [Threads -> Labels]
    /\ expected \in [Threads -> Nat]

\* The guards implement DebugState: the state is debuggable while anyone is
\* inside, and is switched only while nobody is.
Abstract == INSTANCE DebugState WITH inside <- Holders
AbstractSpec == Abstract!Spec

\* When every guard is gone the runtime is as it was before, ready for the next.
RestoredWhenIdle == (\A t \in Threads : pc[t] = "out") => ~debuggable /\ count = 0

\* A destructor never has to wait: the state is not changed while its guard counts.
DestructorNeverWaits == \A t \in Threads : pc[t] # "lastWait"

\* A change of the state ends, so that waiting threads can go on.
ChangeEnds == (count = 1) ~> (count # 1)

\* What count means; the inductive invariant of DebuggableGuardProofs.
CountMeans ==
    /\ \A t, u \in Changers : t = u
    /\ count = 1 <=> Changers # {}
    /\ count = 1 => Holders = {}
    /\ count = 0 => Holders = {} /\ ~debuggable
    /\ count # 0 /\ count # 1 => Holders # {} /\ debuggable /\ count = Cardinality(Holders) + 1

LocalsMean ==
    \A t \in Threads :
        /\ pc[t] \in {"setOn", "subOne"} => ~debuggable
        /\ pc[t] \in {"addOne", "setOff"} => debuggable
        /\ pc[t] = "join" => expected[t] >= 2
        /\ pc[t] = "quit" => expected[t] >= 3

IInv == TypeOK /\ CountMeans /\ LocalsMean
=============================================================================
