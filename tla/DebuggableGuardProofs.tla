----------------------- MODULE DebuggableGuardProofs -----------------------
(***************************************************************************)
(* Proofs about DebuggableGuard, for any finite set of threads: count      *)
(* means what CountMeans says, and the guards implement DebugState.        *)
(***************************************************************************)
EXTENDS DebuggableGuard, FiniteSetTheorems, TLAPS

\* Holders is finite and its size is a natural number that tells whether it is
\* empty or a singleton.
LEMMA HoldersCount ==
    /\ IsFiniteSet(Holders)
    /\ Cardinality(Holders) \in Nat
    /\ Cardinality(Holders) = 0 <=> Holders = {}
    /\ \A t \in Holders : Cardinality(Holders) = 1 => Holders = {t}
<1>1. IsFiniteSet(Holders)
  BY ThreadsFinite, FS_Subset DEF Holders
<1>2. Cardinality(Holders) \in Nat /\ (Cardinality(Holders) = 0 <=> Holders = {})
  BY <1>1, FS_CardinalityType, FS_EmptySet
<1>3. ASSUME NEW t \in Holders, Cardinality(Holders) = 1 PROVE Holders = {t}
  BY <1>1, <1>3, FS_Singleton
<1> QED BY <1>1, <1>2, <1>3

\* Entering adds one to the number of holders.
LEMMA HolderEnters ==
    ASSUME NEW t \in Threads, t \notin Holders, Holders' = Holders \cup {t}
    PROVE  Cardinality(Holders') = Cardinality(Holders) + 1
BY HoldersCount, FS_AddElement

\* Leaving takes one from the number of holders.
LEMMA HolderLeaves ==
    ASSUME NEW t \in Holders, Holders' = Holders \ {t}
    PROVE  Cardinality(Holders') = Cardinality(Holders) - 1
BY HoldersCount, FS_RemoveElement

\* The initial state satisfies the invariant.
LEMMA InitIInv == Init => IInv
<1> SUFFICES ASSUME Init PROVE IInv
  OBVIOUS
<1>1. Holders = {} /\ Changers = {}
  BY DEF Init, Holders, Changers
<1>2. TypeOK
  BY DEF Init, TypeOK, Labels
<1>3. CountMeans
  BY <1>1 DEF Init, CountMeans
<1>4. LocalsMean
  BY DEF Init, LocalsMean
<1> QED BY <1>2, <1>3, <1>4 DEF IInv

\* Every step keeps the types.
LEMMA TypeStep ==
    ASSUME IInv, NEW t \in Threads, Construct(t) \/ Destruct(t) \/ Step(t)
    PROVE  TypeOK'
<1> USE DEF IInv, TypeOK, Goto, Labels
<1>1. CASE Construct(t) \/ Destruct(t) \/ SetOn(t) \/ SetOff(t) \/ WaitForChange(t)
  BY <1>1 DEF Construct, Destruct, SetOn, SetOff, WaitForChange
<1>2. CASE FirstCas(t) \/ LastCas(t)
  BY <1>2 DEF FirstCas, LastCas
<1>3. CASE AddOne(t) \/ Join(t)
  BY <1>3 DEF AddOne, Join
<1>4. CASE SubOne(t)
  <2>1. count = 1
    BY <1>4 DEF SubOne, CountMeans, Changers
  <2> QED BY <1>4, <2>1 DEF SubOne
<1>5. CASE Quit(t)
  <2>1. expected[t] \in Nat /\ expected[t] >= 3
    BY <1>5 DEF Quit, LocalsMean
  <2>2. count' \in Nat
    BY <1>5, <2>1 DEF Quit
  <2> QED BY <1>5, <2>2 DEF Quit
<1> QED BY <1>1, <1>2, <1>3, <1>4, <1>5 DEF Step

\* What one step does to the threads that hold a guard and to those that change
\* the runtime's state.
LEMMA Movement ==
    ASSUME TypeOK, NEW t \in Threads, NEW l \in Labels, Goto(t, l)
    PROVE  /\ Holders' = IF l \in {"inside", "last", "lastWait", "quit"}
                         THEN Holders \cup {t} ELSE Holders \ {t}
           /\ Changers' = IF l \in {"setOn", "addOne", "setOff", "subOne"}
                          THEN Changers \cup {t} ELSE Changers \ {t}
           /\ pc'[t] = l
           /\ \A u \in Threads \ {t} : pc'[u] = pc[u]
BY DEF TypeOK, Goto, Holders, Changers

\* Every step preserves the invariant.
LEMMA StepIInv ==
    ASSUME IInv, NEW t \in Threads, Construct(t) \/ Destruct(t) \/ Step(t)
    PROVE  IInv'
<1> USE DEF IInv
<1>1. TypeOK'
  BY TypeStep
<1>2. pc[t] \in {"inside", "last", "lastWait", "quit"} <=> t \in Holders
  BY DEF Holders
<1>3. pc[t] \in {"setOn", "addOne", "setOff", "subOne"} <=> t \in Changers
  BY DEF Changers
<1>4. CASE Construct(t) \/ (WaitForChange(t) /\ pc[t] = "firstWait")
  <2>1. Goto(t, "first") /\ UNCHANGED <<count, debuggable, expected>> /\ t \notin Holders /\ t \notin Changers
    BY <1>2, <1>3, <1>4 DEF Construct, WaitForChange
  <2>2. Holders' = Holders /\ Changers' = Changers
    BY <2>1, Movement DEF Labels
  <2>3. CountMeans'
    BY <2>1, <2>2 DEF CountMeans
  <2>4. LocalsMean'
    BY <2>1, Movement DEF Labels, LocalsMean
  <2> QED BY <1>1, <2>3, <2>4
<1>5. CASE Destruct(t) \/ (WaitForChange(t) /\ pc[t] # "firstWait")
  <2>1. Goto(t, "last") /\ UNCHANGED <<count, debuggable, expected>> /\ t \in Holders /\ t \notin Changers
    BY <1>2, <1>3, <1>5 DEF Destruct, WaitForChange
  <2>2. Holders' = Holders /\ Changers' = Changers
    BY <2>1, Movement DEF Labels
  <2>3. CountMeans'
    BY <2>1, <2>2 DEF CountMeans
  <2>4. LocalsMean'
    BY <2>1, Movement DEF Labels, LocalsMean
  <2> QED BY <1>1, <2>3, <2>4
<1>6. CASE FirstCas(t)
  <2>1. CASE count = 0
    <3>1. Goto(t, "setOn") /\ count' = 1 /\ UNCHANGED debuggable /\ t \notin Holders /\ t \notin Changers
      BY <1>2, <1>3, <1>6, <2>1 DEF FirstCas
    <3>2. Holders = {} /\ Changers = {} /\ ~debuggable
      BY <2>1 DEF CountMeans
    <3>3. Holders' = {} /\ Changers' = {t}
      BY <3>1, <3>2, Movement DEF Labels
    <3>4. CountMeans'
      BY <3>1, <3>2, <3>3 DEF CountMeans
    <3>5. LocalsMean'
      BY <1>6, <3>1, <3>2, Movement DEF Labels, LocalsMean, FirstCas, TypeOK
    <3> QED BY <1>1, <3>4, <3>5
  <2>2. CASE count # 0
    <3>1. Goto(t, IF count = 1 THEN "firstWait" ELSE "join") /\ UNCHANGED <<count, debuggable>> /\ t \notin Holders /\ t \notin Changers
      BY <1>2, <1>3, <1>6, <2>2 DEF FirstCas
    <3>2. Holders' = Holders /\ Changers' = Changers
      BY <3>1, Movement DEF Labels
    <3>3. CountMeans'
      BY <3>1, <3>2 DEF CountMeans
    <3>4. LocalsMean'
      BY <1>6, <2>2, <3>1, Movement DEF Labels, LocalsMean, FirstCas, TypeOK
    <3> QED BY <1>1, <3>3, <3>4
  <2> QED BY <2>1, <2>2
<1>7. CASE SetOn(t) \/ SetOff(t)
  <2>1. t \in Changers /\ t \notin Holders /\ UNCHANGED <<count, expected>>
    BY <1>2, <1>3, <1>7 DEF SetOn, SetOff
  <2>2. Changers = {t} /\ count = 1 /\ Holders = {}
    BY <2>1 DEF CountMeans
  <2>3. Holders' = {} /\ Changers' = {t}
    BY <1>7, <2>2, Movement DEF SetOn, SetOff, Labels
  <2>4. CountMeans'
    BY <2>1, <2>2, <2>3 DEF CountMeans
  <2>5. LocalsMean'
    BY <1>7, <2>2, Movement DEF Labels, LocalsMean, SetOn, SetOff, Changers
  <2> QED BY <1>1, <2>4, <2>5
<1>8. CASE AddOne(t)
  <2>1. t \in Changers /\ t \notin Holders /\ UNCHANGED <<debuggable, expected>> /\ debuggable
    BY <1>2, <1>3, <1>8 DEF AddOne, LocalsMean
  <2>2. Changers = {t} /\ count = 1 /\ Holders = {} /\ count' = 2
    BY <1>8, <2>1 DEF CountMeans, AddOne
  <2>3. Holders' = {t} /\ Changers' = {}
    BY <1>8, <2>2, Movement DEF AddOne, Labels
  <2>4. Cardinality(Holders') = 1
    BY <2>3, FS_Singleton
  <2>5. CountMeans'
    BY <2>1, <2>2, <2>3, <2>4 DEF CountMeans
  <2>6. LocalsMean'
    BY <1>8, <2>1, <2>2, Movement DEF Labels, LocalsMean, AddOne, Changers
  <2> QED BY <1>1, <2>5, <2>6
<1>9. CASE SubOne(t)
  <2>1. t \in Changers /\ t \notin Holders /\ UNCHANGED <<debuggable, expected>> /\ ~debuggable
    BY <1>2, <1>3, <1>9 DEF SubOne, LocalsMean
  <2>2. Changers = {t} /\ count = 1 /\ Holders = {} /\ count' = 0
    BY <1>9, <2>1 DEF CountMeans, SubOne
  <2>3. Holders' = {} /\ Changers' = {}
    BY <1>9, <2>2, Movement DEF SubOne, Labels
  <2>4. CountMeans'
    BY <2>1, <2>2, <2>3 DEF CountMeans
  <2>5. LocalsMean'
    BY <1>9, <2>1, <2>2, Movement DEF Labels, LocalsMean, SubOne, Changers
  <2> QED BY <1>1, <2>4, <2>5
<1>10. CASE Join(t)
  <2>1. CASE count = expected[t]
    <3>1. count' = count + 1 /\ Goto(t, "inside") /\ UNCHANGED <<debuggable, expected>> /\ t \notin Holders /\ t \notin Changers
      BY <1>2, <1>3, <1>10, <2>1 DEF Join
    <3>2. count \in Nat /\ count >= 2
      BY <1>10, <2>1 DEF Join, LocalsMean, TypeOK
    <3>3. Holders' = Holders \cup {t} /\ Changers' = Changers
      BY <3>1, Movement DEF Labels
    <3>4. Cardinality(Holders') = Cardinality(Holders) + 1
      BY <3>1, <3>3, HolderEnters
    <3>5. CountMeans'
      BY <3>1, <3>2, <3>3, <3>4, HoldersCount DEF CountMeans
    <3>6. LocalsMean'
      BY <3>1, Movement DEF Labels, LocalsMean
    <3> QED BY <1>1, <3>5, <3>6
  <2>2. CASE count # expected[t]
    <3>1. UNCHANGED <<count, debuggable, expected>> /\ Goto(t, "first") /\ t \notin Holders /\ t \notin Changers
      BY <1>2, <1>3, <1>10, <2>2 DEF Join
    <3>2. Holders' = Holders /\ Changers' = Changers
      BY <3>1, Movement DEF Labels
    <3>3. CountMeans'
      BY <3>1, <3>2 DEF CountMeans
    <3>4. LocalsMean'
      BY <3>1, Movement DEF Labels, LocalsMean
    <3> QED BY <1>1, <3>3, <3>4
  <2> QED BY <2>1, <2>2
<1>11. CASE LastCas(t)
  <2>1. t \in Holders /\ t \notin Changers /\ count # 0 /\ count # 1 /\ debuggable /\ Changers = {}
    BY <1>2, <1>3, <1>11 DEF LastCas, CountMeans
  <2>2. CASE count = 2
    <3>1. Goto(t, "setOff") /\ count' = 1 /\ UNCHANGED debuggable
      BY <1>11, <2>2 DEF LastCas
    <3>2. Holders = {t}
      BY <2>1, <2>2, HoldersCount DEF CountMeans
    <3>3. Holders' = {} /\ Changers' = {t}
      BY <2>1, <3>1, <3>2, Movement DEF Labels
    <3>4. CountMeans'
      BY <3>1, <3>3 DEF CountMeans
    <3>5. LocalsMean'
      BY <1>11, <2>1, <3>1, Movement DEF Labels, LocalsMean, LastCas, TypeOK
    <3> QED BY <1>1, <3>4, <3>5
  <2>3. CASE count # 2
    <3>1. Goto(t, "quit") /\ UNCHANGED <<count, debuggable>>
      BY <1>11, <2>1, <2>3 DEF LastCas
    <3>2. Holders' = Holders /\ Changers' = Changers
      BY <2>1, <3>1, Movement DEF Labels
    <3>3. CountMeans'
      BY <3>1, <3>2 DEF CountMeans
    <3>4. LocalsMean'
      BY <1>11, <2>1, <2>3, <3>1, Movement DEF Labels, LocalsMean, LastCas, TypeOK
    <3> QED BY <1>1, <3>3, <3>4
  <2> QED BY <2>2, <2>3
<1>12. CASE Quit(t)
  <2>1. CASE count = expected[t]
    <3>1. count' = count - 1 /\ Goto(t, "out") /\ UNCHANGED <<debuggable, expected>> /\ t \in Holders /\ t \notin Changers
      BY <1>2, <1>3, <1>12, <2>1 DEF Quit
    <3>2. count \in Nat /\ count >= 3
      BY <1>12, <2>1 DEF Quit, LocalsMean, TypeOK
    <3>3. Holders' = Holders \ {t} /\ Changers' = Changers
      BY <3>1, Movement DEF Labels
    <3>4. Cardinality(Holders') = Cardinality(Holders) - 1
      BY <3>1, <3>3, HolderLeaves
    <3>5. Cardinality({}) = 0
      BY FS_EmptySet
    <3>6. Holders' # {} /\ count' = Cardinality(Holders') + 1
      BY <3>1, <3>2, <3>4, <3>5, HoldersCount DEF CountMeans
    <3>7. CountMeans'
      BY <3>1, <3>2, <3>3, <3>6 DEF CountMeans
    <3>8. LocalsMean'
      BY <3>1, Movement DEF Labels, LocalsMean
    <3> QED BY <1>1, <3>7, <3>8
  <2>2. CASE count # expected[t]
    <3>1. UNCHANGED <<count, debuggable, expected>> /\ Goto(t, "last") /\ t \in Holders /\ t \notin Changers
      BY <1>2, <1>3, <1>12, <2>2 DEF Quit
    <3>2. Holders' = Holders /\ Changers' = Changers
      BY <3>1, Movement DEF Labels
    <3>3. CountMeans'
      BY <3>1, <3>2 DEF CountMeans
    <3>4. LocalsMean'
      BY <3>1, Movement DEF Labels, LocalsMean
    <3> QED BY <1>1, <3>3, <3>4
  <2> QED BY <2>1, <2>2
<1> QED BY <1>4, <1>5, <1>6, <1>7, <1>8, <1>9, <1>10, <1>11, <1>12 DEF Step

\* Every step of the specification preserves the invariant.
LEMMA NextIInv == IInv /\ [Next]_vars => IInv'
<1>1. ASSUME IInv, UNCHANGED vars PROVE IInv'
  BY <1>1 DEF vars, IInv, TypeOK, CountMeans, LocalsMean, Holders, Changers
<1> QED BY <1>1, StepIInv DEF Next

\* The inductive invariant holds in every reachable state.
THEOREM Invariance == Spec => []IInv
BY InitIInv, NextIInv, PTL DEF Spec

\* A step of a guard is a step of DebugState or changes nothing there.
LEMMA StepSimulation ==
    ASSUME IInv, IInv', NEW t \in Threads, Construct(t) \/ Destruct(t) \/ Step(t)
    PROVE  [Abstract!Next]_Abstract!vars
<1> USE DEF IInv
<1>1. pc[t] \in {"inside", "last", "lastWait", "quit"} <=> t \in Holders
  BY DEF Holders
<1>2. CASE Construct(t) \/ (WaitForChange(t) /\ pc[t] = "firstWait") \/ FirstCas(t)
  <2>1. UNCHANGED debuggable /\ Holders' = Holders
    BY <1>1, <1>2, Movement DEF Construct, WaitForChange, FirstCas, Labels
  <2> QED BY <2>1 DEF Abstract!vars
<1>3. CASE Destruct(t) \/ (WaitForChange(t) /\ pc[t] # "firstWait")
  <2>1. UNCHANGED debuggable /\ Holders' = Holders
    BY <1>1, <1>3, Movement DEF Destruct, WaitForChange, Labels
  <2> QED BY <2>1 DEF Abstract!vars
<1>4. CASE SetOn(t)
  <2>1. Holders = {} /\ Holders' = {} /\ ~debuggable /\ debuggable'
    BY <1>4, Movement DEF SetOn, Labels, CountMeans, Changers, LocalsMean
  <2> QED BY <2>1, <1>4 DEF Abstract!Next, Abstract!SwitchOn, SetOn
<1>5. CASE SetOff(t)
  <2>1. Holders = {} /\ Holders' = {} /\ debuggable /\ ~debuggable'
    BY <1>5, Movement DEF SetOff, Labels, CountMeans, Changers, LocalsMean
  <2> QED BY <2>1, <1>5 DEF Abstract!Next, Abstract!SwitchOff, SetOff
<1>6. CASE SubOne(t)
  <2>1. UNCHANGED debuggable /\ Holders' = Holders
    BY <1>1, <1>6, Movement DEF SubOne, Labels
  <2> QED BY <2>1 DEF Abstract!vars
<1>7. CASE AddOne(t) \/ Join(t)
  <2>1. UNCHANGED debuggable /\ t \notin Holders /\ (Holders' = Holders \/ (Holders' = Holders \cup {t}))
    BY <1>1, <1>7, Movement DEF AddOne, Join, Labels
  <2>2. Holders' # Holders => debuggable
    <3>1. CASE AddOne(t)
      BY <3>1 DEF AddOne, LocalsMean
    <3>2. CASE Join(t)
      BY <3>2, <1>1, Movement DEF Join, LocalsMean, CountMeans, TypeOK, Labels
    <3> QED BY <1>7, <3>1, <3>2
  <2> QED BY <2>1, <2>2 DEF Abstract!Next, Abstract!Enter, Abstract!vars
<1>8. CASE LastCas(t) \/ Quit(t)
  <2>1. UNCHANGED debuggable /\ t \in Holders /\ (Holders' = Holders \/ Holders' = Holders \ {t})
    BY <1>1, <1>8, Movement DEF LastCas, Quit, Labels
  <2> QED BY <2>1 DEF Abstract!Next, Abstract!Leave, Abstract!vars
<1> QED BY <1>2, <1>3, <1>4, <1>5, <1>6, <1>7, <1>8 DEF Step

\* JavaDebuggableGuard implements DebugState.
THEOREM GuardImplementsDebugState == Spec => AbstractSpec
<1>1. Init => Abstract!Init
  BY DEF Init, Abstract!Init, Holders
<1>2. IInv /\ IInv' /\ [Next]_vars => [Abstract!Next]_Abstract!vars
  <2>1. ASSUME UNCHANGED vars PROVE UNCHANGED Abstract!vars
    BY <2>1 DEF vars, Abstract!vars, Holders
  <2> QED BY <2>1, StepSimulation DEF Next
<1> QED BY <1>1, <1>2, Invariance, PTL DEF Spec, AbstractSpec, Abstract!Spec

\* When all guards are gone the runtime is not debuggable and count is zero.
THEOREM RestoredAtTheEnd == Spec => []RestoredWhenIdle
<1>1. IInv => RestoredWhenIdle
  <2> SUFFICES ASSUME IInv, \A t \in Threads : pc[t] = "out" PROVE ~debuggable /\ count = 0
    BY DEF RestoredWhenIdle
  <2>1. Holders = {} /\ Changers = {}
    BY DEF Holders, Changers
  <2> QED BY <2>1 DEF IInv, CountMeans
<1> QED BY <1>1, Invariance, PTL

\* The destructor's wait is never reached: while its own guard counts nobody
\* changes the state.
THEOREM DestructorsDoNotWait == Spec => []DestructorNeverWaits
<1>1. Init => DestructorNeverWaits
  BY DEF Init, DestructorNeverWaits
<1>2. IInv /\ DestructorNeverWaits /\ [Next]_vars => DestructorNeverWaits'
  <2> SUFFICES ASSUME IInv, DestructorNeverWaits, [Next]_vars PROVE DestructorNeverWaits'
    OBVIOUS
  <2>1. CASE UNCHANGED vars
    BY <2>1 DEF vars, DestructorNeverWaits
  <2>2. ASSUME NEW t \in Threads, Construct(t) \/ Destruct(t) \/ Step(t)
        PROVE  DestructorNeverWaits'
    <3>1. pc[t] = "last" => count # 1
      BY DEF IInv, CountMeans, Holders
    <3>2. \A u \in Threads \ {t} : pc'[u] = pc[u]
      BY <2>2 DEF IInv, TypeOK, Construct, Destruct, Step, FirstCas, SetOn, AddOne, Join, LastCas, SetOff, SubOne, Quit, WaitForChange, Goto
    <3>3. pc'[t] # "lastWait"
      BY <2>2, <3>1 DEF IInv, TypeOK, DestructorNeverWaits, Construct, Destruct, Step, FirstCas, SetOn, AddOne, Join, LastCas, SetOff, SubOne, Quit, WaitForChange, Goto
    <3> QED BY <3>2, <3>3 DEF DestructorNeverWaits
  <2> QED BY <2>1, <2>2 DEF Next
<1> QED BY <1>1, <1>2, Invariance, PTL DEF Spec
=============================================================================
