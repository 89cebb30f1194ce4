---------------------------- MODULE LsplantProofs ----------------------------
(***************************************************************************)
(* Proofs about Lsplant and its five parts.                                *)
(*                                                                         *)
(* ArtHooks, for any number of threads, methods and stubs, in three layers.*)
(*                                                                         *)
(* MapsInv: the maps of common.cxx agree with each other and with LSPlant's*)
(* own method ids, whatever overlaps.  They are not changed in one step:   *)
(* between two steps of a Hook or UnHook they disagree.  The invariant     *)
(* therefore says, for each step, how they disagree (Progress), that one   *)
(* thread at a time is at a method (OneHolder), and that a stub no map     *)
(* knows yet is nobody else's (Fresh).                                     *)
(*                                                                         *)
(* EntryInv: a target whose operations never overlapped keeps its          *)
(* trampoline, in the ArtMethod or saved for RestoreBackup.                *)
(*                                                                         *)
(* OriginalInv: the ArtMethod that stands for the original of such a       *)
(* target, its stub or the target itself, is like the original, or will be *)
(* once RestoreBackup has run.                                             *)
(*                                                                         *)
(* JniRefs.  JniInv: what a wrapper or a raw variable holds is alive, no   *)
(* two hold the same, and what is alive is held or known to be lost.       *)
(*                                                                         *)
(* ArtMethod.  MethodInv: the layout that Init has found so far is that of *)
(* the device, and after DoHook, DoUnHook and MakeClassInheritable the     *)
(* methods differ from what they were in the fields meant to change.       *)
(*                                                                         *)
(* LsplantInit.  InitInv: what the stages passed so far have looked up was *)
(* found (Facts), and a failure has an excuse in the device (Excused).     *)
(*                                                                         *)
(* HookStub.  StubInv: the entry of a hooked method is the trampoline of   *)
(* its processor with the offset put in.                                   *)
(***************************************************************************)
EXTENDS Lsplant, Integers, Sequences, NaturalsInduction, WellFoundedInduction, TLAPS

Busy == InHook \cup InUnhook
Labels == {"idle"} \cup Busy \cup InDeoptimize

\* The steps of a Hook before the maps know its stub.
Early == {"doHook", "recordClass", "recordMethod"}

MapsTyped ==
    /\ hooked \in [Targets -> Backups \cup {None}]
    /\ hookedBy \in [Backups -> Targets \cup {None}]
    /\ hookedClasses \subseteq Targets
    /\ internal \in [Targets -> Methods]
    /\ pc \in [Threads -> Labels]
    /\ arg \in [Threads -> Targets \cup {None}]
    /\ bk \in [Threads -> Methods \cup {None}]
    /\ built \subseteq Backups
    /\ \A t \in Threads : pc[t] # "idle" => arg[t] \in Targets
    /\ \A t \in Threads : pc[t] \in Busy => bk[t] \in built

\* The monitor of the Holder: one Hook or UnHook at a time per method.
OneHolder ==
    \A t, u \in Threads :
        pc[t] \in Busy /\ pc[u] \in Busy /\ arg[t] = arg[u] => t = u

\* A stub that was not built, or whose Hook has not recorded it, is in no map,
\* and two such Hooks have different stubs.
Fresh ==
    /\ \A b \in Backups \ built : hookedBy[b] = None
    /\ \A t \in Threads : pc[t] \in Early => hookedBy[bk[t]] = None
    /\ \A t, u \in Threads : pc[t] \in Early /\ pc[u] \in Early /\ bk[t] = bk[u] => t = u

\* The maps agree about m.
Agree(m) ==
    /\ IsHooked(m) <=> m \in hookedClasses
    /\ \A b \in Backups : hooked[m] = b <=> hookedBy[b] = m
    /\ internal[m] = IF IsHooked(m) THEN hooked[m] ELSE m

\* How the maps stand while a thread is at step l of a Hook or UnHook of m with
\* stub s.
Stand(l, m, s) ==
    /\ l \in {"recordDeoptClass", "recordDeopt"} <=> hooked[m] # None
    /\ l \in {"recordMethod", "recordDeoptClass", "recordDeopt", "eraseBackup", "eraseClass"}
         <=> m \in hookedClasses
    /\ \A b \in Backups :
         hookedBy[b] = m <=> b = s /\ l \in {"recordDeoptClass", "recordDeopt", "eraseBackup"}
    /\ internal[m] = IF l \in {"doHook", "recordClass"} THEN m ELSE s
    /\ hooked[m] \in {None, s}
Progress == \A t \in Threads : pc[t] \in Busy => Stand(pc[t], arg[t], bk[t])

\* A method nobody hooks or unhooks.
Settled == \A m \in Targets : (\A t \in Threads : arg[t] = m => pc[t] \notin Busy) => Agree(m)

MapsInv == MapsTyped /\ OneHolder /\ Fresh /\ Progress /\ Settled

regVars == <<hooked, hookedBy, hookedClasses, internal, built>>

-----------------------------------------------------------------------------
\* The initial states satisfy the invariant.
LEMMA InitMapsInv == Init => MapsInv
<1> SUFFICES ASSUME Init PROVE MapsInv
  OBVIOUS
<1>1. MapsTyped
  BY DEF Init, MapsTyped, Methods, Labels, Busy, InHook, InUnhook
<1>2. OneHolder /\ Fresh /\ Progress
  BY DEF Init, OneHolder, Fresh, Progress, Busy, Early, InHook, InUnhook
<1>3. Settled
  BY NamesAssumption DEF Init, Settled, Agree, IsHooked
<1> QED BY <1>1, <1>2, <1>3 DEF MapsInv

\* The locals of the threads after a step of t.
LEMMA LocalMoves ==
    ASSUME MapsTyped, NEW t \in Threads, NEW l \in Labels, NEW m \in Targets \cup {None},
           NEW b \in Methods \cup {None}, Local(t, l, m, b)
    PROVE  /\ pc' \in [Threads -> Labels]
           /\ arg' \in [Threads -> Targets \cup {None}]
           /\ bk' \in [Threads -> Methods \cup {None}]
           /\ pc'[t] = l /\ arg'[t] = m /\ bk'[t] = b
           /\ \A u \in Threads \ {t} : pc'[u] = pc[u] /\ arg'[u] = arg[u] /\ bk'[u] = bk[u]
BY DEF MapsTyped, Local

\* A step that leaves the maps alone and moves a thread, if any, between steps
\* that belong to no Hook or UnHook.
LEMMA QuietStep ==
    ASSUME MapsInv, UNCHANGED regVars, NEW t \in Threads, NEW l \in Labels \ Busy,
           NEW m \in Targets \cup {None}, NEW b \in Methods \cup {None},
           pc[t] \notin Busy, Local(t, l, m, b), l # "idle" => m # None
    PROVE  MapsInv'
<1>1. /\ pc' \in [Threads -> Labels]
      /\ arg' \in [Threads -> Targets \cup {None}]
      /\ bk' \in [Threads -> Methods \cup {None}]
      /\ pc'[t] = l /\ arg'[t] = m /\ bk'[t] = b
      /\ \A u \in Threads \ {t} : pc'[u] = pc[u] /\ arg'[u] = arg[u] /\ bk'[u] = bk[u]
  BY LocalMoves DEF MapsInv
<1>2. MapsTyped'
  BY <1>1 DEF MapsInv, MapsTyped, regVars
<1>3. OneHolder'
  BY <1>1 DEF MapsInv, OneHolder
<1>4. Fresh'
  <2>1. l \notin Early
    BY DEF Busy, Early, InHook
  <2> QED BY <1>1, <2>1 DEF MapsInv, Fresh, regVars
<1>5. Progress'
  BY <1>1 DEF MapsInv, Progress, Stand, regVars
<1>6. Settled'
  BY <1>1 DEF MapsInv, Settled, Agree, IsHooked, regVars
<1> QED BY <1>2, <1>3, <1>4, <1>5, <1>6 DEF MapsInv

\* A step that changes none of the variables the invariant is about.
LEMMA StutterStep == MapsInv /\ UNCHANGED <<regVars, thrVars>> => MapsInv'
BY DEF MapsInv, MapsTyped, OneHolder, Fresh, Progress, Stand, Settled, Agree, IsHooked, regVars, thrVars

\* A step of thread t in a Hook or UnHook of m.  It changes the maps for m
\* alone; its obligations are the next step's stand, or agreement when it is
\* the last.
LEMMA BusyStep ==
    ASSUME MapsInv, NEW t \in Threads, NEW m \in Targets, NEW l \in Busy \cup {"idle"},
           NEW a \in {m, None}, NEW b \in Methods \cup {None}, Local(t, l, a, b),
           l \in Busy => a = m /\ b \in built', pc[t] \in Busy => arg[t] = m,
           \A u \in Threads \ {t} : pc[u] \in Busy => arg[u] # m,
           hooked' \in [Targets -> Backups \cup {None}],
           hookedBy' \in [Backups -> Targets \cup {None}],
           hookedClasses' \subseteq Targets,
           internal' \in [Targets -> Methods],
           built \subseteq built', built' \subseteq Backups,
           \A n \in Targets \ {m} :
               /\ hooked'[n] = hooked[n] /\ internal'[n] = internal[n]
               /\ n \in hookedClasses' <=> n \in hookedClasses
               /\ \A c \in Backups : hookedBy'[c] = n <=> hookedBy[c] = n,
           l \in Busy => Stand(l, m, b)',
           l = "idle" => Agree(m)',
           Fresh'
    PROVE  MapsInv'
<1>1. /\ pc' \in [Threads -> Labels]
      /\ arg' \in [Threads -> Targets \cup {None}]
      /\ bk' \in [Threads -> Methods \cup {None}]
      /\ pc'[t] = l /\ arg'[t] = a /\ bk'[t] = b
      /\ \A u \in Threads \ {t} : pc'[u] = pc[u] /\ arg'[u] = arg[u] /\ bk'[u] = bk[u]
  <2>1. l \in Labels /\ a \in Targets \cup {None}
    BY DEF Labels
  <2> QED BY <2>1, LocalMoves DEF MapsInv
<1>2. MapsTyped'
  BY <1>1, NamesAssumption DEF MapsInv, MapsTyped, Labels
<1>3. OneHolder'
  BY <1>1 DEF MapsInv, OneHolder
<1>4. Progress'
  <2> SUFFICES ASSUME NEW u \in Threads, pc'[u] \in Busy PROVE Stand(pc[u], arg[u], bk[u])'
    BY DEF Progress
  <2>1. CASE u = t
    BY <1>1, <2>1
  <2>2. CASE u # t
    <3>1. /\ pc'[u] = pc[u] /\ arg'[u] = arg[u] /\ bk'[u] = bk[u]
          /\ arg[u] \in Targets \ {m} /\ Stand(pc[u], arg[u], bk[u])
      BY <1>1, <2>2 DEF MapsInv, MapsTyped, Progress, Busy, InHook, InUnhook
    <3> QED BY <3>1 DEF Stand
  <2> QED BY <2>1, <2>2
<1>5. Settled'
  <2> SUFFICES ASSUME NEW n \in Targets, \A u \in Threads : arg'[u] = n => pc'[u] \notin Busy
               PROVE  Agree(n)'
    BY DEF Settled
  <2>1. CASE n = m
    BY <1>1, <2>1
  <2>2. CASE n # m
    <3>1. \A u \in Threads : arg[u] = n => pc[u] \notin Busy \/ u = t
      BY <1>1
    <3>2. arg[t] = n => pc[t] \notin Busy
      BY <2>2
    <3>3. Agree(n)
      BY <3>1, <3>2 DEF MapsInv, Settled
    <3> QED BY <2>2, <3>3 DEF Agree, IsHooked
  <2> QED BY <2>1, <2>2
<1> QED BY <1>2, <1>3, <1>4, <1>5 DEF MapsInv

-----------------------------------------------------------------------------
\* The steps of Hook.
LEMMA HookMaps ==
    ASSUME MapsInv, NEW t \in Threads, Hook(t)
    PROVE  MapsInv'
<1>1. PICK m \in Targets, b \in Backups \ built :
         /\ pc[t] = "idle" /\ HolderFree(m) /\ ~IsHooked(m)
         /\ built' = built \cup {b} /\ Local(t, "doHook", m, b)
         /\ UNCHANGED <<hooked, hookedBy, hookedClasses, internal>>
  BY DEF Hook, mapVars
<1> USE DEF Busy, InHook, InUnhook
<1>2. \A u \in Threads : pc[u] \in Busy => arg[u] # m
  BY <1>1 DEF HolderFree
<1>3. Agree(m)
  BY <1>2 DEF MapsInv, Settled
<1>4. Stand("doHook", m, b)'
  BY <1>1, <1>3, NamesAssumption DEF Stand, Agree, IsHooked, MapsInv, MapsTyped
<1>5. Fresh'
  <2>1. \A u \in Threads : pc[u] \in Early => bk[u] # b
    BY DEF MapsInv, MapsTyped, Early
  <2>2. /\ pc'[t] = "doHook" /\ bk'[t] = b
        /\ \A u \in Threads \ {t} : pc'[u] = pc[u] /\ bk'[u] = bk[u]
    BY <1>1, LocalMoves DEF MapsInv, Labels, Methods
  <2> QED BY <1>1, <2>1, <2>2 DEF MapsInv, Fresh, Early
<1>6. /\ hooked' \in [Targets -> Backups \cup {None}]
      /\ hookedBy' \in [Backups -> Targets \cup {None}]
      /\ hookedClasses' \subseteq Targets /\ internal' \in [Targets -> Methods]
      /\ built \subseteq built' /\ built' \subseteq Backups /\ b \in built' /\ b \in Methods
  BY <1>1 DEF MapsInv, MapsTyped, Methods
<1> QED BY <1>1, <1>2, <1>4, <1>5, <1>6, BusyStep

\* A step of a Hook or UnHook of which the maps keep their places: the typing
\* and exclusion facts BusyStep asks for.
LEMMA InBusy ==
    ASSUME MapsInv, NEW t \in Threads, pc[t] \in Busy
    PROVE  /\ arg[t] \in Targets /\ bk[t] \in built /\ bk[t] \in Methods /\ bk[t] \in Backups
           /\ \A u \in Threads \ {t} : pc[u] \in Busy => arg[u] # arg[t]
           /\ Stand(pc[t], arg[t], bk[t])
BY DEF MapsInv, MapsTyped, OneHolder, Progress, Methods, Busy, InHook, InUnhook

\* A step of t from `from` to `to` that leaves the maps alone, or returns.
LEMMA BusyMove ==
    ASSUME MapsInv, NEW t \in Threads, pc[t] \in Busy, UNCHANGED regVars,
           \/ Return(t) /\ Agree(arg[t])
           \/ \E l \in Busy : Goto(t, l) /\ Stand(l, arg[t], bk[t]) /\ (l \in Early => pc[t] \in Early)
    PROVE  MapsInv'
<1>1. /\ arg[t] \in Targets /\ bk[t] \in built /\ bk[t] \in Methods
      /\ \A u \in Threads \ {t} : pc[u] \in Busy => arg[u] # arg[t]
  BY InBusy
<1>2. /\ hooked' \in [Targets -> Backups \cup {None}]
      /\ hookedBy' \in [Backups -> Targets \cup {None}]
      /\ hookedClasses' \subseteq Targets /\ internal' \in [Targets -> Methods]
      /\ built \subseteq built' /\ built' \subseteq Backups
  BY DEF MapsInv, MapsTyped, regVars
<1>3. PICK m \in Targets, b \in Methods : m = arg[t] /\ b = bk[t]
  BY <1>1
<1>4. CASE Return(t) /\ Agree(arg[t])
  <2>1. Agree(m)'
    BY <1>3, <1>4 DEF Agree, IsHooked, regVars
  <2>2. Fresh'
    <3>1. /\ pc'[t] = "idle"
          /\ \A u \in Threads \ {t} : pc'[u] = pc[u] /\ bk'[u] = bk[u]
      BY <1>4, LocalMoves DEF MapsInv, Labels, Return
    <3> QED BY <3>1 DEF MapsInv, Fresh, Early, regVars
  <2> QED BY <1>1, <1>2, <1>3, <1>4, <2>1, <2>2, BusyStep
          DEF regVars, Return, Busy, InHook, InUnhook
<1>5. ASSUME NEW l \in Busy, Goto(t, l), Stand(l, arg[t], bk[t]), l \in Early => pc[t] \in Early
      PROVE  MapsInv'
  <2>1. Stand(l, m, b)'
    BY <1>3, <1>5 DEF Stand, regVars
  <2>2. Fresh'
    <3>1. /\ pc'[t] = l /\ bk'[t] = bk[t]
          /\ \A u \in Threads \ {t} : pc'[u] = pc[u] /\ bk'[u] = bk[u]
      BY <1>1, <1>5, LocalMoves DEF MapsInv, Labels, Goto
    <3> QED BY <1>5, <3>1 DEF MapsInv, Fresh, regVars
  <2>3. Local(t, l, m, b) /\ b \in built'
    BY <1>1, <1>3, <1>5 DEF Goto, regVars
  <2>4. l # "idle"
    BY DEF Busy, InHook, InUnhook
  <2> QED BY <1>1, <1>2, <1>3, <2>1, <2>2, <2>3, <2>4, BusyStep DEF regVars
<1>6. CASE \E l \in Busy : Goto(t, l) /\ Stand(l, arg[t], bk[t]) /\ (l \in Early => pc[t] \in Early)
  <2>1. PICK l \in Busy : Goto(t, l) /\ Stand(l, arg[t], bk[t]) /\ (l \in Early => pc[t] \in Early)
    BY <1>6
  <2> QED BY <2>1, <1>5
<1> QED BY <1>4, <1>6

\* DoHook, DoHookFails, RecordBackupClass and RecordBackup leave the maps alone.
LEMMA HookMoves ==
    ASSUME MapsInv, NEW t \in Threads,
           DoHook(t) \/ DoHookFails(t) \/ RecordBackupClass(t) \/ RecordBackup(t)
    PROVE  MapsInv'
<1> USE DEF Busy, InHook, InUnhook, Early
<1>1. pc[t] \in Busy /\ UNCHANGED regVars
  BY DEF DoHook, DoHookFails, RecordBackupClass, RecordBackup, RecordDeoptClass,
         RecordDeoptSet, mapVars, regVars
<1>2. /\ arg[t] \in Targets /\ bk[t] \in Backups /\ Stand(pc[t], arg[t], bk[t])
  BY <1>1, InBusy
<1>3. CASE DoHook(t)
  <2>1. pc[t] = "doHook" /\ Goto(t, "recordClass")
    BY <1>3 DEF DoHook
  <2>2. Stand("recordClass", arg[t], bk[t])
    BY <1>2, <2>1 DEF Stand
  <2> QED BY <1>1, <2>1, <2>2, BusyMove
<1>4. CASE DoHookFails(t)
  <2>1. pc[t] = "doHook" /\ Return(t)
    BY <1>4 DEF DoHookFails
  <2>2. Agree(arg[t])
    BY <1>2, <2>1, NamesAssumption DEF Stand, Agree, IsHooked
  <2> QED BY <1>1, <2>1, <2>2, BusyMove
<1>5. CASE RecordBackupClass(t)
  <2>1. pc[t] = "recordDeoptClass" /\ Goto(t, "recordDeopt")
    BY <1>5 DEF RecordBackupClass, RecordDeoptClass
  <2>2. Stand("recordDeopt", arg[t], bk[t])
    BY <1>2, <2>1 DEF Stand
  <2> QED BY <1>1, <2>1, <2>2, BusyMove
<1>6. CASE RecordBackup(t)
  <2>1. pc[t] = "recordDeopt" /\ Return(t)
    BY <1>6 DEF RecordBackup, RecordDeoptSet
  <2>2. Agree(arg[t])
    BY <1>2, <2>1, NamesAssumption DEF Stand, Agree, IsHooked
  <2> QED BY <1>1, <2>1, <2>2, BusyMove
<1> QED BY <1>3, <1>4, <1>5, <1>6

\* RecordHooked, the class map: the ids of the target come to name the stub.
LEMMA RecordClassMaps ==
    ASSUME MapsInv, NEW t \in Threads, RecordHookedClass(t)
    PROVE  MapsInv'
<1> USE DEF Busy, InHook, InUnhook, Early
<1>1. /\ pc[t] = "recordClass" /\ Goto(t, "recordMethod")
      /\ hookedClasses' = hookedClasses \cup {arg[t]}
      /\ internal' = [internal EXCEPT ![arg[t]] = IF @ = arg[t] THEN bk[t] ELSE @]
      /\ UNCHANGED <<hooked, hookedBy, built>>
  BY DEF RecordHookedClass
<1>2. /\ arg[t] \in Targets /\ bk[t] \in built /\ bk[t] \in Backups /\ bk[t] \in Methods
      /\ \A u \in Threads \ {t} : pc[u] \in Busy => arg[u] # arg[t]
      /\ Stand("recordClass", arg[t], bk[t])
  BY <1>1, InBusy
<1>3. PICK m \in Targets, b \in Backups : m = arg[t] /\ b = bk[t]
  BY <1>2
<1>4. /\ hooked' \in [Targets -> Backups \cup {None}]
      /\ hookedBy' \in [Backups -> Targets \cup {None}]
      /\ hookedClasses' \subseteq Targets /\ internal' \in [Targets -> Methods]
      /\ built \subseteq built' /\ built' \subseteq Backups /\ b \in built' /\ b \in Methods
      /\ internal'[m] = b /\ \A n \in Targets \ {m} : internal'[n] = internal[n]
  BY <1>1, <1>2, <1>3 DEF MapsInv, MapsTyped, Methods, Stand
<1>5. Stand("recordMethod", m, b)'
  BY <1>1, <1>2, <1>3, <1>4 DEF Stand
<1>6. Fresh'
  <2>1. /\ pc'[t] = "recordMethod" /\ bk'[t] = bk[t]
        /\ \A u \in Threads \ {t} : pc'[u] = pc[u] /\ bk'[u] = bk[u]
    BY <1>1, <1>2, LocalMoves DEF MapsInv, Labels, Goto
  <2> QED BY <1>1, <2>1 DEF MapsInv, Fresh
<1>7. Local(t, "recordMethod", m, b)
  BY <1>1, <1>3 DEF Goto
<1> QED BY <1>1, <1>2, <1>3, <1>4, <1>5, <1>6, <1>7, BusyStep

\* RecordHooked, the method map: the pair of target and stub.
LEMMA RecordMethodMaps ==
    ASSUME MapsInv, NEW t \in Threads, RecordHookedMethod(t)
    PROVE  MapsInv'
<1> USE DEF Busy, InHook, InUnhook, Early
<1>1. /\ pc[t] = "recordMethod" /\ Goto(t, "recordDeoptClass")
      /\ hooked' = [hooked EXCEPT ![arg[t]] = bk[t]]
      /\ hookedBy' = [hookedBy EXCEPT ![bk[t]] = arg[t]]
      /\ UNCHANGED <<hookedClasses, internal, built>>
  BY DEF RecordHookedMethod
<1>2. /\ arg[t] \in Targets /\ bk[t] \in built /\ bk[t] \in Backups /\ bk[t] \in Methods
      /\ \A u \in Threads \ {t} : pc[u] \in Busy => arg[u] # arg[t]
      /\ Stand("recordMethod", arg[t], bk[t]) /\ hookedBy[bk[t]] = None
  BY <1>1, InBusy DEF MapsInv, Fresh
<1>3. PICK m \in Targets, b \in Backups : m = arg[t] /\ b = bk[t]
  BY <1>2
<1>4. /\ hooked' \in [Targets -> Backups \cup {None}]
      /\ hookedBy' \in [Backups -> Targets \cup {None}]
      /\ hookedClasses' \subseteq Targets /\ internal' \in [Targets -> Methods]
      /\ built \subseteq built' /\ built' \subseteq Backups /\ b \in built' /\ b \in Methods
      /\ hooked'[m] = b /\ \A n \in Targets \ {m} : hooked'[n] = hooked[n]
      /\ hookedBy'[b] = m /\ \A c \in Backups \ {b} : hookedBy'[c] = hookedBy[c]
  BY <1>1, <1>2, <1>3 DEF MapsInv, MapsTyped, Methods
<1>5. Stand("recordDeoptClass", m, b)'
  BY <1>1, <1>2, <1>3, <1>4, NamesAssumption DEF Stand
<1>6. Fresh'
  <2>1. /\ pc'[t] = "recordDeoptClass" /\ bk'[t] = bk[t]
        /\ \A u \in Threads \ {t} : pc'[u] = pc[u] /\ bk'[u] = bk[u]
    BY <1>1, <1>2, LocalMoves DEF MapsInv, Labels, Goto
  <2>2. \A u \in Threads \ {t} : pc[u] \in Early => bk[u] # b /\ bk[u] \in Backups
    BY <1>1, <1>3 DEF MapsInv, MapsTyped, Fresh
  <2>3. \A c \in Backups \ built' : hookedBy'[c] = None
    BY <1>1, <1>2, <1>3, <1>4 DEF MapsInv, Fresh
  <2>4. \A u \in Threads : pc'[u] \in Early => u # t /\ pc[u] \in Early /\ bk'[u] = bk[u]
    BY <2>1
  <2>5. \A u \in Threads : pc'[u] \in Early => hookedBy'[bk'[u]] = None
    BY <1>4, <2>2, <2>4 DEF MapsInv, Fresh
  <2> QED BY <2>3, <2>4, <2>5 DEF MapsInv, Fresh
<1>7. Local(t, "recordDeoptClass", m, b)
  BY <1>1, <1>3 DEF Goto
<1>8. \A n \in Targets \ {m}, c \in Backups : hookedBy'[c] = n <=> hookedBy[c] = n
  BY <1>2, <1>3, <1>4, NamesAssumption
<1> QED BY <1>1, <1>2, <1>3, <1>4, <1>5, <1>6, <1>7, <1>8, BusyStep
-----------------------------------------------------------------------------
\* The steps of UnHook.  The first one leaves the stub in the map of stubs.
LEMMA UnHookMaps ==
    ASSUME MapsInv, NEW t \in Threads, UnHook(t)
    PROVE  MapsInv'
<1> USE DEF Busy, InHook, InUnhook, Early
<1>1. PICK m \in Targets :
         /\ pc[t] = "idle" /\ HolderFree(m) /\ IsHooked(m)
         /\ hooked' = [hooked EXCEPT ![m] = None]
         /\ Local(t, "eraseBackup", m, hooked[m])
         /\ UNCHANGED <<hookedBy, hookedClasses, internal, built>>
  BY DEF UnHook
<1>2. \A u \in Threads : pc[u] \in Busy => arg[u] # m
  BY <1>1 DEF HolderFree
<1>3. Agree(m)
  BY <1>2 DEF MapsInv, Settled
<1>4. PICK b \in Backups : b = hooked[m] /\ hookedBy[b] = m
  BY <1>1, <1>3 DEF Agree, IsHooked, MapsInv, MapsTyped
<1>5. b \in built
  BY <1>4, NamesAssumption DEF MapsInv, Fresh
<1>6. /\ hooked' \in [Targets -> Backups \cup {None}]
      /\ hookedBy' \in [Backups -> Targets \cup {None}]
      /\ hookedClasses' \subseteq Targets /\ internal' \in [Targets -> Methods]
      /\ built \subseteq built' /\ built' \subseteq Backups /\ b \in built' /\ b \in Methods
      /\ hooked'[m] = None /\ \A n \in Targets \ {m} : hooked'[n] = hooked[n]
  BY <1>1, <1>5 DEF MapsInv, MapsTyped, Methods
<1>7. Stand("eraseBackup", m, b)'
  BY <1>1, <1>3, <1>4, <1>6 DEF Stand, Agree, IsHooked
<1>8. Local(t, "eraseBackup", m, b)
  BY <1>1, <1>4
<1>9. Fresh'
  <2>1. /\ pc'[t] = "eraseBackup"
        /\ \A u \in Threads \ {t} : pc'[u] = pc[u] /\ bk'[u] = bk[u]
    BY <1>6, <1>8, LocalMoves DEF MapsInv, Labels
  <2> QED BY <1>1, <2>1 DEF MapsInv, Fresh
<1> QED BY <1>1, <1>2, <1>6, <1>7, <1>8, <1>9, BusyStep

\* The stub goes from the map of stubs.
LEMMA EraseBackupMaps ==
    ASSUME MapsInv, NEW t \in Threads, EraseBackup(t)
    PROVE  MapsInv'
<1> USE DEF Busy, InHook, InUnhook, Early
<1>1. /\ pc[t] = "eraseBackup" /\ Goto(t, "eraseClass")
      /\ hookedBy' = [hookedBy EXCEPT ![bk[t]] = None]
      /\ UNCHANGED <<hooked, hookedClasses, internal, built>>
  BY DEF EraseBackup
<1>2. /\ arg[t] \in Targets /\ bk[t] \in built /\ bk[t] \in Backups /\ bk[t] \in Methods
      /\ \A u \in Threads \ {t} : pc[u] \in Busy => arg[u] # arg[t]
      /\ Stand("eraseBackup", arg[t], bk[t])
  BY <1>1, InBusy
<1>3. PICK m \in Targets, b \in Backups : m = arg[t] /\ b = bk[t] /\ hookedBy[b] = m
  BY <1>2 DEF Stand
<1>4. /\ hooked' \in [Targets -> Backups \cup {None}]
      /\ hookedBy' \in [Backups -> Targets \cup {None}]
      /\ hookedClasses' \subseteq Targets /\ internal' \in [Targets -> Methods]
      /\ built \subseteq built' /\ built' \subseteq Backups /\ b \in built' /\ b \in Methods
      /\ hookedBy'[b] = None /\ \A c \in Backups \ {b} : hookedBy'[c] = hookedBy[c]
  BY <1>1, <1>2, <1>3 DEF MapsInv, MapsTyped, Methods
<1>5. Stand("eraseClass", m, b)'
  BY <1>1, <1>2, <1>3, <1>4, NamesAssumption DEF Stand
<1>6. Fresh'
  <2>1. /\ pc'[t] = "eraseClass" /\ bk'[t] = bk[t]
        /\ \A u \in Threads \ {t} : pc'[u] = pc[u] /\ bk'[u] = bk[u]
    BY <1>1, <1>2, LocalMoves DEF MapsInv, Labels, Goto
  <2>2. \A c \in Backups : hookedBy[c] = None => hookedBy'[c] = None
    BY <1>4
  <2>3. \A u \in Threads : pc'[u] \in Early =>
            u # t /\ pc[u] \in Early /\ bk'[u] = bk[u] /\ bk[u] \in Backups
    BY <2>1 DEF MapsInv, MapsTyped
  <2> QED BY <1>1, <2>2, <2>3 DEF MapsInv, Fresh
<1>7. Local(t, "eraseClass", m, b)
  BY <1>1, <1>3 DEF Goto
<1>8. \A n \in Targets \ {m}, c \in Backups : hookedBy'[c] = n <=> hookedBy[c] = n
  BY <1>3, <1>4, NamesAssumption
<1> QED BY <1>1, <1>2, <1>3, <1>4, <1>5, <1>6, <1>7, <1>8, BusyStep

\* The target goes from the set of its class.
LEMMA EraseClassMaps ==
    ASSUME MapsInv, NEW t \in Threads, EraseClass(t)
    PROVE  MapsInv'
<1> USE DEF Busy, InHook, InUnhook, Early
<1>1. /\ pc[t] = "eraseClass" /\ Goto(t, "doUnhook")
      /\ hookedClasses' = hookedClasses \ {arg[t]}
      /\ UNCHANGED <<hooked, hookedBy, internal, built>>
  BY DEF EraseClass
<1>2. /\ arg[t] \in Targets /\ bk[t] \in built /\ bk[t] \in Backups /\ bk[t] \in Methods
      /\ \A u \in Threads \ {t} : pc[u] \in Busy => arg[u] # arg[t]
      /\ Stand("eraseClass", arg[t], bk[t])
  BY <1>1, InBusy
<1>3. PICK m \in Targets, b \in Backups : m = arg[t] /\ b = bk[t]
  BY <1>2
<1>4. /\ hooked' \in [Targets -> Backups \cup {None}]
      /\ hookedBy' \in [Backups -> Targets \cup {None}]
      /\ hookedClasses' \subseteq Targets /\ internal' \in [Targets -> Methods]
      /\ built \subseteq built' /\ built' \subseteq Backups /\ b \in built' /\ b \in Methods
  BY <1>1, <1>2, <1>3 DEF MapsInv, MapsTyped, Methods
<1>5. Stand("doUnhook", m, b)'
  BY <1>1, <1>2, <1>3 DEF Stand
<1>6. Fresh'
  <2>1. /\ pc'[t] = "doUnhook" /\ bk'[t] = bk[t]
        /\ \A u \in Threads \ {t} : pc'[u] = pc[u] /\ bk'[u] = bk[u]
    BY <1>1, <1>2, LocalMoves DEF MapsInv, Labels, Goto
  <2> QED BY <1>1, <2>1 DEF MapsInv, Fresh
<1>7. Local(t, "doUnhook", m, b)
  BY <1>1, <1>3 DEF Goto
<1> QED BY <1>1, <1>2, <1>3, <1>4, <1>5, <1>6, <1>7, BusyStep

\* DoUnHook: the ids of the target name it again, and the maps agree.
LEMMA DoUnHookMaps ==
    ASSUME MapsInv, NEW t \in Threads, DoUnHook(t)
    PROVE  MapsInv'
<1> USE DEF Busy, InHook, InUnhook, Early
<1>1. /\ pc[t] = "doUnhook" /\ Local(t, "idle", None, None)
      /\ internal' = [internal EXCEPT ![arg[t]] = IF @ = bk[t] THEN arg[t] ELSE @]
      /\ UNCHANGED <<hooked, hookedBy, hookedClasses, built>>
  BY DEF DoUnHook, Return, mapVars
<1>2. /\ arg[t] \in Targets /\ bk[t] \in Backups
      /\ \A u \in Threads \ {t} : pc[u] \in Busy => arg[u] # arg[t]
      /\ Stand("doUnhook", arg[t], bk[t])
  BY <1>1, InBusy
<1>3. PICK m \in Targets : m = arg[t]
  BY <1>2
<1>4. /\ hooked' \in [Targets -> Backups \cup {None}]
      /\ hookedBy' \in [Backups -> Targets \cup {None}]
      /\ hookedClasses' \subseteq Targets /\ internal' \in [Targets -> Methods]
      /\ built \subseteq built' /\ built' \subseteq Backups
      /\ internal'[m] = m /\ \A n \in Targets \ {m} : internal'[n] = internal[n]
  BY <1>1, <1>2, <1>3 DEF MapsInv, MapsTyped, Methods, Stand
<1>5. Agree(m)'
  BY <1>1, <1>2, <1>3, <1>4, NamesAssumption DEF Stand, Agree, IsHooked
<1>6. Fresh'
  <2>1. /\ pc'[t] = "idle"
        /\ \A u \in Threads \ {t} : pc'[u] = pc[u] /\ bk'[u] = bk[u]
    BY <1>1, LocalMoves DEF MapsInv, Labels
  <2> QED BY <1>1, <2>1 DEF MapsInv, Fresh
<1> QED BY <1>1, <1>2, <1>3, <1>4, <1>5, <1>6, BusyStep

-----------------------------------------------------------------------------
\* Deoptimize reads the maps and changes none of them.
LEMMA DeoptimizeMaps ==
    ASSUME MapsInv, NEW t \in Threads,
           Deoptimize(t) \/ DeoptSet(t) \/ DeoptRead(t) \/ DeoptWrite(t)
    PROVE  MapsInv'
<1> USE DEF Busy, InHook, InUnhook, InDeoptimize, Labels
<1>1. UNCHANGED regVars
  BY DEF Deoptimize, DeoptSet, DeoptRead, DeoptWrite, RecordDeoptClass, RecordDeoptSet,
         mapVars, regVars
<1>2. pc[t] # "idle" => arg[t] \in Targets
  BY DEF MapsInv, MapsTyped
<1>3. bk[t] \in Methods \cup {None}
  BY DEF MapsInv, MapsTyped
<1>4. CASE Deoptimize(t)
  <2>1. PICK m \in Targets : pc[t] = "idle" /\ Local(t, "deoptSet", m, None)
    BY <1>4 DEF Deoptimize, RecordDeoptClass
  <2> QED BY <1>1, <2>1, QuietStep, NamesAssumption
<1>5. CASE DeoptSet(t)
  <2>1. pc[t] = "deoptSet" /\ Local(t, "deoptRead", arg[t], bk[t])
    BY <1>5 DEF DeoptSet, RecordDeoptSet, Goto
  <2> QED BY <1>1, <1>2, <1>3, <2>1, QuietStep, NamesAssumption
<1>6. CASE DeoptRead(t)
  <2>1. pc[t] = "deoptRead"
    BY <1>6 DEF DeoptRead
  <2>2. CASE Return(t)
    BY <1>1, <2>1, <2>2, QuietStep DEF Return
  <2>3. CASE Local(t, "deoptWrite", arg[t], IF IsHooked(arg[t]) THEN hooked[arg[t]] ELSE arg[t])
    <3>1. (IF IsHooked(arg[t]) THEN hooked[arg[t]] ELSE arg[t]) \in Methods \cup {None}
      BY <1>2, <2>1 DEF MapsInv, MapsTyped, Methods, IsHooked
    <3> QED BY <1>1, <1>2, <2>1, <2>3, <3>1, QuietStep, NamesAssumption
  <2> QED BY <1>6, <2>2, <2>3 DEF DeoptRead
<1>7. CASE DeoptWrite(t)
  <2>1. pc[t] = "deoptWrite" /\ Local(t, "idle", None, None)
    BY <1>7 DEF DeoptWrite, Return
  <2> QED BY <1>1, <2>1, QuietStep
<1> QED BY <1>4, <1>5, <1>6, <1>7

\* Nor does ART: class initialisation, native registration, instrumentation
\* and the JIT.
LEMMA ArtMaps ==
    ASSUME MapsInv,
           \/ \E c \in Classes : ClassInit(c)
           \/ GarbageCollectCache
           \/ \E x \in Methods : JitCompile(x)
           \/ \E m \in Targets : RegisterNative(m) \/ ReinitializeMethodsCode(m)
    PROVE  MapsInv'
<1>1. CASE \E c \in Classes : ClassInit(c)
  <2>1. PICK c \in Classes : ClassInit(c)
    BY <1>1
  <2>2. UNCHANGED <<regVars, thrVars>>
    <3> USE DEF Step, mapVars, regVars
    <3>1. CASE BackupHooked(c) \/ BackupDeoptimized(c)
      BY <3>1 DEF BackupHooked, BackupDeoptimized
    <3>2. CASE FixupStaticTrampolines(c) \/ Initialized(c)
      BY <3>2 DEF FixupStaticTrampolines, Initialized
    <3>3. CASE RestoreBackup(c)
      BY <3>3 DEF RestoreBackup
    <3> QED BY <2>1, <3>1, <3>2, <3>3 DEF ClassInit
  <2> QED BY <2>2, StutterStep
<1>2. CASE GarbageCollectCache
  BY <1>2, StutterStep DEF GarbageCollectCache, mapVars, regVars
<1>3. CASE \E x \in Methods : JitCompile(x)
  BY <1>3, StutterStep DEF JitCompile, mapVars, regVars
<1>4. CASE \E m \in Targets : RegisterNative(m) \/ ReinitializeMethodsCode(m)
  BY <1>4, StutterStep DEF RegisterNative, ReinitializeMethodsCode, mapVars, regVars
<1> QED BY <1>1, <1>2, <1>3, <1>4

-----------------------------------------------------------------------------
\* Every step keeps the invariant.
LEMMA MapsStep == MapsInv /\ [Next]_vars => MapsInv'
<1> SUFFICES ASSUME MapsInv, [Next]_vars PROVE MapsInv'
  OBVIOUS
<1>1. CASE UNCHANGED vars
  BY <1>1, StutterStep DEF vars, mapVars, thrVars, regVars
<1>2. ASSUME NEW t \in Threads, Hook(t) \/ UnHook(t) \/ Deoptimize(t) PROVE MapsInv'
  BY <1>2, HookMaps, UnHookMaps, DeoptimizeMaps
<1>3. ASSUME NEW t \in Threads, Run(t) PROVE MapsInv'
  BY <1>3, HookMoves, RecordClassMaps, RecordMethodMaps, EraseBackupMaps, EraseClassMaps,
     DoUnHookMaps, DeoptimizeMaps DEF Run
<1> QED BY <1>1, <1>2, <1>3, ArtMaps DEF Next

\* The maps stand as MapsInv says in every reachable state.
THEOREM MapsInvariance == Spec => []MapsInv
BY InitMapsInv, MapsStep, PTL DEF Spec

\* The invariant implies the property: before DoHook the maps agree too.
LEMMA MapsInvAgrees == MapsInv => MapsAgree
<1> SUFFICES ASSUME MapsInv, NEW m \in Targets, \A t \in Threads : ~Hooking(t, m)
             PROVE  Agree(m)
  BY DEF MapsAgree, Agree
<1>1. CASE \A t \in Threads : arg[t] = m => pc[t] \notin Busy
  BY <1>1 DEF MapsInv, Settled
<1>2. ASSUME NEW t \in Threads, arg[t] = m, pc[t] \in Busy PROVE Agree(m)
  <2>1. pc[t] = "doHook"
    BY <1>2 DEF Hooking, Busy, InHook, InUnhook
  <2>2. Stand("doHook", m, bk[t])
    BY <1>2, <2>1 DEF MapsInv, Progress
  <2> QED BY <2>2, NamesAssumption DEF Stand, Agree, IsHooked
<1> QED BY <1>1, <1>2

\* The maps of common.cxx agree about every method that no Hook or UnHook is
\* changing, and LSPlant's own method ids reach the original.
THEOREM MapsAgreeing == Spec => []MapsAgree
BY MapsInvariance, MapsInvAgrees, PTL

-----------------------------------------------------------------------------
(* A hook stays in force.  For a method whose operations never overlapped,  *)
(* the entry point is the trampoline except between FixupStaticTrampolines  *)
(* and RestoreBackup, and then the trampoline is among the saved entries.   *)

\* The steps of a Hook after DoHook.
Entered == InHook \ {"doHook"}

EntryTyped ==
    /\ DOMAIN entry = Methods
    /\ DOMAIN copyOf = Backups
    /\ DOMAIN saved = Classes
    /\ DOMAIN initPc = Classes
    /\ \A c \in Classes : DOMAIN saved[c] \subseteq MethodsOf(c)
    /\ initPc[App] \in {"loaded", "initialized"} => DOMAIN saved[App] = {}
    /\ \A t \in Threads : pc[t] = "deoptWrite" => bk[t] \in {arg[t]} \cup Backups

\* The stub of a hook in force is a copy of the target, which is why the JIT
\* does not compile the target.
Copied ==
    /\ \A t \in Threads : pc[t] \in Entered => copyOf[bk[t]] = arg[t]
    /\ \A m \in Targets : IsHooked(m) => copyOf[hooked[m]] = m

\* A method whose operations overlap is counted as disturbed.
Apart == \A m \in Targets \ disturbed : ~Overlap(m)

InForce(m) ==
    /\ \A t \in Threads : pc[t] \in Entered /\ arg[t] = m => entry[m] = bk[t]
    /\ IsHooked(m) =>
         /\ m \in DOMAIN saved[App] => saved[App][m] = hooked[m]
         /\ entry[m] # hooked[m] => initPc[App] \in {"fixed", "restore"} /\ m \in DOMAIN saved[App]
         /\ initPc[App] \in {"backup", "status"} /\ m \in statics => m \in DOMAIN saved[App]
    /\ \A t \in Threads : pc[t] = "deoptWrite" /\ arg[t] = m /\ bk[t] = m => ~IsHooked(m)

Kept == \A m \in Targets \ disturbed : InForce(m)

EntryInv == MapsInv /\ EntryTyped /\ Copied /\ Apart /\ Kept

\* The two directions of hooked_methods_: the stub of a hooked method names it.
LEMMA HookedPair ==
    ASSUME MapsInv, NEW m \in Targets, IsHooked(m)
    PROVE  hooked[m] \in Backups /\ hookedBy[hooked[m]] = m
<1>1. hooked[m] \in Backups
  BY DEF MapsInv, MapsTyped, IsHooked
<1>2. CASE \A t \in Threads : arg[t] = m => pc[t] \notin Busy
  BY <1>1, <1>2 DEF MapsInv, Settled, Agree
<1>3. ASSUME NEW t \in Threads, arg[t] = m, pc[t] \in Busy PROVE hookedBy[hooked[m]] = m
  <2>1. Stand(pc[t], m, bk[t])
    BY <1>3 DEF MapsInv, Progress
  <2> QED BY <1>1, <2>1 DEF Stand, IsHooked
<1> QED BY <1>1, <1>2, <1>3

\* The initial states satisfy the invariant.
LEMMA InitEntryInv == Init => EntryInv
<1> SUFFICES ASSUME Init PROVE EntryInv
  OBVIOUS
<1> USE DEF Init, Entered, InHook, IsHooked
<1>1. EntryTyped
  <2>1. App \in Classes /\ \A c \in Classes : saved[c] = Empty
    BY DEF Classes
  <2>2. DOMAIN Empty = {}
    BY DEF Empty
  <2> QED BY <2>1, <2>2 DEF EntryTyped
<1>2. Copied
  BY DEF Copied
<1>3. Apart
  BY DEF Apart, Overlap, Hooking, Deoptimizing, InUnhook, InDeoptimize
<1>4. Kept
  BY DEF Kept, InForce
<1> QED BY <1>1, <1>2, <1>3, <1>4, InitMapsInv DEF EntryInv

\* Overlapping operations are noticed at the step that makes them overlap.
LEMMA ApartStep ==
    ASSUME EntryInv, [Next]_vars
    PROVE  Apart' /\ disturbed \subseteq disturbed'
<1>1. disturbed \subseteq disturbed'
  BY DEF Next, Disturb, vars
<1>2. ASSUME UNCHANGED <<thrVars, initVars, mapVars>> PROVE Apart'
  BY <1>1, <1>2 DEF EntryInv, Apart, Overlap, Hooking, Deoptimizing, Open, IsHooked,
                    thrVars, initVars, mapVars
<1>3. CASE Disturb({m \in Targets : Overlap(m)'})
  BY <1>3 DEF Disturb, Apart
<1>4. CASE \/ UNCHANGED vars
           \/ GarbageCollectCache
           \/ \E x \in Methods : JitCompile(x)
           \/ \E m \in Targets : RegisterNative(m) \/ ReinitializeMethodsCode(m)
  <2>1. UNCHANGED <<thrVars, initVars, mapVars>>
    BY <1>4 DEF vars, GarbageCollectCache, JitCompile, RegisterNative, ReinitializeMethodsCode
  <2> QED BY <1>1, <1>2, <2>1
<1> QED BY <1>1, <1>3, <1>4 DEF Next

\* The locals of the threads after a step of t, for the invariant's sake.
LEMMA Moves ==
    ASSUME EntryInv, NEW t \in Threads, NEW l, NEW m, NEW b, Local(t, l, m, b)
    PROVE  /\ pc'[t] = l /\ arg'[t] = m /\ bk'[t] = b
           /\ \A u \in Threads \ {t} : pc'[u] = pc[u] /\ arg'[u] = arg[u] /\ bk'[u] = bk[u]
BY DEF EntryInv, MapsInv, MapsTyped, Local

\* A step of thread t that leaves the entry point and the hook of n alone.
LEMMA KeptStep ==
    ASSUME EntryInv, NEW t \in Threads, NEW l, NEW m, NEW b, Local(t, l, m, b),
           UNCHANGED <<statics, saved, initPc>>,
           NEW n \in Targets, InForce(n), hooked'[n] = hooked[n], entry'[n] = entry[n],
           l \in Entered /\ m = n => entry[n] = b,
           l = "deoptWrite" /\ m = n /\ b = n => ~IsHooked(n)
    PROVE  InForce(n)'
<1>1. /\ pc'[t] = l /\ arg'[t] = m /\ bk'[t] = b
      /\ \A u \in Threads \ {t} : pc'[u] = pc[u] /\ arg'[u] = arg[u] /\ bk'[u] = bk[u]
  BY Moves
<1> QED BY <1>1 DEF InForce, IsHooked

\* A step of thread t that changes neither the methods nor the maps.
LEMMA ThreadStep ==
    ASSUME EntryInv, NEW t \in Threads, NEW l, NEW m, NEW b, Local(t, l, m, b),
           UNCHANGED <<statics, saved, initPc, hooked, copyOf>>, disturbed \subseteq disturbed',
           DOMAIN entry' = Methods, \A n \in Targets : entry'[n] = entry[n],
           l \in Entered => m = arg[t] /\ b = bk[t] /\ pc[t] \in Entered,
           l = "deoptWrite" => /\ b \in {m} \cup Backups
                               /\ b = m => ~IsHooked(m)
    PROVE  EntryTyped' /\ Copied' /\ Kept'
<1>1. /\ pc'[t] = l /\ arg'[t] = m /\ bk'[t] = b
      /\ \A u \in Threads \ {t} : pc'[u] = pc[u] /\ arg'[u] = arg[u] /\ bk'[u] = bk[u]
  BY Moves
<1>2. EntryTyped'
  BY <1>1 DEF EntryInv, EntryTyped
<1>3. Copied'
  BY <1>1 DEF EntryInv, Copied, IsHooked
<1>4. Kept'
  <2> SUFFICES ASSUME NEW n \in Targets \ disturbed' PROVE InForce(n)'
    BY DEF Kept
  <2>1. InForce(n)
    BY DEF EntryInv, Kept
  <2>2. l \in Entered /\ m = n => entry[n] = b
    BY <2>1 DEF InForce
  <2> QED BY <2>1, <2>2, KeptStep
<1> QED BY <1>2, <1>3, <1>4

\* Steps of Hook, UnHook and Deoptimize that write neither an entry point of a
\* target nor the map of hooked methods.
LEMMA EntryMoves ==
    ASSUME EntryInv, NEW t \in Threads, disturbed \subseteq disturbed',
           \/ Hook(t) \/ DoHookFails(t) \/ RecordHookedClass(t) \/ RecordBackupClass(t)
           \/ RecordBackup(t) \/ EraseBackup(t) \/ EraseClass(t)
           \/ Deoptimize(t) \/ DeoptSet(t) \/ DeoptRead(t)
    PROVE  EntryTyped' /\ Copied' /\ Kept'
<1>1. /\ UNCHANGED <<statics, saved, initPc, hooked, copyOf, entry>>
      /\ DOMAIN entry' = Methods
  BY DEF Hook, DoHookFails, RecordHookedClass, RecordBackupClass, RecordBackup, EraseBackup,
         EraseClass, Deoptimize, DeoptSet, DeoptRead, RecordDeoptClass, RecordDeoptSet,
         flagVars, artVars, mapVars, initVars, EntryInv, EntryTyped
<1> USE DEF Entered, InHook
<1>2. CASE Hook(t)
  <2>1. PICK m \in Targets, b \in Backups : Local(t, "doHook", m, b)
    BY <1>2 DEF Hook
  <2> QED BY <1>1, <2>1, ThreadStep
<1>3. CASE DoHookFails(t) \/ RecordBackup(t)
  <2>1. Local(t, "idle", None, None)
    BY <1>3 DEF DoHookFails, RecordBackup, RecordDeoptSet, Return
  <2> QED BY <1>1, <2>1, ThreadStep
<1>4. CASE RecordHookedClass(t) \/ RecordBackupClass(t)
  <2>1. PICK l \in Entered : pc[t] \in Entered /\ Local(t, l, arg[t], bk[t])
    BY <1>4 DEF RecordHookedClass, RecordBackupClass, RecordDeoptClass, Goto
  <2>2. l # "deoptWrite"
    OBVIOUS
  <2> QED BY <1>1, <2>1, <2>2, ThreadStep
<1>5. CASE EraseBackup(t) \/ EraseClass(t) \/ DeoptSet(t)
  <2>1. PICK l \in {"eraseClass", "doUnhook", "deoptRead"} : Local(t, l, arg[t], bk[t])
    BY <1>5 DEF EraseBackup, EraseClass, DeoptSet, RecordDeoptSet, Goto
  <2> QED BY <1>1, <2>1, ThreadStep
<1>6. CASE Deoptimize(t)
  <2>1. PICK m \in Targets : Local(t, "deoptSet", m, None)
    BY <1>6 DEF Deoptimize, RecordDeoptClass
  <2> QED BY <1>1, <2>1, ThreadStep
<1>7. CASE DeoptRead(t)
  <2>1. arg[t] \in Targets
    BY <1>7 DEF DeoptRead, EntryInv, MapsInv, MapsTyped
  <2>2. CASE Return(t)
    BY <1>1, <2>2, ThreadStep DEF Return
  <2>3. CASE Local(t, "deoptWrite", arg[t], IF IsHooked(arg[t]) THEN hooked[arg[t]] ELSE arg[t])
    <3>1. PICK b : b = IF IsHooked(arg[t]) THEN hooked[arg[t]] ELSE arg[t]
      OBVIOUS
    <3>2. b \in {arg[t]} \cup Backups /\ (b = arg[t] => ~IsHooked(arg[t]))
      BY <2>1, <3>1, NamesAssumption DEF EntryInv, MapsInv, MapsTyped, IsHooked
    <3>3. Local(t, "deoptWrite", arg[t], b)
      BY <2>3, <3>1
    <3> QED BY <1>1, <3>2, <3>3, ThreadStep
  <2> QED BY <1>7, <2>2, <2>3 DEF DeoptRead
<1> QED BY <1>2, <1>3, <1>4, <1>5, <1>6, <1>7

\* DoHook makes the stub a copy of the target and enters the trampoline.
LEMMA DoHookEntry ==
    ASSUME EntryInv, NEW t \in Threads, DoHook(t), disturbed \subseteq disturbed'
    PROVE  EntryTyped' /\ Copied' /\ Kept'
<1> USE DEF Entered, InHook
<1>1. /\ arg[t] \in Targets /\ bk[t] \in Backups /\ bk[t] \notin Targets
      /\ \A u \in Threads \ {t} : pc[u] \in Busy => arg[u] # arg[t]
      /\ hooked[arg[t]] = None /\ hookedBy[bk[t]] = None
      /\ \A u \in Threads \ {t} : pc[u] \in Early => bk[u] # bk[t]
  <2>1. pc[t] = "doHook"
    BY DEF DoHook
  <2> QED BY <2>1, InBusy, NamesAssumption DEF EntryInv, Stand, MapsInv, Fresh, Busy, Early
<1>2. /\ entry' = [entry EXCEPT ![bk[t]] = entry[arg[t]], ![arg[t]] = bk[t]]
      /\ copyOf' = [copyOf EXCEPT ![bk[t]] = arg[t]]
      /\ Local(t, "recordClass", arg[t], bk[t])
      /\ UNCHANGED <<statics, saved, initPc, hooked>>
  BY DEF DoHook, Goto, flagVars, initVars, mapVars
<1>3. /\ pc'[t] = "recordClass" /\ arg'[t] = arg[t] /\ bk'[t] = bk[t]
      /\ \A u \in Threads \ {t} : pc'[u] = pc[u] /\ arg'[u] = arg[u] /\ bk'[u] = bk[u]
  BY <1>2, Moves
<1>4. EntryTyped'
  BY <1>2, <1>3 DEF EntryInv, EntryTyped
<1>5. /\ DOMAIN entry = Methods /\ DOMAIN copyOf = Backups
      /\ entry'[arg[t]] = bk[t] /\ \A n \in Targets \ {arg[t]} : entry'[n] = entry[n]
      /\ copyOf'[bk[t]] = arg[t] /\ \A c \in Backups \ {bk[t]} : copyOf'[c] = copyOf[c]
  BY <1>1, <1>2 DEF EntryInv, EntryTyped, Methods
<1>6. Copied'
  <2>1. \A u \in Threads \ {t} : pc[u] \in Entered => bk[u] \in Backups \ {bk[t]}
    <3> SUFFICES ASSUME NEW u \in Threads \ {t}, pc[u] \in Entered
                 PROVE  bk[u] \in Backups \ {bk[t]}
      OBVIOUS
    <3>1. bk[u] \in Backups /\ arg[u] \in Targets /\ Stand(pc[u], arg[u], bk[u])
      BY InBusy DEF EntryInv, Busy
    <3>2. CASE pc[u] \in Early
      BY <1>1, <3>1, <3>2
    <3>3. CASE pc[u] \notin Early
      <4>1. hookedBy[bk[u]] = arg[u]
        BY <3>1, <3>3 DEF Stand, Early
      <4> QED BY <1>1, <3>1, <4>1, NamesAssumption
    <3> QED BY <3>2, <3>3
  <2>2. \A m \in Targets : IsHooked(m) => hooked[m] \in Backups \ {bk[t]}
    BY <1>1, HookedPair, NamesAssumption DEF EntryInv
  <2> QED BY <1>2, <1>3, <1>5, <2>1, <2>2 DEF EntryInv, Copied, IsHooked
<1>7. Kept'
  <2> SUFFICES ASSUME NEW n \in Targets \ disturbed' PROVE InForce(n)'
    BY DEF Kept
  <2>1. InForce(n)
    BY DEF EntryInv, Kept
  <2>2. CASE n # arg[t]
    <3>1. hooked'[n] = hooked[n] /\ entry'[n] = entry[n]
      BY <1>2, <1>5, <2>2
    <3> QED BY <1>2, <2>1, <2>2, <3>1, KeptStep
  <2>3. CASE n = arg[t]
    BY <1>1, <1>2, <1>3, <1>5, <2>3 DEF InForce, IsHooked, Busy
  <2> QED BY <2>2, <2>3
<1> QED BY <1>4, <1>6, <1>7

\* RecordHooked: the entry point is the stub that the map now names.
LEMMA RecordMethodEntry ==
    ASSUME EntryInv, NEW t \in Threads, RecordHookedMethod(t), disturbed \subseteq disturbed'
    PROVE  EntryTyped' /\ Copied' /\ Kept'
<1> USE DEF Entered, InHook
<1>1. /\ pc[t] = "recordMethod" /\ Local(t, "recordDeoptClass", arg[t], bk[t])
      /\ hooked' = [hooked EXCEPT ![arg[t]] = bk[t]]
      /\ UNCHANGED <<statics, saved, initPc, copyOf, entry>>
  BY DEF RecordHookedMethod, Goto, flagVars, artVars, initVars
<1>2. /\ arg[t] \in Targets /\ bk[t] \in Backups
      /\ \A u \in Threads \ {t} : pc[u] \in Busy => arg[u] # arg[t]
  BY <1>1, InBusy DEF EntryInv, Busy
<1>3. /\ pc'[t] = "recordDeoptClass" /\ arg'[t] = arg[t] /\ bk'[t] = bk[t]
      /\ \A u \in Threads \ {t} : pc'[u] = pc[u] /\ arg'[u] = arg[u] /\ bk'[u] = bk[u]
  BY <1>1, Moves
<1>4. /\ hooked'[arg[t]] = bk[t]
      /\ \A n \in Targets \ {arg[t]} : hooked'[n] = hooked[n]
  BY <1>1, <1>2 DEF EntryInv, MapsInv, MapsTyped
<1>5. EntryTyped'
  BY <1>1, <1>3 DEF EntryInv, EntryTyped
<1>6. Copied'
  BY <1>1, <1>2, <1>3, <1>4 DEF EntryInv, Copied, IsHooked
<1>7. Kept'
  <2> SUFFICES ASSUME NEW n \in Targets \ disturbed' PROVE InForce(n)'
    BY DEF Kept
  <2>1. InForce(n) /\ ~Overlap(n)
    BY DEF EntryInv, Kept, Apart
  <2>2. CASE n # arg[t]
    BY <1>1, <1>4, <2>1, <2>2, KeptStep
  <2>3. CASE n = arg[t]
    <3>1. Hooking(t, n)
      BY <1>1, <2>3 DEF Hooking
    <3>2. ~Open(App) /\ \A u \in Threads : ~Deoptimizing(u, n)
      BY <2>1, <3>1 DEF Overlap, Classes
    <3>3. DOMAIN saved[App] = {} /\ initPc[App] \in {"loaded", "initialized"}
      BY <3>2 DEF EntryInv, EntryTyped, Open
    <3>4. \A u \in Threads : arg[u] = n => pc[u] # "deoptWrite"
      BY <3>2 DEF Deoptimizing, InDeoptimize
    <3>5. entry[n] = bk[t]
      BY <1>1, <2>1, <2>3 DEF InForce
    <3> QED BY <1>1, <1>2, <1>3, <1>4, <2>3, <3>3, <3>4, <3>5 DEF InForce, IsHooked, Busy
  <2> QED BY <2>2, <2>3
<1> QED BY <1>5, <1>6, <1>7

\* UnHook takes the hook from the map before it restores the entry point.
LEMMA UnHookEntry ==
    ASSUME EntryInv, NEW t \in Threads, UnHook(t) \/ DoUnHook(t), disturbed \subseteq disturbed'
    PROVE  EntryTyped' /\ Copied' /\ Kept'
<1> USE DEF Entered, InHook
<1>1. PICK m \in Targets, l \in {"eraseBackup", "idle"} :
         /\ \A u \in Threads : pc[u] \in Entered => arg[u] # m
         /\ hooked'[m] = None /\ \A n \in Targets \ {m} : hooked'[n] = hooked[n]
         /\ DOMAIN entry' = Methods /\ \A n \in Targets \ {m} : entry'[n] = entry[n]
         /\ \E a, b : Local(t, l, a, b)
         /\ UNCHANGED <<statics, saved, initPc, copyOf>>
  <2>1. CASE UnHook(t)
    <3>1. PICK m \in Targets :
             /\ HolderFree(m) /\ hooked' = [hooked EXCEPT ![m] = None]
             /\ Local(t, "eraseBackup", m, hooked[m])
             /\ UNCHANGED <<statics, saved, initPc, copyOf, entry>>
      BY <2>1 DEF UnHook, flagVars, artVars, initVars
    <3> QED BY <3>1 DEF HolderFree, EntryInv, EntryTyped, MapsInv, MapsTyped
  <2>2. CASE DoUnHook(t)
    <3>1. /\ pc[t] = "doUnhook" /\ Local(t, "idle", None, None)
          /\ entry' = [entry EXCEPT ![arg[t]] = entry[bk[t]]]
          /\ UNCHANGED <<statics, saved, initPc, copyOf, hooked>>
      BY <2>2 DEF DoUnHook, Return, flagVars, initVars, mapVars
    <3>2. /\ arg[t] \in Targets /\ hooked[arg[t]] = None
          /\ \A u \in Threads \ {t} : pc[u] \in Busy => arg[u] # arg[t]
      BY <3>1, InBusy DEF EntryInv, Stand, Busy, InUnhook
    <3> QED BY <3>1, <3>2 DEF EntryInv, EntryTyped, Methods, Busy
  <2> QED BY <2>1, <2>2
<1>2. /\ pc'[t] = l
      /\ \A u \in Threads \ {t} : pc'[u] = pc[u] /\ arg'[u] = arg[u] /\ bk'[u] = bk[u]
  BY <1>1, Moves
<1>3. EntryTyped'
  BY <1>1, <1>2 DEF EntryInv, EntryTyped
<1>4. Copied'
  BY <1>1, <1>2 DEF EntryInv, Copied, IsHooked
<1>5. Kept'
  <2> SUFFICES ASSUME NEW n \in Targets \ disturbed' PROVE InForce(n)'
    BY DEF Kept
  <2>1. InForce(n)
    BY DEF EntryInv, Kept
  <2>2. CASE n # m
    BY <1>1, <2>1, <2>2, KeptStep
  <2>3. CASE n = m
    BY <1>1, <1>2, <2>3 DEF InForce, IsHooked
  <2> QED BY <2>2, <2>3
<1> QED BY <1>3, <1>4, <1>5

\* DeoptWrite writes the stub of a hooked method, never its target.
LEMMA DeoptWriteEntry ==
    ASSUME EntryInv, NEW t \in Threads, DeoptWrite(t), disturbed \subseteq disturbed'
    PROVE  EntryTyped' /\ Copied' /\ Kept'
<1> USE DEF Entered, InHook
<1>1. /\ pc[t] = "deoptWrite" /\ Local(t, "idle", None, None)
      /\ entry' = [entry EXCEPT ![bk[t]] = "interpreter"]
      /\ UNCHANGED <<statics, saved, initPc, copyOf, hooked>>
  BY DEF DeoptWrite, Return, flagVars, initVars, mapVars
<1>2. /\ pc'[t] = "idle"
      /\ \A u \in Threads \ {t} : pc'[u] = pc[u] /\ arg'[u] = arg[u] /\ bk'[u] = bk[u]
  BY <1>1, Moves
<1>3. EntryTyped'
  BY <1>1, <1>2 DEF EntryInv, EntryTyped
<1>4. Copied'
  BY <1>1, <1>2 DEF EntryInv, Copied, IsHooked
<1>5. Kept'
  <2> SUFFICES ASSUME NEW n \in Targets \ disturbed' PROVE InForce(n)'
    BY DEF Kept
  <2>1. InForce(n) /\ ~Overlap(n)
    BY DEF EntryInv, Kept, Apart
  <2>2. CASE bk[t] # n
    <3>1. entry'[n] = entry[n]
      BY <1>1, <2>2 DEF EntryInv, EntryTyped, Methods
    <3> QED BY <1>1, <2>1, <3>1, KeptStep
  <2>3. CASE bk[t] = n
    <3>1. arg[t] = n
      BY <1>1, <2>3, NamesAssumption DEF EntryInv, EntryTyped
    <3>2. ~IsHooked(n) /\ Deoptimizing(t, n)
      BY <1>1, <2>1, <2>3, <3>1 DEF InForce, Deoptimizing, InDeoptimize
    <3>3. \A u \in Threads : pc[u] \in Entered => arg[u] # n
      BY <2>1, <3>2 DEF Overlap, Hooking
    <3> QED BY <1>1, <1>2, <3>2, <3>3 DEF InForce, IsHooked
  <2> QED BY <2>2, <2>3
<1> QED BY <1>3, <1>4, <1>5

-----------------------------------------------------------------------------
\* Steps of ART that leave the entry points of the targets alone, and the
\* initialisation of the class of the targets.
LEMMA ArtStep ==
    ASSUME EntryInv, UNCHANGED <<statics, hooked, copyOf, thrVars>>, disturbed \subseteq disturbed',
           DOMAIN entry' = Methods, DOMAIN saved' = Classes, DOMAIN initPc' = Classes,
           \A c \in Classes : DOMAIN saved'[c] \subseteq MethodsOf(c),
           saved'[App] = saved[App], initPc'[App] = initPc[App],
           \A n \in Targets \ disturbed' : entry'[n] = entry[n]
    PROVE  EntryTyped' /\ Copied' /\ Kept'
<1>1. EntryTyped'
  BY DEF EntryInv, EntryTyped, thrVars, MethodsOf
<1>2. Copied'
  BY DEF EntryInv, Copied, IsHooked, thrVars
<1>3. Kept'
  BY DEF EntryInv, Kept, InForce, IsHooked, thrVars
<1> QED BY <1>1, <1>2, <1>3

\* Once the class of the targets is being initialised, an undisturbed target
\* has no Hook under way and the maps agree about it.
LEMMA Spared ==
    ASSUME EntryInv, Apart', UNCHANGED thrVars, Open(App)', NEW n \in Targets \ disturbed'
    PROVE  /\ \A t \in Threads : pc[t] \in Entered => arg[t] # n
           /\ IsHooked(n) => n \in hookedClasses
<1>1. \A t \in Threads : ~Hooking(t, n)
  BY DEF Apart, Overlap, Hooking, thrVars, Classes
<1>2. \A t \in Threads : pc[t] \in Entered => arg[t] # n
  BY <1>1 DEF Hooking, Entered
<1> QED BY <1>1, <1>2, MapsInvAgrees DEF EntryInv, MapsAgree

\* BackupClassMethods.
LEMMA BackupEntry ==
    ASSUME EntryInv, NEW c \in Classes, BackupHooked(c) \/ BackupDeoptimized(c),
           Apart', disturbed \subseteq disturbed'
    PROVE  EntryTyped' /\ Copied' /\ Kept'
<1> DEFINE f == saved'[c]
<1>1. PICK to \in {"backup", "status"} :
         /\ UNCHANGED <<statics, hooked, hookedClasses, copyOf, entry, thrVars>>
         /\ DOMAIN saved' = Classes /\ \A d \in Classes \ {c} : saved'[d] = saved[d]
         /\ initPc' = [initPc EXCEPT ![c] = to]
         /\ DOMAIN f \subseteq MethodsOf(c)
         /\ initPc[c] = IF to = "backup" THEN "loaded" ELSE "backup"
         /\ \A m \in DOMAIN f : f[m] = entry[m] \/ (m \in DOMAIN saved[c] /\ f[m] = saved[c][m])
         /\ to = "backup" => \A m \in MethodsOf(c) \cap hookedClasses : IsStatic(m) => m \in DOMAIN f
         /\ to = "status" => DOMAIN saved[c] \subseteq DOMAIN f
  <2>1. CASE BackupHooked(c)
    <3>1. /\ saved' = [saved EXCEPT ![c] = EntriesOf(MethodsOf(c) \cap hookedClasses)]
          /\ Step(c, "loaded", "backup") /\ UNCHANGED entry
      BY <2>1 DEF BackupHooked
    <3>2. /\ f = EntriesOf(MethodsOf(c) \cap hookedClasses)
          /\ DOMAIN saved' = Classes /\ \A d \in Classes \ {c} : saved'[d] = saved[d]
      BY <3>1 DEF EntryInv, EntryTyped
    <3>3. /\ DOMAIN f = {x \in MethodsOf(c) \cap hookedClasses : IsStatic(x)}
          /\ \A m \in DOMAIN f : f[m] = entry[m]
      BY <3>2 DEF EntriesOf
    <3> HIDE DEF f
    <3> WITNESS "backup" \in {"backup", "status"}
    <3> QED BY <3>1, <3>2, <3>3 DEF Step, flagVars, mapVars
  <2>2. CASE BackupDeoptimized(c)
    <3>1. PICK g : g = EntriesOf(MethodsOf(c) \cap deoptClasses)
      OBVIOUS
    <3>2. /\ DOMAIN g = {x \in MethodsOf(c) \cap deoptClasses : IsStatic(x)}
          /\ \A m \in DOMAIN g : g[m] = entry[m]
      BY <3>1 DEF EntriesOf
    <3>3. /\ saved' = [saved EXCEPT ![c] = Emplace(saved[c], g)]
          /\ Step(c, "backup", "status") /\ UNCHANGED entry
      BY <2>2, <3>1 DEF BackupDeoptimized, EntryInv, EntryTyped
    <3>4. /\ f = Emplace(saved[c], g)
          /\ DOMAIN saved' = Classes /\ \A d \in Classes \ {c} : saved'[d] = saved[d]
      BY <3>3 DEF EntryInv, EntryTyped
    <3>5. /\ DOMAIN f = DOMAIN saved[c] \cup DOMAIN g
          /\ \A m \in DOMAIN f : f[m] = IF m \in DOMAIN saved[c] THEN saved[c][m] ELSE g[m]
      BY <3>4 DEF Emplace
    <3>6. DOMAIN saved[c] \subseteq MethodsOf(c)
      BY DEF EntryInv, EntryTyped
    <3> HIDE DEF f
    <3> WITNESS "status" \in {"backup", "status"}
    <3> QED BY <3>2, <3>3, <3>4, <3>5, <3>6 DEF Step, flagVars, mapVars
  <2> QED BY <2>1, <2>2
<1>2. /\ initPc'[c] = to /\ \A d \in Classes \ {c} : initPc'[d] = initPc[d]
      /\ DOMAIN initPc' = Classes /\ DOMAIN entry' = Methods
      /\ App \in Classes /\ MethodsOf(App) = Targets
  BY <1>1 DEF EntryInv, EntryTyped, Classes, MethodsOf
<1>3. \A d \in Classes : DOMAIN saved'[d] \subseteq MethodsOf(d)
  BY <1>1, <1>2 DEF EntryInv, EntryTyped
<1>4. CASE c # App
  BY <1>1, <1>2, <1>3, <1>4, ArtStep
<1>5. CASE c = App
  <2>1. EntryTyped'
    BY <1>1, <1>2, <1>3, <1>5 DEF EntryInv, EntryTyped, thrVars
  <2>2. Copied'
    BY <1>1 DEF EntryInv, Copied, IsHooked, thrVars
  <2>3. Kept'
    <3> SUFFICES ASSUME NEW n \in Targets \ disturbed' PROVE InForce(n)'
      BY DEF Kept
    <3>1. InForce(n)
      BY DEF EntryInv, Kept
    <3>2. Open(App)'
      BY <1>1, <1>2, <1>5 DEF Open
    <3>3. /\ \A t \in Threads : pc[t] \in Entered => arg[t] # n
          /\ IsHooked(n) => n \in hookedClasses
      BY <1>1, <3>2, Spared
    <3>4. IsHooked(n) => /\ entry[n] = hooked[n]
                         /\ n \in DOMAIN saved[App] => saved[App][n] = hooked[n]
      BY <1>1, <1>5, <3>1 DEF InForce
    <3>5. IsHooked(n) /\ n \in statics => n \in DOMAIN f
      BY <1>1, <1>2, <1>5, <3>1, <3>3 DEF InForce, IsStatic
    <3>6. IsHooked(n) /\ n \in DOMAIN f => f[n] = hooked[n]
      BY <1>1, <1>5, <3>4
    <3> QED BY <1>1, <1>2, <1>5, <3>1, <3>3, <3>4, <3>5, <3>6 DEF InForce, IsHooked, thrVars
  <2> QED BY <2>1, <2>2, <2>3
<1> QED BY <1>4, <1>5

\* FixupStaticTrampolines writes only static targets, and those are saved.
LEMMA FixupEntry ==
    ASSUME EntryInv, NEW c \in Classes, FixupStaticTrampolines(c),
           Apart', disturbed \subseteq disturbed'
    PROVE  EntryTyped' /\ Copied' /\ Kept'
<1>1. /\ UNCHANGED <<statics, hooked, copyOf, saved, thrVars>>
      /\ initPc[c] = "status" /\ initPc' = [initPc EXCEPT ![c] = "fixed"]
      /\ DOMAIN entry' = Methods
  BY DEF FixupStaticTrampolines, Step, flagVars, mapVars
<1>2. \A n \in Targets : entry'[n] = entry[n] \/ (n \in MethodsOf(c) /\ n \in statics)
  <2> SUFFICES ASSUME NEW n \in Targets, entry'[n] # entry[n]
               PROVE  n \in MethodsOf(c) /\ n \in statics
    OBVIOUS
  <2>1. PICK m \in MethodsOf(c) :
           /\ IsStatic(m)
           /\ n = m \/ n = MaybeUseBackupMethod(m, ArtCode(c))
    BY DEF FixupStaticTrampolines, Methods
  <2>2. n = m
    BY <2>1, NamesAssumption DEF MaybeUseBackupMethod, IsHooked, EntryInv, MapsInv, MapsTyped
  <2> QED BY <2>1, <2>2 DEF IsStatic
<1>3. /\ initPc'[c] = "fixed" /\ \A d \in Classes \ {c} : initPc'[d] = initPc[d]
      /\ DOMAIN initPc' = Classes /\ DOMAIN saved' = Classes
      /\ \A d \in Classes : DOMAIN saved'[d] \subseteq MethodsOf(d)
      /\ App \in Classes /\ MethodsOf(App) = Targets
  BY <1>1 DEF EntryInv, EntryTyped, Classes, MethodsOf
<1>4. CASE c # App
  <2>1. \A n \in Targets : n \notin MethodsOf(c)
    BY <1>4, NamesAssumption DEF Classes, MethodsOf
  <2> QED BY <1>1, <1>2, <1>3, <1>4, <2>1, ArtStep
<1>5. CASE c = App
  <2>1. EntryTyped'
    BY <1>1, <1>3, <1>5 DEF EntryInv, EntryTyped, thrVars
  <2>2. Copied'
    BY <1>1 DEF EntryInv, Copied, IsHooked, thrVars
  <2>3. Kept'
    <3> SUFFICES ASSUME NEW n \in Targets \ disturbed' PROVE InForce(n)'
      BY DEF Kept
    <3>1. InForce(n)
      BY DEF EntryInv, Kept
    <3>2. \A t \in Threads : pc[t] \in Entered => arg[t] # n
      BY <1>1, <1>3, <1>5, Spared DEF Open
    <3>3. IsHooked(n) => /\ entry[n] = hooked[n]
                         /\ n \in DOMAIN saved[App] => saved[App][n] = hooked[n]
                         /\ n \in statics => n \in DOMAIN saved[App]
      BY <1>1, <1>5, <3>1 DEF InForce
    <3> QED BY <1>1, <1>2, <1>3, <1>5, <3>1, <3>2, <3>3 DEF InForce, IsHooked, thrVars
  <2> QED BY <2>1, <2>2, <2>3
<1> QED BY <1>4, <1>5

\* RestoreBackup gives a hooked method its saved entry point, the trampoline.
LEMMA RestoreEntry ==
    ASSUME EntryInv, NEW c \in Classes, RestoreBackup(c), Apart', disturbed \subseteq disturbed'
    PROVE  EntryTyped' /\ Copied' /\ Kept'
<1>1. PICK m \in DOMAIN saved[c] :
         /\ UNCHANGED <<statics, hooked, copyOf, thrVars>>
         /\ initPc[c] \in {"fixed", "restore"} /\ initPc' = [initPc EXCEPT ![c] = "restore"]
         /\ saved' = [saved EXCEPT ![c] = [x \in DOMAIN saved[c] \ {m} |-> saved[c][x]]]
         /\ DOMAIN entry' = Methods
         /\ \A n \in Targets : entry'[n] = IF n # m THEN entry[n]
                                           ELSE IF IsHooked(m) THEN saved[c][m] ELSE entry'[n]
  <2>1. PICK m \in DOMAIN saved[c], label \in {"fixed", "restore"} :
           LET new == entry[m]
               old == saved[c][m]
               reset == IF ~IsHooked(m) /\ m \in deoptSet /\ new # "interpreter" /\ ~IsNative(m)
                        THEN "interpreter" ELSE old
               moved == {hooked[x] : x \in {y \in {m} : IsHooked(y) /\ m \notin deoptSet /\ new # old}}
           IN  /\ Step(c, label, "restore")
               /\ entry' = [x \in Methods |-> IF x \in moved THEN new ELSE IF x = m THEN reset ELSE entry[x]]
               /\ saved' = [saved EXCEPT ![c] = [x \in DOMAIN @ \ {m} |-> @[x]]]
    BY DEF RestoreBackup
  <2>2. /\ saved' = [saved EXCEPT ![c] = [x \in DOMAIN saved[c] \ {m} |-> saved[c][x]]]
        /\ DOMAIN entry' = Methods
    BY <2>1 DEF EntryInv, EntryTyped
  <2>3. ASSUME NEW n \in Targets
        PROVE  entry'[n] = IF n # m THEN entry[n]
                           ELSE IF IsHooked(m) THEN saved[c][m] ELSE entry'[n]
    <3>1. IsHooked(m) => hooked[m] \notin Targets
      BY NamesAssumption DEF IsHooked, EntryInv, MapsInv, MapsTyped
    <3> QED BY <2>1, <3>1 DEF Methods
  <2> QED BY <2>1, <2>2, <2>3 DEF Step, flagVars, mapVars
<1>2. /\ initPc'[c] = "restore" /\ \A d \in Classes \ {c} : initPc'[d] = initPc[d]
      /\ DOMAIN initPc' = Classes /\ DOMAIN saved' = Classes
      /\ DOMAIN saved'[c] = DOMAIN saved[c] \ {m}
      /\ \A x \in DOMAIN saved'[c] : saved'[c][x] = saved[c][x]
      /\ \A d \in Classes \ {c} : saved'[d] = saved[d]
      /\ App \in Classes /\ MethodsOf(App) = Targets /\ m \in MethodsOf(c)
  BY <1>1 DEF EntryInv, EntryTyped, Classes, MethodsOf
<1>3. \A d \in Classes : DOMAIN saved'[d] \subseteq MethodsOf(d)
  BY <1>2 DEF EntryInv, EntryTyped
<1>4. CASE c # App
  <2>1. m \notin Targets
    BY <1>2, <1>4, NamesAssumption DEF Classes, MethodsOf
  <2> QED BY <1>1, <1>2, <1>3, <1>4, <2>1, ArtStep
<1>5. CASE c = App
  <2>1. EntryTyped'
    BY <1>1, <1>2, <1>3, <1>5 DEF EntryInv, EntryTyped, thrVars
  <2>2. Copied'
    BY <1>1 DEF EntryInv, Copied, IsHooked, thrVars
  <2>3. Kept'
    <3> SUFFICES ASSUME NEW n \in Targets \ disturbed' PROVE InForce(n)'
      BY DEF Kept
    <3>1. InForce(n)
      BY DEF EntryInv, Kept
    <3>2. \A t \in Threads : pc[t] \in Entered => arg[t] # n
      BY <1>1, <1>2, <1>5, Spared DEF Open
    <3>3. IsHooked(n) => /\ n \in DOMAIN saved[App] => saved[App][n] = hooked[n]
                         /\ entry[n] # hooked[n] => n \in DOMAIN saved[App]
      BY <3>1 DEF InForce
    <3>4. IsHooked(n) => entry'[n] = IF n = m THEN hooked[n] ELSE entry[n]
      BY <1>1, <1>5, <3>3
    <3> QED BY <1>1, <1>2, <1>5, <3>1, <3>2, <3>3, <3>4 DEF InForce, IsHooked, thrVars
  <2> QED BY <2>1, <2>2, <2>3
<1> QED BY <1>4, <1>5

\* The end of the initialisation: nothing is left to restore.
LEMMA InitializedEntry ==
    ASSUME EntryInv, NEW c \in Classes, Initialized(c), disturbed \subseteq disturbed'
    PROVE  EntryTyped' /\ Copied' /\ Kept'
<1>1. /\ UNCHANGED <<statics, hooked, copyOf, entry, saved, thrVars>>
      /\ initPc' = [initPc EXCEPT ![c] = "initialized"] /\ DOMAIN saved[c] = {}
  BY DEF Initialized, Step, flagVars, mapVars
<1>2. /\ initPc'[c] = "initialized" /\ \A d \in Classes \ {c} : initPc'[d] = initPc[d]
      /\ App \in Classes
  BY <1>1 DEF EntryInv, EntryTyped, Classes
<1>3. EntryTyped'
  BY <1>1, <1>2 DEF EntryInv, EntryTyped, thrVars
<1>4. Copied'
  BY <1>1 DEF EntryInv, Copied, IsHooked, thrVars
<1>5. Kept'
  <2> SUFFICES ASSUME NEW n \in Targets \ disturbed' PROVE InForce(n)'
    BY DEF Kept
  <2>1. InForce(n)
    BY DEF EntryInv, Kept
  <2> QED BY <1>1, <1>2, <2>1 DEF InForce, IsHooked, thrVars
<1> QED BY <1>3, <1>4, <1>5

-----------------------------------------------------------------------------
\* Instrumentation and the JIT: neither writes the entry point of a hooked
\* method of which nothing else is under way.
LEMMA CodeEntry ==
    ASSUME EntryInv, disturbed \subseteq disturbed', NEW n \in Targets \ disturbed',
           \/ \E x \in Methods : JitCompile(x) /\ Disturb({m \in Targets : ~Quiet(m) \/ Stale(m)})
           \/ \E m \in Targets : ReinitializeMethodsCode(m) /\ Disturb({x \in {m} : ~Quiet(x)})
    PROVE  entry'[n] = entry[n] \/ (~IsHooked(n) /\ Quiet(n))
<1> SUFFICES ASSUME entry'[n] # entry[n] PROVE ~IsHooked(n) /\ Quiet(n)
  OBVIOUS
<1>1. DOMAIN entry = Methods /\ n \in Methods
  BY DEF EntryInv, EntryTyped, Methods
<1>2. ASSUME NEW x \in Methods, JitCompile(x), Disturb({m \in Targets : ~Quiet(m) \/ Stale(m)})
      PROVE  ~IsHooked(n) /\ Quiet(n)
  <2>1. PICK m \in Compiled(x) \cap Targets : Compilable(m) /\ entry' = [entry EXCEPT ![m] = "jit"]
    BY <1>2 DEF JitCompile
  <2>2. n = m
    BY <1>1, <2>1
  <2>3. Quiet(n)
    BY <1>2 DEF Disturb
  <2>4. ~IsHooked(n)
    <3>1. n \notin Backups
      BY NamesAssumption
    <3> QED BY <2>1, <2>2, <3>1, HookedPair DEF Compilable, EntryInv, Copied
  <2> QED BY <2>3, <2>4
<1>3. ASSUME NEW m \in Targets, ReinitializeMethodsCode(m), Disturb({x \in {m} : ~Quiet(x)})
      PROVE  ~IsHooked(n) /\ Quiet(n)
  <2>1. n = MaybeUseBackupMethod(m, None)
    BY <1>1, <1>3 DEF ReinitializeMethodsCode
  <2>2. n = m
    BY <2>1, NamesAssumption DEF MaybeUseBackupMethod, IsHooked, EntryInv, MapsInv, MapsTyped
  <2>3. Quiet(n)
    BY <1>3, <2>2 DEF Disturb
  <2>4. ~IsHooked(n)
    <3> SUFFICES ASSUME IsHooked(n) PROVE FALSE
      OBVIOUS
    <3>1. entry[n] = hooked[n]
      BY <2>3 DEF EntryInv, Kept, InForce, Quiet, Open
    <3>2. hooked[n] # None /\ hooked[n] \notin Targets
      BY NamesAssumption DEF IsHooked, EntryInv, MapsInv, MapsTyped
    <3> QED BY <2>1, <2>2, <3>1, <3>2 DEF MaybeUseBackupMethod
  <2> QED BY <2>3, <2>4
<1> QED BY <1>2, <1>3

\* Steps of instrumentation and of the JIT, RegisterNative and stuttering.
LEMMA RuntimeEntry ==
    ASSUME EntryInv, disturbed \subseteq disturbed',
           \/ \E x \in Methods : JitCompile(x) /\ Disturb({m \in Targets : ~Quiet(m) \/ Stale(m)})
           \/ \E m \in Targets : ReinitializeMethodsCode(m) /\ Disturb({x \in {m} : ~Quiet(x)})
           \/ GarbageCollectCache
           \/ \E m \in Targets : RegisterNative(m)
           \/ UNCHANGED vars
    PROVE  EntryTyped' /\ Copied' /\ Kept'
<1>1. UNCHANGED <<statics, hooked, copyOf, thrVars, saved, initPc>> /\ DOMAIN entry' = Methods
  BY DEF JitCompile, ReinitializeMethodsCode, GarbageCollectCache, RegisterNative, vars,
         flagVars, artVars, mapVars, initVars, EntryInv, EntryTyped
<1>2. EntryTyped'
  BY <1>1 DEF EntryInv, EntryTyped, thrVars
<1>3. Copied'
  BY <1>1 DEF EntryInv, Copied, IsHooked, thrVars
<1>4. Kept'
  <2> SUFFICES ASSUME NEW n \in Targets \ disturbed' PROVE InForce(n)'
    BY DEF Kept
  <2>1. InForce(n)
    BY DEF EntryInv, Kept
  <2>2. CASE entry'[n] = entry[n]
    BY <1>1, <2>1, <2>2 DEF InForce, IsHooked, thrVars
  <2>3. CASE ~IsHooked(n) /\ Quiet(n)
    BY <1>1, <2>1, <2>3 DEF InForce, IsHooked, Quiet, Hooking, Entered, thrVars
  <2>4. CASE GarbageCollectCache \/ (\E m \in Targets : RegisterNative(m)) \/ UNCHANGED vars
    BY <2>2, <2>4 DEF GarbageCollectCache, RegisterNative, vars, artVars
  <2> QED BY <2>2, <2>3, <2>4, CodeEntry
<1> QED BY <1>2, <1>3, <1>4

\* Every step keeps the invariant.
LEMMA EntryStep == EntryInv /\ [Next]_vars => EntryInv'
<1> SUFFICES ASSUME EntryInv, [Next]_vars PROVE EntryTyped' /\ Copied' /\ Kept'
  BY MapsStep, ApartStep DEF EntryInv
<1>1. Apart' /\ disturbed \subseteq disturbed'
  BY ApartStep
<1>2. ASSUME NEW t \in Threads, Hook(t) \/ UnHook(t) \/ Deoptimize(t) \/ Run(t)
      PROVE  EntryTyped' /\ Copied' /\ Kept'
  BY <1>1, <1>2, EntryMoves, DoHookEntry, RecordMethodEntry, UnHookEntry, DeoptWriteEntry DEF Run
<1>3. ASSUME NEW c \in Classes, ClassInit(c)
      PROVE  EntryTyped' /\ Copied' /\ Kept'
  BY <1>1, <1>3, BackupEntry, FixupEntry, RestoreEntry, InitializedEntry DEF ClassInit
<1>4. ASSUME ~(\E t \in Threads : Hook(t) \/ UnHook(t) \/ Deoptimize(t) \/ Run(t)),
             ~(\E c \in Classes : ClassInit(c))
      PROVE  EntryTyped' /\ Copied' /\ Kept'
  BY <1>1, <1>4, RuntimeEntry DEF Next
<1> QED BY <1>2, <1>3, <1>4

\* In every reachable state the trampoline of an undisturbed hook is entered or
\* saved, and the hook's stub is a copy of its target.
THEOREM EntryInvariance == Spec => []EntryInv
BY InitEntryInv, EntryStep, PTL DEF Spec

\* A hook stays in force: when nothing is under way for a hooked method, and
\* its operations never overlapped, its entry point is the trampoline, whatever
\* ART's class linker, instrumentation and JIT did since DoHook.
THEOREM HookStays == Spec => []HookEffective
<1>1. EntryInv => HookEffective
  BY DEF EntryInv, Kept, InForce, HookEffective, Quiet, Open
<1> QED BY <1>1, EntryInvariance, PTL

-----------------------------------------------------------------------------
(* The original of a method.  While a target is hooked its backup stands    *)
(* for the original, otherwise the target itself does; DoHook and DoUnHook  *)
(* are where that changes.                                                  *)

StandsFor(x, m) ==
    \/ \E t \in Threads : Hooking(t, m) /\ x = bk[t]
    \/ (\A t \in Threads : ~Hooking(t, m)) /\ x = IF IsHooked(m) THEN hooked[m] ELSE m

OriginalTyped ==
    /\ DOMAIN fn = Methods
    /\ private \subseteq Backups
    /\ DOMAIN latest = Targets
    /\ DOMAIN jit = Targets
    /\ \A m \in Targets : jit[m] \in {"none", "freed", m} \cup Backups
    /\ movements \subseteq Targets \X Backups
    /\ \A b \in Backups : initPc[b] \in {"loaded", "backup", "initialized"} => DOMAIN saved[b] = {}

\* A stub becomes the copy of one target, when its Hook enters it, and stays that.
CopyInv ==
    /\ \A b \in Backups \ built : copyOf[b] = None
    /\ \A t \in Threads : pc[t] = "doHook" => copyOf[bk[t]] = None
    /\ \A t \in Threads : pc[t] \in InUnhook => copyOf[bk[t]] = arg[t]
    /\ \A t \in Threads : pc[t] = "deoptWrite" =>
          bk[t] = arg[t] \/ (bk[t] \in Backups /\ copyOf[bk[t]] = arg[t])

\* What the sets of common.cxx hold once the step that fills them has been made.
RecordInv ==
    /\ \A m \in Targets :
          IsHooked(m) /\ (\A t \in Threads : arg[t] = m => pc[t] # "recordDeoptClass") =>
             /\ hooked[m] \in deoptClasses
             /\ jit[m] = m => \E b \in Backups : <<m, b>> \in movements
    /\ \A m \in Targets \cap deoptSet : m \in deoptClasses
    /\ \A m \in Targets \cap deoptClasses :
          m \in deoptSet \/ \E t \in Threads : pc[t] = "deoptSet" /\ arg[t] = m
    /\ \A t \in Threads : pc[t] = "deoptSet" => arg[t] \in deoptClasses
    /\ \A t \in Threads : pc[t] \in {"deoptRead", "deoptWrite"} => arg[t] \in deoptSet

\* An entry point the original of m may have.
Fit(v, m) ==
    /\ v \in {"code", "interpreter", "jit", "resolve"}
    /\ v = "jit" => jit[m] \in {m} \cup Backups
    /\ v = "resolve" => m \in statics /\ initPc[App] \in {"loaded", "backup", "status"}
    /\ m \in deoptSet /\ (\A t \in Threads : ~Deoptimizing(t, m)) => v = "interpreter"

\* ART has written its code into the hooked target; RestoreBackup will move it.
Moving(m) ==
    /\ IsHooked(m)
    /\ m \in DOMAIN saved[App]
    /\ m \notin deoptSet
    /\ initPc[App] \in {"fixed", "restore"}
    /\ entry[m] = "code"

\* The entry point of the original x, or what RestoreBackup will make of it.
EntryFit(x, m) ==
    /\ x \in Backups /\ x \in DOMAIN saved[x] =>
          /\ Fit(saved[x][x], m)
          /\ entry[x] = "interpreter" => saved[x][x] = "interpreter"
    /\ x = m /\ m \in DOMAIN saved[App] => m \in deoptSet /\ saved[App][m] = "interpreter"
    /\ \/ Fit(entry[x], m)
       \/ x \in Backups /\ x \in DOMAIN saved[x]
       \/ x = m /\ m \in DOMAIN saved[App]
       \/ Moving(m)

OriginalGood(m) ==
    /\ \A x \in Methods : StandsFor(x, m) =>
          /\ fn[x] = latest[m]
          /\ ~(m \in natives /\ m \in deoptSet) => EntryFit(x, m)
    /\ IsHooked(m) /\ entry[m] # hooked[m] => entry[m] = "code"
    /\ ~IsHooked(m) /\ initPc[App] = "status" /\ m \in statics /\ m \in deoptSet =>
          m \in DOMAIN saved[App]
    /\ IsHooked(m) /\ Open(hooked[m]) => m \in statics
    /\ IsHooked(m) /\ initPc[hooked[m]] = "status" => hooked[m] \in DOMAIN saved[hooked[m]]
    /\ \A t \in Threads : pc[t] = "deoptWrite" /\ arg[t] = m => StandsFor(bk[t], m)

Good == \A m \in Targets \ disturbed : OriginalGood(m)

OriginalInv == EntryInv /\ OriginalTyped /\ CopyInv /\ RecordInv /\ Good

\* The original of a target is the target or a copy of it, and there is one.
LEMMA Standing ==
    ASSUME OriginalInv, NEW m \in Targets
    PROVE  /\ \A x : StandsFor(x, m) => x = m \/ (x \in Backups /\ copyOf[x] = m)
           /\ \A x, y : StandsFor(x, m) /\ StandsFor(y, m) => x = y
<1>1. ASSUME NEW t \in Threads, Hooking(t, m)
      PROVE  /\ bk[t] \in Backups /\ copyOf[bk[t]] = m
             /\ \A u \in Threads : Hooking(u, m) => u = t
  <2>1. arg[t] = m /\ (pc[t] \in Entered \/ pc[t] \in InUnhook)
    BY <1>1 DEF Hooking, Entered
  <2>2. copyOf[bk[t]] = m
    BY <2>1 DEF OriginalInv, EntryInv, Copied, CopyInv
  <2>3. pc[t] \in Busy /\ \A u \in Threads : Hooking(u, m) => pc[u] \in Busy /\ arg[u] = m
    BY <1>1 DEF Hooking, Busy
  <2>4. bk[t] \in Backups
    BY <2>3, InBusy DEF OriginalInv, EntryInv
  <2> QED BY <2>1, <2>2, <2>3, <2>4 DEF OriginalInv, EntryInv, MapsInv, OneHolder
<1>2. IsHooked(m) => hooked[m] \in Backups /\ copyOf[hooked[m]] = m
  BY HookedPair DEF OriginalInv, EntryInv, Copied
<1> QED BY <1>1, <1>2 DEF StandsFor

\* An undisturbed target whose Hook, UnHook or Deoptimize is under way has no
\* initialisation of its class or stub under way.
LEMMA HookingAlone ==
    ASSUME Apart, NEW m \in Targets \ disturbed, NEW t \in Threads, Hooking(t, m)
    PROVE  /\ ~Open(App) /\ \A u \in Threads : ~Deoptimizing(u, m)
           /\ bk[t] \in Backups => ~Open(bk[t])
BY DEF Apart, Overlap, Classes

\* The same for a Deoptimize.
LEMMA DeoptAlone ==
    ASSUME Apart, NEW m \in Targets \ disturbed, NEW t \in Threads, Deoptimizing(t, m)
    PROVE  /\ ~Open(App) /\ \A u \in Threads : ~Hooking(u, m)
           /\ bk[t] \in Backups => ~Open(bk[t])
BY DEF Apart, Overlap, Classes

\* And the other way round: while its class is being initialised.
LEMMA OpenAlone ==
    ASSUME Apart, NEW m \in Targets \ disturbed, Open(App)
    PROVE  /\ \A t \in Threads : ~Hooking(t, m) /\ ~Deoptimizing(t, m)
           /\ IsHooked(m) => ~Open(hooked[m])
BY DEF Apart, Overlap, Classes

\* A class that is not being initialised has no saved entry points.
LEMMA NothingSaved ==
    ASSUME OriginalInv, NEW c \in Classes, ~Open(c)
    PROVE  DOMAIN saved[c] = {} /\ initPc[c] \notin {"backup", "status", "fixed", "restore"}
BY DEF OriginalInv, EntryInv, EntryTyped, OriginalTyped, Open, Classes

\* While nothing is saved the original of m has an entry point that fits.
LEMMA FitNow ==
    ASSUME OriginalInv, NEW m \in Targets, NEW x, StandsFor(x, m), EntryFit(x, m), ~Open(App),
           x \in Backups => ~Open(x)
    PROVE  Fit(entry[x], m)
<1>1. x = m \/ x \in Backups
  BY Standing
<1>2. x \in Backups => DOMAIN saved[x] = {}
  BY NothingSaved DEF Classes
<1>3. DOMAIN saved[App] = {} /\ initPc[App] \notin {"fixed", "restore"}
  BY NothingSaved DEF Classes
<1> QED BY <1>1, <1>2, <1>3 DEF EntryFit, Moving

\* The initial states satisfy the invariant.
LEMMA InitOriginalInv == Init => OriginalInv
<1> SUFFICES ASSUME Init PROVE OriginalInv
  OBVIOUS
<1>1. EntryInv
  BY InitEntryInv
<1> USE DEF Init
<1>2. OriginalTyped
  <2>1. \A c \in Classes : DOMAIN saved[c] = {}
    BY DEF Empty
  <2> QED BY <2>1 DEF OriginalTyped, Classes
<1>3. CopyInv /\ RecordInv
  BY DEF CopyInv, RecordInv, IsHooked, InUnhook
<1>4. Good
  <2> SUFFICES ASSUME NEW m \in Targets PROVE OriginalGood(m)
    BY DEF Good
  <2>1. hooked[m] = None /\ m \in Methods /\ m \notin Backups /\ latest[m] = 0 /\ fn[m] = 0
    BY NamesAssumption DEF Methods
  <2>2. \A x : StandsFor(x, m) => x = m
    BY <2>1 DEF StandsFor, Hooking, IsHooked, InHook, InUnhook
  <2>3. initPc[App] = "loaded" /\ DOMAIN saved[App] = {}
    BY DEF Classes, Empty
  <2>4. Fit(entry[m], m)
    BY <2>1, <2>3 DEF Fit
  <2>5. EntryFit(m, m)
    BY <2>1, <2>3, <2>4 DEF EntryFit
  <2> QED BY <2>1, <2>2, <2>3, <2>5 DEF OriginalGood, IsHooked
<1> QED BY <1>1, <1>2, <1>3, <1>4 DEF OriginalInv

\* The parts of the invariant that hold whatever overlaps.
Rest == OriginalTyped /\ CopyInv /\ RecordInv

\* Steps of a thread that change no method and no class.
LEMMA RestHook ==
    ASSUME OriginalInv, NEW t \in Threads, Hook(t)
    PROVE  Rest'
<1>1. PICK m \in Targets, b \in Backups \ built :
         /\ pc[t] = "idle" /\ built' = built \cup {b} /\ Local(t, "doHook", m, b)
         /\ UNCHANGED <<flagVars, internal, jitVars, artVars, mapVars, initVars, latest>>
  BY DEF Hook
<1>2. /\ pc'[t] = "doHook" /\ arg'[t] = m /\ bk'[t] = b
      /\ \A u \in Threads \ {t} : pc'[u] = pc[u] /\ arg'[u] = arg[u] /\ bk'[u] = bk[u]
  BY <1>1, Moves DEF OriginalInv
<1>3. OriginalTyped'
  BY <1>1 DEF OriginalInv, OriginalTyped, artVars, jitVars, initVars
<1>4. CopyInv'
  BY <1>1, <1>2 DEF OriginalInv, CopyInv, artVars, InUnhook
<1>5. RecordInv'
  BY <1>1, <1>2 DEF OriginalInv, RecordInv, IsHooked, jitVars, mapVars
<1> QED BY <1>3, <1>4, <1>5 DEF Rest

\* A step of thread t that fills no map.
LEMMA RestMove ==
    ASSUME OriginalInv, NEW t \in Threads, NEW l, NEW a, NEW b, Local(t, l, a, b),
           UNCHANGED <<private, copyOf, latest, jitVars, initVars, deoptClasses, built>>,
           DOMAIN fn' = Methods,
           \A n \in Targets : hooked'[n] \in {hooked[n], None},
           deoptSet \subseteq deoptSet', deoptSet' \subseteq deoptSet \cup Backups,
           pc[t] \notin {"deoptSet", "recordDeoptClass"}, l \notin {"deoptSet", "doHook"},
           l \in InUnhook => copyOf[b] = a,
           l = "deoptRead" => pc[t] = l /\ arg[t] = a,
           l = "deoptWrite" => a \in deoptSet /\ (b = a \/ (b \in Backups /\ copyOf[b] = a))
    PROVE  Rest'
<1>1. /\ pc'[t] = l /\ arg'[t] = a /\ bk'[t] = b
      /\ \A u \in Threads \ {t} : pc'[u] = pc[u] /\ arg'[u] = arg[u] /\ bk'[u] = bk[u]
  BY Moves DEF OriginalInv
<1>2. OriginalTyped'
  BY DEF OriginalInv, OriginalTyped, jitVars, initVars
<1>3. CopyInv'
  BY <1>1 DEF OriginalInv, CopyInv
<1>4. RecordInv'
  <2>1. \A n \in Targets : (n \in deoptSet' <=> n \in deoptSet) /\ n \notin Backups
    BY NamesAssumption
  <2>2. \A n \in Targets : IsHooked(n)' => IsHooked(n) /\ hooked'[n] = hooked[n]
    BY DEF IsHooked
  <2>3. \A n \in Targets : (\A u \in Threads : arg'[u] = n => pc'[u] # "recordDeoptClass") =>
                            \A u \in Threads : arg[u] = n => pc[u] # "recordDeoptClass"
    BY <1>1
  <2> QED BY <1>1, <2>1, <2>2, <2>3 DEF OriginalInv, RecordInv, jitVars
<1> QED BY <1>2, <1>3, <1>4 DEF Rest

\* The steps that are of this kind.
LEMMA RestMoves ==
    ASSUME OriginalInv, NEW t \in Threads,
           \/ DoHookFails(t) \/ RecordHookedClass(t) \/ RecordBackup(t) \/ UnHook(t)
           \/ EraseBackup(t) \/ EraseClass(t) \/ DoUnHook(t) \/ DeoptRead(t) \/ DeoptWrite(t)
    PROVE  Rest'
<1> USE DEF flagVars, artVars, mapVars, InUnhook
<1>1. pc[t] # "idle" => arg[t] \in Targets
  BY DEF OriginalInv, EntryInv, MapsInv, MapsTyped
<1>2. CASE DoHookFails(t)
  BY <1>2, RestMove DEF DoHookFails, Return, OriginalInv, OriginalTyped
<1>3. CASE RecordHookedClass(t)
  BY <1>3, RestMove DEF RecordHookedClass, Goto, OriginalInv, OriginalTyped
<1>4. CASE RecordBackup(t)
  <2>1. bk[t] \in Backups
    BY <1>4, InBusy DEF RecordBackup, RecordDeoptSet, OriginalInv, EntryInv, Busy, InHook
  <2> QED BY <1>4, <2>1, RestMove DEF RecordBackup, RecordDeoptSet, Return, OriginalInv, OriginalTyped
<1>5. CASE UnHook(t)
  <2>1. PICK m \in Targets :
           /\ pc[t] = "idle" /\ IsHooked(m) /\ hooked' = [hooked EXCEPT ![m] = None]
           /\ Local(t, "eraseBackup", m, hooked[m])
           /\ UNCHANGED <<jitVars, artVars, deoptClasses, deoptSet, initVars, built, latest>>
    BY <1>5 DEF UnHook
  <2>2. copyOf[hooked[m]] = m /\ \A n \in Targets : hooked'[n] \in {hooked[n], None}
    BY <2>1 DEF OriginalInv, EntryInv, Copied, MapsInv, MapsTyped
  <2> QED BY <2>1, <2>2, RestMove DEF OriginalInv, OriginalTyped
<1>6. CASE EraseBackup(t) \/ EraseClass(t)
  <2>1. PICK l \in {"eraseClass", "doUnhook"} :
           /\ pc[t] \in {"eraseBackup", "eraseClass"} /\ Local(t, l, arg[t], bk[t])
           /\ UNCHANGED <<jitVars, artVars, deoptClasses, deoptSet, hooked, initVars, built, latest>>
    BY <1>6 DEF EraseBackup, EraseClass, Goto
  <2>2. copyOf[bk[t]] = arg[t]
    BY <2>1 DEF OriginalInv, CopyInv
  <2> QED BY <2>1, <2>2, RestMove DEF OriginalInv, OriginalTyped
<1>7. CASE DoUnHook(t)
  BY <1>7, RestMove DEF DoUnHook, Return, OriginalInv, OriginalTyped
<1>8. CASE DeoptRead(t)
  <2>1. /\ pc[t] = "deoptRead" /\ arg[t] \in Targets /\ arg[t] \in deoptSet
        /\ UNCHANGED <<jitVars, artVars, mapVars, initVars, built, latest>>
    BY <1>1, <1>8 DEF DeoptRead, OriginalInv, RecordInv
  <2>2. CASE Return(t)
    BY <2>1, <2>2, RestMove DEF Return, OriginalInv, OriginalTyped
  <2>3. ASSUME NEW b, b = IF IsHooked(arg[t]) THEN hooked[arg[t]] ELSE arg[t],
               Local(t, "deoptWrite", arg[t], b)
        PROVE  Rest'
    <3>1. b = arg[t] \/ (b \in Backups /\ copyOf[b] = arg[t])
      BY <2>1, <2>3, HookedPair DEF OriginalInv, EntryInv, Copied
    <3> QED BY <2>1, <2>3, <3>1, RestMove DEF OriginalInv, OriginalTyped
  <2> QED BY <1>8, <2>2, <2>3 DEF DeoptRead
<1>9. CASE DeoptWrite(t)
  BY <1>9, RestMove DEF DeoptWrite, Return, OriginalInv, OriginalTyped
<1> QED BY <1>2, <1>3, <1>4, <1>5, <1>6, <1>7, <1>8, <1>9

\* DoHook makes a stub nobody has seen the copy of its target.
LEMMA RestDoHook ==
    ASSUME OriginalInv, NEW t \in Threads, DoHook(t)
    PROVE  Rest'
<1>1. /\ pc[t] = "doHook" /\ Local(t, "recordClass", arg[t], bk[t])
      /\ copyOf' = [copyOf EXCEPT ![bk[t]] = arg[t]]
      /\ private' \subseteq private \cup {bk[t]} /\ fn' = [fn EXCEPT ![bk[t]] = fn[arg[t]]]
      /\ UNCHANGED <<jitVars, mapVars, initVars, built, latest>>
  BY DEF DoHook, Goto
<1>2. /\ bk[t] \in Backups /\ bk[t] \in built /\ copyOf[bk[t]] = None
      /\ \A u \in Threads \ {t} : pc[u] = "doHook" => bk[u] # bk[t]
  BY <1>1, InBusy DEF OriginalInv, EntryInv, CopyInv, MapsInv, Fresh, Early, Busy, InHook
<1>3. /\ pc'[t] = "recordClass" /\ arg'[t] = arg[t] /\ bk'[t] = bk[t]
      /\ \A u \in Threads \ {t} : pc'[u] = pc[u] /\ arg'[u] = arg[u] /\ bk'[u] = bk[u]
  BY <1>1, Moves DEF OriginalInv
<1>4. OriginalTyped'
  BY <1>1, <1>2 DEF OriginalInv, OriginalTyped, jitVars, initVars
<1>5. \A b \in Backups : b # bk[t] => copyOf'[b] = copyOf[b]
  BY <1>1, <1>2 DEF OriginalInv, EntryInv, EntryTyped
<1>6. \A u \in Threads : pc[u] # "idle" => arg[u] # None
  BY NamesAssumption DEF OriginalInv, EntryInv, MapsInv, MapsTyped
<1>7. \A u \in Threads : pc[u] \in InUnhook \cup {"doHook"} => bk[u] \in Backups
  BY InBusy DEF OriginalInv, EntryInv, Busy, InHook
<1>8. CopyInv'
  BY <1>1, <1>2, <1>3, <1>5, <1>6, <1>7 DEF OriginalInv, CopyInv, InUnhook
<1>9. RecordInv'
  BY <1>1, <1>3 DEF OriginalInv, RecordInv, IsHooked, jitVars, mapVars
<1> QED BY <1>4, <1>8, <1>9 DEF Rest

\* The steps that fill the maps.
LEMMA RestRecords ==
    ASSUME OriginalInv, NEW t \in Threads,
           RecordHookedMethod(t) \/ RecordBackupClass(t) \/ Deoptimize(t) \/ DeoptSet(t)
    PROVE  Rest'
<1>1. UNCHANGED <<artVars, initVars, built, latest, jit>>
  BY DEF RecordHookedMethod, RecordBackupClass, Deoptimize, DeoptSet, RecordDeoptClass,
         RecordDeoptSet, jitVars
<1>2. pc[t] # "idle" => arg[t] \in Targets
  BY DEF OriginalInv, EntryInv, MapsInv, MapsTyped
<1>3. ASSUME NEW l, NEW m, NEW b, Local(t, l, m, b), l \notin InUnhook \cup {"doHook", "deoptWrite"}
      PROVE  /\ CopyInv'
             /\ pc'[t] = l /\ arg'[t] = m /\ bk'[t] = b
             /\ \A u \in Threads \ {t} : pc'[u] = pc[u] /\ arg'[u] = arg[u] /\ bk'[u] = bk[u]
  <2>1. /\ pc'[t] = l /\ arg'[t] = m /\ bk'[t] = b
        /\ \A u \in Threads \ {t} : pc'[u] = pc[u] /\ arg'[u] = arg[u] /\ bk'[u] = bk[u]
    BY <1>3, Moves DEF OriginalInv
  <2> QED BY <1>1, <1>3, <2>1 DEF OriginalInv, CopyInv, artVars
<1> USE DEF InUnhook
<1>4. CASE RecordHookedMethod(t)
  <2>1. /\ pc[t] = "recordMethod" /\ Local(t, "recordDeoptClass", arg[t], bk[t])
        /\ hooked' = [hooked EXCEPT ![arg[t]] = bk[t]]
        /\ UNCHANGED <<movements, deoptClasses, deoptSet>>
    BY <1>4 DEF RecordHookedMethod, Goto, jitVars
  <2>2. /\ CopyInv' /\ pc'[t] = "recordDeoptClass" /\ arg'[t] = arg[t]
        /\ \A u \in Threads \ {t} : pc'[u] = pc[u] /\ arg'[u] = arg[u]
    BY <1>3, <2>1
  <2>3. \A n \in Targets \ {arg[t]} : hooked'[n] = hooked[n]
    BY <2>1 DEF OriginalInv, EntryInv, MapsInv, MapsTyped
  <2>4. RecordInv'
    BY <1>1, <2>1, <2>2, <2>3 DEF OriginalInv, RecordInv, IsHooked
  <2> QED BY <1>1, <2>1, <2>2, <2>4 DEF Rest, OriginalInv, OriginalTyped, artVars, initVars
<1>5. CASE RecordBackupClass(t)
  <2>1. /\ pc[t] = "recordDeoptClass" /\ Local(t, "recordDeopt", arg[t], bk[t])
        /\ movements' = movements \cup {<<arg[t], bk[t]>>}
        /\ deoptClasses' = deoptClasses \cup {bk[t]}
        /\ UNCHANGED <<hooked, deoptSet>>
    BY <1>5 DEF RecordBackupClass, RecordDeoptClass, Goto
  <2>2. /\ CopyInv' /\ pc'[t] = "recordDeopt" /\ arg'[t] = arg[t]
        /\ \A u \in Threads \ {t} : pc'[u] = pc[u] /\ arg'[u] = arg[u]
    BY <1>3, <2>1
  <2>3. /\ arg[t] \in Targets /\ bk[t] \in Backups /\ bk[t] \notin Targets
        /\ hooked[arg[t]] \in {None, bk[t]}
    BY <2>1, InBusy, NamesAssumption DEF OriginalInv, EntryInv, Stand, Busy, InHook
  <2>4. RecordInv'
    <3>1. ASSUME NEW m \in Targets, IsHooked(m)',
                 \A u \in Threads : arg'[u] = m => pc'[u] # "recordDeoptClass"
          PROVE  hooked'[m] \in deoptClasses' /\ (jit'[m] = m => \E b \in Backups : <<m, b>> \in movements')
      <4>1. CASE m = arg[t]
        BY <2>1, <2>3, <3>1, <4>1 DEF IsHooked
      <4>2. CASE m # arg[t]
        <5>1. \A u \in Threads : arg[u] = m => pc[u] # "recordDeoptClass"
          BY <2>2, <3>1, <4>2
        <5>2. IsHooked(m) /\ hooked'[m] = hooked[m] /\ jit'[m] = jit[m]
          BY <1>1, <2>1, <3>1 DEF IsHooked
        <5>3. hooked[m] \in deoptClasses /\ (jit[m] = m => \E b \in Backups : <<m, b>> \in movements)
          BY <5>1, <5>2 DEF OriginalInv, RecordInv
        <5> QED BY <2>1, <5>2, <5>3
      <4> QED BY <4>1, <4>2
    <3>2. \A m \in Targets : m \in deoptClasses' <=> m \in deoptClasses
      BY <2>1, <2>3
    <3>3. \A u \in Threads : pc'[u] = "deoptSet" => arg'[u] \in deoptClasses'
      BY <2>1, <2>2 DEF OriginalInv, RecordInv
    <3>4. \A m \in Targets : (\E u \in Threads : pc[u] = "deoptSet" /\ arg[u] = m) =>
                              \E u \in Threads : pc'[u] = "deoptSet" /\ arg'[u] = m
      BY <2>1, <2>2
    <3> QED BY <2>1, <2>2, <3>1, <3>2, <3>3, <3>4 DEF OriginalInv, RecordInv
  <2> QED BY <1>1, <2>1, <2>2, <2>3, <2>4 DEF Rest, OriginalInv, OriginalTyped, artVars, initVars
<1>6. CASE Deoptimize(t)
  <2>1. PICK m \in Targets :
           /\ pc[t] = "idle" /\ Local(t, "deoptSet", m, None)
           /\ deoptClasses' = deoptClasses \cup {m}
           /\ UNCHANGED <<hooked, deoptSet, movements>>
    BY <1>6 DEF Deoptimize, RecordDeoptClass
  <2>2. /\ CopyInv' /\ pc'[t] = "deoptSet" /\ arg'[t] = m
        /\ \A u \in Threads \ {t} : pc'[u] = pc[u] /\ arg'[u] = arg[u]
    BY <1>3, <2>1
  <2>3. RecordInv'
    BY <1>1, <2>1, <2>2 DEF OriginalInv, RecordInv, IsHooked
  <2> QED BY <1>1, <2>1, <2>2, <2>3 DEF Rest, OriginalInv, OriginalTyped, artVars, initVars
<1>7. CASE DeoptSet(t)
  <2>1. /\ pc[t] = "deoptSet" /\ Local(t, "deoptRead", arg[t], bk[t])
        /\ deoptSet' = deoptSet \cup {arg[t]}
        /\ UNCHANGED <<hooked, deoptClasses, movements>>
    BY <1>7 DEF DeoptSet, RecordDeoptSet, Goto, jitVars
  <2>2. /\ CopyInv' /\ pc'[t] = "deoptRead" /\ arg'[t] = arg[t]
        /\ \A u \in Threads \ {t} : pc'[u] = pc[u] /\ arg'[u] = arg[u]
    BY <1>3, <2>1
  <2>3. RecordInv'
    BY <1>1, <2>1, <2>2 DEF OriginalInv, RecordInv, IsHooked
  <2> QED BY <1>1, <2>1, <2>2, <2>3 DEF Rest, OriginalInv, OriginalTyped, artVars, initVars
<1> QED BY <1>4, <1>5, <1>6, <1>7

\* Class initialisation saves entry points of a stub class only in between.
LEMMA RestClassInit ==
    ASSUME OriginalInv, NEW c \in Classes, ClassInit(c)
    PROVE  Rest'
<1>1. UNCHANGED <<flagVars, jitVars, fn, private, copyOf, mapVars, thrVars, built, latest>>
  <2>1. CASE BackupHooked(c) \/ BackupDeoptimized(c)
    BY <2>1 DEF BackupHooked, BackupDeoptimized, Step
  <2>2. CASE FixupStaticTrampolines(c) \/ Initialized(c)
    BY <2>2 DEF FixupStaticTrampolines, Initialized, Step
  <2>3. CASE RestoreBackup(c)
    BY <2>3 DEF RestoreBackup, Step
  <2> QED BY <2>1, <2>2, <2>3 DEF ClassInit
<1>2. CopyInv' /\ RecordInv'
  BY <1>1 DEF OriginalInv, CopyInv, RecordInv, IsHooked, jitVars, mapVars, thrVars
<1>3. \A b \in Backups : initPc'[b] \in {"loaded", "backup", "initialized"} => DOMAIN saved'[b] = {}
  <2>1. CASE BackupHooked(c)
    <3>1. /\ initPc' = [initPc EXCEPT ![c] = "backup"]
          /\ saved' = [saved EXCEPT ![c] = EntriesOf(MethodsOf(c) \cap hookedClasses)]
      BY <2>1 DEF BackupHooked, Step
    <3>2. ASSUME c \in Backups PROVE DOMAIN EntriesOf(MethodsOf(c) \cap hookedClasses) = {}
      <4>1. MethodsOf(c) \cap hookedClasses = {}
        BY <3>2, NamesAssumption DEF MethodsOf, OriginalInv, EntryInv, MapsInv, MapsTyped
      <4> QED BY <4>1 DEF EntriesOf
    <3> QED BY <3>1, <3>2 DEF OriginalInv, OriginalTyped, EntryInv, EntryTyped, Classes
  <2>2. CASE BackupDeoptimized(c) \/ FixupStaticTrampolines(c) \/ RestoreBackup(c)
    <3>1. PICK to \in {"status", "fixed", "restore"} :
             /\ initPc' = [initPc EXCEPT ![c] = to]
             /\ \A d \in Classes \ {c} : saved'[d] = saved[d]
      <4>1. CASE BackupDeoptimized(c)
        BY <4>1 DEF BackupDeoptimized, Step, EntryInv, OriginalInv, EntryTyped
      <4>2. CASE FixupStaticTrampolines(c)
        BY <4>2 DEF FixupStaticTrampolines, Step
      <4>3. CASE RestoreBackup(c)
        BY <4>3 DEF RestoreBackup, Step, EntryInv, OriginalInv, EntryTyped
      <4> QED BY <2>2, <4>1, <4>2, <4>3
    <3> QED BY <3>1 DEF OriginalInv, OriginalTyped, EntryInv, EntryTyped, Classes
  <2>3. CASE Initialized(c)
    <3>1. initPc' = [initPc EXCEPT ![c] = "initialized"] /\ saved' = saved /\ DOMAIN saved[c] = {}
      BY <2>3 DEF Initialized, Step
    <3> QED BY <3>1 DEF OriginalInv, OriginalTyped, EntryInv, EntryTyped, Classes
  <2> QED BY <2>1, <2>2, <2>3 DEF ClassInit
<1>4. OriginalTyped'
  BY <1>1, <1>3 DEF OriginalInv, OriginalTyped, jitVars
<1> QED BY <1>2, <1>4 DEF Rest

\* MoveObsoleteMethods gives the code of a method to a stub or leaves it.
LEMMA MovedTo ==
    ASSUME OriginalInv, NEW m \in Targets
    PROVE  /\ MoveObsoleteMethods(m) \in {jit[m]} \cup Backups
           /\ MoveObsoleteMethods(m) = m => \A b \in Backups : <<m, b>> \notin movements
<1> DEFINE to == {b \in Backups : <<m, b>> \in movements}
<1>1. to # {} => (CHOOSE b \in to : TRUE) \in to
  OBVIOUS
<1>2. m \notin Backups
  BY NamesAssumption
<1> QED BY <1>1, <1>2 DEF MoveObsoleteMethods

\* The steps of ART at any time.
LEMMA RestRuntime ==
    ASSUME OriginalInv,
           \/ GarbageCollectCache \/ (\E x \in Methods : JitCompile(x))
           \/ \E m \in Targets : RegisterNative(m) \/ ReinitializeMethodsCode(m)
           \/ UNCHANGED vars
    PROVE  Rest'
<1>1. /\ UNCHANGED <<private, copyOf, mapVars, thrVars, initVars, built>>
      /\ DOMAIN latest' = Targets /\ DOMAIN fn' = Methods
  BY DEF GarbageCollectCache, JitCompile, RegisterNative, ReinitializeMethodsCode, vars, artVars,
         OriginalInv, OriginalTyped
<1>2. CopyInv'
  BY <1>1 DEF OriginalInv, CopyInv, thrVars
<1>3. ASSUME /\ movements' \subseteq Targets \X Backups /\ DOMAIN jit' = Targets
             /\ \A m \in Targets : jit'[m] \in {"none", "freed", m} \cup Backups
             /\ \A m \in Targets : IsHooked(m) /\ jit'[m] = m =>
                   \/ jit[m] = m /\ movements' = movements
                   \/ jit[m] = m /\ \A b \in Backups : <<m, b>> \notin movements
      PROVE  Rest'
  <2>1. OriginalTyped'
    BY <1>1, <1>3 DEF OriginalInv, OriginalTyped, initVars
  <2>2. RecordInv'
    <3>1. ASSUME NEW m \in Targets, IsHooked(m)',
                 \A t \in Threads : arg'[t] = m => pc'[t] # "recordDeoptClass"
          PROVE  hooked'[m] \in deoptClasses' /\ (jit'[m] = m => \E b \in Backups : <<m, b>> \in movements')
      <4>1. IsHooked(m) /\ hooked'[m] = hooked[m] /\ deoptClasses' = deoptClasses
        BY <1>1, <3>1 DEF IsHooked, mapVars
      <4>2. hooked[m] \in deoptClasses /\ (jit[m] = m => \E b \in Backups : <<m, b>> \in movements)
        BY <1>1, <3>1, <4>1 DEF OriginalInv, RecordInv, thrVars
      <4> QED BY <1>3, <4>1, <4>2
    <3> QED BY <1>1, <3>1 DEF OriginalInv, RecordInv, mapVars, thrVars
  <2> QED BY <1>2, <2>1, <2>2 DEF Rest
<1>4. CASE GarbageCollectCache
  <2>1. /\ DOMAIN jit' = Targets /\ movements' = {}
        /\ \A m \in Targets : jit'[m] \in {"freed", MoveObsoleteMethods(m)}
    BY <1>4 DEF GarbageCollectCache
  <2>2. \A m \in Targets : jit[m] \in {"none", "freed", m} \cup Backups /\ m # "freed" /\ m \notin Backups
    BY NamesAssumption DEF OriginalInv, OriginalTyped
  <2> QED BY <1>3, <2>1, <2>2, MovedTo
<1>5. ASSUME NEW x \in Methods, JitCompile(x) PROVE Rest'
  <2>1. PICK m \in Targets : Compilable(m) /\ jit' = [jit EXCEPT ![m] = m] /\ movements' = movements
    BY <1>5 DEF JitCompile
  <2>2. ~IsHooked(m)
    <3>1. m \notin Backups
      BY NamesAssumption
    <3> QED BY <2>1, <3>1, HookedPair DEF Compilable, OriginalInv, EntryInv, Copied
  <2>3. /\ DOMAIN jit = Targets /\ movements \subseteq Targets \X Backups
        /\ \A n \in Targets : jit[n] \in {"none", "freed", n} \cup Backups
    BY DEF OriginalInv, OriginalTyped
  <2>4. DOMAIN jit' = Targets /\ \A n \in Targets : jit'[n] = IF n = m THEN m ELSE jit[n]
    BY <2>1, <2>3
  <2> QED BY <1>3, <2>1, <2>2, <2>3, <2>4
<1>6. CASE (\E m \in Targets : RegisterNative(m) \/ ReinitializeMethodsCode(m)) \/ UNCHANGED vars
  <2>1. UNCHANGED jitVars
    BY <1>6 DEF RegisterNative, ReinitializeMethodsCode, vars
  <2> QED BY <1>3, <2>1 DEF jitVars, OriginalInv, OriginalTyped
<1> QED BY <1>4, <1>5, <1>6

\* A step that leaves the original of m, its hook and the entry point of m alone.
LEMMA GoodFrame ==
    ASSUME NEW m \in Targets, OriginalGood(m), UNCHANGED <<statics, natives>>,
           \A x : StandsFor(x, m)' => StandsFor(x, m),
           \A x : StandsFor(x, m) => /\ entry'[x] = entry[x] /\ fn'[x] = fn[x]
                                     /\ x \in Backups => saved'[x] = saved[x],
           entry'[m] = entry[m], hooked'[m] = hooked[m], latest'[m] = latest[m], jit'[m] = jit[m],
           saved'[App] = saved[App], initPc'[App] = initPc[App],
           IsHooked(m) => /\ initPc'[hooked[m]] = initPc[hooked[m]]
                          /\ saved'[hooked[m]] = saved[hooked[m]],
           m \in deoptSet' <=> m \in deoptSet,
           \A t \in Threads : Deoptimizing(t, m) => \E u \in Threads : Deoptimizing(u, m)',
           \A t \in Threads : pc'[t] = "deoptWrite" /\ arg'[t] = m => StandsFor(bk[t], m)'
    PROVE  OriginalGood(m)'
<1>1. IsHooked(m)' <=> IsHooked(m)
  BY DEF IsHooked
<1>2. \A v : Fit(v, m) => Fit(v, m)'
  BY DEF Fit
<1>3. Moving(m) => Moving(m)'
  BY <1>1 DEF Moving
<1>4. \A x : StandsFor(x, m) /\ EntryFit(x, m) => EntryFit(x, m)'
  BY <1>2, <1>3 DEF EntryFit
<1>5. \A x \in Methods : StandsFor(x, m)' =>
          /\ fn'[x] = latest'[m]
          /\ ~(m \in natives' /\ m \in deoptSet') => EntryFit(x, m)'
  BY <1>4 DEF OriginalGood
<1>6. IsHooked(m) => (Open(hooked[m])' <=> Open(hooked[m]))
  BY DEF Open
<1> QED BY <1>1, <1>5, <1>6 DEF OriginalGood

\* A step of thread t that does so, and of which m notices at most that a
\* Deoptimize of it begins.
LEMMA ThreadGood ==
    ASSUME OriginalInv, NEW t \in Threads, NEW l, NEW a, NEW b, Local(t, l, a, b),
           NEW m \in Targets, OriginalGood(m),
           UNCHANGED <<statics, natives, initVars, latest, jit>>,
           \A x : StandsFor(x, m) \/ x = m => entry'[x] = entry[x] /\ fn'[x] = fn[x],
           hooked'[m] = hooked[m], m \in deoptSet' <=> m \in deoptSet,
           Hooking(t, m)' <=> Hooking(t, m), Hooking(t, m) => b = bk[t],
           Deoptimizing(t, m) => Deoptimizing(t, m)',
           l = "deoptWrite" => a # m
    PROVE  OriginalGood(m)'
<1>1. /\ pc'[t] = l /\ arg'[t] = a /\ bk'[t] = b
      /\ \A u \in Threads \ {t} : pc'[u] = pc[u] /\ arg'[u] = arg[u] /\ bk'[u] = bk[u]
  BY Moves DEF OriginalInv
<1>2. \A u \in Threads : (Hooking(u, m)' <=> Hooking(u, m)) /\ (Hooking(u, m) => bk'[u] = bk[u])
  BY <1>1 DEF Hooking
<1>3. \A x : StandsFor(x, m)' <=> StandsFor(x, m)
  BY <1>2 DEF StandsFor, IsHooked
<1>4. \A u \in Threads : Deoptimizing(u, m) => Deoptimizing(u, m)'
  BY <1>1 DEF Deoptimizing
<1>5. \A u \in Threads : pc'[u] = "deoptWrite" /\ arg'[u] = m => StandsFor(bk[u], m)'
  <2> SUFFICES ASSUME NEW u \in Threads, pc'[u] = "deoptWrite", arg'[u] = m PROVE StandsFor(bk'[u], m)
    BY <1>3
  <2> QED BY <1>1 DEF OriginalGood
<1>6. UNCHANGED <<saved, initPc>>
  BY DEF initVars
<1> QED BY <1>3, <1>4, <1>5, <1>6, GoodFrame

\* Steps of Hook, UnHook and Deoptimize that m does not notice, or that only
\* continue what is under way.
LEMMA MovesGood ==
    ASSUME OriginalInv, NEW t \in Threads, NEW m \in Targets, OriginalGood(m),
           \/ Hook(t) \/ DoHookFails(t) \/ RecordHookedClass(t) \/ RecordBackupClass(t)
           \/ EraseBackup(t) \/ EraseClass(t) \/ Deoptimize(t)
    PROVE  OriginalGood(m)'
<1>1. UNCHANGED <<statics, natives, initVars, latest, jit, entry, fn, hooked, deoptSet>>
  BY DEF Hook, DoHookFails, RecordHookedClass, RecordBackupClass, RecordDeoptClass, EraseBackup,
         EraseClass, Deoptimize, flagVars, artVars, mapVars, jitVars
<1> USE DEF Hooking, Deoptimizing, InHook, InUnhook, InDeoptimize
<1>2. ASSUME NEW l, NEW a, NEW b, Local(t, l, a, b) PROVE pc'[t] = l /\ arg'[t] = a /\ bk'[t] = b
  BY <1>2, Moves DEF OriginalInv
<1>3. CASE Hook(t) \/ Deoptimize(t)
  <2>1. PICK l, a, b : l \in {"doHook", "deoptSet"} /\ pc[t] = "idle" /\ Local(t, l, a, b)
    BY <1>3 DEF Hook, Deoptimize, RecordDeoptClass
  <2>2. pc'[t] = l /\ ~Hooking(t, m) /\ ~Hooking(t, m)' /\ ~Deoptimizing(t, m)
    BY <1>2, <2>1
  <2> QED BY <1>1, <2>1, <2>2, ThreadGood
<1>4. CASE DoHookFails(t)
  <2>1. pc[t] = "doHook" /\ Local(t, "idle", None, None)
    BY <1>4 DEF DoHookFails, Return
  <2>2. pc'[t] = "idle" /\ ~Hooking(t, m) /\ ~Hooking(t, m)' /\ ~Deoptimizing(t, m)
    BY <1>2, <2>1
  <2> QED BY <1>1, <2>1, <2>2, ThreadGood
<1>5. CASE RecordHookedClass(t) \/ RecordBackupClass(t) \/ EraseBackup(t) \/ EraseClass(t)
  <2>1. PICK l \in {"recordMethod", "recordDeopt", "eraseClass", "doUnhook"} :
           /\ pc[t] \in {"recordClass", "recordDeoptClass", "eraseBackup", "eraseClass"}
           /\ Local(t, l, arg[t], bk[t])
    BY <1>5 DEF RecordHookedClass, RecordBackupClass, RecordDeoptClass, EraseBackup, EraseClass, Goto
  <2>2. pc'[t] = l /\ arg'[t] = arg[t] /\ (Hooking(t, m)' <=> Hooking(t, m)) /\ ~Deoptimizing(t, m)
    BY <1>2, <2>1
  <2> QED BY <1>1, <2>1, <2>2, ThreadGood
<1> QED BY <1>3, <1>4, <1>5

\* The original of m is x, and no class that matters to it is being initialised.
LEMMA ClosedGood ==
    ASSUME NEW m \in Targets, NEW x, \A y : StandsFor(y, m)' => y = x,
           fn'[x] = latest'[m], ~(m \in natives' /\ m \in deoptSet') => Fit(entry[x], m)',
           DOMAIN saved'[App] = {}, initPc'[App] # "status",
           x \in Backups => DOMAIN saved'[x] = {},
           IsHooked(m)' => entry'[m] = hooked'[m] /\ ~Open(hooked[m])',
           \A t \in Threads : pc'[t] = "deoptWrite" /\ arg'[t] = m => StandsFor(bk[t], m)'
    PROVE  OriginalGood(m)'
<1>1. ~(m \in natives' /\ m \in deoptSet') => EntryFit(x, m)'
  BY DEF EntryFit
<1> QED BY <1>1 DEF OriginalGood, Open

\* While an undisturbed target is being hooked or unhooked its stub is the
\* original and nothing else is under way.
LEMMA WhileHooking ==
    ASSUME OriginalInv, NEW m \in Targets \ disturbed, NEW t \in Threads, Hooking(t, m)
    PROVE  /\ bk[t] \in Backups /\ \A x : StandsFor(x, m) <=> x = bk[t]
           /\ \A u \in Threads : ~Deoptimizing(u, m) /\ (Hooking(u, m) => u = t)
           /\ ~Open(App) /\ ~Open(bk[t]) /\ initPc[App] # "status"
           /\ DOMAIN saved[App] = {} /\ DOMAIN saved[bk[t]] = {}
           /\ fn[bk[t]] = latest[m]
           /\ ~(m \in natives /\ m \in deoptSet) => Fit(entry[bk[t]], m)
<1>1. Apart /\ OriginalGood(m)
  BY DEF OriginalInv, EntryInv, Good
<1>2. pc[t] \in Busy /\ arg[t] = m /\ \A u \in Threads : Hooking(u, m) => pc[u] \in Busy /\ arg[u] = m
  BY DEF Hooking, Busy
<1>3. bk[t] \in Backups /\ \A u \in Threads : Hooking(u, m) => u = t
  BY <1>2, InBusy DEF OriginalInv, EntryInv, MapsInv, OneHolder
<1>4. \A x : StandsFor(x, m) <=> x = bk[t]
  BY <1>3 DEF StandsFor
<1>5. /\ ~Open(App) /\ ~Open(bk[t]) /\ \A u \in Threads : ~Deoptimizing(u, m)
  BY <1>1, <1>3, HookingAlone
<1>6. DOMAIN saved[App] = {} /\ initPc[App] # "status" /\ DOMAIN saved[bk[t]] = {}
  BY <1>3, <1>5, NothingSaved DEF Classes
<1>7. /\ fn[bk[t]] = latest[m]
      /\ ~(m \in natives /\ m \in deoptSet) => EntryFit(bk[t], m)
  BY <1>1, <1>3, <1>4 DEF OriginalGood, Methods
<1> QED BY <1>3, <1>4, <1>5, <1>6, <1>7, FitNow

\* A step of t that is at another method, where it may write methods that m has
\* nothing to do with.
LEMMA OtherGood ==
    ASSUME OriginalInv, NEW t \in Threads, NEW l, NEW a, NEW b, Local(t, l, a, b),
           NEW m \in Targets, OriginalGood(m), arg[t] # m, a # m,
           UNCHANGED <<statics, natives, initVars, latest, jit>>,
           \A x : StandsFor(x, m) \/ x = m => entry'[x] = entry[x] /\ fn'[x] = fn[x],
           hooked'[m] = hooked[m], m \in deoptSet' <=> m \in deoptSet
    PROVE  OriginalGood(m)'
<1>1. arg'[t] = a
  BY Moves DEF OriginalInv
<1>2. ~Hooking(t, m) /\ ~Hooking(t, m)' /\ ~Deoptimizing(t, m)
  BY <1>1 DEF Hooking, Deoptimizing
<1> QED BY <1>2, ThreadGood

\* RecordHookedMethod: the stub was the original already.
LEMMA RecordMethodGood ==
    ASSUME OriginalInv, NEW t \in Threads, RecordHookedMethod(t), disturbed \subseteq disturbed',
           NEW m \in Targets \ disturbed'
    PROVE  OriginalGood(m)'
<1>1. /\ pc[t] = "recordMethod" /\ Local(t, "recordDeoptClass", arg[t], bk[t])
      /\ hooked' = [hooked EXCEPT ![arg[t]] = bk[t]]
      /\ UNCHANGED <<statics, natives, initVars, latest, jit, entry, fn, deoptSet>>
  BY DEF RecordHookedMethod, Goto, flagVars, artVars, jitVars
<1>2. /\ pc'[t] = "recordDeoptClass" /\ arg'[t] = arg[t] /\ bk'[t] = bk[t]
      /\ \A u \in Threads \ {t} : pc'[u] = pc[u] /\ arg'[u] = arg[u] /\ bk'[u] = bk[u]
  BY <1>1, Moves DEF OriginalInv
<1>3. OriginalGood(m) /\ InForce(m) /\ DOMAIN hooked = Targets
  BY DEF OriginalInv, Good, EntryInv, Kept, MapsInv, MapsTyped
<1>4. CASE arg[t] # m
  <2>1. hooked'[m] = hooked[m]
    BY <1>1, <1>3, <1>4
  <2> QED BY <1>1, <1>3, <1>4, <2>1, OtherGood
<1>5. CASE arg[t] = m
  <2>1. Hooking(t, m) /\ Hooking(t, m)'
    BY <1>1, <1>2, <1>5 DEF Hooking, InHook
  <2>2. PICK x \in Backups :
           /\ x = bk[t] /\ ~Open(x) /\ initPc[App] # "status"
           /\ \A u \in Threads : ~Deoptimizing(u, m) /\ (Hooking(u, m) => u = t)
           /\ DOMAIN saved[App] = {} /\ DOMAIN saved[x] = {}
           /\ fn[x] = latest[m]
           /\ ~(m \in natives /\ m \in deoptSet) => Fit(entry[x], m)
    BY <2>1, WhileHooking
  <2>3. \A u \in Threads : ~Deoptimizing(u, m)' /\ (Hooking(u, m)' => u = t)
    BY <1>1, <1>2, <1>5, <2>2 DEF Hooking, Deoptimizing, InDeoptimize
  <2>4. \A y : StandsFor(y, m)' => y = x
    BY <1>2, <2>1, <2>2, <2>3 DEF StandsFor
  <2>5. \A u \in Threads : ~(pc'[u] = "deoptWrite" /\ arg'[u] = m)
    BY <2>3 DEF Deoptimizing, InDeoptimize
  <2>6. hooked'[m] = x /\ entry[m] = x
    BY <1>1, <1>3, <1>5, <2>2 DEF InForce, Entered, InHook
  <2>7. ~Open(hooked[m])'
    BY <1>1, <2>2, <2>6 DEF Open, initVars
  <2>8. Fit(entry[x], m) => Fit(entry[x], m)'
    BY <1>1, <2>2 DEF Fit, initVars
  <2> QED BY <1>1, <2>2, <2>4, <2>5, <2>6, <2>7, <2>8, ClosedGood DEF initVars
<1> QED BY <1>4, <1>5

\* The same for the state a step ends in.
LEMMA HookingAloneThen ==
    ASSUME Apart', NEW m \in Targets \ disturbed', NEW t \in Threads, Hooking(t, m)'
    PROVE  /\ ~Open(App)' /\ \A u \in Threads : ~Deoptimizing(u, m)'
           /\ bk'[t] \in Backups => ~Open(bk[t])'
BY DEF Apart, Overlap, Classes

\* Hook ends: the map names the stub that stands for the original.
LEMMA RecordBackupGood ==
    ASSUME OriginalInv, NEW t \in Threads, RecordBackup(t), disturbed \subseteq disturbed',
           NEW m \in Targets \ disturbed'
    PROVE  OriginalGood(m)'
<1>1. /\ pc[t] = "recordDeopt" /\ Local(t, "idle", None, None) /\ deoptSet' = deoptSet \cup {bk[t]}
      /\ UNCHANGED <<statics, natives, initVars, latest, jit, entry, fn, hooked>>
  BY DEF RecordBackup, RecordDeoptSet, Return, flagVars, artVars, jitVars
<1>2. /\ pc'[t] = "idle"
      /\ \A u \in Threads \ {t} : pc'[u] = pc[u] /\ arg'[u] = arg[u] /\ bk'[u] = bk[u]
  BY <1>1, Moves DEF OriginalInv
<1>3. OriginalGood(m) /\ InForce(m) /\ m # None
  BY NamesAssumption DEF OriginalInv, Good, EntryInv, Kept
<1>4. bk[t] \in Backups /\ Stand("recordDeopt", arg[t], bk[t])
  BY <1>1, InBusy DEF OriginalInv, EntryInv, Busy, InHook
<1>5. m \in deoptSet' <=> m \in deoptSet
  BY <1>1, <1>4, NamesAssumption
<1>6. CASE arg[t] # m
  BY <1>1, <1>3, <1>5, <1>6, OtherGood
<1>7. CASE arg[t] = m
  <2>1. Hooking(t, m)
    BY <1>1, <1>7 DEF Hooking, InHook
  <2>2. PICK x \in Backups :
           /\ x = bk[t] /\ ~Open(x) /\ initPc[App] # "status"
           /\ \A u \in Threads : ~Deoptimizing(u, m) /\ (Hooking(u, m) => u = t)
           /\ DOMAIN saved[App] = {} /\ DOMAIN saved[x] = {}
           /\ fn[x] = latest[m]
           /\ ~(m \in natives /\ m \in deoptSet) => Fit(entry[x], m)
    BY <2>1, WhileHooking
  <2>3. hooked[m] = x /\ entry[m] = x
    BY <1>1, <1>3, <1>4, <1>7, <2>2 DEF InForce, Entered, InHook, Stand
  <2>4. \A u \in Threads : ~Deoptimizing(u, m)' /\ ~Hooking(u, m)'
    BY <1>1, <1>2, <2>2 DEF Hooking, Deoptimizing, InDeoptimize, InHook, InUnhook
  <2>5. \A y : StandsFor(y, m)' => y = x
    BY <1>1, <2>2, <2>3, <2>4, NamesAssumption DEF StandsFor, IsHooked
  <2>6. \A u \in Threads : ~(pc'[u] = "deoptWrite" /\ arg'[u] = m)
    BY <2>4 DEF Deoptimizing, InDeoptimize
  <2>7. ~Open(hooked[m])'
    BY <1>1, <2>2, <2>3 DEF Open, initVars
  <2>8. Fit(entry[x], m) => Fit(entry[x], m)'
    BY <1>1, <1>5, <2>2 DEF Fit, initVars
  <2> QED BY <1>1, <1>5, <2>2, <2>3, <2>5, <2>6, <2>7, <2>8, ClosedGood DEF initVars
<1> QED BY <1>6, <1>7

\* UnHook begins: the stub it took from the map stays the original until DoUnHook.
LEMMA UnHookGood ==
    ASSUME OriginalInv, NEW t \in Threads, UnHook(t), disturbed \subseteq disturbed', Apart',
           NEW m \in Targets \ disturbed'
    PROVE  OriginalGood(m)'
<1>1. PICK n \in Targets :
         /\ pc[t] = "idle" /\ HolderFree(n) /\ IsHooked(n)
         /\ hooked' = [hooked EXCEPT ![n] = None] /\ Local(t, "eraseBackup", n, hooked[n])
         /\ UNCHANGED <<statics, natives, initVars, latest, jit, entry, fn, deoptSet>>
  BY DEF UnHook, flagVars, artVars, jitVars
<1>2. /\ pc'[t] = "eraseBackup" /\ arg'[t] = n /\ bk'[t] = hooked[n]
      /\ \A u \in Threads \ {t} : pc'[u] = pc[u] /\ arg'[u] = arg[u] /\ bk'[u] = bk[u]
  BY <1>1, Moves DEF OriginalInv
<1>3. OriginalGood(m) /\ DOMAIN hooked = Targets
  BY DEF OriginalInv, Good, EntryInv, MapsInv, MapsTyped
<1>4. CASE n # m
  <2>1. hooked'[m] = hooked[m] /\ ~Hooking(t, m)' /\ ~Hooking(t, m) /\ ~Deoptimizing(t, m)
    BY <1>1, <1>2, <1>3, <1>4 DEF Hooking, Deoptimizing, InHook, InUnhook, InDeoptimize
  <2> QED BY <1>1, <1>3, <1>4, <2>1, ThreadGood
<1>5. CASE n = m
  <2>1. PICK x \in Backups : x = hooked[m] /\ hooked'[m] = None
    BY <1>1, <1>3, <1>5, HookedPair DEF OriginalInv, EntryInv
  <2>2. Hooking(t, m)' /\ \A u \in Threads : ~Hooking(u, m) /\ (Hooking(u, m)' => u = t)
    BY <1>1, <1>2, <1>5 DEF Hooking, HolderFree, InHook, InUnhook
  <2>3. ~Open(App)' /\ ~Open(bk[t])' /\ \A u \in Threads : ~Deoptimizing(u, m)'
    BY <1>2, <1>5, <2>1, <2>2, HookingAloneThen
  <2>4. ~Open(App) /\ ~Open(x)
    BY <1>1, <1>2, <1>5, <2>1, <2>3 DEF Open, initVars
  <2>5. /\ DOMAIN saved[App] = {} /\ initPc[App] # "status" /\ DOMAIN saved[x] = {}
    BY <2>4, NothingSaved DEF Classes
  <2>6. StandsFor(x, m) /\ \A y : StandsFor(y, m)' => y = x
    BY <1>1, <1>2, <1>5, <2>1, <2>2 DEF StandsFor
  <2>7. /\ fn[x] = latest[m]
        /\ ~(m \in natives /\ m \in deoptSet) => EntryFit(x, m)
    BY <1>3, <2>6 DEF OriginalGood, Methods
  <2>8. ~(m \in natives /\ m \in deoptSet) => Fit(entry[x], m)
    BY <2>4, <2>6, <2>7, FitNow
  <2>9. \A u \in Threads : ~Deoptimizing(u, m)
    BY <1>1, <1>2, <2>3 DEF Deoptimizing, InDeoptimize
  <2>10. Fit(entry[x], m) => Fit(entry[x], m)'
    BY <1>1, <2>9 DEF Fit, initVars
  <2>11. /\ \A u \in Threads : ~(pc'[u] = "deoptWrite" /\ arg'[u] = m)
         /\ ~IsHooked(m)'
    BY <2>1, <2>3 DEF Deoptimizing, InDeoptimize, IsHooked
  <2> QED BY <1>1, <2>5, <2>6, <2>7, <2>8, <2>10, <2>11, ClosedGood DEF initVars
<1> QED BY <1>4, <1>5

\* DoUnHook copies the stub, which is the original, back into the target.
LEMMA DoUnHookGood ==
    ASSUME OriginalInv, NEW t \in Threads, DoUnHook(t), disturbed \subseteq disturbed',
           NEW m \in Targets \ disturbed'
    PROVE  OriginalGood(m)'
<1>1. /\ pc[t] = "doUnhook" /\ Local(t, "idle", None, None)
      /\ entry' = [entry EXCEPT ![arg[t]] = entry[bk[t]]]
      /\ fn' = [fn EXCEPT ![arg[t]] = fn[bk[t]]]
      /\ UNCHANGED <<statics, natives, initVars, latest, jit, hooked, deoptSet>>
  BY DEF DoUnHook, Return, flagVars, mapVars, jitVars
<1>2. /\ pc'[t] = "idle"
      /\ \A u \in Threads \ {t} : pc'[u] = pc[u] /\ arg'[u] = arg[u] /\ bk'[u] = bk[u]
  BY <1>1, Moves DEF OriginalInv
<1>3. OriginalGood(m) /\ m # None /\ m \in Methods /\ m \notin Backups
  BY NamesAssumption DEF OriginalInv, Good, Methods
<1>4. arg[t] \in Targets /\ hooked[arg[t]] = None
  BY <1>1, InBusy DEF OriginalInv, EntryInv, Busy, InUnhook, Stand
<1>5. DOMAIN entry = Methods /\ DOMAIN fn = Methods
  BY DEF OriginalInv, EntryInv, EntryTyped, OriginalTyped
<1>6. CASE arg[t] # m
  <2>1. \A x : StandsFor(x, m) \/ x = m => x # arg[t]
    BY <1>4, <1>6, Standing, NamesAssumption
  <2>2. \A x : StandsFor(x, m) \/ x = m => entry'[x] = entry[x] /\ fn'[x] = fn[x]
    BY <1>1, <1>5, <2>1, Standing DEF Methods
  <2> QED BY <1>1, <1>3, <1>6, <2>2, OtherGood
<1>7. CASE arg[t] = m
  <2>1. Hooking(t, m)
    BY <1>1, <1>7 DEF Hooking, InUnhook
  <2>2. PICK x \in Backups :
           /\ x = bk[t] /\ initPc[App] # "status"
           /\ \A u \in Threads : ~Deoptimizing(u, m) /\ (Hooking(u, m) => u = t)
           /\ DOMAIN saved[App] = {} /\ fn[x] = latest[m]
           /\ ~(m \in natives /\ m \in deoptSet) => Fit(entry[x], m)
    BY <2>1, WhileHooking
  <2>3. \A u \in Threads : ~Deoptimizing(u, m)' /\ ~Hooking(u, m)'
    BY <1>1, <1>2, <2>2 DEF Hooking, Deoptimizing, InDeoptimize, InHook, InUnhook
  <2>4. ~IsHooked(m)'
    BY <1>1, <1>4, <1>7 DEF IsHooked
  <2>5. \A y : StandsFor(y, m)' => y = m
    BY <2>3, <2>4 DEF StandsFor
  <2>6. \A u \in Threads : ~(pc'[u] = "deoptWrite" /\ arg'[u] = m)
    BY <2>3 DEF Deoptimizing, InDeoptimize
  <2>7. entry'[m] = entry[x] /\ fn'[m] = fn[x]
    BY <1>1, <1>3, <1>5, <1>7, <2>2
  <2>8. Fit(entry[x], m) => Fit(entry[m], m)'
    BY <1>1, <2>2, <2>7 DEF Fit, initVars
  <2> QED BY <1>1, <1>3, <2>2, <2>4, <2>5, <2>6, <2>7, <2>8, ClosedGood DEF initVars
<1> QED BY <1>6, <1>7

\* DoHook makes the stub the original.
LEMMA DoHookGood ==
    ASSUME OriginalInv, NEW t \in Threads, DoHook(t), disturbed \subseteq disturbed', Apart',
           NEW m \in Targets \ disturbed'
    PROVE  OriginalGood(m)'
<1>1. /\ pc[t] = "doHook" /\ Local(t, "recordClass", arg[t], bk[t])
      /\ entry' = [entry EXCEPT ![bk[t]] = entry[arg[t]], ![arg[t]] = bk[t]]
      /\ fn' = [fn EXCEPT ![bk[t]] = fn[arg[t]]]
      /\ UNCHANGED <<statics, natives, initVars, latest, jit, hooked, deoptSet>>
  BY DEF DoHook, Goto, flagVars, mapVars, jitVars
<1>2. /\ pc'[t] = "recordClass" /\ arg'[t] = arg[t] /\ bk'[t] = bk[t]
      /\ \A u \in Threads \ {t} : pc'[u] = pc[u] /\ arg'[u] = arg[u] /\ bk'[u] = bk[u]
  BY <1>1, Moves DEF OriginalInv
<1>3. OriginalGood(m) /\ m \in Methods /\ m \notin Backups
  BY NamesAssumption DEF OriginalInv, Good, Methods
<1>4. /\ arg[t] \in Targets /\ hooked[arg[t]] = None /\ bk[t] \in Backups /\ copyOf[bk[t]] = None
      /\ arg[t] \in Methods /\ bk[t] \in Methods /\ arg[t] # bk[t]
      /\ \A u \in Threads \ {t} : pc[u] \in Busy => arg[u] # arg[t]
  BY <1>1, InBusy, NamesAssumption
     DEF OriginalInv, EntryInv, CopyInv, Busy, InHook, Stand, Methods
<1>5. DOMAIN entry = Methods /\ DOMAIN fn = Methods
  BY DEF OriginalInv, EntryInv, EntryTyped, OriginalTyped
<1>6. CASE arg[t] # m
  <2>1. \A x : StandsFor(x, m) \/ x = m => x \in Methods /\ x # arg[t] /\ x # bk[t]
    BY <1>3, <1>4, <1>6, Standing, NamesAssumption DEF Methods
  <2>2. \A x : StandsFor(x, m) \/ x = m => entry'[x] = entry[x] /\ fn'[x] = fn[x]
    BY <1>1, <1>5, <2>1
  <2> QED BY <1>1, <1>3, <1>6, <2>2, OtherGood
<1>7. CASE arg[t] = m
  <2>1. Hooking(t, m)' /\ \A u \in Threads : ~Hooking(u, m) /\ (Hooking(u, m)' => u = t)
    BY <1>1, <1>2, <1>4, <1>7 DEF Hooking, Busy, InHook, InUnhook
  <2>2. PICK x \in Backups : x = bk[t] /\ x = bk'[t]
    BY <1>2, <1>4
  <2>3. ~Open(App)' /\ ~Open(bk[t])' /\ \A u \in Threads : ~Deoptimizing(u, m)'
    BY <2>1, <2>2, HookingAloneThen
  <2>4. ~Open(App) /\ ~Open(x)
    BY <1>1, <2>2, <2>3 DEF Open, initVars
  <2>5. DOMAIN saved[App] = {} /\ initPc[App] # "status" /\ DOMAIN saved[x] = {}
    BY <2>4, NothingSaved DEF Classes
  <2>6. ~IsHooked(m) /\ ~IsHooked(m)'
    BY <1>1, <1>4, <1>7 DEF IsHooked
  <2>7. StandsFor(m, m) /\ \A y : StandsFor(y, m)' => y = x
    BY <2>1, <2>2, <2>6 DEF StandsFor
  <2>8. fn[m] = latest[m] /\ (~(m \in natives /\ m \in deoptSet) => EntryFit(m, m))
    BY <1>3, <2>7 DEF OriginalGood
  <2>9. ~(m \in natives /\ m \in deoptSet) => Fit(entry[m], m)
    BY <1>3, <2>4, <2>7, <2>8, FitNow
  <2>10. entry'[x] = entry[m] /\ fn'[x] = fn[m]
    BY <1>1, <1>4, <1>5, <1>7, <2>2
  <2>11. \A u \in Threads : ~Deoptimizing(u, m)
    BY <1>1, <1>2, <2>3 DEF Deoptimizing, InDeoptimize
  <2>12. Fit(entry[m], m) => Fit(entry[x], m)'
    BY <1>1, <2>10, <2>11 DEF Fit, initVars
  <2>13. \A u \in Threads : ~(pc'[u] = "deoptWrite" /\ arg'[u] = m)
    BY <2>3 DEF Deoptimizing, InDeoptimize
  <2> QED BY <1>1, <2>5, <2>6, <2>7, <2>8, <2>9, <2>10, <2>12, <2>13, ClosedGood DEF initVars
<1> QED BY <1>6, <1>7

\* A Deoptimize of m that is under way: m and its stub keep their roles.
LEMMA WhileDeoptimizing ==
    ASSUME OriginalInv, NEW m \in Targets \ disturbed, NEW t \in Threads, Deoptimizing(t, m)
    PROVE  /\ \A u \in Threads : ~Hooking(u, m)
           /\ \A x : StandsFor(x, m) <=> x = IF IsHooked(m) THEN hooked[m] ELSE m
           /\ DOMAIN saved[App] = {}
           /\ initPc[App] \notin {"backup", "status", "fixed", "restore"}
           /\ IsHooked(m) => entry[m] = hooked[m]
<1>1. ~Open(App) /\ \A u \in Threads : ~Hooking(u, m)
  BY DeoptAlone DEF OriginalInv, EntryInv
<1>2. DOMAIN saved[App] = {} /\ initPc[App] \notin {"backup", "status", "fixed", "restore"}
  BY <1>1, NothingSaved DEF Classes
<1>3. IsHooked(m) => entry[m] = hooked[m]
  BY <1>2 DEF OriginalInv, EntryInv, Kept, InForce
<1> QED BY <1>1, <1>2, <1>3 DEF StandsFor

\* A target that is deoptimized has its Deoptimize still to write the entry point.
LEMMA DeoptSetGood ==
    ASSUME OriginalInv, NEW t \in Threads, DeoptSet(t), disturbed \subseteq disturbed',
           NEW m \in Targets \ disturbed'
    PROVE  OriginalGood(m)'
<1>1. /\ pc[t] = "deoptSet" /\ Local(t, "deoptRead", arg[t], bk[t]) /\ deoptSet' = deoptSet \cup {arg[t]}
      /\ UNCHANGED <<statics, natives, initVars, latest, jit, entry, fn, hooked>>
  BY DEF DeoptSet, RecordDeoptSet, Goto, flagVars, artVars, jitVars
<1>2. /\ pc'[t] = "deoptRead" /\ arg'[t] = arg[t] /\ bk'[t] = bk[t]
      /\ \A u \in Threads \ {t} : pc'[u] = pc[u] /\ arg'[u] = arg[u] /\ bk'[u] = bk[u]
  BY <1>1, Moves DEF OriginalInv
<1>3. OriginalGood(m)
  BY DEF OriginalInv, Good
<1>4. CASE arg[t] # m
  BY <1>1, <1>3, <1>4, OtherGood
<1>5. CASE arg[t] = m
  <2>1. Deoptimizing(t, m) /\ Deoptimizing(t, m)'
    BY <1>1, <1>2, <1>5 DEF Deoptimizing, InDeoptimize
  <2>2. /\ \A u \in Threads : ~Hooking(u, m)
        /\ DOMAIN saved[App] = {} /\ initPc[App] \notin {"status", "fixed", "restore"}
    BY <2>1, WhileDeoptimizing
  <2>3. \A u \in Threads : ~Hooking(u, m)'
    BY <1>1, <1>2, <2>2 DEF Hooking, InHook, InUnhook
  <2>4. /\ IsHooked(m)' <=> IsHooked(m)
        /\ \A x : StandsFor(x, m)' <=> StandsFor(x, m)
    BY <1>1, <2>2, <2>3 DEF StandsFor, IsHooked
  <2>5. \A v : Fit(v, m) => Fit(v, m)'
    BY <1>1, <2>1 DEF Fit, initVars
  <2>6. \A x : EntryFit(x, m) => EntryFit(x, m)'
    BY <1>1, <2>2, <2>5 DEF EntryFit, Moving, initVars
  <2>7. \A u \in Threads : pc'[u] = "deoptWrite" /\ arg'[u] = m => StandsFor(bk[u], m)'
    <3> SUFFICES ASSUME NEW u \in Threads, pc'[u] = "deoptWrite", arg'[u] = m PROVE StandsFor(bk'[u], m)
      BY <2>4
    <3> QED BY <1>2, <1>3 DEF OriginalGood
  <2>8. IsHooked(m) => (Open(hooked[m])' <=> Open(hooked[m]))
    BY <1>1 DEF Open, initVars
  <2> QED BY <1>1, <1>3, <2>2, <2>4, <2>6, <2>7, <2>8 DEF OriginalGood, initVars
<1> QED BY <1>4, <1>5

\* DeoptRead finds the method that stands for the original.
LEMMA DeoptReadGood ==
    ASSUME OriginalInv, NEW t \in Threads, DeoptRead(t), disturbed \subseteq disturbed',
           NEW m \in Targets \ disturbed'
    PROVE  OriginalGood(m)'
<1>1. /\ pc[t] = "deoptRead" /\ arg[t] \in Targets /\ arg[t] \in deoptSet
      /\ \/ Local(t, "idle", None, None) /\ arg[t] \in natives
         \/ Local(t, "deoptWrite", arg[t], IF IsHooked(arg[t]) THEN hooked[arg[t]] ELSE arg[t])
      /\ UNCHANGED <<statics, natives, initVars, latest, jit, entry, fn, hooked, deoptSet>>
  <2>1. pc[t] = "deoptRead"
    BY DEF DeoptRead
  <2>2. arg[t] \in Targets /\ arg[t] \in deoptSet
    BY <2>1 DEF OriginalInv, RecordInv, EntryInv, MapsInv, MapsTyped
  <2> QED BY <2>1, <2>2 DEF DeoptRead, Return, IsNative, flagVars, artVars, mapVars, jitVars
<1>2. OriginalGood(m) /\ m # None
  BY NamesAssumption DEF OriginalInv, Good
<1>3. CASE arg[t] # m
  BY <1>1, <1>2, <1>3, OtherGood
<1>4. CASE arg[t] = m
  <2>1. Deoptimizing(t, m)
    BY <1>1, <1>4 DEF Deoptimizing, InDeoptimize
  <2>2. /\ \A u \in Threads : ~Hooking(u, m)
        /\ \A x : StandsFor(x, m) <=> x = IF IsHooked(m) THEN hooked[m] ELSE m
    BY <2>1, WhileDeoptimizing
  <2>3. PICK l, a, b :
           /\ l \in {"idle", "deoptWrite"}
           /\ Local(t, l, a, b)
           /\ l = "idle" => m \in natives
           /\ l = "deoptWrite" => a = m /\ b = IF IsHooked(m) THEN hooked[m] ELSE m
    BY <1>1, <1>4
  <2>4. /\ pc'[t] = l /\ arg'[t] = a /\ bk'[t] = b
        /\ \A u \in Threads \ {t} : pc'[u] = pc[u] /\ arg'[u] = arg[u] /\ bk'[u] = bk[u]
    BY <2>3, Moves DEF OriginalInv
  <2>5. \A u \in Threads : ~Hooking(u, m)'
    BY <2>2, <2>3, <2>4 DEF Hooking, InHook, InUnhook
  <2>6. /\ IsHooked(m)' <=> IsHooked(m)
        /\ \A x : StandsFor(x, m)' <=> StandsFor(x, m)
    BY <1>1, <2>2, <2>5 DEF StandsFor, IsHooked
  <2>7. \A u \in Threads : pc'[u] = "deoptWrite" /\ arg'[u] = m => StandsFor(bk[u], m)'
    <3> SUFFICES ASSUME NEW u \in Threads, pc'[u] = "deoptWrite", arg'[u] = m PROVE StandsFor(bk'[u], m)
      BY <2>6
    <3> QED BY <1>2, <2>2, <2>3, <2>4 DEF OriginalGood
  <2>8. CASE l = "idle"
    <3>1. m \in natives' /\ m \in deoptSet'
      BY <1>1, <1>4, <2>3, <2>8
    <3>2. IsHooked(m) => (Open(hooked[m])' <=> Open(hooked[m]))
      BY <1>1 DEF Open, initVars
    <3> QED BY <1>1, <1>2, <2>6, <2>7, <3>1, <3>2 DEF OriginalGood, initVars
  <2>9. CASE l = "deoptWrite"
    <3>1. \A u \in Threads : Deoptimizing(u, m) => Deoptimizing(u, m)'
      BY <2>3, <2>4, <2>9 DEF Deoptimizing, InDeoptimize
    <3> QED BY <1>1, <1>2, <2>6, <2>7, <3>1, GoodFrame DEF initVars
  <2> QED BY <2>3, <2>8, <2>9
<1> QED BY <1>3, <1>4

\* DeoptWrite reaches the original.
LEMMA DeoptWriteGood ==
    ASSUME OriginalInv, NEW t \in Threads, DeoptWrite(t), disturbed \subseteq disturbed',
           NEW m \in Targets \ disturbed'
    PROVE  OriginalGood(m)'
<1>1. /\ pc[t] = "deoptWrite" /\ Local(t, "idle", None, None)
      /\ entry' = [entry EXCEPT ![bk[t]] = "interpreter"]
      /\ UNCHANGED <<statics, natives, initVars, latest, jit, fn, hooked, deoptSet>>
  BY DEF DeoptWrite, Return, flagVars, mapVars, jitVars
<1>2. /\ pc'[t] = "idle"
      /\ \A u \in Threads \ {t} : pc'[u] = pc[u] /\ arg'[u] = arg[u] /\ bk'[u] = bk[u]
  BY <1>1, Moves DEF OriginalInv
<1>3. OriginalGood(m) /\ m # None /\ m \notin Backups /\ DOMAIN entry = Methods
  BY NamesAssumption DEF OriginalInv, Good, EntryInv, EntryTyped
<1>4. arg[t] \in Targets /\ (bk[t] = arg[t] \/ (bk[t] \in Backups /\ copyOf[bk[t]] = arg[t]))
  BY <1>1 DEF OriginalInv, CopyInv, EntryInv, MapsInv, MapsTyped
<1>5. CASE arg[t] # m
  <2>1. \A x : StandsFor(x, m) \/ x = m => x # bk[t]
    BY <1>3, <1>4, <1>5, Standing, NamesAssumption
  <2> QED BY <1>1, <1>3, <1>5, <2>1, OtherGood
<1>6. CASE arg[t] = m
  <2>1. Deoptimizing(t, m)
    BY <1>1, <1>6 DEF Deoptimizing, InDeoptimize
  <2>2. PICK x : x = bk[t] /\ StandsFor(x, m) /\ x \in Methods /\ (x = m \/ x \in Backups)
    BY <1>1, <1>3, <1>4, <1>6 DEF OriginalGood, Methods
  <2>3. /\ \A u \in Threads : ~Hooking(u, m)
        /\ \A y : StandsFor(y, m) <=> y = IF IsHooked(m) THEN hooked[m] ELSE m
        /\ DOMAIN saved[App] = {} /\ initPc[App] # "status"
        /\ IsHooked(m) => entry[m] = hooked[m]
    BY <2>1, WhileDeoptimizing
  <2>4. x \in Backups => ~Open(x) /\ DOMAIN saved[x] = {}
    <3>1. x \in Backups => ~Open(x)
      BY <2>1, <2>2, DeoptAlone DEF OriginalInv, EntryInv
    <3> QED BY <3>1, NothingSaved DEF Classes
  <2>5. x = IF IsHooked(m) THEN hooked[m] ELSE m
    BY <2>2, <2>3
  <2>6. \A u \in Threads : ~Hooking(u, m)'
    BY <1>2, <2>3 DEF Hooking, InHook, InUnhook
  <2>7. /\ IsHooked(m)' <=> IsHooked(m)
        /\ \A y : StandsFor(y, m)' <=> StandsFor(y, m)
    BY <1>1, <2>3, <2>6 DEF StandsFor, IsHooked
  <2>8. \A u \in Threads : pc'[u] = "deoptWrite" /\ arg'[u] = m => StandsFor(bk[u], m)'
    <3> SUFFICES ASSUME NEW u \in Threads, pc'[u] = "deoptWrite", arg'[u] = m PROVE StandsFor(bk'[u], m)
      BY <2>7
    <3> QED BY <1>2, <1>3 DEF OriginalGood
  <2>9. entry'[x] = "interpreter" /\ (IsHooked(m) => entry'[m] = entry[m])
    BY <1>1, <1>3, <2>2, <2>5, HookedPair DEF OriginalInv, EntryInv
  <2>10. Fit(entry[x], m)'
    BY <2>9 DEF Fit
  <2>11. IsHooked(m)' => entry'[m] = hooked'[m] /\ ~Open(hooked[m])'
    <3> SUFFICES ASSUME IsHooked(m) PROVE entry'[m] = hooked'[m] /\ ~Open(hooked[m])'
      BY <2>7
    <3>1. x = hooked[m] /\ x \in Backups
      BY <2>5, HookedPair DEF OriginalInv, EntryInv
    <3> QED BY <1>1, <2>3, <2>4, <2>9, <3>1 DEF Open, initVars
  <2>12. fn'[x] = latest'[m]
    BY <1>1, <1>3, <2>2 DEF OriginalGood
  <2>13. \A y : StandsFor(y, m)' => y = x
    BY <2>3, <2>5, <2>7
  <2> QED BY <1>1, <2>3, <2>4, <2>8, <2>10, <2>11, <2>12, <2>13, ClosedGood DEF initVars
<1> QED BY <1>5, <1>6

\* A step of ART: what it owes to an undisturbed method.
LEMMA ArtGood ==
    ASSUME UNCHANGED <<statics, natives, hooked, deoptSet, thrVars>>,
           NEW m \in Targets, OriginalGood(m),
           \A x : StandsFor(x, m) /\ fn[x] = latest[m] => fn'[x] = latest'[m],
           \A x \in Methods :
               StandsFor(x, m) /\ ~(m \in natives /\ m \in deoptSet) /\ EntryFit(x, m) => EntryFit(x, m)',
           IsHooked(m) /\ entry'[m] # hooked[m] => entry'[m] = "code",
           ~IsHooked(m) /\ initPc'[App] = "status" /\ m \in statics /\ m \in deoptSet =>
               m \in DOMAIN saved'[App],
           IsHooked(m) /\ initPc'[hooked[m]] \notin {"loaded", "initialized"} => m \in statics,
           IsHooked(m) /\ initPc'[hooked[m]] = "status" => hooked[m] \in DOMAIN saved'[hooked[m]]
    PROVE  OriginalGood(m)'
<1>1. /\ IsHooked(m)' <=> IsHooked(m)
      /\ \A x : StandsFor(x, m)' <=> StandsFor(x, m)
  BY DEF StandsFor, IsHooked, Hooking, thrVars
<1>2. \A u \in Threads : pc'[u] = "deoptWrite" /\ arg'[u] = m => StandsFor(bk[u], m)'
  <2> SUFFICES ASSUME NEW u \in Threads, pc'[u] = "deoptWrite", arg'[u] = m PROVE StandsFor(bk'[u], m)
    BY <1>1
  <2> QED BY DEF OriginalGood, thrVars
<1> QED BY <1>1, <1>2 DEF OriginalGood, Open

\* Fit in a step of ART that keeps the JIT's code and what the class allows.
LEMMA ArtFit ==
    ASSUME UNCHANGED <<statics, deoptSet, thrVars, jit>>, NEW m \in Targets, NEW v, Fit(v, m),
           v = "resolve" => initPc'[App] \in {"loaded", "backup", "status"}
    PROVE  Fit(v, m)'
BY DEF Fit, Deoptimizing, thrVars

\* A step in the initialisation of stub class b.
LEMMA StubGood ==
    ASSUME OriginalInv, NEW b \in Backups, NEW m \in Targets, OriginalGood(m),
           UNCHANGED <<statics, natives, hooked, deoptSet, thrVars, fn, latest, jit>>,
           saved'[App] = saved[App], initPc'[App] = initPc[App],
           \A d \in Backups \ {b} : saved'[d] = saved[d] /\ initPc'[d] = initPc[d],
           \A x \in Methods \ {b} : entry'[x] = entry[x],
           StandsFor(b, m) /\ ~(m \in natives /\ m \in deoptSet) /\ EntryFit(b, m) => EntryFit(b, m)',
           hooked[m] = b /\ initPc'[b] \notin {"loaded", "initialized"} => m \in statics,
           hooked[m] = b /\ initPc'[b] = "status" => b \in DOMAIN saved'[b]
    PROVE  OriginalGood(m)'
<1>1. m \in Methods /\ m # b /\ (IsHooked(m) => hooked[m] \in Backups)
  BY HookedPair, NamesAssumption DEF OriginalInv, EntryInv, Methods
<1>2. \A v : Fit(v, m) => Fit(v, m)'
  <2>1. \A v : Fit(v, m) /\ v = "resolve" => initPc'[App] \in {"loaded", "backup", "status"}
    BY DEF Fit
  <2> QED BY <2>1, ArtFit
<1>3. Moving(m) => Moving(m)'
  BY <1>1 DEF Moving, IsHooked
<1>4. ASSUME NEW x \in Methods, StandsFor(x, m), ~(m \in natives /\ m \in deoptSet), EntryFit(x, m)
      PROVE  EntryFit(x, m)'
  <2>1. CASE x = b
    BY <1>4, <2>1
  <2>2. CASE x # b
    BY <1>2, <1>3, <1>4, <2>2 DEF EntryFit
  <2> QED BY <2>1, <2>2
<1>5. IsHooked(m) /\ hooked[m] # b =>
         initPc'[hooked[m]] = initPc[hooked[m]] /\ saved'[hooked[m]] = saved[hooked[m]]
  BY <1>1
<1>6. IsHooked(m) /\ initPc'[hooked[m]] \notin {"loaded", "initialized"} => m \in statics
  BY <1>5 DEF OriginalGood, Open
<1>7. IsHooked(m) /\ initPc'[hooked[m]] = "status" => hooked[m] \in DOMAIN saved'[hooked[m]]
  BY <1>5 DEF OriginalGood
<1>8. entry'[m] = entry[m]
  BY <1>1
<1> QED BY <1>4, <1>6, <1>7, <1>8, ArtGood DEF OriginalGood

\* An undisturbed target whose stub is being initialised is hooked, and its own
\* class is not being initialised.
LEMMA StubAlone ==
    ASSUME Apart, NEW m \in Targets \ disturbed, NEW b \in Backups, Open(b), StandsFor(b, m)
    PROVE  hooked[m] = b /\ IsHooked(m) /\ ~Open(App) /\ \A t \in Threads : ~Hooking(t, m)
<1>1. \A t \in Threads : Hooking(t, m) => bk[t] # b
  BY HookingAlone
<1>2. b # m
  BY NamesAssumption
<1>3. hooked[m] = b /\ IsHooked(m) /\ \A t \in Threads : ~Hooking(t, m)
  BY <1>1, <1>2 DEF StandsFor
<1> QED BY <1>3, OpenAlone

\* The parts of a step in the initialisation of a stub class.
LEMMA StubStep ==
    ASSUME OriginalInv, NEW b \in Backups, NEW from, NEW to, Step(b, from, to)
    PROVE  /\ initPc[b] = from /\ initPc'[b] = to
           /\ \A d \in Classes \ {b} : initPc'[d] = initPc[d]
           /\ App \in Classes \ {b} /\ b \in Classes /\ MethodsOf(b) = {b}
           /\ ~IsHooked(b) /\ \A d \in Backups \ {b} : d \in Classes \ {b}
           /\ UNCHANGED <<statics, natives, hooked, deoptSet, thrVars, fn, latest, jit>>
BY NamesAssumption DEF Step, OriginalInv, EntryInv, EntryTyped, flagVars, mapVars, jitVars, Classes,
                       MethodsOf, IsHooked

\* BackupClassMethods finds no hooked method in a stub class.
LEMMA StubBackupGood ==
    ASSUME OriginalInv, NEW b \in Backups, BackupHooked(b), disturbed \subseteq disturbed',
           NEW m \in Targets \ disturbed'
    PROVE  OriginalGood(m)'
<1>1. /\ Step(b, "loaded", "backup") /\ UNCHANGED entry /\ IsStatic(b)
      /\ saved' = [saved EXCEPT ![b] = EntriesOf(MethodsOf(b) \cap hookedClasses)]
  <2>1. PICK x \in MethodsOf(b) : IsStatic(x)
    BY DEF BackupHooked
  <2>2. x = b
    BY <2>1, NamesAssumption DEF MethodsOf
  <2> QED BY <2>1, <2>2 DEF BackupHooked
<1>2. OriginalGood(m) /\ DOMAIN saved = Classes /\ m # None /\ b \notin Targets
  BY NamesAssumption DEF OriginalInv, Good, EntryInv, EntryTyped
<1>3. /\ initPc[b] = "loaded" /\ initPc'[b] = "backup"
      /\ \A d \in Classes \ {b} : initPc'[d] = initPc[d]
      /\ App \in Classes \ {b} /\ b \in Classes /\ MethodsOf(b) = {b}
      /\ \A d \in Backups \ {b} : d \in Classes \ {b}
      /\ UNCHANGED <<statics, natives, hooked, deoptSet, thrVars, fn, latest, jit>>
  BY <1>1, StubStep
<1>4. DOMAIN saved[b] = {} /\ DOMAIN saved'[b] = {}
  <2>1. MethodsOf(b) \cap hookedClasses = {}
    BY <1>2, <1>3 DEF OriginalInv, EntryInv, MapsInv, MapsTyped
  <2>2. DOMAIN saved'[b] = {}
    BY <1>1, <1>2, <1>3, <2>1 DEF EntriesOf
  <2> QED BY <1>3, <2>2 DEF OriginalInv, OriginalTyped
<1>5. \A d \in Classes \ {b} : saved'[d] = saved[d]
  BY <1>1, <1>2
<1>6. EntryFit(b, m) => EntryFit(b, m)'
  <2>1. \A v : Fit(v, m) => Fit(v, m)'
    <3>1. \A v : Fit(v, m) /\ v = "resolve" => initPc'[App] \in {"loaded", "backup", "status"}
      BY <1>3 DEF Fit
    <3> QED BY <1>3, <3>1, ArtFit
  <2>2. Moving(m) => Moving(m)'
    BY <1>1, <1>3, <1>5 DEF Moving, IsHooked
  <2> QED BY <1>1, <1>2, <1>4, <2>1, <2>2 DEF EntryFit
<1>7. hooked[m] = b => m \in statics
  <2>1. hooked[m] = b => copyOf[b] = m
    BY <1>2, NamesAssumption DEF OriginalInv, EntryInv, Copied, IsHooked
  <2> QED BY <1>1, <1>2, <2>1 DEF IsStatic
<1> QED BY <1>1, <1>2, <1>3, <1>5, <1>6, <1>7, StubGood

\* The backup counts as deoptimized there, so its entry point is saved.
LEMMA StubDeoptimizedGood ==
    ASSUME OriginalInv, NEW b \in Backups, BackupDeoptimized(b), disturbed \subseteq disturbed',
           NEW m \in Targets \ disturbed'
    PROVE  OriginalGood(m)'
<1>1. /\ Step(b, "backup", "status") /\ UNCHANGED entry
      /\ saved' = [saved EXCEPT ![b] = Emplace(saved[b], EntriesOf(MethodsOf(b) \cap deoptClasses))]
  BY DEF BackupDeoptimized, OriginalInv, EntryInv, EntryTyped
<1>2. OriginalGood(m) /\ DOMAIN saved = Classes /\ m # None /\ b \notin Targets
  BY NamesAssumption DEF OriginalInv, Good, EntryInv, EntryTyped
<1>3. /\ initPc[b] = "backup" /\ initPc'[b] = "status"
      /\ \A d \in Classes \ {b} : initPc'[d] = initPc[d]
      /\ App \in Classes \ {b} /\ b \in Classes /\ MethodsOf(b) = {b}
      /\ \A d \in Backups \ {b} : d \in Classes \ {b}
      /\ UNCHANGED <<statics, natives, hooked, deoptSet, thrVars, fn, latest, jit>>
  BY <1>1, StubStep
<1>4. DOMAIN saved[b] = {} /\ \A d \in Classes \ {b} : saved'[d] = saved[d]
  BY <1>1, <1>2, <1>3 DEF OriginalInv, OriginalTyped
<1>5. /\ DOMAIN saved'[b] = {x \in {b} \cap deoptClasses : IsStatic(x)}
      /\ b \in DOMAIN saved'[b] => saved'[b][b] = entry[b]
  <2>1. PICK g : g = EntriesOf({b} \cap deoptClasses)
    OBVIOUS
  <2>2. /\ DOMAIN g = {x \in {b} \cap deoptClasses : IsStatic(x)}
        /\ \A x \in DOMAIN g : g[x] = entry[x]
    BY <2>1 DEF EntriesOf
  <2>3. saved'[b] = Emplace(saved[b], g)
    BY <1>1, <1>2, <1>3, <2>1
  <2>4. DOMAIN saved'[b] = DOMAIN g /\ \A x \in DOMAIN g : saved'[b][x] = g[x]
    BY <1>4, <2>3 DEF Emplace
  <2> QED BY <2>2, <2>4
<1>6. ASSUME StandsFor(b, m), EntryFit(b, m) PROVE EntryFit(b, m)'
  <2>1. ~Open(App) /\ Open(b)
    BY <1>3, <1>6, StubAlone DEF Open, OriginalInv, EntryInv
  <2>2. DOMAIN saved[App] = {} /\ initPc[App] \notin {"fixed", "restore"}
    BY <2>1, NothingSaved DEF Classes
  <2>3. Fit(entry[b], m)
    BY <1>2, <1>4, <1>6, <2>2 DEF EntryFit, Moving
  <2>4. Fit(entry[b], m)'
    <3>1. entry[b] = "resolve" => initPc'[App] \in {"loaded", "backup", "status"}
      BY <1>3, <2>3 DEF Fit
    <3>2. PICK v : v = entry[b] /\ v = entry'[b]
      BY <1>1
    <3>3. Fit(v, m)'
      BY <1>3, <2>3, <3>1, <3>2, ArtFit
    <3> QED BY <3>2, <3>3 DEF Fit
  <2>5. b \in DOMAIN saved'[b] => Fit(saved[b][b], m)'
    BY <1>1, <1>5, <2>4 DEF Fit
  <2> QED BY <1>1, <1>2, <1>5, <2>4, <2>5 DEF EntryFit
<1>7. hooked[m] = b => m \in statics /\ b \in DOMAIN saved'[b]
  <2> SUFFICES ASSUME hooked[m] = b PROVE m \in statics /\ b \in DOMAIN saved'[b]
    OBVIOUS
  <2>1. IsHooked(m) /\ copyOf[b] = m
    BY <1>2, NamesAssumption DEF OriginalInv, EntryInv, Copied, IsHooked
  <2>2. m \in statics
    BY <1>2, <1>3, <2>1 DEF OriginalGood, Open
  <2>3. \A t \in Threads : arg[t] = m => pc[t] # "recordDeoptClass"
    <3> SUFFICES ASSUME NEW t \in Threads, arg[t] = m, pc[t] = "recordDeoptClass" PROVE FALSE
      OBVIOUS
    <3>1. Hooking(t, m) /\ pc[t] \in Busy
      BY DEF Hooking, InHook, Busy
    <3>2. bk[t] = b
      BY <2>1, <3>1, InBusy DEF OriginalInv, EntryInv, Stand, IsHooked
    <3> QED BY <1>3, <3>1, <3>2, HookingAlone DEF OriginalInv, EntryInv, Open
  <2>4. b \in deoptClasses
    BY <2>1, <2>3 DEF OriginalInv, RecordInv
  <2> QED BY <1>2, <1>5, <2>1, <2>2, <2>4 DEF IsStatic
<1> QED BY <1>1, <1>2, <1>3, <1>4, <1>6, <1>7, StubGood

\* ART writes its code for the stub's method into the backup; the entry point
\* of the original was saved.
LEMMA StubFixupGood ==
    ASSUME OriginalInv, NEW b \in Backups, FixupStaticTrampolines(b), disturbed \subseteq disturbed',
           NEW m \in Targets \ disturbed'
    PROVE  OriginalGood(m)'
<1>1. Step(b, "status", "fixed") /\ UNCHANGED saved /\ b \notin Targets
  BY NamesAssumption DEF FixupStaticTrampolines
<1>2. OriginalGood(m)
  BY DEF OriginalInv, Good
<1>3. /\ initPc[b] = "status" /\ initPc'[b] = "fixed"
      /\ \A d \in Classes \ {b} : initPc'[d] = initPc[d]
      /\ App \in Classes \ {b} /\ b \in Classes /\ MethodsOf(b) = {b} /\ ~IsHooked(b)
      /\ \A d \in Backups \ {b} : d \in Classes \ {b}
      /\ UNCHANGED <<statics, natives, hooked, deoptSet, thrVars, fn, latest, jit>>
  BY <1>1, StubStep
<1>4. /\ \A x \in Methods \ {b} : entry'[x] = entry[x]
      /\ entry'[b] \in {entry[b], "stub"}
  <2>1. b \in Methods /\ ArtCode(b) = "stub" /\ MaybeUseBackupMethod(b, ArtCode(b)) = b
    BY <1>3, NamesAssumption DEF Methods, ArtCode, MaybeUseBackupMethod
  <2> QED BY <1>3, <2>1 DEF FixupStaticTrampolines
<1>5. ASSUME StandsFor(b, m), EntryFit(b, m) PROVE EntryFit(b, m)'
  <2>1. hooked[m] = b /\ IsHooked(m)
    BY <1>3, <1>5, StubAlone DEF Open, OriginalInv, EntryInv
  <2>2. b \in DOMAIN saved[b]
    BY <1>2, <1>3, <2>1 DEF OriginalGood
  <2>3. Fit(saved[b][b], m) /\ (entry[b] = "interpreter" => saved[b][b] = "interpreter")
    BY <1>5, <2>2 DEF EntryFit
  <2>4. Fit(saved[b][b], m)'
    <3>1. PICK v : v = saved[b][b] /\ v = saved'[b][b]
      BY <1>1
    <3>2. v = "resolve" => initPc'[App] \in {"loaded", "backup", "status"}
      BY <1>3, <2>3, <3>1 DEF Fit
    <3>3. Fit(v, m)'
      BY <1>3, <2>3, <3>1, <3>2, ArtFit
    <3> QED BY <3>1, <3>3 DEF Fit
  <2> QED BY <1>1, <1>4, <2>2, <2>3, <2>4 DEF EntryFit
<1>6. hooked[m] = b => m \in statics
  <2>1. hooked[m] = b => IsHooked(m)
    BY NamesAssumption DEF IsHooked
  <2> QED BY <1>2, <1>3, <2>1 DEF OriginalGood, Open
<1> QED BY <1>1, <1>2, <1>3, <1>4, <1>5, <1>6, StubGood

\* RestoreBackup gives the backup its saved entry point, or the interpreter's.
LEMMA StubRestoreGood ==
    ASSUME OriginalInv, NEW b \in Backups, RestoreBackup(b), disturbed \subseteq disturbed',
           NEW m \in Targets \ disturbed'
    PROVE  OriginalGood(m)'
<1>1. PICK x \in DOMAIN saved[b], label \in {"fixed", "restore"} :
         LET new == entry[x]
             old == saved[b][x]
             reset == IF ~IsHooked(x) /\ x \in deoptSet /\ new # "interpreter" /\ ~IsNative(x)
                      THEN "interpreter" ELSE old
             moved == {hooked[y] : y \in {z \in {x} : IsHooked(z) /\ x \notin deoptSet /\ new # old}}
         IN  /\ Step(b, label, "restore")
             /\ entry' = [y \in Methods |-> IF y \in moved THEN new ELSE IF y = x THEN reset ELSE entry[y]]
             /\ saved' = [saved EXCEPT ![b] = [y \in DOMAIN @ \ {x} |-> @[y]]]
  BY DEF RestoreBackup
<1>2. /\ initPc[b] = label /\ initPc'[b] = "restore"
      /\ \A d \in Classes \ {b} : initPc'[d] = initPc[d]
      /\ App \in Classes \ {b} /\ b \in Classes /\ MethodsOf(b) = {b} /\ ~IsHooked(b)
      /\ \A d \in Backups \ {b} : d \in Classes \ {b}
      /\ UNCHANGED <<statics, natives, hooked, deoptSet, thrVars, fn, latest, jit>>
  BY <1>1, StubStep
<1>3. OriginalGood(m) /\ DOMAIN saved = Classes /\ b \in Methods /\ b \notin Targets
  BY NamesAssumption DEF OriginalInv, Good, EntryInv, EntryTyped, Methods
<1>4. x = b
  BY <1>1, <1>2 DEF OriginalInv, EntryInv, EntryTyped
<1>5. /\ \A y \in Methods \ {b} : entry'[y] = entry[y]
      /\ entry'[b] \in {"interpreter", saved[b][b]}
  BY <1>1, <1>2, <1>3, <1>4
<1>6. \A d \in Classes \ {b} : saved'[d] = saved[d]
  BY <1>1, <1>3
<1>7. DOMAIN saved'[b] = {}
  <2>1. saved'[b] = [y \in DOMAIN saved[b] \ {x} |-> saved[b][y]]
    BY <1>1, <1>2, <1>3
  <2>2. DOMAIN saved[b] \subseteq {b}
    BY <1>2 DEF OriginalInv, EntryInv, EntryTyped
  <2> QED BY <1>4, <2>1, <2>2
<1>8. EntryFit(b, m) => EntryFit(b, m)'
  <2> SUFFICES ASSUME EntryFit(b, m) PROVE EntryFit(b, m)'
    OBVIOUS
  <2>1. PICK v : v = saved[b][b] /\ Fit(v, m)
    BY <1>1, <1>4 DEF EntryFit
  <2>2. v = "resolve" => initPc'[App] \in {"loaded", "backup", "status"}
    BY <1>2, <2>1 DEF Fit
  <2>3. Fit(v, m)'
    BY <1>2, <2>1, <2>2, ArtFit
  <2>4. Fit(entry[b], m)'
    BY <1>5, <2>1, <2>3 DEF Fit
  <2> QED BY <1>3, <1>7, <2>4 DEF EntryFit
<1>9. hooked[m] = b => m \in statics
  <2>1. hooked[m] = b => IsHooked(m)
    BY NamesAssumption DEF IsHooked
  <2> QED BY <1>2, <1>3, <2>1 DEF OriginalGood, Open
<1> QED BY <1>2, <1>3, <1>5, <1>6, <1>8, <1>9, StubGood

\* Nothing is left to restore in the stub class.
LEMMA StubInitializedGood ==
    ASSUME OriginalInv, NEW b \in Backups, Initialized(b), disturbed \subseteq disturbed',
           NEW m \in Targets \ disturbed'
    PROVE  OriginalGood(m)'
<1>1. PICK label \in {"fixed", "restore"} :
         Step(b, label, "initialized") /\ DOMAIN saved[b] = {} /\ UNCHANGED <<entry, saved>>
  BY DEF Initialized
<1>2. OriginalGood(m) /\ b \notin Targets
  BY NamesAssumption DEF OriginalInv, Good
<1>3. /\ initPc'[b] = "initialized"
      /\ \A d \in Classes \ {b} : initPc'[d] = initPc[d]
      /\ App \in Classes \ {b} /\ \A d \in Backups \ {b} : d \in Classes \ {b}
      /\ UNCHANGED <<statics, natives, hooked, deoptSet, thrVars, fn, latest, jit>>
  BY <1>1, StubStep
<1>4. EntryFit(b, m) => EntryFit(b, m)'
  <2>1. \A v : Fit(v, m) => Fit(v, m)'
    <3>1. \A v : Fit(v, m) /\ v = "resolve" => initPc'[App] \in {"loaded", "backup", "status"}
      BY <1>3 DEF Fit
    <3> QED BY <1>3, <3>1, ArtFit
  <2>2. Moving(m) => Moving(m)'
    BY <1>1, <1>3 DEF Moving, IsHooked
  <2> QED BY <1>1, <1>2, <2>1, <2>2 DEF EntryFit
<1> QED BY <1>1, <1>2, <1>3, <1>4, StubGood

\* The parts of a step in the initialisation of the class of the targets.
LEMMA AppStep ==
    ASSUME OriginalInv, NEW from, NEW to, Step(App, from, to)
    PROVE  /\ initPc[App] = from /\ initPc'[App] = to
           /\ \A b \in Backups : initPc'[b] = initPc[b] /\ b \in Classes /\ b # App
           /\ App \in Classes /\ MethodsOf(App) = Targets
           /\ UNCHANGED <<statics, natives, hooked, hookedClasses, deoptSet, thrVars, fn, latest, jit>>
BY NamesAssumption DEF Step, OriginalInv, EntryInv, EntryTyped, flagVars, mapVars, jitVars, Classes,
                       MethodsOf

\* Meanwhile nothing else is under way for an undisturbed target, and its stub
\* is not being initialised.
LEMMA AppAlone ==
    ASSUME OriginalInv, Apart', NEW m \in Targets \ disturbed', Open(App)',
           UNCHANGED <<thrVars, hooked>>, \A b \in Backups : initPc'[b] = initPc[b]
    PROVE  /\ \A t \in Threads : ~Hooking(t, m) /\ ~Deoptimizing(t, m)
           /\ \A x : StandsFor(x, m) <=> x = IF IsHooked(m) THEN hooked[m] ELSE m
           /\ IsHooked(m) => /\ hooked[m] \in Backups /\ DOMAIN saved[hooked[m]] = {}
                             /\ initPc[hooked[m]] \in {"loaded", "initialized"}
           /\ IsHooked(m) <=> m \in hookedClasses
<1>1. \A t \in Threads : ~Hooking(t, m) /\ ~Deoptimizing(t, m)
  BY DEF Apart, Overlap, Hooking, Deoptimizing, thrVars, Classes
<1>2. IsHooked(m) => hooked[m] \in Backups /\ initPc[hooked[m]] \in {"loaded", "initialized"}
  BY HookedPair DEF OriginalInv, EntryInv, Apart, Overlap, IsHooked, Open
<1>3. IsHooked(m) => DOMAIN saved[hooked[m]] = {}
  BY <1>2 DEF OriginalInv, OriginalTyped
<1>4. IsHooked(m) <=> m \in hookedClasses
  BY <1>1, MapsInvAgrees DEF OriginalInv, EntryInv, MapsAgree
<1> QED BY <1>1, <1>2, <1>3, <1>4 DEF StandsFor

\* What such a step owes to an undisturbed target with original x.
LEMMA AppGood ==
    ASSUME OriginalInv, NEW m \in Targets, OriginalGood(m),
           UNCHANGED <<statics, natives, hooked, deoptSet, thrVars, fn, latest>>,
           NEW x \in Methods, \A y : StandsFor(y, m) <=> y = x,
           IsHooked(m) => hooked[m] \in Backups,
           \A b \in Backups : initPc'[b] = initPc[b] /\ saved'[b] = saved[b],
           ~(m \in natives /\ m \in deoptSet) /\ EntryFit(x, m) => EntryFit(x, m)',
           IsHooked(m) /\ entry'[m] # hooked[m] => entry'[m] = "code",
           ~IsHooked(m) /\ initPc'[App] = "status" /\ m \in statics /\ m \in deoptSet =>
               m \in DOMAIN saved'[App]
    PROVE  OriginalGood(m)'
<1>1. /\ IsHooked(m) /\ initPc'[hooked[m]] \notin {"loaded", "initialized"} => m \in statics
      /\ IsHooked(m) /\ initPc'[hooked[m]] = "status" => hooked[m] \in DOMAIN saved'[hooked[m]]
  BY DEF OriginalGood, Open
<1> QED BY <1>1, ArtGood

\* BackupClassMethods saves the trampolines of the hooked methods.
LEMMA AppBackupGood ==
    ASSUME OriginalInv, BackupHooked(App), disturbed \subseteq disturbed', Apart',
           NEW m \in Targets \ disturbed'
    PROVE  OriginalGood(m)'
<1>1. /\ Step(App, "loaded", "backup") /\ UNCHANGED entry
      /\ saved' = [saved EXCEPT ![App] = EntriesOf(MethodsOf(App) \cap hookedClasses)]
  BY DEF BackupHooked
<1>2. /\ initPc[App] = "loaded" /\ initPc'[App] = "backup"
      /\ \A b \in Backups : initPc'[b] = initPc[b] /\ b \in Classes /\ b # App
      /\ App \in Classes /\ MethodsOf(App) = Targets
      /\ UNCHANGED <<statics, natives, hooked, deoptSet, thrVars, fn, latest, jit>>
  BY <1>1, AppStep
<1>3. OriginalGood(m) /\ DOMAIN saved = Classes /\ m \in Methods /\ DOMAIN saved[App] = {} /\ InForce(m)
  BY <1>2 DEF OriginalInv, Good, EntryInv, EntryTyped, Methods, Kept
<1>4. PICK x \in Methods :
         /\ x = IF IsHooked(m) THEN hooked[m] ELSE m
         /\ \A y : StandsFor(y, m) <=> y = x
         /\ IsHooked(m) => hooked[m] \in Backups
         /\ IsHooked(m) <=> m \in hookedClasses
  BY <1>2, <1>3, AppAlone DEF Open, Methods
<1>5. \A b \in Backups : saved'[b] = saved[b]
  BY <1>1, <1>2, <1>3
<1>6. ~IsHooked(m) => m \notin DOMAIN saved'[App]
  BY <1>1, <1>2, <1>3, <1>4 DEF EntriesOf
<1>7. \A v : Fit(v, m) => Fit(v, m)'
  BY <1>2, ArtFit
<1>8. x = m => ~IsHooked(m)
  BY <1>4, NamesAssumption
<1>9. EntryFit(x, m) => EntryFit(x, m)'
  <2>1. ~Moving(m)
    BY <1>3 DEF Moving
  <2> QED BY <1>1, <1>3, <1>5, <1>6, <1>7, <1>8, <2>1 DEF EntryFit
<1>10. IsHooked(m) => entry'[m] = hooked[m]
  BY <1>1, <1>2, <1>3 DEF InForce
<1> QED BY <1>2, <1>3, <1>4, <1>5, <1>9, <1>10, AppGood

\* And the interpreter's bridge of the deoptimized ones.
LEMMA AppDeoptimizedGood ==
    ASSUME OriginalInv, BackupDeoptimized(App), disturbed \subseteq disturbed', Apart',
           NEW m \in Targets \ disturbed'
    PROVE  OriginalGood(m)'
<1>1. /\ Step(App, "backup", "status") /\ UNCHANGED entry
      /\ saved' = [saved EXCEPT ![App] = Emplace(saved[App], EntriesOf(MethodsOf(App) \cap deoptClasses))]
  BY DEF BackupDeoptimized, OriginalInv, EntryInv, EntryTyped, Classes
<1>2. /\ initPc[App] = "backup" /\ initPc'[App] = "status"
      /\ \A b \in Backups : initPc'[b] = initPc[b] /\ b \in Classes /\ b # App
      /\ App \in Classes /\ MethodsOf(App) = Targets
      /\ UNCHANGED <<statics, natives, hooked, deoptSet, thrVars, fn, latest, jit>>
  BY <1>1, AppStep
<1>3. OriginalGood(m) /\ DOMAIN saved = Classes /\ m \in Methods /\ InForce(m)
  BY DEF OriginalInv, Good, EntryInv, EntryTyped, Methods, Kept
<1>4. /\ m \in DOMAIN saved'[App] <=> m \in DOMAIN saved[App] \/ (m \in deoptClasses /\ m \in statics)
      /\ m \in DOMAIN saved'[App] =>
            saved'[App][m] = IF m \in DOMAIN saved[App] THEN saved[App][m] ELSE entry[m]
  <2>1. PICK g : g = EntriesOf(Targets \cap deoptClasses)
    OBVIOUS
  <2>2. /\ DOMAIN g = {y \in Targets \cap deoptClasses : IsStatic(y)}
        /\ \A y \in DOMAIN g : g[y] = entry[y]
    BY <2>1 DEF EntriesOf
  <2>3. saved'[App] = Emplace(saved[App], g)
    BY <1>1, <1>2, <1>3, <2>1
  <2>4. /\ DOMAIN saved'[App] = DOMAIN saved[App] \cup DOMAIN g
        /\ \A y \in DOMAIN saved'[App] :
              saved'[App][y] = IF y \in DOMAIN saved[App] THEN saved[App][y] ELSE g[y]
    BY <2>3 DEF Emplace
  <2> QED BY <2>2, <2>4 DEF IsStatic
<1>5. PICK x \in Methods :
         /\ x = IF IsHooked(m) THEN hooked[m] ELSE m
         /\ \A y : StandsFor(y, m) <=> y = x
         /\ IsHooked(m) => hooked[m] \in Backups
         /\ \A t \in Threads : ~Deoptimizing(t, m)
  BY <1>2, <1>3, AppAlone DEF Open, Methods
<1>6. \A b \in Backups : saved'[b] = saved[b]
  BY <1>1, <1>2, <1>3
<1>7. m \in deoptClasses <=> m \in deoptSet
  BY <1>5 DEF OriginalInv, RecordInv, Deoptimizing, InDeoptimize
<1>8. \A v : Fit(v, m) => Fit(v, m)'
  BY <1>2, ArtFit
<1>9. x = m => ~IsHooked(m)
  BY <1>5, NamesAssumption
<1>10. ~Moving(m)
  BY <1>2 DEF Moving
<1>11. EntryFit(x, m) => EntryFit(x, m)'
  <2>1. ASSUME EntryFit(m, m), x = m, m \in DOMAIN saved'[App]
        PROVE  m \in deoptSet /\ saved'[App][m] = "interpreter"
    <3>1. CASE m \in DOMAIN saved[App]
      BY <1>4, <2>1, <3>1 DEF EntryFit
    <3>2. CASE m \notin DOMAIN saved[App]
      <4>1. Fit(entry[m], m)
        BY <1>10, <2>1, <3>2, NamesAssumption DEF EntryFit
      <4> QED BY <1>4, <1>5, <1>7, <2>1, <3>2, <4>1 DEF Fit
    <3> QED BY <3>1, <3>2
  <2>2. m \in DOMAIN saved[App] => m \in DOMAIN saved'[App]
    BY <1>4
  <2> QED BY <1>1, <1>2, <1>6, <1>8, <1>10, <2>1, <2>2 DEF EntryFit
<1>12. IsHooked(m) => entry'[m] = hooked[m]
  BY <1>1, <1>2, <1>3 DEF InForce
<1> QED BY <1>2, <1>3, <1>4, <1>5, <1>6, <1>7, <1>11, <1>12, AppGood

\* FixupStaticTrampolines: the code reaches the original of m, unless m was
\* deoptimized, or RestoreBackup will move it there.
LEMMA AppFixupGood ==
    ASSUME OriginalInv, FixupStaticTrampolines(App), disturbed \subseteq disturbed', Apart',
           NEW m \in Targets \ disturbed'
    PROVE  OriginalGood(m)'
<1>1. Step(App, "status", "fixed") /\ UNCHANGED saved
  BY DEF FixupStaticTrampolines
<1>2. /\ initPc[App] = "status" /\ initPc'[App] = "fixed"
      /\ \A b \in Backups : initPc'[b] = initPc[b]
      /\ App \in Classes /\ MethodsOf(App) = Targets
      /\ UNCHANGED <<statics, natives, hooked, deoptSet, thrVars, fn, latest, jit>>
  BY <1>1, AppStep
<1>3. OriginalGood(m) /\ m \in Methods /\ InForce(m)
  BY DEF OriginalInv, Good, EntryInv, Methods, Kept
<1>4. PICK x \in Methods :
         /\ x = IF IsHooked(m) THEN hooked[m] ELSE m
         /\ \A y : StandsFor(y, m) <=> y = x
         /\ IsHooked(m) => hooked[m] \in Backups /\ DOMAIN saved[hooked[m]] = {}
         /\ \A t \in Threads : ~Deoptimizing(t, m)
  BY <1>2, <1>3, AppAlone DEF Open, Methods
<1>5. \A n \in Targets : IsHooked(n) => hooked[n] \in Backups /\ (hooked[n] = hooked[m] => n = m)
  BY HookedPair DEF OriginalInv, EntryInv, IsHooked
<1>6. PICK S, W :
         /\ S = {n \in Targets : n \in statics /\ ~(fixupSeen /\ n \in deoptSet)}
         /\ W = {IF fixupSeen THEN MaybeUseBackupMethod(n, "code") ELSE n : n \in S}
         /\ entry' = [y \in Methods |-> IF y \in W THEN "code" ELSE entry[y]]
  <2>1. /\ ArtCode(App) = "code"
        /\ {n \in Targets : n \in statics /\ ~(fixupSeen /\ n \in deoptSet)} =
             {n \in MethodsOf(App) : IsStatic(n) /\ ~(fixupSeen /\ Skipped(n))}
    BY <1>2 DEF ArtCode, IsStatic, Skipped
  <2>2. PICK S, W :
           /\ S = {n \in MethodsOf(App) : IsStatic(n) /\ ~(fixupSeen /\ Skipped(n))}
           /\ W = {IF fixupSeen THEN MaybeUseBackupMethod(n, ArtCode(App)) ELSE n : n \in S}
           /\ entry' = [y \in Methods |-> IF y \in W THEN ArtCode(App) ELSE entry[y]]
    BY Zenon DEF FixupStaticTrampolines
  <2>3. S = {n \in Targets : n \in statics /\ ~(fixupSeen /\ n \in deoptSet)}
    BY <2>1, <2>2
  <2>4. W = {IF fixupSeen THEN MaybeUseBackupMethod(n, "code") ELSE n : n \in S}
    BY <2>1, <2>2
  <2>5. entry' = [y \in Methods |-> IF y \in W THEN "code" ELSE entry[y]]
    BY <2>1, <2>2
  <2> QED BY <2>3, <2>4, <2>5, Zenon
<1>7. x = m <=> ~IsHooked(m)
  BY <1>4, NamesAssumption
<1>8. \A v : Fit(v, m) /\ v # "resolve" => Fit(v, m)'
  BY <1>2, ArtFit
<1>9. m \notin deoptSet => Fit("code", m)'
  BY <1>2 DEF Fit
<1>10. ~Moving(m)
  BY <1>2 DEF Moving
<1>11. CASE ~IsHooked(m)
  <2>1. m \in W <=> m \in S
    <3>1. m \in S => m \in W
      BY <1>6, <1>11 DEF MaybeUseBackupMethod
    <3>2. m \in W => m \in S
      BY <1>5, <1>6, <1>11, NamesAssumption DEF MaybeUseBackupMethod
    <3> QED BY <3>1, <3>2
  <2>2. entry'[m] = IF m \in S THEN "code" ELSE entry[m]
    BY <1>3, <1>6, <2>1
  <2>3. ASSUME EntryFit(m, m), m \notin DOMAIN saved[App] PROVE Fit(entry[m], m)'
    <3>1. Fit(entry[m], m)
      BY <1>10, <2>3, NamesAssumption DEF EntryFit
    <3>2. CASE m \in statics
      <4>1. m \notin deoptSet
        BY <1>2, <1>3, <1>11, <2>3, <3>2 DEF OriginalGood
      <4>2. entry'[m] = "code"
        BY <1>6, <2>2, <3>2, <4>1
      <4> QED BY <1>9, <4>1, <4>2 DEF Fit
    <3>3. CASE m \notin statics
      <4>1. PICK v : v = entry[m] /\ entry'[m] = v
        BY <1>6, <2>2, <3>3
      <4>2. Fit(v, m) /\ v # "resolve"
        BY <3>1, <3>3, <4>1 DEF Fit
      <4> QED BY <1>8, <4>1, <4>2 DEF Fit
    <3> QED BY <3>2, <3>3
  <2>4. EntryFit(m, m) => EntryFit(m, m)'
    BY <1>1, <1>2, <2>3, NamesAssumption DEF EntryFit
  <2> QED BY <1>1, <1>2, <1>3, <1>4, <1>7, <1>11, <2>4, AppGood
<1>12. CASE IsHooked(m)
  <2>1. PICK b : b = hooked[m] /\ b \in Backups /\ x = b /\ DOMAIN saved[b] = {} /\ b \notin Targets /\ b # "code"
    BY <1>4, <1>12, NamesAssumption
  <2>2. entry[m] = b
    BY <1>2, <1>3, <1>12, <2>1 DEF InForce
  <2>3. m \in W <=> m \in S /\ ~fixupSeen
    <3>1. CASE fixupSeen
      <4>1. MaybeUseBackupMethod(m, "code") # m
        BY <1>12, <2>1, <2>2 DEF MaybeUseBackupMethod
      <4>2. \A n \in Targets \ {m} : MaybeUseBackupMethod(n, "code") # m
        BY <1>5, NamesAssumption DEF MaybeUseBackupMethod
      <4> QED BY <1>6, <3>1, <4>1, <4>2
    <3>2. CASE ~fixupSeen
      BY <1>6, <3>2
    <3> QED BY <3>1, <3>2
  <2>4. b \in W <=> m \in S /\ fixupSeen
    <3>1. CASE fixupSeen
      <4>1. MaybeUseBackupMethod(m, "code") = b
        BY <1>12, <2>1, <2>2 DEF MaybeUseBackupMethod
      <4>2. \A n \in Targets \ {m} : MaybeUseBackupMethod(n, "code") # b
        BY <1>5, <2>1 DEF MaybeUseBackupMethod, IsHooked
      <4> QED BY <1>6, <3>1, <4>1, <4>2
    <3>2. CASE ~fixupSeen
      BY <1>6, <2>1, <3>2
    <3> QED BY <3>1, <3>2
  <2>5. /\ entry'[m] = IF m \in S /\ ~fixupSeen THEN "code" ELSE b
        /\ entry'[b] = IF m \in S /\ fixupSeen THEN "code" ELSE entry[b]
    BY <1>3, <1>4, <1>6, <2>1, <2>2, <2>3, <2>4
  <2>6. ASSUME EntryFit(b, m) PROVE EntryFit(b, m)'
    <3>1. Fit(entry[b], m)
      BY <1>10, <2>1, <2>6 DEF EntryFit
    <3>2. CASE m \in S /\ fixupSeen
      <4>1. Fit(entry[b], m)'
        BY <1>6, <1>9, <2>5, <3>2 DEF Fit
      <4> QED BY <1>1, <2>1, <4>1 DEF EntryFit
    <3>3. CASE ~(m \in S /\ fixupSeen) /\ entry[b] # "resolve"
      <4>1. PICK v : v = entry[b] /\ entry'[b] = v
        BY <2>5, <3>3
      <4>2. Fit(v, m)'
        BY <1>8, <3>1, <3>3, <4>1
      <4>3. Fit(entry[b], m)'
        BY <4>1, <4>2 DEF Fit
      <4> QED BY <1>1, <2>1, <4>3 DEF EntryFit
    <3>4. CASE ~(m \in S /\ fixupSeen) /\ entry[b] = "resolve"
      <4>1. m \in statics /\ m \notin deoptSet
        BY <1>4, <3>1, <3>4 DEF Fit
      <4>2. entry'[m] = "code"
        BY <1>6, <2>5, <3>4, <4>1
      <4>3. m \in DOMAIN saved[App]
        BY <1>2, <1>3, <1>12, <4>1 DEF InForce
      <4>4. Moving(m)'
        BY <1>1, <1>2, <1>12, <4>1, <4>2, <4>3 DEF Moving, IsHooked
      <4> QED BY <1>1, <2>1, <4>4 DEF EntryFit
    <3> QED BY <3>2, <3>3, <3>4
  <2>7. entry'[m] # hooked[m] => entry'[m] = "code"
    BY <2>1, <2>5
  <2> QED BY <1>1, <1>2, <1>3, <1>4, <1>12, <2>1, <2>6, <2>7, AppGood
<1> QED BY <1>11, <1>12

\* One turn of RestoreBackup: the trampoline comes back and the code ART wrote
\* over it moves to the original; a deoptimized method is interpreted again.
LEMMA AppRestoreGood ==
    ASSUME OriginalInv, RestoreBackup(App), disturbed \subseteq disturbed', Apart',
           NEW m \in Targets \ disturbed'
    PROVE  OriginalGood(m)'
<1>1. PICK n \in DOMAIN saved[App], label \in {"fixed", "restore"} :
         LET new == entry[n]
             old == saved[App][n]
             reset == IF ~IsHooked(n) /\ n \in deoptSet /\ new # "interpreter" /\ ~IsNative(n)
                      THEN "interpreter" ELSE old
             moved == {hooked[y] : y \in {z \in {n} : IsHooked(z) /\ n \notin deoptSet /\ new # old}}
         IN  /\ Step(App, label, "restore")
             /\ entry' = [y \in Methods |-> IF y \in moved THEN new ELSE IF y = n THEN reset ELSE entry[y]]
             /\ saved' = [saved EXCEPT ![App] = [y \in DOMAIN @ \ {n} |-> @[y]]]
  BY DEF RestoreBackup
<1>2. /\ initPc[App] = label /\ initPc'[App] = "restore"
      /\ \A b \in Backups : initPc'[b] = initPc[b] /\ b \in Classes /\ b # App
      /\ App \in Classes /\ MethodsOf(App) = Targets
      /\ UNCHANGED <<statics, natives, hooked, deoptSet, thrVars, fn, latest, jit>>
  BY <1>1, AppStep
<1>3. OriginalGood(m) /\ m \in Methods /\ InForce(m) /\ n \in Targets /\ DOMAIN saved = Classes
  BY <1>2 DEF OriginalInv, Good, EntryInv, EntryTyped, Methods, Kept
<1>4. PICK x \in Methods :
         /\ x = IF IsHooked(m) THEN hooked[m] ELSE m
         /\ \A y : StandsFor(y, m) <=> y = x
         /\ IsHooked(m) => hooked[m] \in Backups /\ DOMAIN saved[hooked[m]] = {}
         /\ \A t \in Threads : ~Deoptimizing(t, m)
  BY <1>2, <1>3, AppAlone DEF Open, Methods
<1>5. IsHooked(n) => hooked[n] \in Backups /\ hooked[n] \notin Targets /\ (hooked[n] = hooked[m] => n = m)
  BY <1>3, HookedPair, NamesAssumption DEF OriginalInv, EntryInv, IsHooked
<1>6. x = m <=> ~IsHooked(m)
  BY <1>4, NamesAssumption
<1>7. /\ \A b \in Backups : saved'[b] = saved[b]
      /\ DOMAIN saved'[App] = DOMAIN saved[App] \ {n}
      /\ \A y \in DOMAIN saved'[App] : saved'[App][y] = saved[App][y]
  BY <1>1, <1>2, <1>3
<1>8. \A v : Fit(v, m) => Fit(v, m)'
  <2>1. \A v : Fit(v, m) => v # "resolve"
    BY <1>2 DEF Fit
  <2> QED BY <1>2, <2>1, ArtFit
<1>9. Fit("interpreter", m)' /\ (m \notin deoptSet => Fit("code", m)')
  BY <1>2 DEF Fit
<1>10. CASE m # n
  <2>1. entry'[m] = entry[m]
    BY <1>1, <1>3, <1>5, <1>10
  <2>2. entry'[x] = entry[x]
    <3>1. x # n /\ (IsHooked(n) => x # hooked[n])
      BY <1>3, <1>4, <1>5, <1>10, NamesAssumption
    <3> QED BY <1>1, <3>1
  <2>3. Moving(m) => Moving(m)'
    BY <1>2, <1>7, <1>10, <2>1 DEF Moving, IsHooked
  <2>4. EntryFit(x, m) => EntryFit(x, m)'
    BY <1>2, <1>7, <1>8, <1>10, <2>2, <2>3 DEF EntryFit
  <2>5. IsHooked(m) /\ entry'[m] # hooked[m] => entry'[m] = "code"
    BY <1>3, <2>1 DEF OriginalGood
  <2> QED BY <1>2, <1>3, <1>4, <1>7, <2>4, <2>5, AppGood
<1>11. CASE m = n /\ ~IsHooked(m)
  <2>1. entry'[m] \in {"interpreter", saved[App][m]}
    BY <1>1, <1>3, <1>11
  <2>2. EntryFit(m, m) => EntryFit(m, m)'
    <3>1. EntryFit(m, m) => entry'[m] = "interpreter"
      BY <1>1, <1>11, <2>1 DEF EntryFit
    <3>2. EntryFit(m, m) => Fit(entry[m], m)'
      BY <1>9, <3>1 DEF Fit
    <3> QED BY <1>7, <1>11, <3>2, NamesAssumption DEF EntryFit
  <2> QED BY <1>2, <1>3, <1>4, <1>6, <1>7, <1>11, <2>2, AppGood
<1>12. CASE m = n /\ IsHooked(m)
  <2>1. PICK b : b = hooked[m] /\ b \in Backups /\ x = b /\ DOMAIN saved[b] = {} /\ b # "code" /\ b # m
    BY <1>4, <1>12, NamesAssumption
  <2>2. saved[App][m] = b
    BY <1>1, <1>3, <1>12, <2>1 DEF InForce
  <2>3. entry'[m] = b
    BY <1>1, <1>3, <1>5, <1>12, <2>1, <2>2
  <2>4. entry'[b] = IF m \notin deoptSet /\ entry[m] # b THEN entry[m] ELSE entry[b]
    BY <1>1, <1>4, <1>12, <2>1, <2>2
  <2>5. entry[m] # b => entry[m] = "code"
    BY <1>3, <1>12, <2>1 DEF OriginalGood
  <2>6. ASSUME EntryFit(b, m) PROVE EntryFit(b, m)'
    <3>1. CASE m \notin deoptSet /\ entry[m] # b
      <4>1. Fit(entry[b], m)'
        BY <1>9, <2>4, <2>5, <3>1 DEF Fit
      <4> QED BY <1>7, <2>1, <4>1 DEF EntryFit
    <3>2. CASE ~(m \notin deoptSet /\ entry[m] # b)
      <4>1. PICK v : v = entry[b] /\ entry'[b] = v
        BY <2>4, <3>2
      <4>2. Fit(v, m)
        BY <2>1, <2>6, <3>2, <4>1 DEF EntryFit, Moving
      <4>3. Fit(entry[b], m)'
        BY <1>8, <4>1, <4>2 DEF Fit
      <4> QED BY <1>7, <2>1, <4>3 DEF EntryFit
    <3> QED BY <3>1, <3>2
  <2> QED BY <1>2, <1>3, <1>4, <1>7, <1>12, <2>1, <2>3, <2>6, AppGood
<1> QED BY <1>10, <1>11, <1>12

\* Nothing is left to restore.
LEMMA AppInitializedGood ==
    ASSUME OriginalInv, Initialized(App), disturbed \subseteq disturbed',
           NEW m \in Targets \ disturbed'
    PROVE  OriginalGood(m)'
<1>1. PICK label \in {"fixed", "restore"} :
         Step(App, label, "initialized") /\ DOMAIN saved[App] = {} /\ UNCHANGED <<entry, saved>>
  BY DEF Initialized
<1>2. /\ initPc[App] = label /\ initPc'[App] = "initialized"
      /\ \A b \in Backups : initPc'[b] = initPc[b]
      /\ UNCHANGED <<statics, natives, hooked, deoptSet, thrVars, fn, latest, jit>>
  BY <1>1, AppStep
<1>3. OriginalGood(m) /\ m \in Methods /\ InForce(m)
  BY DEF OriginalInv, Good, EntryInv, Methods, Kept
<1>4. PICK x \in Methods :
         /\ \A y : StandsFor(y, m) <=> y = x
         /\ IsHooked(m) => hooked[m] \in Backups
  <2>1. \A t \in Threads : ~Hooking(t, m)
    BY <1>2, OpenAlone DEF Open, OriginalInv, EntryInv
  <2>2. IsHooked(m) => hooked[m] \in Backups
    BY HookedPair DEF OriginalInv, EntryInv
  <2> QED BY <1>3, <2>1, <2>2 DEF StandsFor, Methods
<1>5. \A v : Fit(v, m) => Fit(v, m)'
  <2>1. \A v : Fit(v, m) => v # "resolve"
    BY <1>2 DEF Fit
  <2> QED BY <1>2, <2>1, ArtFit
<1>6. EntryFit(x, m) => EntryFit(x, m)'
  BY <1>1, <1>2, <1>5 DEF EntryFit, Moving
<1>7. IsHooked(m) => entry'[m] = hooked[m]
  BY <1>1, <1>3 DEF InForce
<1> QED BY <1>1, <1>2, <1>3, <1>4, <1>6, <1>7, AppGood

\* A target for which nothing is under way.
LEMMA QuietOriginal ==
    ASSUME OriginalInv, NEW m \in Targets \ disturbed, Quiet(m)
    PROVE  /\ \A y : StandsFor(y, m) <=> y = IF IsHooked(m) THEN hooked[m] ELSE m
           /\ IsHooked(m) => /\ hooked[m] \in Backups /\ copyOf[hooked[m]] = m
                             /\ entry[m] = hooked[m] /\ DOMAIN saved[hooked[m]] = {}
           /\ DOMAIN saved[App] = {} /\ initPc[App] \in {"loaded", "initialized"}
           /\ OriginalGood(m)
<1>1. DOMAIN saved[App] = {} /\ initPc[App] \in {"loaded", "initialized"} /\ OriginalGood(m) /\ InForce(m)
  BY NothingSaved DEF Quiet, Open, Classes, OriginalInv, Good, EntryInv, Kept
<1>2. IsHooked(m) => hooked[m] \in Backups /\ copyOf[hooked[m]] = m
  BY HookedPair DEF OriginalInv, EntryInv, Copied
<1>3. IsHooked(m) => DOMAIN saved[hooked[m]] = {}
  BY <1>2, NothingSaved DEF Quiet, Classes
<1>4. IsHooked(m) => entry[m] = hooked[m]
  BY <1>1 DEF InForce
<1> QED BY <1>1, <1>2, <1>3, <1>4 DEF StandsFor, Quiet

\* A step of ART on the original of a target for which nothing is under way.
LEMMA QuietGood ==
    ASSUME OriginalInv, NEW m \in Targets \ disturbed, Quiet(m),
           UNCHANGED <<statics, natives, hooked, deoptSet, thrVars, saved, initPc>>,
           NEW x, x = IF IsHooked(m) THEN hooked[m] ELSE m,
           fn'[x] = latest'[m],
           ~(m \in natives /\ m \in deoptSet) => Fit(entry[x], m)',
           IsHooked(m) => entry'[m] = entry[m]
    PROVE  OriginalGood(m)'
<1>1. /\ \A y : StandsFor(y, m) <=> y = x
      /\ x \in Backups => DOMAIN saved[x] = {}
      /\ IsHooked(m) => entry[m] = hooked[m] /\ hooked[m] \in Backups
      /\ DOMAIN saved[App] = {} /\ initPc[App] \in {"loaded", "initialized"} /\ OriginalGood(m)
  BY QuietOriginal, NamesAssumption
<1>2. ~(m \in natives /\ m \in deoptSet) => EntryFit(x, m)'
  BY <1>1 DEF EntryFit
<1>3. IsHooked(m) => initPc[hooked[m]] \in {"loaded", "initialized"}
  BY DEF Quiet, Open
<1> QED BY <1>1, <1>2, <1>3, ArtGood

\* A step of ART on target n or on copies of it leaves the original of m alone.
LEMMA ElsewhereGood ==
    ASSUME OriginalInv, NEW m \in Targets \ disturbed, NEW n \in Targets \ {m},
           UNCHANGED <<statics, natives, hooked, deoptSet, thrVars, saved, initPc>>,
           \A y \in Methods : (y # n /\ (y \in Backups => copyOf[y] # n)) =>
               entry'[y] = entry[y] /\ fn'[y] = fn[y],
           latest'[m] = latest[m], jit'[m] = jit[m]
    PROVE  OriginalGood(m)'
<1>1. OriginalGood(m) /\ m \in Methods /\ m \notin Backups
  BY NamesAssumption DEF OriginalInv, Good, Methods
<1>2. \A x : StandsFor(x, m)' <=> StandsFor(x, m)
  BY DEF StandsFor, IsHooked, Hooking, thrVars
<1>3. \A x : StandsFor(x, m) => x \in Methods /\ x # n /\ (x \in Backups => copyOf[x] # n)
  BY <1>1, Standing, NamesAssumption DEF Methods
<1>4. \A x : StandsFor(x, m) => entry'[x] = entry[x] /\ fn'[x] = fn[x]
  BY <1>3
<1>5. entry'[m] = entry[m]
  BY <1>1
<1>6. \A t \in Threads : pc'[t] = "deoptWrite" /\ arg'[t] = m => StandsFor(bk[t], m)'
  <2> SUFFICES ASSUME NEW t \in Threads, pc'[t] = "deoptWrite", arg'[t] = m PROVE StandsFor(bk'[t], m)
    BY <1>2
  <2> QED BY <1>1 DEF OriginalGood, thrVars
<1>7. \A t \in Threads : Deoptimizing(t, m) => Deoptimizing(t, m)'
  BY DEF Deoptimizing, thrVars
<1> QED BY <1>1, <1>2, <1>4, <1>5, <1>6, <1>7, GoodFrame

\* RegisterNative reaches the original.
LEMMA RegisterNativeGood ==
    ASSUME OriginalInv, NEW n \in Targets, RegisterNative(n), Disturb({y \in {n} : ~Quiet(y)}),
           NEW m \in Targets \ disturbed'
    PROVE  OriginalGood(m)'
<1>1. /\ latest' = [latest EXCEPT ![n] = latest[n] + 1]
      /\ fn' = [fn EXCEPT ![IF IsHooked(n) THEN hooked[n] ELSE n] = latest[n] + 1]
      /\ UNCHANGED <<entry, jit>>
      /\ UNCHANGED <<statics, natives, hooked, deoptSet, thrVars, saved, initPc>>
  BY DEF RegisterNative, flagVars, mapVars, jitVars, initVars, OriginalInv, OriginalTyped
<1>2. m \notin disturbed /\ (m = n => Quiet(m))
  BY DEF Disturb
<1>3. DOMAIN latest = Targets /\ DOMAIN fn = Methods
  BY DEF OriginalInv, OriginalTyped
<1>4. IsHooked(n) => hooked[n] \in Backups /\ copyOf[hooked[n]] = n
  BY HookedPair DEF OriginalInv, EntryInv, Copied
<1>5. CASE m = n
  <2>1. PICK x \in Methods : x = IF IsHooked(m) THEN hooked[m] ELSE m
    BY <1>4, <1>5 DEF Methods
  <2>2. fn'[x] = latest'[m]
    BY <1>1, <1>3, <1>5, <2>1
  <2>3. OriginalGood(m) /\ StandsFor(x, m) /\ ~Open(App) /\ (x \in Backups => ~Open(x))
    BY <1>2, <1>5, <2>1, QuietOriginal, NamesAssumption DEF Quiet
  <2>4. ~(m \in natives /\ m \in deoptSet) => Fit(entry[x], m)
    BY <2>1, <2>3, FitNow DEF OriginalGood
  <2>5. ~(m \in natives /\ m \in deoptSet) => Fit(entry[x], m)'
    BY <1>1, <2>4 DEF Fit, Deoptimizing, thrVars
  <2> QED BY <1>1, <1>2, <1>5, <2>1, <2>2, <2>5, QuietGood
<1>6. CASE m # n
  <2>1. \A y \in Methods : (y # n /\ (y \in Backups => copyOf[y] # n)) => fn'[y] = fn[y]
    BY <1>1, <1>4
  <2>2. latest'[m] = latest[m]
    BY <1>1, <1>3, <1>6
  <2> QED BY <1>1, <1>2, <1>6, <2>1, <2>2, ElsewhereGood
<1> QED BY <1>5, <1>6

\* ReinitializeMethodsCode reaches the original.
LEMMA ReinitializeGood ==
    ASSUME OriginalInv, NEW n \in Targets, ReinitializeMethodsCode(n), Disturb({y \in {n} : ~Quiet(y)}),
           NEW m \in Targets \ disturbed'
    PROVE  OriginalGood(m)'
<1>1. PICK code \in {"resolve", "code", "interpreter"} :
         /\ code = "resolve" => n \in statics /\ initPc[App] # "initialized"
         /\ entry' = [entry EXCEPT ![MaybeUseBackupMethod(n, None)] = code]
         /\ n \notin deoptSet
  BY DEF ReinitializeMethodsCode, Skipped
<1>2. /\ UNCHANGED <<fn, latest, jit>>
      /\ UNCHANGED <<statics, natives, hooked, deoptSet, thrVars, saved, initPc>>
  BY DEF ReinitializeMethodsCode, flagVars, mapVars, jitVars, initVars
<1>3. m \notin disturbed /\ (m = n => Quiet(m)) /\ DOMAIN entry = Methods
  BY DEF Disturb, OriginalInv, EntryInv, EntryTyped
<1>4. IsHooked(n) => hooked[n] \in Backups /\ copyOf[hooked[n]] = n
  BY HookedPair DEF OriginalInv, EntryInv, Copied
<1>5. CASE m = n
  <2>1. PICK x \in Methods : x = IF IsHooked(m) THEN hooked[m] ELSE m
    BY <1>4, <1>5 DEF Methods
  <2>2. /\ IsHooked(m) => entry[m] = hooked[m] /\ hooked[m] # None /\ hooked[m] # m
        /\ initPc[App] \in {"loaded", "initialized"} /\ OriginalGood(m) /\ StandsFor(x, m)
    BY <1>3, <1>4, <1>5, <2>1, QuietOriginal, NamesAssumption
  <2>3. MaybeUseBackupMethod(n, None) = x
    BY <1>5, <2>1, <2>2 DEF MaybeUseBackupMethod
  <2>4. entry'[x] = code /\ (IsHooked(m) => entry'[m] = entry[m])
    BY <1>1, <1>3, <2>1, <2>2, <2>3
  <2>5. Fit(entry[x], m)'
    BY <1>1, <1>2, <1>5, <2>2, <2>4 DEF Fit
  <2>6. fn'[x] = latest'[m]
    BY <1>2, <2>2 DEF OriginalGood
  <2> QED BY <1>2, <1>3, <1>5, <2>1, <2>4, <2>5, <2>6, QuietGood
<1>6. CASE m # n
  <2>1. MaybeUseBackupMethod(n, None) \in {n} \cup {b \in Backups : copyOf[b] = n}
    BY <1>4 DEF MaybeUseBackupMethod
  <2>2. \A y \in Methods : (y # n /\ (y \in Backups => copyOf[y] # n)) => entry'[y] = entry[y]
    BY <1>1, <2>1
  <2> QED BY <1>2, <1>3, <1>6, <2>2, ElsewhereGood
<1> QED BY <1>5, <1>6

\* The JIT compiles a target that was never hooked: it is its own original.
LEMMA JitCompileGood ==
    ASSUME OriginalInv, NEW y \in Methods, JitCompile(y),
           Disturb({n \in Targets : ~Quiet(n) \/ Stale(n)}), NEW m \in Targets \ disturbed'
    PROVE  OriginalGood(m)'
<1>1. PICK n \in Targets :
         /\ Compilable(n) /\ n \notin deoptSet
         /\ entry' = [entry EXCEPT ![n] = "jit"] /\ jit' = [jit EXCEPT ![n] = n]
  BY DEF JitCompile
<1>2. /\ UNCHANGED <<fn, latest>>
      /\ UNCHANGED <<statics, natives, hooked, deoptSet, thrVars, saved, initPc>>
  BY DEF JitCompile, flagVars, mapVars, initVars
<1>3. m \notin disturbed /\ Quiet(m) /\ DOMAIN entry = Methods /\ DOMAIN jit = Targets /\ m \in Methods
  BY DEF Disturb, OriginalInv, EntryInv, EntryTyped, OriginalTyped, Methods
<1>4. CASE m = n
  <2>1. ~IsHooked(m)
    <3>1. m \notin Backups
      BY NamesAssumption
    <3> QED BY <1>1, <1>4, <3>1, HookedPair DEF Compilable, OriginalInv, EntryInv, Copied
  <2>2. entry'[m] = "jit" /\ jit'[m] = m
    BY <1>1, <1>3, <1>4
  <2>3. Fit(entry[m], m)'
    BY <1>1, <1>2, <1>4, <2>2 DEF Fit
  <2>4. fn'[m] = latest'[m]
    BY <1>2, <1>3, <2>1, QuietOriginal DEF OriginalGood
  <2> QED BY <1>2, <1>3, <2>1, <2>3, <2>4, QuietGood
<1>5. CASE m # n
  <2>1. jit'[m] = jit[m] /\ \A z \in Methods : z # n => entry'[z] = entry[z]
    BY <1>1, <1>3, <1>5
  <2> QED BY <1>2, <1>3, <1>5, <2>1, ElsewhereGood
<1> QED BY <1>4, <1>5

\* Collection keeps the code an original enters.
LEMMA CollectGood ==
    ASSUME OriginalInv, GarbageCollectCache,
           Disturb({n \in Targets : ~Quiet(n) \/ Stale(n)}), NEW m \in Targets \ disturbed'
    PROVE  OriginalGood(m)'
<1>1. PICK owner : owner = MoveObsoleteMethods(m)
  OBVIOUS
<1>2. jit'[m] = IF owner \in Methods /\ entry[owner] # "jit" THEN "freed" ELSE owner
  BY <1>1 DEF GarbageCollectCache
<1>3. /\ UNCHANGED <<entry, fn, latest>>
      /\ UNCHANGED <<statics, natives, hooked, deoptSet, thrVars, saved, initPc>>
  BY DEF GarbageCollectCache, flagVars, artVars, mapVars, initVars
<1>4. m \notin disturbed /\ Quiet(m) /\ ~Stale(m)
  BY DEF Disturb
<1>5. PICK x \in Methods :
         /\ x = IF IsHooked(m) THEN hooked[m] ELSE m
         /\ StandsFor(x, m) /\ OriginalGood(m)
         /\ x \in Backups => ~Open(x)
         /\ IsHooked(m) => x = hooked[m] /\ x \in Backups
         /\ ~IsHooked(m) => x = m
  <2>1. IsHooked(m) => hooked[m] \in Methods
    BY <1>4, QuietOriginal DEF Methods
  <2> QED BY <1>4, <2>1, QuietOriginal, NamesAssumption DEF Quiet, Methods
<1>6. fn'[x] = latest'[m]
  BY <1>3, <1>5 DEF OriginalGood
<1>7. ASSUME ~(m \in natives /\ m \in deoptSet) PROVE Fit(entry[x], m)'
  <2>1. Fit(entry[x], m)
    BY <1>4, <1>5, <1>7, FitNow DEF OriginalGood, Quiet
  <2>2. ASSUME entry[x] = "jit" PROVE jit'[m] \in {m} \cup Backups
    <3>1. owner \in {m} \cup Backups
      BY <1>1, <2>1, <2>2, MovedTo DEF Fit
    <3>2. entry[owner] = "jit"
      <4>1. CASE owner \in Backups
        <5>1. owner = hooked[m] \/ entry[owner] = "jit"
          BY <1>1, <1>4, <4>1 DEF Stale
        <5>2. owner = hooked[m] => x = owner
          BY <1>5, <4>1, NamesAssumption DEF IsHooked
        <5> QED BY <2>2, <5>1, <5>2
      <4>2. CASE owner = m /\ owner \notin Backups
        <5>1. \A b \in Backups : <<m, b>> \notin movements
          BY <1>1, <4>2, MovedTo
        <5>2. jit[m] = m
          BY <1>1, <4>2, MovedTo
        <5>3. \A t \in Threads : arg[t] = m => pc[t] # "recordDeoptClass"
          BY <1>4 DEF Quiet, Hooking, InHook
        <5>4. ~IsHooked(m)
          BY <5>1, <5>2, <5>3 DEF OriginalInv, RecordInv
        <5> QED BY <1>5, <2>2, <4>2, <5>4
      <4> QED BY <3>1, <4>1, <4>2
    <3> QED BY <1>2, <3>1, <3>2
  <2> QED BY <1>3, <2>1, <2>2 DEF Fit, Deoptimizing, thrVars
<1> QED BY <1>3, <1>4, <1>5, <1>6, <1>7, QuietGood

\* The steps that are not a thread's and not class initialisation.
LEMMA RuntimeGood ==
    ASSUME OriginalInv, NEW m \in Targets \ disturbed',
           \/ /\ GarbageCollectCache \/ \E x \in Methods : JitCompile(x)
              /\ Disturb({n \in Targets : ~Quiet(n) \/ Stale(n)})
           \/ \E n \in Targets : /\ RegisterNative(n) \/ ReinitializeMethodsCode(n)
                                 /\ Disturb({x \in {n} : ~Quiet(x)})
           \/ UNCHANGED vars
    PROVE  OriginalGood(m)'
<1>1. CASE UNCHANGED vars
  <2>1. /\ UNCHANGED <<entry, fn, latest, jit, disturbed>>
        /\ UNCHANGED <<statics, natives, hooked, deoptSet, thrVars, saved, initPc>>
    BY <1>1 DEF vars, flagVars, artVars, mapVars, jitVars, initVars
  <2>3. OriginalGood(m) /\ \A v : Fit(v, m) => Fit(v, m)'
    BY <2>1 DEF OriginalInv, Good, Fit, Deoptimizing, thrVars
  <2>4. Moving(m) => Moving(m)'
    BY <2>1 DEF Moving, IsHooked
  <2>5. \A x \in Methods : EntryFit(x, m) => EntryFit(x, m)'
    BY <2>1, <2>3, <2>4 DEF EntryFit
  <2>6. /\ \A x : fn[x] = latest[m] => fn'[x] = latest'[m]
        /\ IsHooked(m) /\ entry'[m] # hooked[m] => entry'[m] = "code"
        /\ ~IsHooked(m) /\ initPc'[App] = "status" /\ m \in statics /\ m \in deoptSet =>
               m \in DOMAIN saved'[App]
        /\ IsHooked(m) /\ initPc'[hooked[m]] \notin {"loaded", "initialized"} => m \in statics
        /\ IsHooked(m) /\ initPc'[hooked[m]] = "status" => hooked[m] \in DOMAIN saved'[hooked[m]]
    BY <2>1, <2>3 DEF OriginalGood, Open
  <2> QED BY <2>1, <2>3, <2>5, <2>6, ArtGood
<1> QED BY <1>1, CollectGood, JitCompileGood, RegisterNativeGood, ReinitializeGood

\* A step in the initialisation of a class.
LEMMA ClassInitGood ==
    ASSUME OriginalInv, NEW c \in Classes, ClassInit(c), disturbed \subseteq disturbed', Apart',
           NEW m \in Targets \ disturbed'
    PROVE  OriginalGood(m)'
<1>1. CASE c = App
  BY <1>1, AppBackupGood, AppDeoptimizedGood, AppFixupGood, AppRestoreGood, AppInitializedGood
     DEF ClassInit
<1>2. CASE c \in Backups
  BY <1>2, StubBackupGood, StubDeoptimizedGood, StubFixupGood, StubRestoreGood, StubInitializedGood
     DEF ClassInit
<1> QED BY <1>1, <1>2 DEF Classes

\* A step of a thread.
LEMMA ThreadsGood ==
    ASSUME OriginalInv, NEW t \in Threads, Hook(t) \/ UnHook(t) \/ Deoptimize(t) \/ Run(t),
           disturbed \subseteq disturbed', Apart', NEW m \in Targets \ disturbed'
    PROVE  OriginalGood(m)'
<1>1. OriginalGood(m)
  BY DEF OriginalInv, Good
<1> QED BY <1>1, MovesGood, DoHookGood, RecordMethodGood, RecordBackupGood, UnHookGood, DoUnHookGood,
           DeoptSetGood, DeoptReadGood, DeoptWriteGood DEF Run

\* Every step keeps the invariant.
LEMMA OriginalStep == OriginalInv /\ [Next]_vars => OriginalInv'
<1> SUFFICES ASSUME OriginalInv, [Next]_vars PROVE OriginalInv'
  OBVIOUS
<1>1. EntryInv' /\ Apart' /\ disturbed \subseteq disturbed'
  BY EntryStep, ApartStep DEF OriginalInv
<1>2. ASSUME NEW t \in Threads, Hook(t) \/ UnHook(t) \/ Deoptimize(t) \/ Run(t)
      PROVE  Rest' /\ Good'
  <2>1. Rest'
    BY <1>2, RestHook, RestMoves, RestDoHook, RestRecords DEF Run
  <2> QED BY <1>1, <1>2, <2>1, ThreadsGood DEF Good
<1>3. ASSUME NEW c \in Classes, ClassInit(c)
      PROVE  Rest' /\ Good'
  BY <1>1, <1>3, RestClassInit, ClassInitGood DEF Good
<1>4. ASSUME \/ /\ GarbageCollectCache \/ \E x \in Methods : JitCompile(x)
                /\ Disturb({n \in Targets : ~Quiet(n) \/ Stale(n)})
             \/ \E n \in Targets : /\ RegisterNative(n) \/ ReinitializeMethodsCode(n)
                                   /\ Disturb({x \in {n} : ~Quiet(x)})
             \/ UNCHANGED vars
      PROVE  Rest' /\ Good'
  <2>1. Rest'
    BY <1>4, RestRuntime
  <2> QED BY <1>4, <2>1, RuntimeGood DEF Good
<1>5. Rest' /\ Good'
  BY <1>2, <1>3, <1>4 DEF Next
<1> QED BY <1>1, <1>5 DEF OriginalInv, Rest

\* In every reachable state the original of an undisturbed target is where the
\* maps of common.cxx say, with an entry point that fits or will be restored.
THEOREM OriginalInvariance == Spec => []OriginalInv
BY InitOriginalInv, OriginalStep, PTL DEF Spec

\* When nothing is under way for an undisturbed target, the method that stands
\* for its original is like the original.
LEMMA QuietIsOriginal ==
    ASSUME OriginalInv, NEW m \in Targets \ disturbed, Quiet(m), ~(m \in natives /\ m \in deoptSet)
    PROVE  Original(IF IsHooked(m) THEN hooked[m] ELSE m, m)
<1>1. PICK x \in Methods :
         /\ x = IF IsHooked(m) THEN hooked[m] ELSE m
         /\ StandsFor(x, m) /\ OriginalGood(m)
         /\ ~Open(App) /\ (x \in Backups => ~Open(x))
  <2>1. IsHooked(m) => hooked[m] \in Methods
    BY QuietOriginal DEF Methods
  <2> QED BY <2>1, QuietOriginal, NamesAssumption DEF Quiet, Methods
<1>2. fn[x] = latest[m] /\ Fit(entry[x], m)
  BY <1>1, FitNow DEF OriginalGood
<1>3. m \in deoptSet => entry[x] = "interpreter"
  BY <1>2 DEF Fit, Quiet
<1>4. entry[x] = "resolve" => m \in statics /\ initPc[App] = "loaded"
  BY <1>1, <1>2 DEF Fit, Open
<1>5. entry[x] = "jit" => jit[m] # "freed"
  BY <1>2, NamesAssumption DEF Fit
<1>6. entry[x] \in {"code", "interpreter", "jit", "resolve"}
  BY <1>2 DEF Fit
<1>7. Original(x, m)
  BY <1>2, <1>3, <1>4, <1>5, <1>6 DEF Original
<1> QED BY <1>1, <1>7

\* Calling the backup of a hooked method runs the original, however the class
\* linker, instrumentation, RegisterNative and the JIT interleaved with the
\* hook, as long as nothing is under way for the method and its own operations
\* never overlapped.
THEOREM BackupsOriginal == Spec => []BackupIsOriginal
<1>1. OriginalInv => BackupIsOriginal
  BY QuietIsOriginal DEF BackupIsOriginal, IsNative
<1> QED BY <1>1, OriginalInvariance, PTL

\* A method that is not hooked, after UnHook as well, is the original, and no
\* target ever gets the private flag of a backup.
THEOREM UnhookedOriginal == Spec => []UnhookedIsOriginal
<1>1. OriginalInv => UnhookedIsOriginal
  <2> SUFFICES ASSUME OriginalInv, NEW m \in Targets
               PROVE  /\ m \notin private
                      /\ m \notin disturbed /\ Quiet(m) /\ ~IsHooked(m)
                           /\ ~(IsNative(m) /\ m \in deoptSet) => Original(m, m)
    BY DEF UnhookedIsOriginal
  <2>1. m \notin private
    BY NamesAssumption DEF OriginalInv, OriginalTyped
  <2> QED BY <2>1, QuietIsOriginal DEF IsNative
<1> QED BY <1>1, OriginalInvariance, PTL

-----------------------------------------------------------------------------
(***************************************************************************)
(* JniRefs: who owns a local reference or a buffer.                        *)
(***************************************************************************)
\* Objects of the helper's classes, and states of the virtual machine.
Kinds == {"none", "object", "array", "objects", "element", "chars"}
Wrappers ==
    [kind : Kinds, env : BOOLEAN, ref : Refs \cup {Null},
     pin : Pins \cup {Null}, modified : BOOLEAN, i : Int, of : Slots \cup {Null}]
Machines == [live : SUBSET Refs, pinned : SUBSET Pins, pending : {"none", "alloc", "call", "again"}, bad : BOOLEAN]
Calm(v) == v \in Machines /\ ~v.bad /\ v.pending # "call"

\* What an object of each class may hold.
Fits(w) ==
    /\ w.kind \in {"none", "chars"} => w.ref = Null
    /\ w.kind \notin {"array", "chars"} => w.pin = Null
    /\ w.kind = "array" /\ w.pin # Null => w.ref # Null
    /\ w.kind \in {"object", "array", "objects"} => w.env
    /\ w.kind = "element" /\ w.i \in 0..Length - 1 => w.env
    /\ w.ref # Null \/ w.pin # Null => w.env

Held(wr, v, r) ==
    /\ r \subseteq v.live
    /\ \A s \in Slots : wr[s].ref # Null => wr[s].ref \in v.live \ r
    /\ \A s \in Slots : wr[s].pin # Null => wr[s].pin \in v.pinned
Unshared(wr) ==
    \A s, t \in Slots : s # t => /\ wr[s].ref = wr[t].ref => wr[s].ref = Null
                                 /\ wr[s].pin = wr[t].pin => wr[s].pin = Null
Traced(wr, v, r, l) ==
    /\ \A x \in v.live : x \in r \cup l \/ \E s \in Slots : wr[s].ref = x
    /\ \A x \in v.pinned : x \in l \/ \E s \in Slots : wr[s].pin = x
Owners(wr, v, r, l) ==
    /\ wr \in [Slots -> Wrappers]
    /\ \A s \in Slots : Fits(wr[s])
    /\ Held(wr, v, r)
    /\ Unshared(wr)
    /\ Traced(wr, v, r, l)

JniInv == Calm(vm) /\ Owners(wrap, vm, raw, lost)

\* What the invariant says of references is the property.
LEMMA JniImplies == JniInv => JniRefs!RefsOwnedOnce
<1> SUFFICES ASSUME JniInv PROVE JniRefs!RefsOwnedOnce OBVIOUS
<1>1. JniRefs!Orphans(vm, wrap, raw) \subseteq lost
  BY DEF JniInv, Calm, Owners, Traced, JniRefs!Orphans, JniRefs!Owned
<1>2. \A s \in Slots : Fits(wrap[s]) BY DEF JniInv, Owners
<1>3. raw \subseteq vm.live BY DEF JniInv, Owners, Held
<1>4. \A s \in Slots :
         /\ wrap[s].ref # Null => wrap[s].ref \in vm.live \ raw /\ wrap[s].env
         /\ wrap[s].pin # Null => wrap[s].pin \in vm.pinned /\ wrap[s].env
  BY <1>2 DEF JniInv, Owners, Held, Fits
<1>5. \A s \in Slots : \A t \in Slots \ {s} : /\ wrap[s].ref = wrap[t].ref => wrap[s].ref = Null
                                              /\ wrap[s].pin = wrap[t].pin => wrap[s].pin = Null
  BY DEF JniInv, Owners, Unshared
<1> QED BY <1>1, <1>3, <1>4, <1>5 DEF JniRefs!RefsOwnedOnce, JniInv, Calm

\* Orphans that are recorded.
LEMMA OrphansKept ==
    ASSUME NEW wr \in [Slots -> Wrappers], NEW v \in Machines, NEW r \in SUBSET Refs, NEW l,
           JniRefs!Orphans(v, wr, r) \subseteq l
    PROVE  Traced(wr, v, r, l) 
<1>1. ASSUME NEW x \in v.live, x \notin r \cup l PROVE \E s \in Slots : wr[s].ref = x
  <2>1. x \in Refs BY DEF Machines
  <2>2. x \in JniRefs!Owned(wr) BY <1>1 DEF JniRefs!Orphans
  <2>3. \A s \in Slots : wr[s].pin \in Pins \cup {Null} BY DEF Wrappers
  <2> QED BY <2>1, <2>2, <2>3, HandlesAssumption DEF JniRefs!Owned
<1>2. ASSUME NEW x \in v.pinned, x \notin l PROVE \E s \in Slots : wr[s].pin = x
  <2>1. x \in Pins BY DEF Machines
  <2>2. x \in JniRefs!Owned(wr) BY <1>2, <2>1, HandlesAssumption DEF JniRefs!Orphans
  <2>3. \A s \in Slots : wr[s].ref \in Refs \cup {Null} BY DEF Wrappers
  <2> QED BY <2>1, <2>2, <2>3, HandlesAssumption DEF JniRefs!Owned
<1> QED BY <1>1, <1>2 DEF Traced

-----------------------------------------------------------------------------
(* The functions of JNIEnv. *)

\* A JNI call that may create a reference: a new one, or null and perhaps an exception.
LEMMA CallGives ==
    ASSUME NEW v \in Machines, v.pending # "call", NEW source \in {"alloc", "call"}, NEW c \in JniRefs!Call(v, source)
    PROVE  /\ c.v \in Machines /\ c.v.bad = v.bad /\ c.v.pinned = v.pinned
           /\ \/ c.r = Null /\ c.v.live = v.live /\ c.v.pending \in {v.pending, source}
              \/ c.r \in Refs \ v.live /\ c.v.live = v.live \cup {c.r} /\ c.v.pending = v.pending
<1> DEFINE u == JniRefs!Use(v)
<1>1. u = v
  BY DEF JniRefs!Use, Machines
<1>2. CASE c = [v |-> u, r |-> Null]
  BY <1>1, <1>2 DEF Machines
<1>3. CASE c = [v |-> [u EXCEPT !.pending = source], r |-> Null]
  BY <1>1, <1>3 DEF Machines
<1>4. ASSUME NEW r \in JniRefs!Fresh(v), c = [v |-> [u EXCEPT !.live = @ \cup {r}], r |-> r]
      PROVE  /\ c.v \in Machines /\ c.v.bad = v.bad /\ c.v.pinned = v.pinned
             /\ c.r \in Refs \ v.live /\ c.v.live = v.live \cup {c.r} /\ c.v.pending = v.pending
  <2>1. r \in Refs \ v.live BY <1>4 DEF JniRefs!Fresh, Machines
  <2>2. c.r = r /\ c.v = [v EXCEPT !.live = @ \cup {r}] BY <1>1, <1>4
  <2> QED BY <2>1, <2>2 DEF Machines
<1> QED BY <1>2, <1>3, <1>4 DEF JniRefs!Call

\* A wrapper with or without a new buffer.
Pinned(v, w, x) ==
    /\ x.v \in Machines /\ x.v.bad = v.bad /\ x.v.live = v.live /\ x.v.pending # "call"
    /\ x.w \in Wrappers /\ x.w = [w EXCEPT !.pin = x.w.pin]
    /\ \/ x.w.pin = w.pin /\ x.v.pinned = v.pinned
       \/ x.w.pin \in Pins \ v.pinned /\ x.v.pinned = v.pinned \cup {x.w.pin}

\* Get<Type>ArrayElements: a new pin for an array, or none.
LEMMA PinGives ==
    ASSUME NEW v \in Machines, v.pending # "call", NEW w \in Wrappers, NEW x \in JniRefs!Pin(v, w)
    PROVE  Pinned(v, w, x)
<1> DEFINE u == JniRefs!Use(v)
<1> DEFINE free == Pins \ v.pinned
<1> DEFINE some == CHOOSE p \in free : TRUE
<1>1. u = v
  BY DEF JniRefs!Use, Machines
<1>2. CASE x = [v |-> [u EXCEPT !.pending = IF @ = "none" THEN "alloc" ELSE @], w |-> w]
  BY <1>1, <1>2 DEF Machines, Wrappers, Pinned
<1>3. CASE free # {} /\ x = [v |-> [u EXCEPT !.pinned = @ \cup {some}], w |-> [w EXCEPT !.pin = some]]
  <2>1. some \in free BY <1>3
  <2> HIDE DEF some
  <2> QED BY <1>1, <1>3, <2>1 DEF Machines, Wrappers, Pinned
<1> QED BY <1>2, <1>3 DEF JniRefs!Pin

\* ClearException leaves no exception of a call.
LEMMA ClearGives ==
    ASSUME NEW v \in Machines, NEW z \in JniRefs!ClearException(v)
    PROVE  z \in Machines /\ z.bad = v.bad /\ z.live = v.live /\ z.pinned = v.pinned /\ z.pending # "call"
BY DEF JniRefs!ClearException, Machines

\* A wrapper that is not there.
LEMMA UnusedTyped == JniRefs!Unused \in Wrappers
BY DEF JniRefs!Unused, Wrappers, Kinds

\* A new wrapper owns nothing.
LEMMA NewGives ==
    ASSUME NEW kind \in Kinds, NEW env \in BOOLEAN
    PROVE  /\ JniRefs!New(kind, env) \in Wrappers
           /\ JniRefs!New(kind, env).kind = kind /\ JniRefs!New(kind, env).env = env
           /\ JniRefs!New(kind, env).ref = Null /\ JniRefs!New(kind, env).pin = Null
<1>1. JniRefs!New(kind, env) \in Wrappers BY UnusedTyped DEF JniRefs!New, Wrappers
<1>2. JniRefs!New(kind, env).kind = kind BY UnusedTyped DEF JniRefs!New, Wrappers
<1>3. JniRefs!New(kind, env).env = env BY UnusedTyped DEF JniRefs!New, Wrappers
<1>4. JniRefs!New(kind, env).ref = Null BY UnusedTyped DEF JniRefs!New, JniRefs!Unused, Wrappers
<1>5. JniRefs!New(kind, env).pin = Null BY UnusedTyped DEF JniRefs!New, JniRefs!Unused, Wrappers
<1> QED BY <1>1, <1>2, <1>3, <1>4, <1>5

\* A new object around the handle r.
Around(v, kind, r, x) ==
    /\ x.v \in Machines /\ x.v.bad = v.bad /\ x.v.live = v.live
    /\ IF r = Null THEN x.v.pending = v.pending ELSE x.v.pending # "call"
    /\ x.w \in Wrappers /\ x.w.kind = kind /\ x.w.env /\ x.w.ref = r
    /\ \/ x.w.pin = Null /\ x.v.pinned = v.pinned
       \/ kind = "array" /\ r # Null /\ x.w.pin \in Pins \ v.pinned /\ x.v.pinned = v.pinned \cup {x.w.pin}

\* A wrapper that is constructed around a reference owns it, and an array its pin.
LEMMA ConstructGives ==
    ASSUME NEW v \in Machines, NEW kind \in {"object", "array", "objects"}, NEW r \in Refs \cup {Null},
           r # Null => v.pending # "call", NEW x \in JniRefs!Construct(v, kind, r)
    PROVE  Around(v, kind, r, x)
<1> DEFINE w == JniRefs!New(kind, TRUE)
<1>1. /\ w \in Wrappers /\ w.kind = kind /\ w.env /\ w.ref = Null /\ w.pin = Null
  BY NewGives DEF Kinds
<1> HIDE DEF w
<1>2. x \in JniRefs!Reset(v, w, r) BY DEF JniRefs!Construct, w
<1>3. JniRefs!DeleteLocalRef(v, w.env, w.ref) = v
  BY <1>1 DEF JniRefs!DeleteLocalRef
<1>4. JniRefs!ReleaseElements(v, w) = v
  BY <1>1 DEF JniRefs!ReleaseElements
<1>5. CASE kind # "array"
  <2>1. x = JniRefs!ResetObject(v, w, r) BY <1>1, <1>2, <1>5 DEF JniRefs!Reset
  <2>2. x.v = v /\ x.w = [w EXCEPT !.ref = r]
    BY <2>1, <1>1, <1>3 DEF JniRefs!ResetObject, Wrappers
  <2> QED BY <1>1, <2>2 DEF Around, Wrappers
<1>6. CASE kind = "array" /\ r = Null
  <2>1. x = [v |-> v, w |-> w] BY <1>1, <1>2, <1>6 DEF JniRefs!Reset, JniRefs!ResetArray
  <2> QED BY <1>1, <1>6, <2>1 DEF Around
<1>7. CASE kind = "array" /\ r # Null
  <2> DEFINE n == [w EXCEPT !.ref = r, !.pin = Null]
  <2>1. x \in JniRefs!Pin(v, n)
    BY <1>1, <1>2, <1>3, <1>4, <1>7 DEF JniRefs!Reset, JniRefs!ResetArray
  <2>2. n \in Wrappers /\ n.kind = kind /\ n.env /\ n.ref = r /\ n.pin = Null BY <1>1 DEF Wrappers
  <2> HIDE DEF n
  <2>3. Pinned(v, n, x) BY <2>1, <2>2, <1>7, PinGives
  <2>4. x.w.kind = kind /\ x.w.env /\ x.w.ref = r
    BY <2>2, <2>3 DEF Pinned, Wrappers
  <2> QED BY <1>7, <2>2, <2>3, <2>4 DEF Around, Pinned
<1> QED BY <1>5, <1>6, <1>7

\* A new object that owns what it holds; made by one of the constructors of kind.
Gained(v, x) ==
    /\ Calm(x.v)
    /\ x.w \in Wrappers
    /\ \/ x.w.ref = Null /\ x.v.live = v.live
       \/ x.w.ref \in Refs \ v.live /\ x.v.live = v.live \cup {x.w.ref}
    /\ \/ x.w.pin = Null /\ x.v.pinned = v.pinned
       \/ x.w.pin \in Pins \ v.pinned /\ x.v.pinned = v.pinned \cup {x.w.pin}
Made(v, kind, x) ==
    /\ Gained(v, x)
    /\ x.w.kind = kind /\ x.w.env
    /\ x.w.pin # Null => kind = "array" /\ x.w.ref # Null

\* JNI_SafeInvoke: a wrapper around the result, and no exception left.
LEMMA SafeInvokeGives ==
    ASSUME NEW v, Calm(v), NEW kind \in {"object", "array", "objects"}, NEW x \in JniRefs!SafeInvoke(v, kind)
    PROVE  Made(v, kind, x)
<1>c. PICK c \in JniRefs!Call(v, "call") :
         \E y \in JniRefs!Construct(c.v, kind, c.r) : \E z \in JniRefs!ClearException(y.v) :
           x = [v |-> z, w |-> y.w]
  BY DEF JniRefs!SafeInvoke
<1>y. PICK y \in JniRefs!Construct(c.v, kind, c.r) : \E z \in JniRefs!ClearException(y.v) : x = [v |-> z, w |-> y.w]
  BY <1>c
<1>1. PICK z \in JniRefs!ClearException(y.v) : x = [v |-> z, w |-> y.w] BY <1>y
<1>2. /\ c.v \in Machines /\ ~c.v.bad /\ c.v.pinned = v.pinned
      /\ \/ c.r = Null /\ c.v.live = v.live 
         \/ c.r \in Refs \ v.live /\ c.v.live = v.live \cup {c.r} /\ c.v.pending # "call"
  BY CallGives DEF Calm
<1>3. Around(c.v, kind, c.r, y)
  BY <1>2, ConstructGives
<1>4. z \in Machines /\ ~z.bad /\ z.live = y.v.live /\ z.pinned = y.v.pinned /\ z.pending # "call"
  <2>1. y.v \in Machines /\ ~y.v.bad BY <1>2, <1>3 DEF Around
  <2> QED BY <2>1, ClearGives
<1>5. x.v = z /\ x.w = y.w BY <1>1
<1> QED BY <1>2, <1>3, <1>4, <1>5, HandlesAssumption DEF Around, Made, Gained, Calm

\* The other functions that give a local reference: NewStringUTF, NewLocalRef.
LEMMA AllocGives ==
    ASSUME NEW v, Calm(v), NEW c \in JniRefs!Call(v, "alloc"), NEW x \in JniRefs!Construct(c.v, "object", c.r)
    PROVE  Made(v, "object", x)
<1>2. /\ c.v \in Machines /\ ~c.v.bad /\ c.v.pinned = v.pinned /\ c.v.pending # "call"
      /\ \/ c.r = Null /\ c.v.live = v.live 
         \/ c.r \in Refs \ v.live /\ c.v.live = v.live \cup {c.r}
  BY CallGives DEF Calm
<1>3. Around(c.v, "object", c.r, x)
  BY <1>2, ConstructGives
<1> QED BY <1>2, <1>3, HandlesAssumption DEF Around, Made, Gained, Calm

-----------------------------------------------------------------------------
(* The steps.                                                              *)

\* A slot that is free holds nothing.
LEMMA FreeHoldsNothing ==
    ASSUME JniInv, NEW s \in Slots, wrap[s].kind = "none" PROVE wrap[s].ref = Null /\ wrap[s].pin = Null
BY DEF JniInv, Owners, Fits

\* What was kept is still kept after a step that changes the slots s and t only.
LEMMA KeptAfter ==
    ASSUME Traced(wrap, vm, raw, lost), NEW s \in Slots, NEW t \in Slots,
           \A u \in Slots \ {s, t} : wrap'[u] = wrap[u],
           \A x \in vm'.live \ (raw' \cup lost') :
              \/ x \in {wrap'[s].ref, wrap'[t].ref}
              \/ x \in vm.live \ (raw \cup lost \cup {wrap[s].ref, wrap[t].ref}),
           \A x \in vm'.pinned \ lost' :
              \/ x \in {wrap'[s].pin, wrap'[t].pin}
              \/ x \in vm.pinned \ (lost \cup {wrap[s].pin, wrap[t].pin})
    PROVE  Traced(wrap', vm', raw', lost')
<1>1. ASSUME NEW x \in vm'.live, x \notin raw' \cup lost' PROVE \E u \in Slots : wrap'[u].ref = x
  <2>1. CASE x \in {wrap'[s].ref, wrap'[t].ref} BY <2>1
  <2>2. CASE x \in vm.live \ (raw \cup lost \cup {wrap[s].ref, wrap[t].ref})
    <3>1. PICK u \in Slots : wrap[u].ref = x BY <2>2 DEF Traced
    <3> QED BY <2>2, <3>1
  <2> QED BY <1>1, <2>1, <2>2
<1>2. ASSUME NEW x \in vm'.pinned, x \notin lost' PROVE \E u \in Slots : wrap'[u].pin = x
  <2>1. CASE x \in {wrap'[s].pin, wrap'[t].pin} BY <2>1
  <2>2. CASE x \in vm.pinned \ (lost \cup {wrap[s].pin, wrap[t].pin})
    <3>1. PICK u \in Slots : wrap[u].pin = x BY <2>2 DEF Traced
    <3> QED BY <2>2, <3>1
  <2> QED BY <1>2, <2>1, <2>2
<1> QED BY <1>1, <1>2 DEF Traced

\* An object that owns what it refers to is put in a free slot.
LEMMA GainStep ==
    ASSUME JniInv, NEW s \in Slots, wrap[s].kind = "none", NEW x, Gained(vm, x),
           NEW w, w \in Wrappers, Fits(w), w.ref = x.w.ref, w.pin = x.w.pin,
           wrap' = [wrap EXCEPT ![s] = w], vm' = x.v, UNCHANGED <<raw, lost>>
    PROVE  JniInv'
<1> wrap[s].ref = Null /\ wrap[s].pin = Null BY FreeHoldsNothing
<1> USE DEF JniInv
<1>1. Calm(vm') BY DEF Gained
<1>2. wrap' \in [Slots -> Wrappers] BY DEF Owners
<1>3. \A t \in Slots : Fits(wrap'[t]) BY DEF Owners
<1>4. Held(wrap', vm', raw') BY DEF Owners, Held, Gained
<1>5. Unshared(wrap') BY DEF Owners, Held, Unshared, Gained
<1>6. Traced(wrap', vm', raw', lost')
  <2>1. wrap'[s] = w /\ \A u \in Slots \ {s} : wrap'[u] = wrap[u] BY DEF Owners
  <2>2. vm \in Machines BY DEF Calm
  <2>3. \A y \in vm'.live \ (raw' \cup lost') :
           y = wrap'[s].ref \/ y \in vm.live \ (raw \cup lost \cup {wrap[s].ref})
    BY <2>1, <2>2, HandlesAssumption DEF Gained, Machines
  <2>4. \A y \in vm'.pinned \ lost' : y = wrap'[s].pin \/ y \in vm.pinned \ (lost \cup {wrap[s].pin})
    BY <2>1, <2>2, HandlesAssumption DEF Gained, Machines
  <2>5. Traced(wrap, vm, raw, lost) BY DEF Owners
  <2> QED BY ONLY <2>1, <2>3, <2>4, <2>5, KeptAfter
<1> QED BY <1>1, <1>2, <1>3, <1>4, <1>5, <1>6 DEF Owners

\* The result of a call gets a wrapper.
LEMMA InvokeStep == ASSUME JniInv, NEW s \in Slots, JniRefs!Invoke(s) PROVE JniInv'
<1> USE DEF JniInv
<1>1. PICK k \in JniRefs!ResultKinds :
         IF k = "none"
         THEN \E c \in JniRefs!Call(vm, "call") :
                c.r = Null /\ vm' \in JniRefs!ClearException(c.v) /\ UNCHANGED wrap
         ELSE \E x \in JniRefs!SafeInvoke(vm, k) : JniRefs!Becomes(s, x)
  BY DEF JniRefs!Invoke
<1>2. k \in {"object", "array", "objects", "none"}
  BY DEF JniRefs!ResultKinds, JniRefs!ResultKind
<1>3. CASE k = "none"
  <2>1. PICK c \in JniRefs!Call(vm, "call") : c.r = Null /\ vm' \in JniRefs!ClearException(c.v) /\ UNCHANGED wrap
    BY <1>1, <1>3
  <2>2. c.v \in Machines /\ ~c.v.bad /\ c.v.live = vm.live /\ c.v.pinned = vm.pinned
    BY <2>1, CallGives, HandlesAssumption DEF Calm
  <2>3. vm' \in Machines /\ ~vm'.bad /\ vm'.live = vm.live /\ vm'.pinned = vm.pinned /\ vm'.pending # "call"
    BY <2>1, <2>2, ClearGives
  <2> QED BY <2>1, <2>3 DEF JniRefs!Invoke, Calm, Owners, Held, Traced
<1>4. CASE k # "none"
  <2>1. PICK x \in JniRefs!SafeInvoke(vm, k) : JniRefs!Becomes(s, x) BY <1>1, <1>4
  <2>2. Made(vm, k, x) BY <1>2, <1>4, SafeInvokeGives
  <2>3. Gained(vm, x) /\ x.w \in Wrappers /\ Fits(x.w) BY <2>2, <1>2, <1>4, HandlesAssumption DEF Made, Gained, Fits
  <2> QED BY <2>1, <2>2, <2>3, GainStep DEF JniRefs!Invoke, JniRefs!IsFree, JniRefs!Becomes
<1> QED BY <1>3, <1>4

\* A new string gets a wrapper.
LEMMA NewStringStep == ASSUME JniInv, NEW s \in Slots, JniRefs!NewString(s) PROVE JniInv'
<1>1. PICK c \in JniRefs!Call(vm, "alloc") : \E x \in JniRefs!Construct(c.v, "object", c.r) : JniRefs!Becomes(s, x)
  BY DEF JniRefs!NewString
<1>2. PICK x \in JniRefs!Construct(c.v, "object", c.r) : JniRefs!Becomes(s, x) BY <1>1
<1>3. Made(vm, "object", x) BY AllocGives DEF JniInv
<1>4. Gained(vm, x) /\ x.w \in Wrappers /\ Fits(x.w) BY <1>3 DEF Made, Gained, Fits
<1> QED BY <1>2, <1>3, <1>4, GainStep DEF JniRefs!NewString, JniRefs!IsFree, JniRefs!Becomes

\* clone() makes a reference of its own.
LEMMA CloneStep == ASSUME JniInv, NEW s \in Slots, NEW t \in Slots, JniRefs!Clone(s, t) PROVE JniInv'
<1>1. PICK c \in JniRefs!Call(vm, "alloc") : \E x \in JniRefs!Construct(c.v, "object", c.r) : JniRefs!Becomes(s, x)
  BY DEF JniRefs!Clone
<1>2. PICK x \in JniRefs!Construct(c.v, "object", c.r) : JniRefs!Becomes(s, x) BY <1>1
<1>3. Made(vm, "object", x) BY AllocGives DEF JniInv
<1>4. Gained(vm, x) /\ x.w \in Wrappers /\ Fits(x.w) BY <1>3 DEF Made, Gained, Fits
<1> QED BY <1>2, <1>3, <1>4, GainStep DEF JniRefs!Clone, JniRefs!IsFree, JniRefs!Becomes

\* JUTFString pins the characters of a string.
LEMMA NewCharsStep == ASSUME JniInv, NEW s \in Slots, JniRefs!NewChars(s) PROVE JniInv'
<1> USE DEF JniInv
<1>1. UNCHANGED <<raw, lost>> /\ wrap[s].kind = "none" BY DEF JniRefs!NewChars, JniRefs!IsFree
<1>2. PICK x : /\ JniRefs!Becomes(s, x)
               /\ \/ x \in JniRefs!Pin(vm, JniRefs!New("chars", TRUE))
                  \/ x = [v |-> vm, w |-> JniRefs!New("chars", FALSE)]
  BY DEF JniRefs!NewChars
<1>3. wrap' = [wrap EXCEPT ![s] = x.w] /\ vm' = x.v BY <1>2 DEF JniRefs!Becomes
<1>4. /\ Calm(x.v) /\ x.v.live = vm.live
      /\ x.w \in Wrappers /\ x.w.kind = "chars" /\ x.w.ref = Null
      /\ \/ x.w.pin = Null /\ x.v.pinned = vm.pinned
         \/ x.w.pin \in Pins \ vm.pinned /\ x.v.pinned = vm.pinned \cup {x.w.pin} /\ x.w.env
  <2>1. CASE x \in JniRefs!Pin(vm, JniRefs!New("chars", TRUE))
    <3> DEFINE n == JniRefs!New("chars", TRUE)
    <3>1. n \in Wrappers /\ n.kind = "chars" /\ n.env /\ n.ref = Null /\ n.pin = Null BY NewGives DEF Kinds
    <3> HIDE DEF n
    <3>2. Pinned(vm, n, x) BY <2>1, <3>1, PinGives DEF Calm, n
    <3>3. x.w.kind = "chars" /\ x.w.env /\ x.w.ref = Null BY <3>1, <3>2 DEF Pinned, Wrappers
    <3> QED BY <3>1, <3>2, <3>3 DEF Pinned, Calm
  <2>2. CASE x = [v |-> vm, w |-> JniRefs!New("chars", FALSE)]
    <3>1. x.v = vm /\ x.w = JniRefs!New("chars", FALSE) BY <2>2
    <3> QED BY <3>1, NewGives DEF Kinds
  <2> QED BY <1>2, <2>1, <2>2
<1>5. Fits(x.w) BY <1>4, HandlesAssumption DEF Fits
<1>6. Gained(vm, x) BY <1>4 DEF Gained
<1> QED BY <1>1, <1>3, <1>4, <1>5, <1>6, GainStep

\* A raw reference is given to a wrapper.
LEMMA AdoptStep == ASSUME JniInv, NEW s \in Slots, JniRefs!Adopt(s) PROVE JniInv'
<1> USE DEF JniInv
<1>1. PICK r \in raw, k \in {"object", "array", "objects"} :
         raw' = raw \ {r} /\ \E x \in JniRefs!Construct(vm, k, r) : JniRefs!Becomes(s, x)
  BY DEF JniRefs!Adopt
<1>2. PICK x \in JniRefs!Construct(vm, k, r) : JniRefs!Becomes(s, x) BY <1>1
<1>3. wrap' = [wrap EXCEPT ![s] = x.w] /\ vm' = x.v /\ lost' = lost /\ wrap[s].kind = "none"
  BY <1>2 DEF JniRefs!Becomes, JniRefs!Adopt, JniRefs!IsFree
<1>4. vm \in Machines /\ r \in Refs /\ r # Null /\ r \in vm.live
  BY HandlesAssumption DEF Calm, Owners, Held, Machines
<1>5. Around(vm, k, r, x) BY <1>4, ConstructGives DEF Calm
<1>6. Fits(x.w) BY <1>4, <1>5 DEF Around, Fits
<1> wrap[s].ref = Null /\ wrap[s].pin = Null BY <1>3, FreeHoldsNothing
<1>7. wrap' \in [Slots -> Wrappers] /\ wrap'[s] = x.w /\ \A u \in Slots \ {s} : wrap'[u] = wrap[u]
  BY <1>3, <1>5 DEF Owners, Around
<1>8. \A u \in Slots : Fits(wrap'[u]) BY <1>6, <1>7 DEF Owners
<1>9. Held(wrap', vm', raw') BY <1>1, <1>3, <1>4, <1>5, <1>7 DEF Owners, Held, Around
<1>10. Unshared(wrap') BY <1>1, <1>4, <1>5, <1>7 DEF Owners, Held, Unshared, Around
<1>11. Traced(wrap', vm', raw', lost')
  <2>3. \A y \in vm'.live \ (raw' \cup lost') : y = x.w.ref \/ y \in vm.live \ (raw \cup lost \cup {wrap[s].ref})
    BY <1>1, <1>3, <1>4, <1>5, HandlesAssumption DEF Machines, Around
  <2>4. \A y \in vm'.pinned \ lost' : y = x.w.pin \/ y \in vm.pinned \ (lost \cup {wrap[s].pin})
    BY <1>1, <1>3, <1>4, <1>5, HandlesAssumption DEF Machines, Around
  <2> QED BY <1>7, <2>3, <2>4, KeptAfter DEF Owners
<1> QED BY <1>3, <1>4, <1>5, <1>7, <1>8, <1>9, <1>10, <1>11 DEF Owners, Around, Calm

\* DeleteLocalRef of a reference that is alive, or of null.
LEMMA DeleteGives ==
    ASSUME NEW v \in Machines, NEW env \in BOOLEAN, NEW r \in Refs \cup {Null}, r # Null => r \in v.live /\ env
    PROVE  LET d == JniRefs!DeleteLocalRef(v, env, r)
           IN d \in Machines /\ d.bad = v.bad /\ d.pinned = v.pinned /\ d.pending = v.pending /\ d.live = v.live \ {r}
<1>1. CASE r = Null BY <1>1, HandlesAssumption DEF JniRefs!DeleteLocalRef, Machines
<1>2. CASE r # Null
  <2> DEFINE d == JniRefs!DeleteLocalRef(v, env, r)
  <2>1. d = [v EXCEPT !.live = @ \ {r}, !.bad = @ \/ r \notin v.live \/ ~env] BY <1>2 DEF JniRefs!DeleteLocalRef
  <2>2. (v.bad \/ r \notin v.live \/ ~env) = v.bad BY <1>2 DEF Machines
  <2>3. d = [v EXCEPT !.live = @ \ {r}, !.bad = v.bad] BY <2>1, <2>2 DEF Machines
  <2> HIDE DEF d
  <2>4. d \in Machines /\ d.bad = v.bad /\ d.pinned = v.pinned /\ d.pending = v.pending /\ d.live = v.live \ {r}
    BY <2>3 DEF Machines
  <2> QED BY <2>4 DEF d
<1> QED BY <1>1, <1>2

\* The release of a pin that is held, or of none.
LEMMA UnpinGives ==
    ASSUME NEW v \in Machines, NEW p \in Pins \cup {Null}, p # Null => p \in v.pinned
    PROVE  LET d == JniRefs!Unpin(v, p)
           IN d \in Machines /\ d.bad = v.bad /\ d.live = v.live /\ d.pending = v.pending /\ d.pinned = v.pinned \ {p}
<1>1. CASE p = Null BY <1>1, HandlesAssumption DEF JniRefs!Unpin, Machines
<1>2. CASE p # Null
  <2> DEFINE d == JniRefs!Unpin(v, p)
  <2>1. d = [v EXCEPT !.pinned = @ \ {p}, !.bad = @ \/ p \notin v.pinned] BY <1>2 DEF JniRefs!Unpin
  <2>2. (v.bad \/ p \notin v.pinned) = v.bad BY <1>2 DEF Machines
  <2>3. d = [v EXCEPT !.pinned = @ \ {p}, !.bad = v.bad] BY <2>1, <2>2 DEF Machines
  <2> HIDE DEF d
  <2>4. d \in Machines /\ d.bad = v.bad /\ d.live = v.live /\ d.pending = v.pending /\ d.pinned = v.pinned \ {p}
    BY <2>3 DEF Machines
  <2> QED BY <2>4 DEF d
<1> QED BY <1>1, <1>2

\* release() leaves the wrapper with nothing.
LEMMA ReleaseGives ==
    ASSUME NEW v, NEW w \in Wrappers
    PROVE  LET y == JniRefs!Release(v, w)
           IN /\ y.v = v /\ y.r = w.ref
              /\ y.w \in Wrappers /\ y.w.ref = Null /\ y.w.pin = Null
              /\ y.w.kind = w.kind /\ y.w.env = w.env /\ y.w.i = w.i
              /\ Fits(w) => Fits(y.w)
<1> DEFINE y == JniRefs!Release(v, w)
<1> DEFINE cleared == [w EXCEPT !.ref = Null]
<1>1. JniRefs!ReleaseElements(v, cleared) = v BY DEF JniRefs!ReleaseElements, Wrappers
<1>2. y = [v |-> v, w |-> [cleared EXCEPT !.pin = Null], r |-> w.ref]
  BY <1>1 DEF JniRefs!Release
<1> HIDE DEF y
<1>3. y.v = v /\ y.r = w.ref /\ y.w = [cleared EXCEPT !.pin = Null] BY <1>2
<1>4. /\ y.w \in Wrappers /\ y.w.ref = Null /\ y.w.pin = Null
      /\ y.w.kind = w.kind /\ y.w.env = w.env /\ y.w.i = w.i
  BY <1>3 DEF Wrappers
<1>5. Fits(w) => Fits(y.w) BY <1>4 DEF Fits
<1> QED BY <1>3, <1>4, <1>5 DEF y

\* The object w, whose reference was replaced by p, with environment env.
Replaced(v, w, p, env, x) ==
    /\ x.v \in Machines /\ x.v.bad = v.bad /\ x.v.pinned = v.pinned /\ x.v.pending = v.pending
    /\ x.v.live = IF p = w.ref THEN v.live ELSE v.live \ {w.ref}
    /\ x.w = [w EXCEPT !.ref = p, !.env = env]
    /\ x = [v |-> x.v, w |-> x.w]

\* reset() deletes the old reference and takes the new one.
LEMMA ResetObjectGives ==
    ASSUME NEW v \in Machines, NEW w \in Wrappers, NEW p \in Refs \cup {Null}, w.ref # Null => w.ref \in v.live /\ w.env
    PROVE  Replaced(v, w, p, w.env, JniRefs!ResetObject(v, w, p))
<1> DEFINE x == JniRefs!ResetObject(v, w, p)
<1>1. CASE p = w.ref
  <2>1. x = [v |-> v, w |-> w] BY <1>1 DEF JniRefs!ResetObject
  <2>2. w = [w EXCEPT !.ref = p, !.env = w.env] BY <1>1 DEF Wrappers
  <2>3. x.v = v /\ x.w = w /\ x = [v |-> x.v, w |-> x.w] BY <2>1
  <2> QED BY <1>1, <2>2, <2>3 DEF Replaced
<1>2. CASE p # w.ref
  <2> DEFINE d == JniRefs!DeleteLocalRef(v, w.env, w.ref)
  <2>1. d \in Machines /\ d.bad = v.bad /\ d.pinned = v.pinned /\ d.pending = v.pending /\ d.live = v.live \ {w.ref}
    <3>1. w.env \in BOOLEAN /\ w.ref \in Refs \cup {Null} BY DEF Wrappers
    <3> QED BY <3>1, DeleteGives
  <2>2. x = [v |-> d, w |-> [w EXCEPT !.ref = p]] BY <1>2 DEF JniRefs!ResetObject
  <2> HIDE DEF d, x
  <2>3. x.v = d /\ x.w = [w EXCEPT !.ref = p] /\ x = [v |-> x.v, w |-> x.w] BY <2>2
  <2>4. x.w = [w EXCEPT !.ref = p, !.env = w.env] BY <2>3 DEF Wrappers
  <2> QED BY <1>2, <2>1, <2>3, <2>4 DEF x, Replaced
<1> QED BY <1>1, <1>2

\* A step that changes the slots s and t, of which t gives away what it has.
LEMMA SlotsStep ==
    ASSUME JniInv, NEW s \in Slots, NEW t \in Slots, wrap' \in [Slots -> Wrappers],
           \A u \in Slots \ {s, t} : wrap'[u] = wrap[u],
           Fits(wrap'[s]), Fits(wrap'[t]), t # s => wrap'[t].ref = Null /\ wrap'[t].pin = Null,
           Calm(vm'), raw' \subseteq vm'.live,
           vm.live \ vm'.live \subseteq {wrap[s].ref, wrap[t].ref} \cup raw,
           raw' \subseteq raw \cup {wrap[s].ref},
           wrap'[s].ref \in {Null, wrap[s].ref, wrap[t].ref} \cup raw \cup (Refs \ vm.live),
           wrap'[s].ref # Null => wrap'[s].ref \in vm'.live \ raw',
           vm.pinned \ vm'.pinned \subseteq {wrap[s].pin, wrap[t].pin},
           wrap'[s].pin \in {Null, wrap[s].pin, wrap[t].pin} \cup (Pins \ vm.pinned),
           wrap'[s].pin # Null => wrap'[s].pin \in vm'.pinned,
           Traced(wrap', vm', raw', lost')
    PROVE  JniInv'
<1> USE DEF JniInv
<1>1. \A u \in Slots : Fits(wrap'[u]) BY DEF Owners
<1>2. \A u \in Slots \ {s, t} : /\ wrap[u].ref # Null => wrap[u].ref \in vm.live \ raw
                                /\ wrap[u].ref \in {wrap[s].ref, wrap[t].ref} => wrap[u].ref = Null
                                /\ wrap[u].pin # Null => wrap[u].pin \in vm.pinned
                                /\ wrap[u].pin \in {wrap[s].pin, wrap[t].pin} => wrap[u].pin = Null
  BY DEF Owners, Held, Unshared
<1>3. \A u \in Slots : wrap'[u].ref # Null => wrap'[u].ref \in vm'.live \ raw'
  BY <1>2
<1>4. \A u \in Slots : wrap'[u].pin # Null => wrap'[u].pin \in vm'.pinned
  BY <1>2
<1>5. Unshared(wrap')
  <2>1. ASSUME NEW u \in Slots, NEW q \in Slots, u # q, wrap'[u].ref = wrap'[q].ref PROVE wrap'[u].ref = Null
    <3>1. CASE u \notin {s, t} /\ q \notin {s, t} BY <2>1, <3>1 DEF Owners, Unshared
    <3>2. CASE u \notin {s, t} /\ q \in {s, t} BY <2>1, <3>2, <1>2
    <3>3. CASE u \in {s, t} /\ q \notin {s, t} BY <2>1, <3>3, <1>2
    <3>4. CASE u \in {s, t} /\ q \in {s, t} BY <2>1, <3>4
    <3> QED BY <3>1, <3>2, <3>3, <3>4
  <2>2. ASSUME NEW u \in Slots, NEW q \in Slots, u # q, wrap'[u].pin = wrap'[q].pin PROVE wrap'[u].pin = Null
    <3>1. CASE u \notin {s, t} /\ q \notin {s, t} BY <2>2, <3>1 DEF Owners, Unshared
    <3>2. CASE u \notin {s, t} /\ q \in {s, t} BY <2>2, <3>2, <1>2
    <3>3. CASE u \in {s, t} /\ q \notin {s, t} BY <2>2, <3>3, <1>2
    <3>4. CASE u \in {s, t} /\ q \in {s, t} BY <2>2, <3>4
    <3> QED BY <3>1, <3>2, <3>3, <3>4
  <2> QED BY <2>1, <2>2 DEF Unshared
<1> QED BY <1>1, <1>3, <1>4, <1>5 DEF Owners, Held

\* What the invariant says of one slot.
LEMMA SlotFacts ==
    ASSUME JniInv, NEW s \in Slots
    PROVE  /\ vm \in Machines /\ ~vm.bad /\ vm.pending # "call" /\ vm.live \subseteq Refs /\ vm.pinned \subseteq Pins
           /\ raw \subseteq vm.live /\ Traced(wrap, vm, raw, lost) /\ wrap \in [Slots -> Wrappers]
           /\ wrap[s] \in Wrappers /\ Fits(wrap[s])
           /\ wrap[s].ref \in Refs \cup {Null} /\ wrap[s].pin \in Pins \cup {Null}
           /\ wrap[s].ref # Null => wrap[s].ref \in vm.live \ raw /\ wrap[s].env
           /\ wrap[s].pin # Null => wrap[s].pin \in vm.pinned /\ wrap[s].env
<1>1. wrap[s] \in Wrappers /\ Fits(wrap[s]) /\ vm \in Machines BY DEF JniInv, Owners, Calm
<1> QED BY <1>1 DEF JniInv, Owners, Calm, Held, Machines, Wrappers, Fits

\* reset() of any wrapper; an array also unpins and pins.
LEMMA ResetGives ==
    ASSUME NEW v \in Machines, v.pending # "call", NEW w \in Wrappers, Fits(w),
           w.kind \in {"object", "array", "objects"}, w.ref # Null => w.ref \in v.live,
           w.pin # Null => w.pin \in v.pinned, NEW p \in Refs \cup {Null}, NEW x \in JniRefs!Reset(v, w, p)
    PROVE  /\ x.v \in Machines /\ x.v.bad = v.bad /\ x.v.pending # "call"
           /\ x.w \in Wrappers /\ Fits(x.w) /\ x.w.ref = p
           /\ p = w.ref => x.v = v /\ x.w = w
           /\ p # w.ref =>
                /\ x.v.live = v.live \ {w.ref}
                /\ \/ x.w.pin = Null /\ x.v.pinned = v.pinned \ {w.pin}
                   \/ x.w.pin \in Pins \ (v.pinned \ {w.pin}) /\ x.v.pinned = (v.pinned \ {w.pin}) \cup {x.w.pin}
<1>1. w.env /\ w.ref \in Refs \cup {Null} /\ w.pin \in Pins \cup {Null} BY DEF Fits, Wrappers
<1>2. CASE p = w.ref
  <2>1. x = [v |-> v, w |-> w] BY <1>2 DEF JniRefs!Reset, JniRefs!ResetArray, JniRefs!ResetObject
  <2> QED BY <1>2, <2>1
<1>3. CASE p # w.ref /\ w.kind # "array"
  <2>1. x = JniRefs!ResetObject(v, w, p) BY <1>3 DEF JniRefs!Reset
  <2>2. /\ x.v \in Machines /\ x.v.bad = v.bad /\ x.v.pinned = v.pinned /\ x.v.pending = v.pending
        /\ x.v.live = v.live \ {w.ref} /\ x.w = [w EXCEPT !.ref = p]
    <3>1. w.ref # Null => w.ref \in v.live /\ w.env BY <1>1
    <3>2. Replaced(v, w, p, w.env, x) BY <2>1, <3>1, ResetObjectGives
    <3>3. [w EXCEPT !.ref = p] = [w EXCEPT !.ref = p, !.env = w.env] BY DEF Wrappers
    <3> QED BY <1>3, <3>2, <3>3 DEF Replaced
  <2>3. x.w \in Wrappers /\ x.w.ref = p /\ x.w.kind = w.kind /\ x.w.pin = w.pin /\ x.w.env = w.env
    BY <2>2 DEF Wrappers
  <2>4. w.pin = Null BY <1>3 DEF Fits
  <2>5. v.pinned \ {w.pin} = v.pinned BY <2>4, HandlesAssumption DEF Machines
  <2>6. Fits(x.w) BY <1>1, <1>3, <2>3, <2>4 DEF Fits
  <2> QED BY <1>3, <2>2, <2>3, <2>4, <2>5, <2>6
<1>4. CASE p # w.ref /\ w.kind = "array"
  <2> DEFINE e == JniRefs!ReleaseElements(v, w)
  <2> DEFINE gone == JniRefs!DeleteLocalRef(e, w.env, w.ref)
  <2> DEFINE n == [w EXCEPT !.ref = p, !.pin = Null]
  <2>1. e \in Machines /\ e.bad = v.bad /\ e.live = v.live /\ e.pending = v.pending /\ e.pinned = v.pinned \ {w.pin}
    <3>1. CASE w.ref = Null
      <4>1. w.pin = Null BY <3>1, <1>4 DEF Fits
      <4>2. e = v BY <3>1 DEF JniRefs!ReleaseElements
      <4> QED BY <4>1, <4>2, HandlesAssumption DEF Machines
    <3>2. CASE w.ref # Null
      <4>1. e = JniRefs!Unpin(v, w.pin) BY <3>2 DEF JniRefs!ReleaseElements
      <4> QED BY <4>1, <1>1, UnpinGives
    <3> QED BY <3>1, <3>2
  <2> HIDE DEF e
  <2>2. /\ gone \in Machines /\ gone.bad = v.bad /\ gone.live = v.live \ {w.ref} /\ gone.pending = v.pending
        /\ gone.pinned = v.pinned \ {w.pin}
    <3>1. w.env \in BOOLEAN /\ (w.ref # Null => w.ref \in e.live /\ w.env) /\ w.ref \in Refs \cup {Null} /\ e \in Machines
      BY <1>1, <2>1 DEF Wrappers
    <3>2. /\ gone \in Machines /\ gone.bad = e.bad /\ gone.pinned = e.pinned /\ gone.pending = e.pending
          /\ gone.live = e.live \ {w.ref}
      BY <3>1, DeleteGives
    <3> QED BY <2>1, <3>2
  <2>3. n \in Wrappers /\ n.kind = "array" /\ n.env /\ n.ref = p /\ n.pin = Null BY <1>1, <1>4 DEF Wrappers
  <2>4. x \in IF p = Null THEN {[v |-> gone, w |-> n]} ELSE JniRefs!Pin(gone, n)
    BY <1>4 DEF JniRefs!Reset, JniRefs!ResetArray, e
  <2> HIDE DEF gone, n
  <2>5. CASE p = Null
    <3>1. x.v = gone /\ x.w = n BY <2>4, <2>5
    <3>2. Fits(x.w) BY <2>3, <3>1 DEF Fits
    <3> QED BY <1>4, <2>2, <2>3, <3>1, <3>2
  <2>6. CASE p # Null
    <3>1. Pinned(gone, n, x) BY <2>2, <2>3, <2>4, <2>6, PinGives
    <3>2. x.w \in Wrappers /\ x.w.kind = "array" /\ x.w.env /\ x.w.ref = p BY <2>3, <3>1 DEF Pinned, Wrappers
    <3>3. Fits(x.w) BY <2>6, <3>2 DEF Fits
    <3> QED BY <1>4, <2>2, <2>3, <3>1, <3>2, <3>3 DEF Pinned
  <2> QED BY <2>5, <2>6
<1> QED BY <1>2, <1>3, <1>4

\* A wrapper is reset to a raw reference.
LEMMA ResetToStep == ASSUME JniInv, NEW s \in Slots, JniRefs!ResetTo(s) PROVE JniInv'
<1>1. PICK p \in raw \cup {Null, wrap[s].ref} :
         raw' = raw \ {p} /\ \E x \in JniRefs!Reset(vm, wrap[s], p) : JniRefs!Becomes(s, x)
  BY DEF JniRefs!ResetTo
<1>2. PICK x \in JniRefs!Reset(vm, wrap[s], p) : JniRefs!Becomes(s, x) BY <1>1
<1>3. wrap' = [wrap EXCEPT ![s] = x.w] /\ vm' = x.v /\ lost' = lost /\ wrap[s].kind \in {"object", "array", "objects"}
  BY <1>2 DEF JniRefs!Becomes, JniRefs!ResetTo
<1>4. p \in Refs \cup {Null} BY SlotFacts
<1>5. /\ x.v \in Machines /\ x.v.bad = vm.bad /\ x.v.pending # "call"
      /\ x.w \in Wrappers /\ Fits(x.w) /\ x.w.ref = p
      /\ p = wrap[s].ref => x.v = vm /\ x.w = wrap[s]
      /\ p # wrap[s].ref =>
           /\ x.v.live = vm.live \ {wrap[s].ref}
           /\ \/ x.w.pin = Null /\ x.v.pinned = vm.pinned \ {wrap[s].pin}
              \/ x.w.pin \in Pins \ (vm.pinned \ {wrap[s].pin}) /\ x.v.pinned = (vm.pinned \ {wrap[s].pin}) \cup {x.w.pin}
  BY <1>3, <1>4, SlotFacts, ResetGives
<1>6. wrap' \in [Slots -> Wrappers] /\ wrap'[s] = x.w /\ \A u \in Slots \ {s} : wrap'[u] = wrap[u]
  BY <1>3, <1>5, SlotFacts
<1>7. Calm(vm') BY <1>3, <1>5, SlotFacts DEF Calm
<1>8. Traced(wrap', vm', raw', lost')
  <2>1. \A y \in vm'.live \ (raw' \cup lost') : y = wrap'[s].ref \/ y \in vm.live \ (raw \cup lost \cup {wrap[s].ref})
    BY <1>1, <1>3, <1>5, <1>6, SlotFacts
  <2>2. \A y \in vm'.pinned \ lost' : y = wrap'[s].pin \/ y \in vm.pinned \ (lost \cup {wrap[s].pin})
    BY <1>1, <1>3, <1>5, <1>6, SlotFacts
  <2> QED BY <1>6, <2>1, <2>2, SlotFacts, KeptAfter
<1>9. raw' \subseteq vm'.live /\ (wrap'[s].ref # Null => wrap'[s].ref \in vm'.live \ raw')
  <2> raw \subseteq vm.live /\ (wrap[s].ref # Null => wrap[s].ref \in vm.live \ raw) /\ Null \notin raw
    BY SlotFacts, HandlesAssumption
  <2>1. CASE p = wrap[s].ref BY <1>1, <1>3, <1>5, <1>6, <2>1
  <2>2. CASE p # wrap[s].ref /\ p = Null BY <1>1, <1>3, <1>5, <1>6, <2>2
  <2>3. CASE p # wrap[s].ref /\ p \in raw BY <1>1, <1>3, <1>5, <1>6, <2>3
  <2> QED BY <2>1, <2>2, <2>3
<1>10. wrap'[s].pin # Null => wrap'[s].pin \in vm'.pinned
  BY <1>3, <1>5, <1>6, SlotFacts
<1>11. vm.live \ vm'.live \subseteq {wrap[s].ref} /\ vm.pinned \ vm'.pinned \subseteq {wrap[s].pin}
  BY <1>3, <1>5
<1>12. wrap'[s].ref \in {Null, wrap[s].ref} \cup raw /\ wrap'[s].pin \in {Null, wrap[s].pin} \cup (Pins \ vm.pinned)
  BY <1>3, <1>5, <1>6
<1> QED BY <1>1, <1>5, <1>6, <1>7, <1>8, <1>9, <1>10, <1>11, <1>12, SlotsStep

\* A wrapper gives its reference away.
LEMMA ReleaseToStep == ASSUME JniInv, NEW s \in Slots, JniRefs!ReleaseTo(s) PROVE JniInv'
<1> DEFINE x == JniRefs!Release(vm, wrap[s])
<1>1. /\ x.v = vm /\ x.r = wrap[s].ref
      /\ x.w \in Wrappers /\ x.w.ref = Null /\ x.w.pin = Null /\ Fits(x.w)
  BY SlotFacts, ReleaseGives
<1>2. wrap' = [wrap EXCEPT ![s] = x.w] /\ vm' = vm /\ raw' = raw \cup ({wrap[s].ref} \ {Null})
  BY <1>1 DEF JniRefs!ReleaseTo, JniRefs!Becomes
<1>3. JniRefs!Orphans(vm', wrap', raw') \subseteq lost'
  BY DEF JniRefs!ReleaseTo
<1> HIDE DEF x
<1>4. wrap' \in [Slots -> Wrappers] /\ wrap'[s] = x.w /\ \A u \in Slots \ {s} : wrap'[u] = wrap[u]
  BY <1>1, <1>2, SlotFacts
<1>5. raw' \subseteq vm'.live BY <1>2, SlotFacts
<1>6. Traced(wrap', vm', raw', lost')
  BY <1>2, <1>3, <1>4, <1>5, SlotFacts, OrphansKept
<1> QED BY <1>1, <1>2, <1>4, <1>5, <1>6, SlotsStep, SlotFacts DEF Calm

\* An element gives its reference away.
LEMMA ReleaseElementStep == ASSUME JniInv, NEW s \in Slots, JniRefs!ReleaseElement(s) PROVE JniInv'
<1> DEFINE x == JniRefs!Release(vm, wrap[s])
<1>1. /\ x.v = vm /\ x.r = wrap[s].ref
      /\ x.w \in Wrappers /\ x.w.ref = Null /\ x.w.pin = Null /\ Fits(x.w)
  BY SlotFacts, ReleaseGives
<1>2. /\ wrap' = [wrap EXCEPT ![s] = x.w] /\ vm' = vm /\ raw' = raw \cup ({wrap[s].ref} \ {Null}) /\ lost' = lost
      /\ wrap[s].kind = "element"
  BY <1>1 DEF JniRefs!ReleaseElement, JniRefs!Becomes
<1> HIDE DEF x
<1>3. wrap[s].pin = Null BY <1>2, SlotFacts DEF Fits
<1>4. wrap' \in [Slots -> Wrappers] /\ wrap'[s] = x.w /\ \A u \in Slots \ {s} : wrap'[u] = wrap[u]
  BY <1>1, <1>2, SlotFacts
<1>5. raw' \subseteq vm'.live BY <1>2, SlotFacts
<1>6. Traced(wrap', vm', raw', lost')
  <2>1. \A y \in vm'.live \ (raw' \cup lost') : y \in vm.live \ (raw \cup lost \cup {wrap[s].ref})
    BY <1>2, SlotFacts, HandlesAssumption
  <2>2. \A y \in vm'.pinned \ lost' : y \in vm.pinned \ (lost \cup {wrap[s].pin})
    BY <1>2, <1>3, SlotFacts, HandlesAssumption
  <2> QED BY <1>4, <2>1, <2>2, SlotFacts, KeptAfter
<1> QED BY <1>1, <1>2, <1>4, <1>5, <1>6, SlotsStep, SlotFacts DEF Calm

\* Writing and committing elements touch no reference.
LEMMA WriteStep == ASSUME JniInv, NEW s \in Slots, JniRefs!Write(s) \/ JniRefs!Commit(s) PROVE JniInv'
<1>1. PICK m \in BOOLEAN : wrap' = [wrap EXCEPT ![s].modified = m] /\ UNCHANGED <<raw, lost>>
  BY DEF JniRefs!Write, JniRefs!Commit
<1>2. vm' = vm
  <2>1. CASE JniRefs!Write(s) BY <2>1 DEF JniRefs!Write
  <2>2. CASE JniRefs!Commit(s)
    <3>1. wrap[s].ref # Null /\ wrap[s].pin \notin vm.pinned \cup {Null} <=> FALSE BY SlotFacts
    <3>2. vm' = [vm EXCEPT !.bad = @ \/ (wrap[s].ref # Null /\ wrap[s].pin \notin vm.pinned \cup {Null})]
      BY <2>2 DEF JniRefs!Commit
    <3>3. vm' = [vm EXCEPT !.bad = FALSE] BY <3>1, <3>2, SlotFacts DEF Machines
    <3> QED BY <3>3, SlotFacts DEF Machines
  <2> QED BY <2>1, <2>2
<1>3. /\ wrap' \in [Slots -> Wrappers] /\ \A u \in Slots \ {s} : wrap'[u] = wrap[u]
      /\ wrap'[s].kind = wrap[s].kind /\ wrap'[s].ref = wrap[s].ref /\ wrap'[s].pin = wrap[s].pin
      /\ wrap'[s].env = wrap[s].env /\ wrap'[s].i = wrap[s].i
  BY <1>1, SlotFacts DEF Wrappers
<1>4. Fits(wrap'[s]) BY <1>3, SlotFacts DEF Fits
<1>5. Traced(wrap', vm', raw', lost')
  <2>1. \A y \in vm'.live \ (raw' \cup lost') : y = wrap'[s].ref \/ y \in vm.live \ (raw \cup lost \cup {wrap[s].ref})
    BY <1>1, <1>2, <1>3
  <2>2. \A y \in vm'.pinned \ lost' : y = wrap'[s].pin \/ y \in vm.pinned \ (lost \cup {wrap[s].pin})
    BY <1>1, <1>2, <1>3
  <2> QED BY <1>3, <2>1, <2>2, SlotFacts, KeptAfter
<1>6. Calm(vm') /\ raw' \subseteq vm'.live BY <1>1, <1>2, SlotFacts DEF Calm
<1>7. wrap'[s].ref # Null => wrap'[s].ref \in vm'.live \ raw' BY <1>1, <1>2, <1>3, SlotFacts
<1>8. wrap'[s].pin # Null => wrap'[s].pin \in vm'.pinned BY <1>2, <1>3, SlotFacts
<1> QED BY <1>1, <1>2, <1>3, <1>4, <1>5, <1>6, <1>7, <1>8, SlotsStep

\* A destructor deletes what the wrapper owns.
LEMMA DestroyStep == ASSUME JniInv, NEW s \in Slots, JniRefs!Destroy(s) PROVE JniInv'
<1> DEFINE w == wrap[s]
<1>1. /\ wrap' = [wrap EXCEPT ![s] = JniRefs!Unused] /\ raw' = raw /\ w.kind # "none"
      /\ vm' = JniRefs!Destroyed(vm, w)
      /\ lost' = IF w.kind = "array" THEN lost \cup JniRefs!Orphans(vm', wrap', raw) ELSE lost
  BY DEF JniRefs!Destroy, JniRefs!IsFree
<1>2. /\ w \in Wrappers /\ Fits(w) /\ vm \in Machines /\ w.kind \in Kinds /\ w.env \in BOOLEAN
      /\ w.ref \in Refs \cup {Null} /\ w.pin \in Pins \cup {Null}
      /\ w.ref # Null => w.ref \in vm.live \ raw /\ w.env
      /\ w.pin # Null => w.pin \in vm.pinned /\ w.env
  BY SlotFacts DEF Wrappers
<1> HIDE DEF w
<1>3. /\ vm' \in Machines /\ vm'.bad = vm.bad /\ vm'.pending = vm.pending
      /\ vm'.live = vm.live \ {w.ref}
      /\ vm'.pinned = IF w.kind = "array" THEN vm.pinned ELSE vm.pinned \ {w.pin}
  <2>1. CASE w.kind \in {"object", "element"}
    <3>1. vm' = JniRefs!ResetObject(vm, w, Null).v BY <1>1, <2>1 DEF JniRefs!Destroyed
    <3>2. Replaced(vm, w, Null, w.env, JniRefs!ResetObject(vm, w, Null))
      <4>1. Null \in Refs \cup {Null} /\ (w.ref # Null => w.ref \in vm.live /\ w.env) BY <1>2
      <4> QED BY <1>2, <4>1, ResetObjectGives
    <3>3. w.pin = Null BY <1>2, <2>1 DEF Fits
    <3> QED BY <2>1, <3>1, <3>2, <3>3, <1>2, HandlesAssumption DEF Machines, Replaced
  <2>2. CASE w.kind \in {"array", "objects"}
    <3> DEFINE y == JniRefs!Release(vm, w)
    <3>1. vm' = JniRefs!DeleteLocalRef(y.v, w.env, y.r) BY <1>1, <2>2 DEF JniRefs!Destroyed
    <3>2. y.v = vm /\ y.r = w.ref BY <1>2, ReleaseGives
    <3>3. vm' = JniRefs!DeleteLocalRef(vm, w.env, w.ref) BY <3>1, <3>2
    <3>4. w.kind = "objects" => w.pin = Null BY <1>2 DEF Fits
    <3>5. vm' \in Machines /\ vm'.bad = vm.bad /\ vm'.pinned = vm.pinned /\ vm'.pending = vm.pending /\ vm'.live = vm.live \ {w.ref}
      BY <1>2, <3>3, DeleteGives
    <3> QED BY <2>2, <3>4, <3>5, <1>2, HandlesAssumption DEF Machines
  <2>3. CASE w.kind = "chars"
    <3>1. vm' = IF w.env THEN JniRefs!Unpin(vm, w.pin) ELSE vm BY <1>1, <2>3 DEF JniRefs!Destroyed
    <3>2. w.ref = Null BY <1>2, <2>3 DEF Fits
    <3>3. LET d == JniRefs!Unpin(vm, w.pin)
          IN d \in Machines /\ d.bad = vm.bad /\ d.live = vm.live /\ d.pending = vm.pending /\ d.pinned = vm.pinned \ {w.pin}
      BY <1>2, UnpinGives
    <3> QED BY <2>3, <3>1, <3>2, <3>3, <1>2, HandlesAssumption DEF Machines
  <2> QED BY <1>1, <1>2, <2>1, <2>2, <2>3 DEF Kinds
<1>4. JniRefs!Unused.ref = Null /\ JniRefs!Unused.pin = Null /\ JniRefs!Unused.kind = "none" BY DEF JniRefs!Unused
<1>5. Fits(JniRefs!Unused) BY <1>4 DEF Fits
<1>6. wrap' \in [Slots -> Wrappers] /\ wrap'[s] = JniRefs!Unused /\ \A u \in Slots \ {s} : wrap'[u] = wrap[u]
  BY <1>1, SlotFacts, UnusedTyped
<1>7. Traced(wrap', vm', raw', lost')
  <2>1. CASE w.kind = "array"
    <3>1. JniRefs!Orphans(vm', wrap', raw') \subseteq lost' BY <1>1, <2>1
    <3> QED BY <1>1, <1>3, <1>6, <3>1, SlotFacts, OrphansKept
  <2>2. CASE w.kind # "array"
    <3>1. \A y \in vm'.live \ (raw' \cup lost') : y \in vm.live \ (raw \cup lost \cup {wrap[s].ref})
      BY <1>1, <1>3, <2>2 DEF w
    <3>2. \A y \in vm'.pinned \ lost' : y \in vm.pinned \ (lost \cup {wrap[s].pin})
      BY <1>1, <1>3, <2>2 DEF w
    <3> QED BY <1>6, <3>1, <3>2, SlotFacts, KeptAfter
  <2> QED BY <2>1, <2>2
<1>8. Calm(vm') BY <1>3, SlotFacts DEF Calm
<1>9. raw' \subseteq vm'.live BY <1>1, <1>2, <1>3, SlotFacts, HandlesAssumption
<1>10. vm.live \ vm'.live \subseteq {wrap[s].ref} /\ vm.pinned \ vm'.pinned \subseteq {wrap[s].pin} BY <1>3 DEF w
<1> QED BY <1>1, <1>4, <1>5, <1>6, <1>7, <1>8, <1>9, <1>10, SlotsStep

\* A raw reference is deleted by hand.
LEMMA DeleteRawStep == ASSUME JniInv, NEW r \in Refs, JniRefs!DeleteRaw(r) PROVE JniInv'
<1>1. r \in raw /\ raw' = raw \ {r} /\ vm' = JniRefs!DeleteLocalRef(vm, TRUE, r) /\ UNCHANGED <<wrap, lost>>
  BY DEF JniRefs!DeleteRaw
<1>2. vm \in Machines /\ r \in vm.live BY <1>1 DEF JniInv, Calm, Owners, Held
<1>3. vm' \in Machines /\ vm'.bad = vm.bad /\ vm'.pinned = vm.pinned /\ vm'.pending = vm.pending /\ vm'.live = vm.live \ {r}
  BY <1>1, <1>2, DeleteGives
<1>4. Held(wrap', vm', raw') BY <1>1, <1>3 DEF JniInv, Owners, Held
<1>5. Traced(wrap', vm', raw', lost') BY <1>1, <1>3 DEF JniInv, Owners, Traced
<1> QED BY <1>1, <1>3, <1>4, <1>5 DEF JniInv, Calm, Owners

\* Move assignment deletes the old reference and takes the other.
LEMMA AssignObjectGives ==
    ASSUME NEW v \in Machines, NEW w \in Wrappers, NEW from \in Wrappers, w.ref # Null => w.ref \in v.live /\ w.env
    PROVE  Replaced(v, w, from.ref, from.env, JniRefs!AssignObject(v, w, from))
<1> DEFINE y == JniRefs!Release(v, from)
           z == JniRefs!ResetObject(v, w, from.ref)
           x == JniRefs!AssignObject(v, w, from)
<1>1. y.v = v /\ y.r = from.ref BY ReleaseGives
<1>2. x = [z EXCEPT !.w.env = from.env] BY <1>1 DEF JniRefs!AssignObject
<1>3. Replaced(v, w, from.ref, w.env, z)
  <2>1. from.ref \in Refs \cup {Null} BY DEF Wrappers
  <2> QED BY <2>1, ResetObjectGives
<1> HIDE DEF z, x
<1>4. x = [v |-> z.v, w |-> [z.w EXCEPT !.env = from.env]] BY <1>2, <1>3 DEF Replaced
<1>5. x.v = z.v /\ x.w = [z.w EXCEPT !.env = from.env] BY <1>4
<1>6. x.w = [w EXCEPT !.ref = from.ref, !.env = from.env] BY <1>3, <1>5 DEF Wrappers, Replaced
<1>7. x = [v |-> x.v, w |-> x.w] BY <1>4, <1>5
<1> QED BY <1>3, <1>5, <1>6, <1>7 DEF x, Replaced

\* An element obtained from an array, or none beyond its ends.
LEMMA ObtainGives ==
    ASSUME NEW v, Calm(v), NEW i, NEW x \in JniRefs!Obtain(v, i)
    PROVE  /\ Gained(v, x) /\ x.w.pin = Null
           /\ i \in 0..Length - 1 => x.w.env
           /\ x.w.ref # Null => x.w.env
<1>1. CASE i \in 0..Length - 1
  <2>1. x \in JniRefs!SafeInvoke(v, "object") BY <1>1 DEF JniRefs!Obtain
  <2>2. Made(v, "object", x) BY <2>1, SafeInvokeGives
  <2> QED BY <2>2 DEF Made
<1>2. CASE i \notin 0..Length - 1
  <2>1. x = [v |-> v, w |-> JniRefs!New("object", FALSE)] BY <1>2 DEF JniRefs!Obtain
  <2>2. x.v = v /\ x.w = JniRefs!New("object", FALSE) BY <2>1
  <2>3. x.w \in Wrappers /\ x.w.ref = Null /\ x.w.pin = Null BY <2>2, NewGives DEF Kinds
  <2> QED BY <1>2, <2>2, <2>3 DEF Gained
<1> QED BY <1>1, <1>2

\* The element of an array gets a reference of its own.
LEMMA ElementAtStep == ASSUME JniInv, NEW s \in Slots, NEW a \in Slots, NEW i \in Int, JniRefs!ElementAt(s, a, i) PROVE JniInv'
<1>1. PICK x \in JniRefs!Obtain(vm, i) :
         /\ wrap' = [wrap EXCEPT ![s] = [x.w EXCEPT !.kind = "element", !.i = i, !.of = a]]
         /\ vm' = x.v
  BY DEF JniRefs!ElementAt
<1>2. wrap[s].kind = "none" /\ UNCHANGED <<raw, lost>> BY DEF JniRefs!ElementAt, JniRefs!IsFree
<1>3. Gained(vm, x) /\ x.w.pin = Null /\ (i \in 0..Length - 1 => x.w.env) /\ (x.w.ref # Null => x.w.env)
  BY ObtainGives DEF JniInv
<1> DEFINE w == [x.w EXCEPT !.kind = "element", !.i = i, !.of = a]
<1>4. w \in Wrappers /\ w.kind = "element" /\ w.i = i /\ w.ref = x.w.ref /\ w.pin = x.w.pin /\ w.env = x.w.env
  BY <1>3 DEF Gained, Wrappers, Kinds
<1>5. Fits(w) BY <1>3, <1>4 DEF Fits
<1>6. wrap' = [wrap EXCEPT ![s] = w] BY <1>1
<1> HIDE DEF w
<1> QED BY <1>1, <1>2, <1>3, <1>4, <1>5, <1>6, GainStep

\* An object whose reference is replaced by a new one, or by none.
LEMMA RenewStep ==
    ASSUME JniInv, NEW s \in Slots, wrap[s].pin = Null, NEW w \in Wrappers, Fits(w), w.pin = Null,
           wrap' = [wrap EXCEPT ![s] = w], Calm(vm'), vm'.pinned = vm.pinned, UNCHANGED <<raw, lost>>,
           \/ w.ref = Null /\ vm'.live = IF wrap[s].ref = Null THEN vm.live ELSE vm.live \ {wrap[s].ref}
           \/ w.ref \in Refs \ vm.live /\ vm'.live = (vm.live \cup {w.ref}) \ {wrap[s].ref}
    PROVE  JniInv'
<1> DEFINE old == wrap[s].ref
<1>1. wrap' \in [Slots -> Wrappers] /\ wrap'[s] = w /\ \A u \in Slots \ {s} : wrap'[u] = wrap[u]
  BY SlotFacts
<1>2. raw \subseteq vm.live /\ (old # Null => old \in vm.live \ raw) /\ Null \notin raw /\ Null \notin vm.live
  BY SlotFacts, HandlesAssumption
<1>3. w.ref \in {Null} \cup (Refs \ vm.live) /\ (w.ref # Null => w.ref \in vm'.live \ raw)
  BY <1>2
<1>4. Traced(wrap', vm', raw', lost')
  <2>1. \A z \in vm'.live \ (raw' \cup lost') : z = wrap'[s].ref \/ z \in vm.live \ (raw \cup lost \cup {wrap[s].ref})
    BY <1>1, <1>2
  <2>2. \A z \in vm'.pinned \ lost' : z = wrap'[s].pin \/ z \in vm.pinned \ (lost \cup {wrap[s].pin})
    BY <1>1
  <2>3. Traced(wrap, vm, raw, lost) BY SlotFacts
  <2> QED BY ONLY <1>1, <2>1, <2>2, <2>3, s \in Slots, KeptAfter
<1>5. raw' \subseteq vm'.live /\ vm.live \ vm'.live \subseteq {wrap[s].ref} BY <1>2
<1> QED BY <1>1, <1>3, <1>4, <1>5, SlotsStep

\* An object that takes the reference of another one, and deletes its own.
LEMMA TakeStep ==
    ASSUME JniInv, NEW s \in Slots, NEW t \in Slots, s # t, wrap[s].pin = Null, wrap[t].pin = Null,
           NEW w \in Wrappers, Fits(w), w.ref = wrap[t].ref, w.pin = Null,
           NEW y \in Wrappers, Fits(y), y.ref = Null, y.pin = Null,
           wrap' = [wrap EXCEPT ![t] = y, ![s] = w], Calm(vm'), vm'.pinned = vm.pinned, UNCHANGED <<raw, lost>>,
           vm'.live = IF wrap[t].ref = wrap[s].ref THEN vm.live ELSE vm.live \ {wrap[s].ref}
    PROVE  JniInv'
<1>1. wrap' \in [Slots -> Wrappers] /\ wrap'[s] = w /\ wrap'[t] = y /\ \A u \in Slots \ {s, t} : wrap'[u] = wrap[u]
  BY SlotFacts
<1>2. /\ raw \subseteq vm.live /\ Null \notin raw /\ Null \notin vm.live
      /\ wrap[s].ref # Null => wrap[s].ref \in vm.live \ raw
      /\ wrap[t].ref # Null => wrap[t].ref \in vm.live \ raw
      /\ wrap[s].ref = wrap[t].ref => wrap[s].ref = Null
  <2>1. wrap[s].ref = wrap[t].ref => wrap[s].ref = Null BY DEF JniInv, Owners, Unshared
  <2> QED BY <2>1, SlotFacts, HandlesAssumption
<1>3. Traced(wrap', vm', raw', lost')
  <2>1. \A z \in vm'.live \ (raw' \cup lost') :
           z = wrap'[s].ref \/ z \in vm.live \ (raw \cup lost \cup {wrap[s].ref, wrap[t].ref})
    BY <1>1, <1>2
  <2>2. \A z \in vm'.pinned \ lost' : z = wrap'[s].pin \/ z \in vm.pinned \ (lost \cup {wrap[s].pin, wrap[t].pin})
    BY <1>1
  <2> QED BY <1>1, <2>1, <2>2, SlotFacts, KeptAfter
<1>4. w.ref # Null => w.ref \in vm'.live \ raw' BY <1>2
<1>5. raw' \subseteq vm'.live /\ vm.live \ vm'.live \subseteq {wrap[s].ref} BY <1>2
<1> QED BY <1>1, <1>3, <1>4, <1>5, SlotsStep

\* The iterator moves on, and its element is fetched again.
LEMMA AdvanceStep == ASSUME JniInv, NEW s \in Slots, NEW i \in Int, JniRefs!Advance(s, i) PROVE JniInv'
<1>1. PICK x \in JniRefs!Obtain(vm, i) :
         JniRefs!Becomes(s, [JniRefs!AssignObject(x.v, wrap[s], x.w) EXCEPT !.w.i = i])
  BY DEF JniRefs!Advance
<1>2. wrap[s].kind = "element" /\ UNCHANGED <<raw, lost>> BY DEF JniRefs!Advance
<1>3. Gained(vm, x) /\ x.w.pin = Null /\ (i \in 0..Length - 1 => x.w.env) /\ (x.w.ref # Null => x.w.env)
  BY ObtainGives DEF JniInv
<1> DEFINE y == JniRefs!AssignObject(x.v, wrap[s], x.w)
<1>4. Replaced(x.v, wrap[s], x.w.ref, x.w.env, y)
  <2>1. wrap[s] \in Wrappers /\ x.v \in Machines /\ x.w \in Wrappers BY <1>3, SlotFacts DEF Gained, Calm
  <2>2. wrap[s].ref # Null => wrap[s].ref \in x.v.live /\ wrap[s].env BY <1>3, SlotFacts DEF Gained
  <2> QED BY <2>1, <2>2, AssignObjectGives
<1>5. JniRefs!Becomes(s, [y EXCEPT !.w.i = i]) BY <1>1
<1> HIDE DEF y
<1>6. [y EXCEPT !.w.i = i] = [v |-> y.v, w |-> [y.w EXCEPT !.i = i]] BY <1>4 DEF Replaced
<1> DEFINE w == [y.w EXCEPT !.i = i]
<1>7. wrap' = [wrap EXCEPT ![s] = w] /\ vm' = y.v BY <1>5, <1>6 DEF JniRefs!Becomes
<1>8. wrap[s] \in Wrappers /\ wrap[s].pin = Null BY <1>2, SlotFacts DEF Fits
<1>9. w \in Wrappers /\ w.kind = "element" /\ w.i = i /\ w.ref = x.w.ref /\ w.pin = Null /\ w.env = x.w.env
  BY <1>2, <1>3, <1>4, <1>8 DEF Gained, Wrappers, Replaced
<1>10. Fits(w) BY <1>3, <1>9 DEF Fits
<1> HIDE DEF w
<1>11. Calm(vm') BY <1>3, <1>4, <1>7 DEF Gained, Calm, Replaced
<1> DEFINE old == wrap[s].ref
<1>12. /\ vm'.pinned = vm.pinned
       /\ \/ w.ref = Null /\ vm'.live = IF old = Null THEN vm.live ELSE vm.live \ {old}
          \/ w.ref \in Refs \ vm.live /\ vm'.live = (vm.live \cup {w.ref}) \ {old}
  <2>1. (old # Null => old \in vm.live) /\ Null \notin vm.live BY SlotFacts, HandlesAssumption
  <2>2. vm'.pinned = vm.pinned /\ vm'.live = IF w.ref = old THEN x.v.live ELSE x.v.live \ {old}
    BY <1>3, <1>4, <1>7, <1>9, HandlesAssumption DEF Gained, Replaced
  <2>3. \/ w.ref = Null /\ x.v.live = vm.live
        \/ w.ref \in Refs \ vm.live /\ x.v.live = vm.live \cup {w.ref}
    BY <1>3, <1>9 DEF Gained
  <2> QED BY <2>1, <2>2, <2>3, HandlesAssumption
<1> QED BY <1>2, <1>7, <1>8, <1>9, <1>10, <1>11, <1>12, RenewStep

\* A step after which what belongs to nobody is recorded.
LEMMA LostStep ==
    ASSUME JniInv, NEW s \in Slots, NEW t \in Slots, wrap' \in [Slots -> Wrappers],
           \A u \in Slots \ {s, t} : wrap'[u] = wrap[u],
           Fits(wrap'[s]), Fits(wrap'[t]), t # s => wrap'[t].ref = Null /\ wrap'[t].pin = Null,
           Calm(vm'), vm'.live = vm.live, raw' = raw,
           wrap'[s].ref \in {Null, wrap[s].ref, wrap[t].ref},
           vm.pinned \subseteq vm'.pinned,
           wrap'[s].pin \in {Null, wrap[s].pin, wrap[t].pin} \cup (vm'.pinned \ vm.pinned),
           lost' = lost \cup JniRefs!Orphans(vm', wrap', raw)
    PROVE  JniInv'
<1>1. /\ raw \subseteq vm.live /\ vm.live \subseteq Refs
      /\ \A u \in {s, t} : /\ wrap[u].ref # Null => wrap[u].ref \in vm.live \ raw
                           /\ wrap[u].pin # Null => wrap[u].pin \in vm.pinned
  BY SlotFacts
<1>2. vm' \in Machines /\ vm'.pinned \subseteq Pins BY DEF Calm, Machines
<1>3. Traced(wrap', vm', raw', lost')
  <2>1. raw' \in SUBSET Refs /\ JniRefs!Orphans(vm', wrap', raw') \subseteq lost' BY <1>1
  <2> QED BY <1>2, <2>1, OrphansKept
<1>4. wrap'[s].ref # Null => wrap'[s].ref \in vm'.live \ raw' BY <1>1
<1>5. wrap'[s].pin # Null => wrap'[s].pin \in vm'.pinned BY <1>1
<1>6. wrap'[s].pin \in {Null, wrap[s].pin, wrap[t].pin} \cup (Pins \ vm.pinned) BY <1>2
<1>7. raw' \subseteq vm'.live BY <1>1
<1> QED BY <1>3, <1>4, <1>5, <1>6, <1>7, SlotsStep

\* A wrapper whose reference and buffer were taken.
LEMMA ClearedFits ==
    ASSUME NEW w \in Wrappers, Fits(w)
    PROVE  LET c == [w EXCEPT !.ref = Null, !.pin = Null, !.modified = FALSE]
           IN c \in Wrappers /\ Fits(c) /\ c.ref = Null /\ c.pin = Null
<1> DEFINE c == [w EXCEPT !.ref = Null, !.pin = Null, !.modified = FALSE]
<1>1. c \in Wrappers /\ c.ref = Null /\ c.pin = Null /\ c.kind = w.kind /\ c.env = w.env /\ c.i = w.i BY DEF Wrappers
<1> HIDE DEF c
<1>2. Fits(c) BY <1>1 DEF Fits
<1> QED BY <1>1, <1>2 DEF c

\* A move construction leaves the source with nothing.
LEMMA MoveConstructStep == ASSUME JniInv, NEW s \in Slots, NEW t \in Slots, JniRefs!MoveConstruct(s, t) PROVE JniInv'
<1>1. /\ wrap[s].kind = "none" /\ wrap[t].kind \in {"object", "array", "objects"} /\ raw' = raw
      /\ lost' = lost \cup JniRefs!Orphans(vm', wrap', raw)
  BY DEF JniRefs!MoveConstruct, JniRefs!IsFree
<1>2. s # t BY <1>1
<1>3. /\ wrap[t] \in Wrappers /\ Fits(wrap[t]) /\ wrap \in [Slots -> Wrappers] /\ Calm(vm) /\ vm \in Machines
      /\ wrap[t].ref \in Refs \cup {Null}
  BY SlotFacts DEF Calm
<1>4. PICK k \in {"object", "array", "objects"} :
         IF k = wrap[t].kind /\ k # "object"
         THEN /\ wrap' = [wrap EXCEPT ![s] = wrap[t],
                                      ![t] = [@ EXCEPT !.ref = Null, !.pin = Null, !.modified = FALSE]]
              /\ UNCHANGED vm
         ELSE LET y == JniRefs!Release(vm, wrap[t])
              IN \E x \in JniRefs!Construct(y.v, k, y.r) :
                    wrap' = [wrap EXCEPT ![s] = x.w, ![t] = y.w] /\ vm' = x.v
  BY DEF JniRefs!MoveConstruct
<1>5. CASE k = wrap[t].kind /\ k # "object"
  <2> DEFINE c == [wrap[t] EXCEPT !.ref = Null, !.pin = Null, !.modified = FALSE]
  <2>1. c \in Wrappers /\ Fits(c) /\ c.ref = Null /\ c.pin = Null BY <1>3, ClearedFits
  <2>2. wrap' = [wrap EXCEPT ![s] = wrap[t], ![t] = c] /\ vm' = vm BY <1>2, <1>4, <1>5
  <2> HIDE DEF c
  <2>3. wrap' \in [Slots -> Wrappers] /\ wrap'[s] = wrap[t] /\ wrap'[t] = c /\ \A u \in Slots \ {s, t} : wrap'[u] = wrap[u]
    BY <1>2, <1>3, <2>1, <2>2
  <2> QED BY <1>1, <1>3, <2>1, <2>2, <2>3, LostStep
<1>6. CASE ~(k = wrap[t].kind /\ k # "object")
  <2> DEFINE y == JniRefs!Release(vm, wrap[t])
  <2>1. /\ y.v = vm /\ y.r = wrap[t].ref
        /\ y.w \in Wrappers /\ y.w.ref = Null /\ y.w.pin = Null /\ Fits(y.w)
    BY <1>3, ReleaseGives
  <2>2. PICK x \in JniRefs!Construct(y.v, k, y.r) : wrap' = [wrap EXCEPT ![s] = x.w, ![t] = y.w] /\ vm' = x.v
    BY <1>4, <1>6
  <2> HIDE DEF y
  <2>3. Around(vm, k, wrap[t].ref, x)
    <3>1. x \in JniRefs!Construct(vm, k, wrap[t].ref) BY <2>1, <2>2
    <3> QED BY <1>3, <3>1, ConstructGives DEF Calm
  <2>4. x.w \in Wrappers /\ Fits(x.w) BY <2>3 DEF Around, Fits
  <2>5. wrap' \in [Slots -> Wrappers] /\ wrap'[s] = x.w /\ wrap'[t] = y.w /\ \A u \in Slots \ {s, t} : wrap'[u] = wrap[u]
    BY <1>2, <1>3, <2>1, <2>2, <2>4
  <2>6. Calm(vm') BY <1>3, <2>2, <2>3 DEF Around, Calm
  <2>7. /\ vm'.live = vm.live /\ vm.pinned \subseteq vm'.pinned /\ wrap'[s].ref = wrap[t].ref
        /\ wrap'[s].pin \in {Null} \cup (vm'.pinned \ vm.pinned)
    BY <2>2, <2>3, <2>5 DEF Around
  <2> QED BY <1>1, <2>1, <2>4, <2>5, <2>6, <2>7, LostStep
<1> QED BY <1>5, <1>6

\* A move assignment of arrays, as the code is written.
LEMMA MoveAssignArrayStep == ASSUME JniInv, NEW s \in Slots, NEW t \in Slots, JniRefs!MoveAssignArray(s, t) PROVE JniInv'
<1> DEFINE c == [wrap[t] EXCEPT !.ref = Null, !.pin = Null, !.modified = FALSE]
<1>1. /\ wrap' = [wrap EXCEPT ![s] = wrap[t], ![t] = c] /\ vm' = vm /\ raw' = raw
      /\ lost' = lost \cup JniRefs!Orphans(vm, wrap', raw)
  BY DEF JniRefs!MoveAssignArray
<1>2. wrap[t] \in Wrappers /\ Fits(wrap[t]) /\ wrap \in [Slots -> Wrappers] /\ Calm(vm)
  BY SlotFacts DEF Calm
<1>3. c \in Wrappers /\ Fits(c) /\ c.ref = Null /\ c.pin = Null BY <1>2, ClearedFits
<1> HIDE DEF c
<1>4. /\ wrap' \in [Slots -> Wrappers] /\ (s # t => wrap'[s] = wrap[t]) /\ wrap'[t] = c
      /\ \A u \in Slots \ {s, t} : wrap'[u] = wrap[u]
  BY <1>1, <1>2, <1>3
<1>5. CASE s # t BY <1>1, <1>2, <1>3, <1>4, <1>5, LostStep
<1>6. CASE s = t
  <2>1. wrap'[s].ref = Null /\ wrap'[s].pin = Null /\ Fits(wrap'[s]) BY <1>3, <1>4, <1>6
  <2> QED BY <1>1, <1>2, <1>4, <1>6, <2>1, LostStep
<1> QED BY <1>5, <1>6

\* A move of JUTFString takes string and characters.
LEMMA MoveCharsStep == ASSUME JniInv, NEW s \in Slots, NEW t \in Slots, JniRefs!MoveChars(s, t) PROVE JniInv'
<1>1. /\ wrap' = [wrap EXCEPT ![s] = wrap[t], ![t].pin = Null] /\ vm' = vm /\ raw' = raw /\ s # t
      /\ wrap[t].kind = "chars"
      /\ lost' = lost \cup JniRefs!Orphans(vm, wrap', raw)
  BY DEF JniRefs!MoveChars
<1>2. wrap[t] \in Wrappers /\ Fits(wrap[t]) /\ wrap \in [Slots -> Wrappers] /\ Calm(vm)
  BY SlotFacts DEF Calm
<1> DEFINE c == [wrap[t] EXCEPT !.pin = Null]
<1>3. c \in Wrappers /\ c.kind = "chars" /\ c.pin = Null /\ c.ref = Null BY <1>1, <1>2 DEF Wrappers, Fits
<1>4. Fits(c) BY <1>3 DEF Fits
<1>5. wrap' = [wrap EXCEPT ![s] = wrap[t], ![t] = c] BY <1>1
<1> HIDE DEF c
<1>6. wrap' \in [Slots -> Wrappers] /\ wrap'[s] = wrap[t] /\ wrap'[t] = c /\ \A u \in Slots \ {s, t} : wrap'[u] = wrap[u]
  BY <1>1, <1>2, <1>3, <1>5
<1> QED BY <1>1, <1>2, <1>3, <1>4, <1>6, LostStep

\* A move assignment of objects.
LEMMA MoveAssignObjectStep == ASSUME JniInv, NEW s \in Slots, NEW t \in Slots, JniRefs!MoveAssignObject(s, t) PROVE JniInv'
<1> DEFINE y == JniRefs!Release(vm, wrap[t])
<1> DEFINE x == IF s = t THEN JniRefs!AssignObject(vm, JniRefs!Release(vm, wrap[s]).w, wrap[t])
                ELSE JniRefs!AssignObject(vm, wrap[s], wrap[t])
<1>1. /\ wrap[s].kind = "object" /\ wrap[t].kind = "object" /\ UNCHANGED <<raw, lost>>
      /\ wrap' = [wrap EXCEPT ![t] = y.w, ![s] = x.w] /\ vm' = x.v
  BY DEF JniRefs!MoveAssignObject
<1>2. /\ wrap[s] \in Wrappers /\ wrap[t] \in Wrappers /\ Fits(wrap[s]) /\ Fits(wrap[t]) /\ vm \in Machines
      /\ wrap[t].ref \in Refs \cup {Null} /\ wrap[t].env /\ wrap[t].env \in BOOLEAN
      /\ wrap[s].ref # Null => wrap[s].ref \in vm.live /\ wrap[s].env
  <2>1. wrap[t].env /\ wrap[t].env \in BOOLEAN BY <1>1, SlotFacts DEF Fits, Wrappers
  <2> QED BY <2>1, SlotFacts
<1>3. wrap[s].pin = Null /\ wrap[t].pin = Null BY <1>1, <1>2 DEF Fits
<1>4. y.w \in Wrappers /\ y.w.ref = Null /\ y.w.pin = Null /\ y.w.kind = wrap[t].kind /\ Fits(y.w)
  BY <1>2, ReleaseGives
<1>5. CASE s # t
  <2>1. Replaced(vm, wrap[s], wrap[t].ref, wrap[t].env, x) BY <1>2, <1>5, AssignObjectGives
  <2> HIDE DEF x, y
  <2>2. /\ x.w \in Wrappers /\ x.w.ref = wrap[t].ref /\ x.w.env = wrap[t].env
        /\ x.w.kind = wrap[s].kind /\ x.w.pin = wrap[s].pin
    BY ONLY <1>2, <2>1 DEF Replaced, Wrappers
  <2>3. Fits(x.w) BY <1>1, <1>2, <1>3, <2>2 DEF Fits
  <2>4. /\ Calm(vm') /\ vm'.pinned = vm.pinned
        /\ vm'.live = IF wrap[t].ref = wrap[s].ref THEN vm.live ELSE vm.live \ {wrap[s].ref}
    BY <1>1, <2>1, SlotFacts DEF Replaced, Calm
  <2> QED BY <1>1, <1>3, <1>4, <1>5, <2>2, <2>3, <2>4, TakeStep
<1>6. CASE s = t
  <2>1. Replaced(vm, y.w, wrap[t].ref, wrap[t].env, x)
    <3>1. x = JniRefs!AssignObject(vm, y.w, wrap[t]) BY <1>6
    <3> HIDE DEF x, y
    <3> QED BY <1>2, <1>4, <3>1, AssignObjectGives
  <2> HIDE DEF x, y
  <2>2. /\ x.w \in Wrappers /\ x.w.ref = wrap[t].ref /\ x.w.env = wrap[t].env
        /\ x.w.kind = y.w.kind /\ x.w.pin = y.w.pin
    BY ONLY <1>2, <1>4, <2>1 DEF Replaced, Wrappers
  <2>3. Fits(x.w) BY <1>1, <1>2, <1>4, <2>2 DEF Fits
  <2>4. Null \notin vm.live BY SlotFacts, HandlesAssumption
  <2>5. Calm(vm') /\ vm'.pinned = vm.pinned /\ vm'.live = vm.live
    <3>1. /\ vm' \in Machines /\ vm'.bad = vm.bad /\ vm'.pinned = vm.pinned /\ vm'.pending = vm.pending
          /\ vm'.live = IF wrap[t].ref = y.w.ref THEN vm.live ELSE vm.live \ {y.w.ref}
      BY <1>1, <2>1 DEF Replaced
    <3>2. ~vm.bad /\ vm.pending # "call" BY SlotFacts
    <3> QED BY <1>4, <2>4, <3>1, <3>2 DEF Calm
  <2>6. wrap' \in [Slots -> Wrappers] /\ wrap'[s] = x.w /\ \A u \in Slots \ {s} : wrap'[u] = wrap[u]
    BY <1>1, <1>6, <2>2, SlotFacts
  <2>7. Traced(wrap', vm', raw', lost')
    <3>1. \A z \in vm'.live \ (raw' \cup lost') : z = wrap'[s].ref \/ z \in vm.live \ (raw \cup lost \cup {wrap[s].ref})
      BY <1>1, <1>6, <2>2, <2>5, <2>6
    <3>2. \A z \in vm'.pinned \ lost' : z = wrap'[s].pin \/ z \in vm.pinned \ (lost \cup {wrap[s].pin})
      BY <1>1, <1>3, <1>4, <2>2, <2>5, <2>6
    <3> QED BY <2>6, <3>1, <3>2, SlotFacts, KeptAfter
  <2>8. raw' \subseteq vm'.live /\ (wrap'[s].ref # Null => wrap'[s].ref \in vm'.live \ raw')
    BY <1>1, <1>4, <1>6, <2>2, <2>5, <2>6, SlotFacts
  <2> QED BY <1>1, <1>4, <1>6, <2>2, <2>3, <2>5, <2>6, <2>7, <2>8, SlotsStep
<1> QED BY <1>5, <1>6

\* SetObjectArrayElement, and the exception it may throw.
LEMMA StoreGives ==
    ASSUME NEW v, Calm(v), NEW z, \E c \in JniRefs!Call(v, "call") : c.r = Null /\ z \in JniRefs!ClearException(c.v)
    PROVE  Calm(z) /\ z.live = v.live /\ z.pinned = v.pinned
<1>1. PICK c \in JniRefs!Call(v, "call") : c.r = Null /\ z \in JniRefs!ClearException(c.v) OBVIOUS
<1>2. c.v \in Machines /\ ~c.v.bad /\ c.v.live = v.live /\ c.v.pinned = v.pinned
  BY <1>1, CallGives, HandlesAssumption DEF Calm
<1> QED BY <1>1, <1>2, ClearGives DEF Calm

\* An element is assigned, and stored in the array.
LEMMA AssignElementStep == ASSUME JniInv, NEW s \in Slots, JniRefs!AssignElement(s) PROVE JniInv'
<1>1. wrap[s].kind = "element" /\ wrap[s].i \in 0..Length - 1 /\ UNCHANGED <<raw, lost>>
  BY DEF JniRefs!AssignElement
<1>2. /\ wrap[s] \in Wrappers /\ Fits(wrap[s]) /\ vm \in Machines /\ Calm(vm)
      /\ wrap[s].ref # Null => wrap[s].ref \in vm.live /\ wrap[s].env
  BY SlotFacts DEF Calm
<1>3. wrap[s].env /\ wrap[s].pin = Null /\ wrap[s].env \in BOOLEAN BY <1>1, <1>2 DEF Fits, Wrappers
<1>4. ASSUME NEW t \in Slots \ {s}, wrap[t].kind \in {"object", "element"},
             LET y == JniRefs!Release(vm, wrap[t])
                 x == JniRefs!ResetObject(y.v, wrap[s], y.r)
             IN /\ wrap' = [wrap EXCEPT ![t] = y.w, ![s] = x.w]
                /\ \E c \in JniRefs!Call(x.v, "call") : c.r = Null /\ vm' \in JniRefs!ClearException(c.v)
      PROVE  JniInv'
  <2> DEFINE y == JniRefs!Release(vm, wrap[t])
             x == JniRefs!ResetObject(y.v, wrap[s], y.r)
  <2>1. wrap[t] \in Wrappers /\ Fits(wrap[t]) /\ wrap[t].ref \in Refs \cup {Null} BY SlotFacts
  <2>2. wrap[t].pin = Null BY <1>4, <2>1 DEF Fits
  <2>3. y.v = vm /\ y.r = wrap[t].ref /\ y.w \in Wrappers /\ y.w.ref = Null /\ y.w.pin = Null /\ Fits(y.w)
    BY <2>1, ReleaseGives
  <2>4. /\ wrap' = [wrap EXCEPT ![t] = y.w, ![s] = x.w]
        /\ \E c \in JniRefs!Call(x.v, "call") : c.r = Null /\ vm' \in JniRefs!ClearException(c.v)
    BY <1>4
  <2>5. x = JniRefs!ResetObject(vm, wrap[s], wrap[t].ref) BY <2>3
  <2> HIDE DEF x, y
  <2>6. Replaced(vm, wrap[s], wrap[t].ref, wrap[s].env, x) BY <1>2, <2>1, <2>5, ResetObjectGives
  <2>7. /\ x.w \in Wrappers /\ x.w.ref = wrap[t].ref /\ x.w.env = wrap[s].env
        /\ x.w.kind = wrap[s].kind /\ x.w.pin = wrap[s].pin
    BY ONLY <1>2, <1>3, <2>1, <2>6 DEF Replaced, Wrappers
  <2>8. Fits(x.w) BY <1>1, <1>3, <2>7 DEF Fits
  <2>9. Calm(x.v) BY <1>2, <2>6 DEF Replaced, Calm
  <2>10. /\ Calm(vm') /\ vm'.pinned = vm.pinned
         /\ vm'.live = IF wrap[t].ref = wrap[s].ref THEN vm.live ELSE vm.live \ {wrap[s].ref}
    <3>1. Calm(vm') /\ vm'.live = x.v.live /\ vm'.pinned = x.v.pinned BY <2>4, <2>9, StoreGives
    <3> QED BY <2>6, <3>1 DEF Replaced
  <2> QED BY <1>1, <1>3, <2>2, <2>3, <2>4, <2>7, <2>8, <2>10, TakeStep
<1>5. ASSUME NEW n \in JniRefs!Call(vm, "alloc"),
             LET x == JniRefs!ResetObject(n.v, wrap[s], n.r)
             IN /\ wrap' = [wrap EXCEPT ![s] = x.w]
                /\ \E c \in JniRefs!Call(x.v, "call") : c.r = Null /\ vm' \in JniRefs!ClearException(c.v)
      PROVE  JniInv'
  <2> DEFINE x == JniRefs!ResetObject(n.v, wrap[s], n.r)
  <2>1. /\ n.v \in Machines /\ ~n.v.bad /\ n.v.pinned = vm.pinned /\ n.v.pending # "call"
        /\ \/ n.r = Null /\ n.v.live = vm.live
           \/ n.r \in Refs \ vm.live /\ n.v.live = vm.live \cup {n.r}
    BY <1>2, CallGives DEF Calm
  <2>2. n.r \in Refs \cup {Null} /\ (wrap[s].ref # Null => wrap[s].ref \in n.v.live /\ wrap[s].env) BY <1>2, <2>1
  <2>3. Replaced(n.v, wrap[s], n.r, wrap[s].env, x) BY <1>2, <2>1, <2>2, ResetObjectGives
  <2>4. /\ wrap' = [wrap EXCEPT ![s] = x.w]
        /\ \E c \in JniRefs!Call(x.v, "call") : c.r = Null /\ vm' \in JniRefs!ClearException(c.v)
    BY <1>5
  <2> HIDE DEF x
  <2>5. x.w \in Wrappers /\ x.w.ref = n.r /\ x.w.env = wrap[s].env /\ x.w.kind = wrap[s].kind /\ x.w.pin = wrap[s].pin
    BY ONLY <1>2, <1>3, <2>2, <2>3 DEF Replaced, Wrappers
  <2>6. Fits(x.w) BY <1>1, <1>3, <2>5 DEF Fits
  <2>7. Calm(x.v) BY <2>1, <2>3 DEF Replaced, Calm
  <2>8. Calm(vm') /\ vm'.live = x.v.live /\ vm'.pinned = vm.pinned
    BY <2>1, <2>3, <2>4, <2>7, StoreGives DEF Replaced
  <2>9. \/ x.w.ref = Null /\ vm'.live = IF wrap[s].ref = Null THEN vm.live ELSE vm.live \ {wrap[s].ref}
        \/ x.w.ref \in Refs \ vm.live /\ vm'.live = (vm.live \cup {x.w.ref}) \ {wrap[s].ref}
    <3>1. vm'.live = IF n.r = wrap[s].ref THEN n.v.live ELSE n.v.live \ {wrap[s].ref} BY <2>3, <2>8 DEF Replaced
    <3> QED BY <1>2, <2>1, <2>5, <3>1, HandlesAssumption
  <2> QED BY <1>1, <1>3, <2>4, <2>5, <2>6, <2>8, <2>9, RenewStep
<1> QED BY <1>4, <1>5 DEF JniRefs!AssignElement

-----------------------------------------------------------------------------
\* Every step keeps the invariant.
LEMMA JniStep == ASSUME JniInv, JniRefs!Next PROVE JniInv'
<1>1. ASSUME NEW s \in Slots, JniRefs!Invoke(s) PROVE JniInv' BY <1>1, InvokeStep
<1>2. ASSUME NEW s \in Slots, JniRefs!NewString(s) PROVE JniInv' BY <1>2, NewStringStep
<1>3. ASSUME NEW s \in Slots, JniRefs!Adopt(s) PROVE JniInv' BY <1>3, AdoptStep
<1>4. ASSUME NEW s \in Slots, JniRefs!ResetTo(s) PROVE JniInv' BY <1>4, ResetToStep
<1>5. ASSUME NEW s \in Slots, JniRefs!ReleaseTo(s) PROVE JniInv' BY <1>5, ReleaseToStep
<1>6. ASSUME NEW s \in Slots, JniRefs!Destroy(s) PROVE JniInv' BY <1>6, DestroyStep
<1>7. ASSUME NEW s \in Slots, JniRefs!Write(s) \/ JniRefs!Commit(s) PROVE JniInv' BY <1>7, WriteStep
<1>8. ASSUME NEW s \in Slots, JniRefs!AssignElement(s) PROVE JniInv' BY <1>8, AssignElementStep
<1>9. ASSUME NEW s \in Slots, JniRefs!ReleaseElement(s) PROVE JniInv' BY <1>9, ReleaseElementStep
<1>10. ASSUME NEW s \in Slots, JniRefs!NewChars(s) PROVE JniInv' BY <1>10, NewCharsStep
<1>11. ASSUME NEW s \in Slots, NEW i \in -1..Length,
              JniRefs!Advance(s, i) \/ \E a \in Slots : JniRefs!ElementAt(s, a, i)
       PROVE  JniInv'
  <2>1. i \in Int OBVIOUS
  <2> QED BY <1>11, <2>1, AdvanceStep, ElementAtStep
<1>12. ASSUME NEW s \in Slots, NEW t \in Slots,
              \/ JniRefs!MoveConstruct(s, t) \/ JniRefs!MoveAssignObject(s, t) \/ JniRefs!MoveAssignArray(s, t)
              \/ JniRefs!Clone(s, t) \/ JniRefs!MoveChars(s, t)
       PROVE  JniInv'
  BY <1>12, MoveConstructStep, MoveAssignObjectStep, MoveAssignArrayStep, CloneStep, MoveCharsStep
<1>13. ASSUME NEW r \in Refs, JniRefs!DeleteRaw(r) PROVE JniInv' BY <1>13, DeleteRawStep
<1> QED BY <1>1, <1>2, <1>3, <1>4, <1>5, <1>6, <1>7, <1>8, <1>9, <1>10, <1>11, <1>12, <1>13 DEF JniRefs!Next

\* At first nothing is owned.
LEMMA JniStart == ASSUME JniRefs!Init PROVE JniInv
<1>1. JniRefs!Unused.ref = Null /\ JniRefs!Unused.pin = Null /\ JniRefs!Unused.kind = "none" BY DEF JniRefs!Unused
<1>2. /\ vm = [live |-> {}, pinned |-> {}, pending |-> "none", bad |-> FALSE] /\ raw = {} /\ lost = {}
      /\ wrap = [s \in Slots |-> JniRefs!Unused]
  BY DEF JniRefs!Init
<1>3. Calm(vm) BY <1>2 DEF Calm, Machines
<1>4. wrap \in [Slots -> Wrappers] /\ \A s \in Slots : wrap[s] = JniRefs!Unused BY <1>2, UnusedTyped
<1>5. Fits(JniRefs!Unused) BY <1>1 DEF Fits
<1>6. Held(wrap, vm, raw) BY <1>1, <1>2, <1>4 DEF Held
<1>7. Unshared(wrap) BY <1>1, <1>4 DEF Unshared
<1>8. Traced(wrap, vm, raw, lost) BY <1>2 DEF Traced
<1> QED BY <1>3, <1>4, <1>5, <1>6, <1>7, <1>8 DEF JniInv, Owners

\* However ScopedLocalRef, the array and element wrappers and JUTFString are
\* moved, reset and released, every local reference and pinned buffer has one
\* owner; none is deleted or released twice, and none is lost but by the array
\* wrappers and JUTFString, as they are written.
THEOREM RefsOwned == LsplantSpec => []RefsOwnedOnce
<1> DEFINE all == <<vars, part, initPart, methodPart, stubPart, jniPart>>
<1>1. LsplantStart => (part = "jni" => JniInv)
  BY JniStart DEF LsplantStart
<1>2. (part = "jni" => JniInv) /\ [LsplantNext]_all => (part = "jni" => JniInv)'
  <2> SUFFICES ASSUME part = "jni" => JniInv, [LsplantNext]_all, part' = "jni" PROVE JniInv'
    OBVIOUS
  <2>1. CASE UNCHANGED all
    BY <2>1 DEF jniPart, JniInv, Calm, Owners, Held, Unshared, Traced
  <2>2. CASE LsplantNext
    <3>1. part = "jni" BY <2>2 DEF LsplantNext
    <3>2. JniRefs!Next BY <2>2, <3>1 DEF LsplantNext
    <3> QED BY <3>1, <3>2, JniStep
  <2> QED BY <2>1, <2>2
<1>3. (part = "jni" => JniInv) => RefsOwnedOnce BY JniImplies DEF RefsOwnedOnce
<1> QED BY <1>1, <1>2, <1>3, PTL DEF LsplantSpec

-----------------------------------------------------------------------------
(* The layout of a method.                                                 *)

Fields == [size : Int, entry : Int, data : Int, flags : Int, class : Int, interpreter : Int,
           preCompiled : SUBSET Int, fast : SUBSET Int, dontBother : SUBSET Int, intrinsic : SUBSET Int]

\* The flags LSPlant sets and clears by itself are told apart, whatever the version.
BitsApart ==
    /\ layout.preCompiled \in {{}, {21}, {23}} /\ layout.fast \in {{}, {30}}
    /\ layout.dontBother \in {{}, {24}, {25}} /\ layout.intrinsic \in {{}, {31}}

Offsets == 0..(ArtMethod!Size(device) - 1)

\* The fields of a method and their order.
LEMMA DeviceGives ==
    ASSUME NEW d \in ArtMethod!Devices
    PROVE  /\ d.sdk \in Nat /\ d.sdk >= 21 /\ d.ptr \in {1, 2} /\ d.words \in Int /\ d.words >= 2
           /\ d.flagsAt \in Int /\ 1 <= d.flagsAt /\ d.flagsAt < d.words
           /\ d.ptrs \in 2..4 /\ d.twin \in Int /\ d.twin >= -1 /\ d.twin < d.words /\ d.twin # d.flagsAt
           /\ d.sdk <= 23 => d.ptrs >= 3
<1>1. MaxWords \in Int /\ \A k \in Sdks : k \in Nat /\ k >= 21 BY SdksAssumption
<1>2. /\ d \in [sdk : Sdks, ptr : {1, 2}, words : 2..MaxWords, flagsAt : 1..MaxWords - 1, ptrs : 2..4,
               twin : -1..MaxWords - 1, hidden : BOOLEAN, throws : {"none", "abstract", "other"}]
      /\ d.flagsAt < d.words /\ d.twin < d.words /\ d.twin # d.flagsAt /\ (d.sdk <= 23 => d.ptrs >= 3)
  BY DEF ArtMethod!Devices, ArtMethod!kSdkMarshmallow
<1>3. /\ d.sdk \in Sdks /\ d.ptr \in {1, 2} /\ d.words \in 2..MaxWords /\ d.flagsAt \in 1..MaxWords - 1
      /\ d.ptrs \in 2..4 /\ d.twin \in -1..MaxWords - 1
  BY <1>2
<1> QED BY <1>1, <1>2, <1>3

\* AlignUp does not go down.
LEMMA Alignment ==
    ASSUME NEW n \in Int, NEW p \in {1, 2}
    PROVE  ArtMethod!AlignUp(n, p) \in Int /\ ArtMethod!AlignUp(n, p) >= n
<1>1. CASE p = 1
  <2>1. (n + p - 1) \div p = n BY <1>1
  <2> QED BY <1>1, <2>1 DEF ArtMethod!AlignUp
<1>2. CASE p = 2
  <2>1. ((n + p - 1) \div p) * p >= n /\ (n + p - 1) \div p \in Int BY <1>2
  <2> QED BY <1>2, <2>1 DEF ArtMethod!AlignUp
<1> QED BY <1>1, <1>2

\* The pointers are at the end of an ArtMethod, behind its words.
LEMMA LayoutGives ==
    ASSUME NEW d \in ArtMethod!Devices
    PROVE  /\ ArtMethod!Size(d) \in Int
           /\ \A k \in 1..3 : ArtMethod!Pointer(d, k) = ArtMethod!Size(d) - k * d.ptr
           /\ d.words <= ArtMethod!Size(d) - 2 * d.ptr
           /\ d.sdk <= 23 => d.words <= ArtMethod!Size(d) - 3 * d.ptr
<1> DEFINE a == ArtMethod!AlignUp(d.words, d.ptr)
<1>1. a \in Int /\ a >= d.words BY DeviceGives, Alignment
<1> HIDE DEF a
<1>2. ArtMethod!Size(d) = a + d.ptr * d.ptrs
  <2>1. ArtMethod!Size(d) = a + d.ptr * (d.ptrs - 0) BY DEF a, ArtMethod!Size, ArtMethod!Pointer
  <2> QED BY <2>1, DeviceGives
<1>3. \A k \in 1..3 : ArtMethod!Pointer(d, k) = a + d.ptr * (d.ptrs - k) BY DEF a, ArtMethod!Pointer
<1>4. CASE d.ptr = 1 BY <1>1, <1>2, <1>3, <1>4, DeviceGives
<1>5. CASE d.ptr = 2 BY <1>1, <1>2, <1>3, <1>5, DeviceGives
<1> QED BY <1>4, <1>5, DeviceGives

\* Where ART has the fields.
LEMMA RealGives ==
    ASSUME NEW d \in ArtMethod!Devices
    PROVE  LET r == ArtMethod!Real(d)
               n == ArtMethod!Size(d)
           IN /\ r.flags = d.flagsAt /\ r.entry = n - d.ptr /\ r.data = n - 2 * d.ptr /\ r.class = 0
              /\ r.interpreter = IF d.sdk <= 23 THEN n - 3 * d.ptr ELSE 0
              /\ n \in Int /\ r.flags \in 1..(n - 1) /\ r.entry \in 1..(n - 1) /\ r.interpreter \in 0..(n - 1)
              /\ r.flags # r.entry /\ r.flags # r.interpreter /\ r.entry # r.interpreter
<1> DEFINE r == ArtMethod!Real(d)
           n == ArtMethod!Size(d)
<1>1. /\ r.flags = d.flagsAt /\ r.entry = ArtMethod!Pointer(d, 1) /\ r.data = ArtMethod!Pointer(d, 2) /\ r.class = 0
      /\ r.interpreter = IF d.sdk <= 23 THEN ArtMethod!Pointer(d, 3) ELSE 0
  BY DEF ArtMethod!Real, ArtMethod!kSdkMarshmallow
<1>2. /\ n \in Int /\ ArtMethod!Pointer(d, 1) = n - 1 * d.ptr /\ ArtMethod!Pointer(d, 2) = n - 2 * d.ptr
      /\ ArtMethod!Pointer(d, 3) = n - 3 * d.ptr /\ d.words <= n - 2 * d.ptr /\ (d.sdk <= 23 => d.words <= n - 3 * d.ptr)
  BY LayoutGives
<1> HIDE DEF r, n
<1>3. /\ d.sdk \in Nat /\ d.ptr \in {1, 2} /\ d.words \in Int /\ d.words >= 2 /\ d.flagsAt \in Int
      /\ 1 <= d.flagsAt /\ d.flagsAt < d.words
  BY DeviceGives
<1>4. /\ r.flags = d.flagsAt /\ r.entry = n - d.ptr /\ r.data = n - 2 * d.ptr /\ r.class = 0
      /\ r.interpreter = IF d.sdk <= 23 THEN n - 3 * d.ptr ELSE 0
  BY <1>1, <1>2, <1>3
<1>5. /\ n \in Int /\ r.flags \in 1..(n - 1) /\ r.entry \in 1..(n - 1) /\ r.interpreter \in 0..(n - 1)
      /\ r.flags # r.entry /\ r.flags # r.interpreter /\ r.entry # r.interpreter
  <2>1. CASE d.ptr = 1 BY <1>2, <1>3, <1>4, <2>1
  <2>2. CASE d.ptr = 2 BY <1>2, <1>3, <1>4, <2>2
  <2> QED BY <1>3, <2>1, <2>2
<1> QED BY <1>4, <1>5 DEF r, n

-----------------------------------------------------------------------------
(* The invariant.                                                          *)

Setup == {"size", "offsets", "flags", "bridge"}
InUse == {"ready", "hooked", "unhooked", "inheritable"}
Memory(m) == m = [o \in Offsets |-> m[o]]

MethodTyped ==
    /\ device \in ArtMethod!Devices /\ layout \in Fields /\ BitsApart
    /\ method = [target |-> method.target, backup |-> method.backup, first |-> method.first]
    /\ Memory(method.target) /\ Memory(method.backup)

\* What ArtMethod::Init has found out at each of its steps.
MethodLaid ==
    LET r == ArtMethod!Real(device)
    IN /\ layoutStep \in Setup \cup InUse
       /\ layout.class = 0
       /\ layoutStep # "size" => layout.size = ArtMethod!Size(device) /\ layout.entry = r.entry /\ layout.data = r.data
       /\ layoutStep \in {"size", "offsets"} =>
            layout.interpreter = 0 /\ method.first = ArtMethod!Fresh(device, 300, {0, 16})
       /\ layoutStep \in {"flags", "bridge"} => layout.interpreter = IF device.sdk = 21 THEN r.interpreter ELSE 0
       /\ layoutStep \in InUse => layout.interpreter = r.interpreter
       /\ layoutStep \notin {"size", "offsets"} =>
            (layout.flags # r.flags => r.flags # 1 /\ (device.hidden \/ device.twin \in 0..r.flags - 1))
       /\ layoutStep \in Setup \cup {"ready"} => 1 \notin method.target[r.flags]

\* What was done with the methods since.
SameBut(m, o, S) == \A i \in Offsets \ S : m[i] = o[i]
Bits == layout.preCompiled \cup layout.fast \cup layout.intrinsic \cup layout.dontBother
FlagsKept(f, g) ==
    /\ f \ Bits = g \ Bits /\ layout.dontBother \subseteq f /\ (layout.preCompiled \cup layout.intrinsic) \cap f = {}
HookDone(t, b, o, r) ==
    /\ t[r.entry] = "trampoline" /\ SameBut(t, o, {r.entry, r.flags, r.interpreter} \ {0})
    /\ FlagsKept(t[r.flags], o[r.flags]) /\ layout.fast \cap t[r.flags] = {}
    /\ r.interpreter # 0 => t[r.interpreter] = "bridge"
    /\ SameBut(b, o, {r.flags}) /\ layout.dontBother \subseteq b[r.flags]
    /\ 3 \in o[r.flags] \/ b[r.flags] \cap 0..2 = {1}
OpenDone(t, o, r) ==
    /\ SameBut(t, o, {r.flags})
    /\ t[r.flags] \cap {0, 2} # {} /\ {1, 4} \cap t[r.flags] = {}
MethodDone ==
    LET r == ArtMethod!Real(device)
    IN layout.flags = r.flags =>
         /\ layoutStep = "hooked" => HookDone(method.target, method.backup, was, r)
         /\ layoutStep = "unhooked" => SameBut(method.target, was, {r.flags}) /\ FlagsKept(method.target[r.flags], was[r.flags])
         /\ layoutStep = "inheritable" => OpenDone(method.target, was, r)

MethodInv == MethodTyped /\ MethodLaid /\ MethodDone

\* The invariant says what the property does.
LEMMA MethodImplies == ASSUME MethodInv PROVE ArtMethod!MethodIntact
<1> DEFINE r == ArtMethod!Real(device)
<1>1. DOMAIN method.target = Offsets /\ DOMAIN method.backup = Offsets BY DEF MethodInv, MethodTyped, Memory
<1>2. r.data = r.data /\ r.class = 0 /\ r.flags \in Int
  BY RealGives DEF MethodInv, MethodTyped
<1> HIDE DEF r
<1>3. layoutStep \in InUse => ArtMethod!Located
  BY <1>2 DEF MethodInv, MethodLaid, ArtMethod!Located, InUse, Setup, r
<1>4. ASSUME layout.flags = r.flags, layoutStep = "hooked" PROVE HookDone(method.target, method.backup, was, r)
  BY <1>4 DEF MethodInv, MethodDone, r
<1>5. ASSUME layout.flags = r.flags, layoutStep = "unhooked"
      PROVE  SameBut(method.target, was, {r.flags}) /\ FlagsKept(method.target[r.flags], was[r.flags])
  BY <1>5 DEF MethodInv, MethodDone, r
<1>6. ASSUME layout.flags = r.flags, layoutStep = "inheritable" PROVE OpenDone(method.target, was, r)
  BY <1>6 DEF MethodInv, MethodDone, r
<1> USE DEF SameBut, FlagsKept, Bits, ArtMethod!Bits, ArtMethod!kAccStatic, ArtMethod!kAccPrivate, ArtMethod!kAccPublic,
            ArtMethod!kAccProtected, ArtMethod!kAccFinal
<1> QED BY <1>1, <1>3, <1>4, <1>5, <1>6 DEF HookDone, OpenDone, InUse, r, ArtMethod!MethodIntact
-----------------------------------------------------------------------------
(* ArtMethod::Init.                                                        *)

\* A method that ART has just made.
LEMMA FreshGives ==
    ASSUME device \in ArtMethod!Devices, NEW id \in {100, 200, 300}, NEW f
    PROVE  LET m == ArtMethod!Fresh(device, id, f)
           IN /\ Memory(m) /\ m[device.flagsAt] = f /\ (device.twin >= 0 => m[device.twin] = f)
              /\ \A i \in Offsets \ {device.flagsAt, device.twin} : m[i] = {id + i}
<1> DEFINE m == ArtMethod!Fresh(device, id, f)
<1>1. device.flagsAt \in Offsets /\ (device.twin >= 0 => device.twin \in Offsets)
  <2>1. ArtMethod!Size(device) \in Int /\ device.words <= ArtMethod!Size(device)
    <3>1. /\ ArtMethod!Size(device) \in Int /\ device.words <= ArtMethod!Size(device) - 2 * device.ptr
          /\ device.ptr \in {1, 2} /\ device.words \in Int
      BY LayoutGives, DeviceGives
    <3> QED BY <3>1
  <2> QED BY <2>1, DeviceGives DEF Offsets
<1>2. m = [o \in Offsets |-> CASE o = device.flagsAt -> f [] o = device.twin -> f [] OTHER -> {id + o}]
  BY DEF ArtMethod!Fresh, Offsets
<1> HIDE DEF m
<1>3. Memory(m) BY <1>2 DEF Memory
<1>4. m[device.flagsAt] = f /\ (device.twin >= 0 => m[device.twin] = f) BY <1>1, <1>2
<1>5. \A i \in Offsets \ {device.flagsAt, device.twin} : m[i] = {id + i} BY <1>2
<1> QED BY <1>3, <1>4, <1>5 DEF m

\* The first state.
LEMMA MethodStart == ASSUME ArtMethod!Init PROVE MethodInv
<1>1. device \in ArtMethod!Devices /\ layout = ArtMethod!NotFound /\ layoutStep = "size" BY DEF ArtMethod!Init
<1>2. PICK f \in ArtMethod!SomeFlags :
         method = [target |-> ArtMethod!Fresh(device, 100, f),
                   backup |-> ArtMethod!Fresh(device, 200, {ArtMethod!kAccPublic, ArtMethod!kAccStatic}),
                   first |-> ArtMethod!Fresh(device, 300, {ArtMethod!kAccPublic, 16})]
  BY DEF ArtMethod!Init
<1>3. 1 \notin f BY DEF ArtMethod!SomeFlags, ArtMethod!kAccPublic, ArtMethod!kAccProtected, ArtMethod!kAccStatic, ArtMethod!kAccFinal
<1>4. Memory(method.target) /\ Memory(method.backup) /\ method.target[device.flagsAt] = f
  BY <1>1, <1>2, FreshGives
<1>5. ArtMethod!Real(device).flags = device.flagsAt BY <1>1, RealGives
<1>6. layout \in Fields /\ BitsApart /\ layout.class = 0 /\ layout.interpreter = 0
  BY <1>1 DEF ArtMethod!NotFound, Fields, BitsApart
<1>7. method.first = ArtMethod!Fresh(device, 300, {0, 16}) BY <1>2 DEF ArtMethod!kAccPublic
<1>8. MethodTyped BY <1>1, <1>2, <1>4, <1>6 DEF MethodTyped
<1>9. MethodLaid BY <1>1, <1>3, <1>4, <1>5, <1>6, <1>7 DEF MethodLaid, Setup, InUse
<1>10. MethodDone BY <1>1 DEF MethodDone
<1> QED BY <1>8, <1>9, <1>10 DEF MethodInv

\* A step of ArtMethod::Init leaves the methods alone.
LEMMA SetupStep ==
    ASSUME MethodTyped, UNCHANGED <<device, method, was>>, layout' \in Fields, BitsApart', MethodLaid',
           layoutStep' \in Setup \cup {"ready"}
    PROVE  MethodInv'
<1>1. MethodTyped' BY DEF MethodTyped, Memory, Offsets
<1>2. MethodDone' BY DEF MethodDone, Setup
<1> QED BY <1>1, <1>2 DEF MethodInv

\* ArtMethod::Init: the size, from the distance of two methods.
LEMMA InitSizeStep == ASSUME MethodInv, ArtMethod!InitSize PROVE MethodInv'
<1> DEFINE n == ArtMethod!Size(device)
           r == ArtMethod!Real(device)
<1>1. /\ layoutStep = "size" /\ layoutStep' = "offsets" /\ UNCHANGED <<device, method, was>>
      /\ layout' = [layout EXCEPT !.size = n, !.entry = n - device.ptr, !.data = n - 2 * device.ptr]
  BY DEF ArtMethod!InitSize, ArtMethod!Then, ArtMethod!Found
<1>2. device \in ArtMethod!Devices /\ layout \in Fields /\ BitsApart BY DEF MethodInv, MethodTyped
<1>3. n \in Int /\ device.ptr \in Int /\ r.entry = n - device.ptr /\ r.data = n - 2 * device.ptr /\ n - device.ptr \in Int /\ n - 2 * device.ptr \in Int
  <2>1. device.ptr \in {1, 2} /\ n \in Int /\ r.entry = n - device.ptr /\ r.data = n - 2 * device.ptr
    BY <1>2, RealGives, DeviceGives
  <2> QED BY <2>1
<1> HIDE DEF n, r
<1>4. /\ layout' \in Fields /\ layout'.size = n /\ layout'.entry = r.entry /\ layout'.data = r.data
      /\ layout'.class = layout.class /\ layout'.interpreter = layout.interpreter
      /\ layout'.preCompiled = layout.preCompiled /\ layout'.fast = layout.fast
      /\ layout'.dontBother = layout.dontBother /\ layout'.intrinsic = layout.intrinsic
  BY <1>1, <1>2, <1>3 DEF Fields
<1>5. BitsApart' BY <1>2, <1>4 DEF BitsApart
<1>6. MethodLaid' BY <1>1, <1>4 DEF MethodInv, MethodLaid, Setup, InUse, n, r
<1> QED BY <1>1, <1>4, <1>5, <1>6, SetupStep DEF MethodInv, Setup

\* Where the search for the access flags ends.
LEMMA FlagsFound ==
    ASSUME device \in ArtMethod!Devices, NEW m, m = ArtMethod!Fresh(device, 300, {0, 16}), NEW hits,
           hits = {i \in Offsets : ~device.hidden /\ m[i] = m[device.flagsAt]},
           NEW x, x = ArtMethod!FlagsOffset(hits)
    PROVE  x \in Int /\ (x # device.flagsAt => device.flagsAt # 1 /\ (device.hidden \/ device.twin \in 0..device.flagsAt - 1))
<1> DEFINE a == device.flagsAt
           t == device.twin
<1>1. /\ a \in Int /\ t \in Int /\ a >= 1 /\ t # a /\ a \in Offsets /\ Offsets \subseteq Int /\ \A i \in Offsets : i >= 0
  <2>1. ArtMethod!Size(device) \in Int /\ ArtMethod!Real(device).flags = a /\ ArtMethod!Real(device).flags \in 1..(ArtMethod!Size(device) - 1)
    BY RealGives
  <2> QED BY <2>1, DeviceGives DEF Offsets
<1>2. /\ m[a] = {0, 16} /\ (t >= 0 => m[t] = {0, 16})
      /\ \A i \in Offsets \ {a, t} : m[i] = {300 + i}
  BY FreshGives
<1> HIDE DEF a, t
<1>3. \A i \in Offsets \ {a, t} : m[i] # m[a] 
  <2> SUFFICES ASSUME NEW i \in Offsets \ {a, t}, m[i] = m[a] PROVE FALSE OBVIOUS
  <2>1. 0 \in {300 + i} BY <1>2
  <2> QED BY <1>1, <2>1
<1>4. hits \subseteq {a, t} /\ (device.hidden => hits = {}) /\ (~device.hidden => a \in hits) /\ hits \subseteq Offsets
  BY <1>1, <1>3 DEF a
<1>5. CASE hits = {} \/ 0 \in hits
  <2>1. x = 1 BY <1>5 DEF ArtMethod!FlagsOffset
  <2>2. 0 \in hits => t = 0 BY <1>1, <1>4
  <2> QED BY <1>1, <1>4, <1>5, <2>1, <2>2 DEF a, t
<1>6. CASE hits # {} /\ 0 \notin hits
  <2>1. x = CHOOSE i \in hits : \A j \in hits : i <= j BY <1>6 DEF ArtMethod!FlagsOffset
  <2>2. a \in hits BY <1>4, <1>6
  <2>3. \E i \in hits : \A j \in hits : i <= j
    <3>1. CASE t \in hits /\ t < a BY <1>1, <1>4, <2>2, <3>1
    <3>2. CASE ~(t \in hits /\ t < a) BY <1>1, <1>4, <2>2, <3>2
    <3> QED BY <3>1, <3>2
  <2>4. x \in hits /\ x <= a BY <2>1, <2>2, <2>3
  <2>5. x = a \/ x = t BY <1>4, <2>4
  <2>6. x \in Int /\ x >= 0 /\ x # 0 BY <1>1, <1>4, <1>6, <2>4
  <2> QED BY <1>1, <2>4, <2>5, <2>6 DEF a, t
<1> QED BY <1>5, <1>6

\* ArtMethod::Init: the offsets, by API level or from the access flags.
LEMMA InitOffsetsStep == ASSUME MethodInv, ArtMethod!InitOffsets PROVE MethodInv'
<1> DEFINE r == ArtMethod!Real(device)
<1>1. layoutStep = "offsets" /\ layoutStep' = "flags" /\ UNCHANGED <<device, method, was>>
  BY DEF ArtMethod!InitOffsets, ArtMethod!Then, ArtMethod!Found
<1>2. /\ device \in ArtMethod!Devices /\ layout \in Fields /\ BitsApart
      /\ layout.size = ArtMethod!Size(device) /\ layout.entry = r.entry /\ layout.data = r.data /\ layout.class = 0
      /\ layout.interpreter = 0 /\ method.first = ArtMethod!Fresh(device, 300, {0, 16}) /\ 1 \notin method.target[r.flags]
  BY <1>1 DEF MethodInv, MethodTyped, MethodLaid, Setup
<1>3. r.flags = device.flagsAt /\ r.flags \in Int /\ r.class = 0 /\ r.entry \in Int /\ r.data \in Int /\ r.interpreter \in Int
  <2>1. /\ ArtMethod!Size(device) \in Int /\ r.flags = device.flagsAt /\ r.class = 0 /\ r.data = ArtMethod!Size(device) - 2 * device.ptr
        /\ r.flags \in 1..(ArtMethod!Size(device) - 1) /\ r.entry \in 1..(ArtMethod!Size(device) - 1) /\ r.interpreter \in 0..(ArtMethod!Size(device) - 1)
    BY <1>2, RealGives
  <2>2. device.ptr \in {1, 2} BY <1>2, DeviceGives
  <2> QED BY <2>1, <2>2
<1> HIDE DEF r
<1>4. /\ layout' \in Fields /\ layout'.class = 0 /\ layout'.size = layout.size /\ layout'.entry = r.entry /\ layout'.data = r.data
      /\ layout'.preCompiled = layout.preCompiled /\ layout'.fast = layout.fast
      /\ layout'.dontBother = layout.dontBother /\ layout'.intrinsic = layout.intrinsic
      /\ layout'.interpreter = IF device.sdk = 21 THEN r.interpreter ELSE 0
      /\ layout'.flags # r.flags => r.flags # 1 /\ (device.hidden \/ device.twin \in 0..r.flags - 1)
  <2>d. device.sdk \in Nat BY <1>2, DeviceGives
  <2>1. CASE device.sdk >= 23
    <3> DEFINE hits == {i \in 0..layout.size - 1 : ~device.hidden /\ method.first[i] = method.first[device.flagsAt]}
               x == ArtMethod!FlagsOffset(hits)
    <3>1. layout' = [layout EXCEPT !.flags = x] BY <2>1 DEF ArtMethod!InitOffsets, ArtMethod!kSdkMarshmallow
    <3>2. hits = {i \in Offsets : ~device.hidden /\ method.first[i] = method.first[device.flagsAt]} BY <1>2 DEF Offsets
    <3> HIDE DEF hits
    <3>3. x \in Int /\ (x # device.flagsAt => device.flagsAt # 1 /\ (device.hidden \/ device.twin \in 0..device.flagsAt - 1))
      BY <1>2, <3>2, FlagsFound
    <3> HIDE DEF x
    <3>4. layout'.flags = x /\ layout' \in Fields BY <1>2, <3>1, <3>3 DEF Fields
    <3> QED BY <1>2, <1>3, <2>d, <2>1, <3>1, <3>3, <3>4 DEF Fields
  <2>2. CASE ~(device.sdk >= 23)
    <3>1. layout' = [layout EXCEPT !.flags = r.flags, !.class = r.class,
                             !.entry = IF device.sdk = 21 THEN r.entry ELSE @,
                             !.data = IF device.sdk = 21 THEN r.data ELSE @,
                             !.interpreter = IF device.sdk = 21 THEN r.interpreter ELSE @]
      BY <2>2 DEF ArtMethod!InitOffsets, ArtMethod!kSdkMarshmallow, ArtMethod!kSdkLollipop, r
    <3>2. CASE device.sdk = 21
      <4>1. layout' = [layout EXCEPT !.flags = r.flags, !.class = r.class, !.entry = r.entry, !.data = r.data,
                                     !.interpreter = r.interpreter]
        BY <3>1, <3>2
      <4>2. layout' \in Fields BY <1>2, <1>3, <4>1 DEF Fields
      <4>3. /\ layout'.class = 0 /\ layout'.size = layout.size /\ layout'.entry = r.entry /\ layout'.data = r.data
            /\ layout'.flags = r.flags /\ layout'.interpreter = r.interpreter
        BY <1>2, <1>3, <4>1 DEF Fields
      <4>4. /\ layout'.preCompiled = layout.preCompiled /\ layout'.fast = layout.fast
            /\ layout'.dontBother = layout.dontBother /\ layout'.intrinsic = layout.intrinsic
        BY <1>2, <4>1 DEF Fields
      <4> QED BY <3>2, <4>2, <4>3, <4>4
    <3>3. CASE device.sdk # 21
      <4>1. layout' = [layout EXCEPT !.flags = r.flags, !.class = r.class] BY <1>2, <3>1, <3>3 DEF Fields
      <4> QED BY <1>2, <1>3, <3>3, <4>1 DEF Fields
    <3> QED BY <3>2, <3>3
  <2> QED BY <2>1, <2>2
<1>5. BitsApart' BY <1>2, <1>4 DEF BitsApart
<1>6. MethodLaid' BY <1>1, <1>2, <1>4 DEF MethodLaid, Setup, InUse, r
<1> QED BY <1>1, <1>4, <1>5, <1>6, SetupStep DEF MethodInv, Setup

\* ArtMethod::Init: the flags of the version.
LEMMA InitFlagsStep == ASSUME MethodInv, ArtMethod!InitFlags PROVE MethodInv'
<1> DEFINE sdk == device.sdk
           p == IF sdk < 30 THEN {} ELSE IF sdk >= 31 THEN {23} ELSE layout.preCompiled
           f == IF sdk < 29 THEN {} ELSE layout.fast
           i == IF sdk < 26 THEN {} ELSE layout.intrinsic
           d == IF sdk < 24 THEN {} ELSE IF sdk <= 26 /\ device.throws # "other" THEN {24} ELSE layout.dontBother
<1>1. layoutStep = "flags" /\ layoutStep' = "bridge" /\ UNCHANGED <<device, method, was>>
  BY DEF ArtMethod!InitFlags, ArtMethod!Then, ArtMethod!Found
<1>2. layout \in Fields /\ BitsApart BY DEF MethodInv, MethodTyped
<1>3. layout' = [layout EXCEPT !.preCompiled = p, !.fast = f, !.intrinsic = i, !.dontBother = d]
  BY DEF ArtMethod!InitFlags, ArtMethod!kSdkR, ArtMethod!kSdkS, ArtMethod!kSdkQ, ArtMethod!kSdkOreo, ArtMethod!kSdkNougat,
         ArtMethod!kAccDefaultConflict
<1>a. p \in {layout.preCompiled, {}, {23}} /\ f \in {layout.fast, {}} /\ i \in {layout.intrinsic, {}}
      /\ d \in {layout.dontBother, {}, {24}}
  OBVIOUS
<1>b. p \in SUBSET Int /\ f \in SUBSET Int /\ i \in SUBSET Int /\ d \in SUBSET Int BY <1>2, <1>a DEF Fields
<1> HIDE DEF sdk, p, f, i, d
<1>4. /\ layout' \in Fields /\ layout'.class = layout.class /\ layout'.size = layout.size /\ layout'.entry = layout.entry
      /\ layout'.data = layout.data /\ layout'.interpreter = layout.interpreter /\ layout'.flags = layout.flags
      /\ layout'.preCompiled \in {layout.preCompiled, {}, {23}} /\ layout'.fast \in {layout.fast, {}}
      /\ layout'.intrinsic \in {layout.intrinsic, {}} /\ layout'.dontBother \in {layout.dontBother, {}, {24}}
  BY <1>2, <1>3, <1>a, <1>b DEF Fields
<1>5. BitsApart' BY <1>2, <1>4 DEF BitsApart
<1>6. MethodLaid' BY <1>1, <1>4 DEF MethodInv, MethodLaid, Setup, InUse
<1> QED BY <1>1, <1>4, <1>5, <1>6, SetupStep DEF MethodInv, Setup

\* ArtMethod::Init: the bridge of old versions.
LEMMA InitBridgeStep == ASSUME MethodInv, ArtMethod!InitBridge PROVE MethodInv'
<1> DEFINE r == ArtMethod!Real(device)
<1>1. layoutStep = "bridge" /\ layoutStep' = "ready" /\ UNCHANGED <<device, method, was>>
  BY DEF ArtMethod!InitBridge, ArtMethod!Then, ArtMethod!Found
<1>2. /\ device \in ArtMethod!Devices /\ layout \in Fields /\ BitsApart /\ layout.entry = r.entry
      /\ layout.interpreter = IF device.sdk = 21 THEN r.interpreter ELSE 0
  BY <1>1 DEF MethodInv, MethodTyped, MethodLaid
<1>3. /\ device.sdk \in Nat /\ device.sdk >= 21 /\ device.ptr \in {1, 2} /\ ArtMethod!Size(device) \in Int
      /\ r.entry = ArtMethod!Size(device) - device.ptr
      /\ r.interpreter = IF device.sdk <= 23 THEN ArtMethod!Size(device) - 3 * device.ptr ELSE 0
  BY <1>2, RealGives, DeviceGives
<1>4. IF device.sdk <= 23 /\ device.sdk >= 22
      THEN layout' = [layout EXCEPT !.interpreter = layout.entry - 2 * device.ptr] ELSE layout' = layout
  BY DEF ArtMethod!InitBridge, ArtMethod!kSdkMarshmallow, ArtMethod!kSdkLollipopMr1
<1> HIDE DEF r
<1>5. /\ layout' \in Fields /\ layout'.class = layout.class /\ layout'.size = layout.size /\ layout'.entry = layout.entry
      /\ layout'.data = layout.data /\ layout'.interpreter = r.interpreter /\ layout'.flags = layout.flags
      /\ layout'.preCompiled = layout.preCompiled /\ layout'.fast = layout.fast
      /\ layout'.intrinsic = layout.intrinsic /\ layout'.dontBother = layout.dontBother
  <2>1. CASE device.sdk <= 23 /\ device.sdk >= 22
    <3>1. layout' = [layout EXCEPT !.interpreter = layout.entry - 2 * device.ptr] BY <1>4, <2>1
    <3>2. layout.entry - 2 * device.ptr = r.interpreter /\ r.interpreter \in Int
      <4>1. CASE device.ptr = 1 BY <1>2, <1>3, <2>1, <4>1
      <4>2. CASE device.ptr = 2 BY <1>2, <1>3, <2>1, <4>2
      <4> QED BY <1>3, <4>1, <4>2
    <3> QED BY <1>2, <3>1, <3>2 DEF Fields
  <2>2. CASE ~(device.sdk <= 23 /\ device.sdk >= 22)
    <3>1. layout' = layout BY <1>4, <2>2
    <3>2. layout.interpreter = r.interpreter BY <1>2, <1>3, <2>2
    <3> QED BY <1>2, <3>1, <3>2
  <2> QED BY <2>1, <2>2
<1>6. BitsApart' BY <1>2, <1>5 DEF BitsApart
<1>7. MethodLaid' BY <1>1, <1>5 DEF MethodInv, MethodLaid, Setup, InUse, r
<1> QED BY <1>1, <1>5, <1>6, <1>7, SetupStep DEF MethodInv, Setup
-----------------------------------------------------------------------------
(* The functions of a method.                                              *)

\* n is m with the access flags f.
Flagged(m, f, n) ==
    /\ Memory(n) /\ \A i \in Offsets \ {layout.flags} : n[i] = m[i]
    /\ layout.flags \in Offsets => n[layout.flags] = f

\* SetAccessFlags writes one field.
LEMMA SetAccessFlagsGives ==
    ASSUME NEW m, Memory(m), NEW f PROVE Flagged(m, f, ArtMethod!SetAccessFlags(m, f))
<1> DEFINE n == ArtMethod!SetAccessFlags(m, f)
<1>1. DOMAIN m = Offsets /\ n = [m EXCEPT ![layout.flags] = f] BY DEF Memory, ArtMethod!SetAccessFlags
<1>2. n = [o \in Offsets |-> IF o = layout.flags THEN f ELSE m[o]] BY <1>1
<1> QED BY <1>2 DEF Flagged, Memory

\* CopyFrom copies all of a method if the size is right.
LEMMA CopyFromGives ==
    ASSUME NEW m, Memory(m), NEW other, Memory(other), layout.size = ArtMethod!Size(device), layout.size \in Int
    PROVE  ArtMethod!CopyFrom(m, other) = other
<1>1. DOMAIN m = Offsets /\ \A o \in Offsets : o < layout.size BY DEF Memory, Offsets
<1>2. ArtMethod!CopyFrom(m, other) = [o \in Offsets |-> other[o]] BY <1>1 DEF ArtMethod!CopyFrom
<1> QED BY <1>2 DEF Memory

\* The bits of the version are apart from each other and from the modifiers.
LEMMA BitsGive ==
    ASSUME BitsApart
    PROVE  /\ layout.dontBother \cap (layout.preCompiled \cup layout.fast \cup layout.intrinsic) = {}
           /\ \A b \in 0..4 : b \notin Bits
<1>1. \A b \in layout.dontBother : b \in {24, 25} BY DEF BitsApart
<1>2. \A b \in layout.preCompiled : b \in {21, 23} BY DEF BitsApart
<1>3. \A b \in layout.fast : b = 30 BY DEF BitsApart
<1>4. \A b \in layout.intrinsic : b = 31 BY DEF BitsApart
<1> QED BY <1>1, <1>2, <1>3, <1>4 DEF Bits

\* The flags that hooking leaves.
HookedFlags(f0, f2, f4, f5) ==
    /\ FlagsKept(f4, f0) /\ layout.fast \cap f4 = {}
    /\ layout.dontBother \subseteq f2 /\ (3 \in f2 <=> 3 \in f0)
    /\ layout.dontBother \subseteq f5 /\ f5 \cap 0..2 = {1}
\* What DoHook makes of the flags of target, backup and original.
LEMMA HookFlags ==
    ASSUME BitsApart, NEW f0, NEW f1, f1 = f0 \ layout.intrinsic,
           NEW f2, f2 = (f1 \cup layout.dontBother) \ layout.preCompiled,
           NEW f3, f3 = f2 \ layout.fast,
           NEW f4, f4 = (f3 \cup layout.dontBother) \ layout.preCompiled,
           NEW f5, f5 = (f2 \cup {1}) \ {2, 0}
    PROVE  HookedFlags(f0, f2, f4, f5)
<1>1. /\ layout.dontBother \cap (layout.preCompiled \cup layout.fast \cup layout.intrinsic) = {}
      /\ 0 \notin Bits /\ 1 \notin Bits /\ 2 \notin Bits /\ 3 \notin Bits
  <2>1. 0 \in 0..4 /\ 1 \in 0..4 /\ 2 \in 0..4 /\ 3 \in 0..4 OBVIOUS
  <2> QED BY <2>1, BitsGive
<1>2. f4 \ Bits = f0 \ Bits BY DEF Bits
<1>3. layout.dontBother \subseteq f4 /\ (layout.preCompiled \cup layout.intrinsic) \cap f4 = {} /\ layout.fast \cap f4 = {} BY <1>1
<1>4. layout.dontBother \subseteq f2 /\ (3 \in f2 <=> 3 \in f0) BY <1>1 DEF Bits
<1>5. layout.dontBother \subseteq f5 BY <1>1, <1>4 DEF Bits
<1>6. f5 \cap 0..2 = {1}
  <2>1. 0..2 = {0, 1, 2} OBVIOUS
  <2> QED BY <2>1
<1> QED BY <1>2, <1>3, <1>4, <1>5, <1>6 DEF FlagsKept, HookedFlags

\* A step that changes the methods.
LEMMA UseStep ==
    ASSUME MethodInv, layoutStep \in InUse, UNCHANGED <<device, layout>>, layoutStep' \in InUse \ {"ready"},
           method' = [target |-> method'.target, backup |-> method'.backup, first |-> method'.first],
           Memory(method'.target), Memory(method'.backup), MethodDone'
    PROVE  MethodInv'
<1>1. MethodTyped' BY DEF MethodInv, MethodTyped, Memory, Offsets, BitsApart
<1>2. MethodLaid' BY DEF MethodInv, MethodLaid, Setup, InUse
<1> QED BY <1>1, <1>2 DEF MethodInv

\* DoHook.
LEMMA DoHookStep == ASSUME MethodInv, ArtMethod!DoHook PROVE MethodInv'
<1> DEFINE r == ArtMethod!Real(device)
           m0 == method.target
           m1 == ArtMethod!SetNonIntrinsic(m0)
           m2 == ArtMethod!SetNonCompilable(m1)
           b2 == ArtMethod!CopyFrom(method.backup, m2)
           m3 == ArtMethod!ClearFastInterpretFlag(m2)
           m4 == ArtMethod!SetNonCompilable(m3)
           t == ArtMethod!SetEntryPoint(m4, "trampoline")
           b == IF 3 \in ArtMethod!GetAccessFlags(b2) THEN b2 ELSE ArtMethod!SetPrivate(b2)
<1>1. /\ layoutStep = "ready" /\ layoutStep' = "hooked" /\ UNCHANGED <<device, layout>> /\ was' = m0
      /\ method' = [method EXCEPT !.target = t, !.backup = b]
  BY DEF ArtMethod!DoHook, ArtMethod!Then, ArtMethod!BackupTo, ArtMethod!kAccStatic
<1>2. /\ device \in ArtMethod!Devices /\ layout \in Fields /\ BitsApart /\ Memory(m0) /\ Memory(method.backup)
      /\ method = [target |-> method.target, backup |-> method.backup, first |-> method.first]
      /\ layout.size = ArtMethod!Size(device) /\ layout.entry = r.entry /\ layout.interpreter = r.interpreter
  BY <1>1 DEF MethodInv, MethodTyped, MethodLaid, InUse
<1>3. /\ r.flags \in Offsets /\ r.entry \in Offsets /\ r.interpreter \in Offsets /\ r.flags \in Int /\ r.flags # 0 /\ r.entry # 0
      /\ r.flags # r.entry /\ r.flags # r.interpreter /\ r.entry # r.interpreter /\ Offsets \subseteq Int
  <2>1. /\ ArtMethod!Size(device) \in Int
        /\ r.flags \in 1..(ArtMethod!Size(device) - 1) /\ r.entry \in 1..(ArtMethod!Size(device) - 1)
        /\ r.interpreter \in 0..(ArtMethod!Size(device) - 1)
        /\ r.flags # r.entry /\ r.flags # r.interpreter /\ r.entry # r.interpreter
    BY <1>2, RealGives
  <2> QED BY <2>1 DEF Offsets
<1> DEFINE F(m) == ArtMethod!GetAccessFlags(m)
           f1 == F(m0) \ layout.intrinsic
           f2 == (F(m1) \cup layout.dontBother) \ layout.preCompiled
           f3 == F(m2) \ layout.fast
           f4 == (F(m3) \cup layout.dontBother) \ layout.preCompiled
           f5 == (F(b2) \cup {1}) \ {2, 0}
<1>4. Flagged(m0, f1, m1) BY <1>2, SetAccessFlagsGives DEF ArtMethod!SetNonIntrinsic
<1>5. Flagged(m1, f2, m2) BY <1>4, SetAccessFlagsGives DEF ArtMethod!SetNonCompilable, Flagged
<1>6. b2 = m2
  <2>1. Memory(m2) BY <1>5 DEF Flagged
  <2>2. layout.size \in Int BY <1>2 DEF Fields
  <2> QED BY <1>2, <2>1, <2>2, CopyFromGives
<1>7. Flagged(m2, f3, m3) BY <1>5, SetAccessFlagsGives DEF ArtMethod!ClearFastInterpretFlag, Flagged
<1>8. Flagged(m3, f4, m4)
  <2>1. Memory(m3) BY <1>7 DEF Flagged
  <2> HIDE DEF m3
  <2> QED BY <2>1, SetAccessFlagsGives DEF ArtMethod!SetNonCompilable
<1>9. Flagged(m2, f5, ArtMethod!SetPrivate(b2))
  BY <1>5, <1>6, SetAccessFlagsGives DEF ArtMethod!SetPrivate, Flagged, ArtMethod!kAccPrivate, ArtMethod!kAccProtected, ArtMethod!kAccPublic
<1>10. t = [o \in Offsets |-> IF o = layout.entry THEN "trampoline"
                              ELSE IF layout.interpreter # 0 /\ o = layout.interpreter THEN "bridge" ELSE m4[o]]
  <2>1. DOMAIN m4 = Offsets BY <1>8 DEF Flagged, Memory
  <2> HIDE DEF m4
  <2> QED BY <2>1 DEF ArtMethod!SetEntryPoint
<1>11. b = IF 3 \in F(m2) THEN m2 ELSE ArtMethod!SetPrivate(b2) BY <1>6
<1> DEFINE sp == ArtMethod!SetPrivate(b2)
<1>12. \A m : F(m) = m[layout.flags] BY DEF ArtMethod!GetAccessFlags
<1> HIDE DEF m0, m1, m2, m3, m4, b2, t, b, sp, F, r
<1>13. Memory(t) BY <1>10 DEF Memory
<1>14. Memory(b) BY <1>5, <1>9, <1>11 DEF Flagged, sp
<1>15. /\ method'.target = t /\ method'.backup = b
       /\ method' = [target |-> method'.target, backup |-> method'.backup, first |-> method'.first]
  BY <1>1, <1>2
<1>16. ASSUME layout.flags = r.flags PROVE HookDone(t, b, m0, r)
  <2>1. F(m1) = f1 /\ F(m2) = f2 /\ F(m3) = f3 /\ F(m4) = f4 /\ F(sp) = f5
    BY <1>3, <1>4, <1>5, <1>7, <1>8, <1>9, <1>12, <1>16 DEF Flagged, sp
  <2> HIDE DEF f1, f2, f3, f4, f5
  <2>2. f1 = F(m0) \ layout.intrinsic /\ f2 = (f1 \cup layout.dontBother) \ layout.preCompiled
    BY <2>1 DEF f1, f2
  <2>3. f3 = f2 \ layout.fast /\ f4 = (f3 \cup layout.dontBother) \ layout.preCompiled BY <2>1 DEF f3, f4
  <2>4. f5 = (f2 \cup {1}) \ {2, 0} BY <1>6, <2>1 DEF f5
  <2>5. /\ FlagsKept(f4, F(m0)) /\ layout.fast \cap f4 = {}
        /\ layout.dontBother \subseteq f2 /\ (3 \in f2 <=> 3 \in F(m0))
        /\ layout.dontBother \subseteq f5 /\ f5 \cap 0..2 = {1}
    <3>1. HookedFlags(F(m0), f2, f4, f5) BY <1>2, <2>2, <2>3, <2>4, HookFlags
    <3> QED BY <3>1 DEF HookedFlags
  <2>6. t[r.entry] = "trampoline" /\ (r.interpreter # 0 => t[r.interpreter] = "bridge") BY <1>2, <1>3, <1>10
  <2>7. t[r.flags] = f4 BY <1>2, <1>3, <1>10, <1>12, <1>16, <2>1
  <2>8. \A i \in Offsets \ {r.flags} : m4[i] = m0[i] /\ m2[i] = m0[i] /\ sp[i] = m0[i]
    BY <1>4, <1>5, <1>7, <1>8, <1>9, <1>16 DEF Flagged, sp
  <2>9. SameBut(t, m0, {r.entry, r.flags, r.interpreter} \ {0})
    <3> SUFFICES ASSUME NEW i \in Offsets \ ({r.entry, r.flags, r.interpreter} \ {0}) PROVE t[i] = m0[i] BY DEF SameBut
    <3>1. i # r.flags /\ i # r.entry /\ (r.interpreter # 0 => i # r.interpreter) BY <1>3
    <3> QED BY <1>2, <1>10, <2>8, <3>1
  <2>10. SameBut(b, m0, {r.flags}) BY <1>11, <2>8 DEF SameBut, sp
  <2>11. b[r.flags] = IF 3 \in f2 THEN f2 ELSE f5 BY <1>11, <1>12, <1>16, <2>1 DEF sp
  <2>12. m0[r.flags] = F(m0) BY <1>12, <1>16
  <2> QED BY <2>5, <2>6, <2>7, <2>9, <2>10, <2>11, <2>12 DEF HookDone
<1>17. MethodDone'
  <2>1. (layout.flags = ArtMethod!Real(device).flags => HookDone(method.target, method.backup, was, ArtMethod!Real(device)))'
    BY <1>1, <1>15, <1>16 DEF HookDone, SameBut, FlagsKept, Bits, Offsets, r
  <2> QED BY <1>1, <2>1 DEF MethodDone
<1> QED BY <1>1, <1>13, <1>14, <1>15, <1>17, UseStep DEF InUse
\* DoUnHook.
LEMMA DoUnHookStep == ASSUME MethodInv, ArtMethod!DoUnHook PROVE MethodInv'
<1> DEFINE r == ArtMethod!Real(device)
           c == ArtMethod!CopyFrom(method.target, method.backup)
           f == ArtMethod!GetAccessFlags(method.target)
           t == ArtMethod!SetAccessFlags(c, f)
<1>1. /\ layoutStep = "hooked" /\ layoutStep' = "unhooked" /\ UNCHANGED <<device, layout, was>>
      /\ method' = [method EXCEPT !.target = t]
  BY DEF ArtMethod!DoUnHook, ArtMethod!Then
<1>2. /\ device \in ArtMethod!Devices /\ layout \in Fields /\ Memory(method.target) /\ Memory(method.backup)
      /\ method = [target |-> method.target, backup |-> method.backup, first |-> method.first]
      /\ layout.size = ArtMethod!Size(device)
  BY <1>1 DEF MethodInv, MethodTyped, MethodLaid, InUse
<1>3. r.flags \in Offsets
  <2>1. r.flags \in 1..(ArtMethod!Size(device) - 1) /\ ArtMethod!Size(device) \in Int BY <1>2, RealGives
  <2> QED BY <2>1 DEF Offsets
<1>4. c = method.backup
  <2>1. layout.size \in Int BY <1>2 DEF Fields
  <2> QED BY <1>2, <2>1, CopyFromGives
<1>5. f = method.target[layout.flags] BY DEF ArtMethod!GetAccessFlags
<1> HIDE DEF c, f, r
<1>6. Flagged(method.backup, f, t) BY <1>2, <1>4, SetAccessFlagsGives
<1> HIDE DEF t
<1>7. /\ method'.target = t /\ method'.backup = method.backup
      /\ method' = [target |-> method'.target, backup |-> method'.backup, first |-> method'.first]
  BY <1>1, <1>2
<1>8. Memory(t) BY <1>6 DEF Flagged
<1>9. ASSUME layout.flags = r.flags PROVE SameBut(t, was, {r.flags}) /\ FlagsKept(t[r.flags], was[r.flags])
  <2>1. HookDone(method.target, method.backup, was, r) BY <1>1, <1>9 DEF MethodInv, MethodDone, r
  <2>2. t[r.flags] = method.target[r.flags] BY <1>3, <1>5, <1>6, <1>9 DEF Flagged
  <2>3. SameBut(t, was, {r.flags}) BY <1>6, <1>9, <2>1 DEF Flagged, HookDone, SameBut
  <2> QED BY <2>1, <2>2, <2>3 DEF HookDone
<1>10. MethodDone'
  <2>1. (layout.flags = ArtMethod!Real(device).flags =>
           SameBut(method.target, was, {ArtMethod!Real(device).flags})
           /\ FlagsKept(method.target[ArtMethod!Real(device).flags], was[ArtMethod!Real(device).flags]))'
    BY <1>1, <1>7, <1>9 DEF SameBut, FlagsKept, Bits, Offsets, r
  <2> QED BY <1>1, <2>1 DEF MethodDone
<1> QED BY <1>1, <1>2, <1>7, <1>8, <1>10, UseStep DEF InUse

\* MakeClassInheritable: a constructor is opened.
LEMMA MakeClassInheritableStep == ASSUME MethodInv, ArtMethod!MakeClassInheritable PROVE MethodInv'
<1> DEFINE r == ArtMethod!Real(device)
           m == method.target
           f == ArtMethod!GetAccessFlags(m)
           n == IF f \cap {0, 2} = {} THEN ArtMethod!SetProtected(m) ELSE m
           t == IF 4 \in f THEN ArtMethod!SetNonFinal(n) ELSE n
           g == IF f \cap {0, 2} = {} THEN (f \cup {2}) \ {1, 0} ELSE f
<1>1. /\ layoutStep = "ready" /\ layoutStep' = "inheritable" /\ UNCHANGED <<device, layout>> /\ was' = m
      /\ method' = [method EXCEPT !.target = t]
  BY DEF ArtMethod!MakeClassInheritable, ArtMethod!Then, ArtMethod!Inheritable, ArtMethod!kAccFinal, ArtMethod!kAccPublic,
         ArtMethod!kAccProtected
<1>2. /\ device \in ArtMethod!Devices /\ Memory(m) /\ Memory(method.backup) /\ 1 \notin m[r.flags]
      /\ method = [target |-> method.target, backup |-> method.backup, first |-> method.first]
  BY <1>1 DEF MethodInv, MethodTyped, MethodLaid, InUse, Setup
<1>3. r.flags \in Offsets
  <2>1. r.flags \in 1..(ArtMethod!Size(device) - 1) /\ ArtMethod!Size(device) \in Int BY <1>2, RealGives
  <2> QED BY <2>1 DEF Offsets
<1>4. f = m[layout.flags] /\ ArtMethod!GetAccessFlags(n) = n[layout.flags] BY DEF ArtMethod!GetAccessFlags
<1>5. Flagged(m, g, n)
  <2>1. Flagged(m, (f \cup {2}) \ {1, 0}, ArtMethod!SetProtected(m))
    BY <1>2, SetAccessFlagsGives DEF ArtMethod!SetProtected, ArtMethod!kAccPrivate, ArtMethod!kAccProtected, ArtMethod!kAccPublic
  <2>2. Flagged(m, f, m) BY <1>2, <1>4 DEF Flagged
  <2> QED BY <2>1, <2>2
<1> HIDE DEF f, g, m, n, r
<1>6. Flagged(n, n[layout.flags] \ {4}, ArtMethod!SetNonFinal(n))
  <2>1. Memory(n) BY <1>5 DEF Flagged
  <2>2. ArtMethod!SetNonFinal(n) = ArtMethod!SetAccessFlags(n, n[layout.flags] \ {4})
    BY <1>4 DEF ArtMethod!SetNonFinal, ArtMethod!kAccFinal
  <2> QED BY <2>1, <2>2, SetAccessFlagsGives
<1>7. Memory(t) BY <1>5, <1>6 DEF Flagged
<1>8. ASSUME layout.flags = r.flags PROVE OpenDone(t, m, r)
  <2>1. n[r.flags] = g /\ \A i \in Offsets \ {r.flags} : n[i] = m[i] BY <1>3, <1>5, <1>8 DEF Flagged
  <2>2. /\ t[r.flags] = (IF 4 \in f THEN g \ {4} ELSE g)
        /\ \A i \in Offsets \ {r.flags} : t[i] = m[i]
    BY <1>3, <1>6, <1>8, <2>1 DEF Flagged
  <2>3. f = m[r.flags] /\ 1 \notin f BY <1>2, <1>4, <1>8
  <2>4. g \cap {0, 2} # {} /\ 1 \notin g /\ (4 \in g => 4 \in f) BY <2>3 DEF g
  <2>5. t[r.flags] \cap {0, 2} # {} /\ {1, 4} \cap t[r.flags] = {} BY <2>2, <2>4
  <2> QED BY <2>2, <2>5 DEF OpenDone, SameBut
<1> HIDE DEF t
<1>9. /\ method'.target = t /\ method'.backup = method.backup
      /\ method' = [target |-> method'.target, backup |-> method'.backup, first |-> method'.first]
  BY <1>1, <1>2
<1>10. MethodDone'
  <2>1. (layout.flags = ArtMethod!Real(device).flags => OpenDone(method.target, was, ArtMethod!Real(device)))'
    BY <1>1, <1>8, <1>9 DEF OpenDone, SameBut, Offsets, r
  <2> QED BY <1>1, <2>1 DEF MethodDone
<1> QED BY <1>1, <1>2, <1>7, <1>9, <1>10, UseStep DEF InUse

\* Every step keeps the invariant.
LEMMA MethodStep == ASSUME MethodInv, ArtMethod!Next PROVE MethodInv'
BY InitSizeStep, InitOffsetsStep, InitFlagsStep, InitBridgeStep, DoHookStep, DoUnHookStep, MakeClassInheritableStep
   DEF ArtMethod!Next

\* On every device ArtMethod::Init finds the offsets ART has, and BackupTo, DoHook,
\* DoUnHook and MakeClassInheritable change the fields they mean to and no other.
THEOREM MethodsIntact == LsplantSpec => []MethodIntact
<1> DEFINE all == <<vars, part, initPart, methodPart, stubPart, jniPart>>
<1>1. LsplantStart => (part = "method" => MethodInv)
  BY MethodStart DEF LsplantStart
<1>2. (part = "method" => MethodInv) /\ [LsplantNext]_all => (part = "method" => MethodInv)'
  <2> SUFFICES ASSUME part = "method" => MethodInv, [LsplantNext]_all, part' = "method" PROVE MethodInv'
    OBVIOUS
  <2>1. CASE UNCHANGED all
    BY <2>1 DEF methodPart, MethodInv, MethodTyped, MethodLaid, MethodDone, Memory, Offsets, BitsApart, HookDone, OpenDone,
                SameBut, FlagsKept, Bits
  <2>2. CASE LsplantNext
    <3>1. part = "method" BY <2>2 DEF LsplantNext
    <3>2. ArtMethod!Next BY <2>2, <3>1 DEF LsplantNext
    <3> QED BY <3>1, <3>2, MethodStep
  <2> QED BY <2>1, <2>2
<1>3. (part = "method" => MethodInv) => MethodIntact BY MethodImplies DEF MethodIntact
<1> QED BY <1>1, <1>2, <1>3, PTL DEF LsplantSpec

-----------------------------------------------------------------------------
(* lsplant::Init.                                                          *)

sdk == phone.sdk
Gone(s) == LsplantInit!Gone(s)
Dummy == Gone("SetEntryPointsToInterpreter") /\ ~(Gone("GetOptimizedCodeFor") /\ Gone("GetOptimizedCodeForL"))
Lacks ==
    /\ phone.missing \in DOMAIN LsplantInit!JavaItems /\ sdk \in LsplantInit!JavaItems[phone.missing]
    /\ phone.missing \in {"Object", "equals"} => Dummy
With(use) == IF use \subseteq LsplantInit!Families["interpreter"] THEN LsplantInit!Families["interpreter"] ELSE use
Excused == Lacks \/ ~phone.up \/ phone.stateAt = 0 \/ \E use \in LsplantInit!Uses : \A s \in With(use) : Gone(s)

\* The families that matter below.
Register == {"RegisterNativeClassLinker", "RegisterNative", "RegisterNativeFast", "RegisterNativeThread"}
Unregister == {"UnregisterNativeClassLinker", "UnregisterNative", "UnregisterNativeFast", "UnregisterNativeThread"}
Interpreter == {"SetEntryPointsToInterpreter", "GetOptimizedCodeFor", "GetOptimizedCodeForL",
                "art_quick_to_interpreter_bridge"}
Status == {"SetClassStatus", "SetStatus", "TrivialSetStatus", "ClassSetStatus"}
Collect == {"GarbageCollectCache", "DoCollection"}
Reinit == {"ReinitializeMethodsCode", "InitializeMethodsCode", "UpdateMethodsCodeToInterpreterEntryPoint"}
OpenMem == {"OpenMemory", "OpenMemoryRaw", "OpenMemoryWithoutOdex"}
Suspend == {"ScopedSuspendAllC2", "ScopedSuspendAllD2", "SuspendVM", "ResumeVM"}
Shorty == {"GetMethodShortyL", "GetMethodShorty"}
Debug == {"SetJavaDebuggable", "SetRuntimeDebugState"}
Single == {"art_interpreter_to_compiled_code_bridge", "CurrentFromGdb", "GetClassDef", "instance",
           "ScopedGCCriticalSectionC2", "ScopedGCCriticalSectionD2", "MoveObsoleteMethod"}
Needed == Register \cup Unregister \cup Interpreter \cup Status \cup Collect \cup Reinit \cup OpenMem \cup Suspend
          \cup Shorty \cup Debug \cup Single

\* The families by name.
LEMMA FamiliesGive ==
    /\ LsplantInit!Families["register"] = Register /\ LsplantInit!Families["unregister"] = Unregister
    /\ LsplantInit!Families["interpreter"] = Interpreter /\ LsplantInit!Families["status"] = Status
    /\ LsplantInit!Families["jitCollect"] = Collect
    /\ LsplantInit!Families["instrumentation"] = Reinit /\ LsplantInit!Families["openMemory"] = OpenMem
    /\ LsplantInit!Families["suspend"] = Suspend
BY DEF LsplantInit!Families, Register, Unregister, Interpreter, Status, Collect, Reinit, OpenMem, Suspend

\* The families of one use.
LEMMA FamiliesOther ==
    /\ LsplantInit!Families["shorty"] = Shorty
    /\ LsplantInit!Families["runtime"] = {"instance", "SetJavaDebuggable", "SetRuntimeDebugState"}
    /\ LsplantInit!Families["compiledBridge"] = {"art_interpreter_to_compiled_code_bridge"}
    /\ LsplantInit!Families["thread"] = {"CurrentFromGdb"} /\ LsplantInit!Families["classDef"] = {"GetClassDef"}
    /\ LsplantInit!Families["gc"] = {"ScopedGCCriticalSectionC2", "ScopedGCCriticalSectionD2"}
    /\ LsplantInit!Families["jitMove"] = {"MoveObsoleteMethod"}
BY DEF LsplantInit!Families, Shorty

\* The names of the families.
LEMMA FamilyNames ==
    {"register", "unregister", "interpreter", "status", "jitCollect", "instrumentation", "openMemory", "suspend",
     "shorty", "runtime", "compiledBridge", "thread", "classDef", "gc", "jitMove"} \subseteq DOMAIN LsplantInit!Families
BY DEF LsplantInit!Families

\* What is needed is looked up.
LEMMA NeededSymbols == Needed \subseteq LsplantInit!Symbols
<1> SUFFICES ASSUME NEW s \in Needed PROVE \E f \in DOMAIN LsplantInit!Families : s \in LsplantInit!Families[f]
  BY DEF LsplantInit!Symbols
<1>1. CASE s \in Register \cup Unregister \cup Interpreter \cup Status \cup Collect \cup Reinit \cup OpenMem \cup Suspend
  BY <1>1, FamiliesGive, FamilyNames
<1>2. CASE s \in Shorty \cup Debug \cup Single
  BY <1>2, FamiliesOther, FamilyNames DEF Debug, Single
<1> QED BY <1>1, <1>2 DEF Needed

-----------------------------------------------------------------------------
(* The resolver.                                                           *)

\* A device: where its symbols may be.
PhoneOk ==
    /\ sdk \in InitSdks /\ (phone.debuggable => sdk >= 28) /\ phone.stateAt \in {0, 8} /\ phone.up \in BOOLEAN
    /\ \A s \in LsplantInit!Symbols :
         /\ phone.place[s] \in LsplantInit!Places
         /\ phone.place[s] = "suffixed" => s \in LsplantInit!Suffixed
    /\ phone.missing \in DOMAIN LsplantInit!JavaItems \cup {"none"}

\* Where the symbols of one family may be.
LEMMA SpreadGives ==
    ASSUME NEW f \in DOMAIN LsplantInit!Families, NEW pl \in LsplantInit!Spread(f)
    PROVE  \A s \in LsplantInit!Symbols : pl[s] \in LsplantInit!Places /\ (pl[s] = "suffixed" => s \in LsplantInit!Suffixed)
<1> DEFINE F == LsplantInit!Families[f]
<1>1. PICK p \in {q \in [F -> LsplantInit!Places] : \A s \in F : q[s] \in LsplantInit!PlacesOf(s)} :
        pl = [s \in LsplantInit!Symbols |-> IF LsplantInit!SymbolOf(s) \in F THEN p[LsplantInit!SymbolOf(s)] ELSE "dynsym"]
  BY DEF LsplantInit!Spread
<1>2. \A s \in F : p[s] \in LsplantInit!Places /\ p[s] \in LsplantInit!PlacesOf(s) BY <1>1
<1>3. \A s \in LsplantInit!Symbols : LsplantInit!SymbolOf(s) \in LsplantInit!Suffixed => LsplantInit!SymbolOf(s) = s
  BY DEF LsplantInit!SymbolOf, LsplantInit!Suffixed
<1> HIDE DEF F
<1> TAKE s \in LsplantInit!Symbols
<1>4. CASE LsplantInit!SymbolOf(s) \in F
  <2>1. /\ pl[s] = p[LsplantInit!SymbolOf(s)] /\ pl[s] \in LsplantInit!Places
        /\ pl[s] \in LsplantInit!PlacesOf(LsplantInit!SymbolOf(s))
    BY <1>1, <1>2, <1>4
  <2>2. pl[s] = "suffixed" => LsplantInit!SymbolOf(s) \in LsplantInit!Suffixed BY <2>1 DEF LsplantInit!PlacesOf
  <2> QED BY <1>3, <2>1, <2>2
<1>5. CASE LsplantInit!SymbolOf(s) \notin F
  <2>1. pl[s] = "dynsym" BY <1>1, <1>5
  <2> QED BY <2>1 DEF LsplantInit!Places
<1> QED BY <1>4, <1>5

\* Every device is one of those PhoneOk describes.
LEMMA PhoneGives == ASSUME phone \in LsplantInit!Phones, phone.debuggable => sdk >= 28 PROVE PhoneOk
<1> DEFINE R(f) == [sdk : InitSdks, place : LsplantInit!Spread(f), missing : {"none"}, debuggable : BOOLEAN,
                    stateAt : IF f = "runtime" THEN {0, 8} ELSE {8}, up : IF f = "runtime" THEN BOOLEAN ELSE {TRUE}]
           W == [sdk : InitSdks,
                 place : {LsplantInit!AllBut("nothing"), LsplantInit!AllBut("SetEntryPointsToInterpreter")},
                 missing : DOMAIN LsplantInit!JavaItems, debuggable : {FALSE}, stateAt : {8}, up : {TRUE}]
           V == UNION {R(f) : f \in DOMAIN LsplantInit!Families}
<1>1. ASSUME NEW f \in DOMAIN LsplantInit!Families, phone \in R(f) PROVE PhoneOk
  <2>1. /\ phone.sdk \in InitSdks /\ phone.place \in LsplantInit!Spread(f) /\ phone.missing = "none"
        /\ phone.stateAt \in {0, 8} /\ phone.up \in BOOLEAN
    BY <1>1
  <2> QED BY <2>1, SpreadGives DEF PhoneOk, sdk
<1>2. ASSUME phone \in W PROVE PhoneOk
  <2>1. /\ phone.sdk \in InitSdks /\ phone.missing \in DOMAIN LsplantInit!JavaItems /\ phone.stateAt = 8 /\ phone.up = TRUE
        /\ phone.place \in {LsplantInit!AllBut("nothing"), LsplantInit!AllBut("SetEntryPointsToInterpreter")}
    BY <1>2
  <2>2. \A s \in LsplantInit!Symbols : phone.place[s] \in {"none", "symtab"} BY <2>1 DEF LsplantInit!AllBut
  <2> QED BY <2>1, <2>2 DEF PhoneOk, sdk, LsplantInit!Places
<1>3. LsplantInit!Phones = V \cup W BY DEF LsplantInit!Phones
<1> HIDE DEF R, W
<1>4. phone \in V => \E f \in DOMAIN LsplantInit!Families : phone \in R(f) OBVIOUS
<1> HIDE DEF V
<1> QED BY <1>1, <1>2, <1>3, <1>4

\* HookHandler ends with the first alternative that works, or with none.
Picks(H, alts, pre) ==
    \/ H = {} /\ \A i \in 1..Len(alts) : ~LsplantInit!Handle(alts[i], pre)
    \/ \E i \in 1..Len(alts) : /\ H = {alts[i]} /\ LsplantInit!Handle(alts[i], pre)
                               /\ \A j \in 1..Len(alts) : j < i => ~LsplantInit!Handle(alts[j], pre)

\* HookHandler ends with the first alternative that works.
LEMMA HandlerGives ==
    ASSUME NEW alts, Len(alts) \in Nat, NEW pre PROVE Picks(LsplantInit!Handler(alts, pre), alts, pre)
<1> DEFINE works == {i \in 1..Len(alts) : LsplantInit!Handle(alts[i], pre)}
           H == LsplantInit!Handler(alts, pre)
           first == CHOOSE i \in works : \A j \in works : i <= j
<1>1. H = IF works = {} THEN {} ELSE {alts[first]} BY DEF LsplantInit!Handler
<1>2. CASE works = {} BY <1>1, <1>2 DEF Picks
<1>3. CASE works # {}
  <2>1. works \subseteq Nat OBVIOUS
  <2>2. PICK x \in works : \A y \in works : ~(<<y, x>> \in OpToRel(<, Nat)) BY <1>3, <2>1, NatLessThanWellFounded, WFMin
  <2>3. ASSUME NEW y \in works, y < x PROVE FALSE
    <3>1. <<y, x>> \in OpToRel(<, Nat) BY <2>1, <2>3 DEF OpToRel
    <3> QED BY <2>2, <3>1
  <2>4. \A y \in works : x <= y BY <2>1, <2>3
  <2>5. first \in works /\ \A j \in works : first <= j BY <2>4
  <2>6. H = {alts[first]} BY <1>1, <1>3
  <2> HIDE DEF first, H
  <2>7. \A j \in 1..Len(alts) : j < first => ~LsplantInit!Handle(alts[j], pre) BY <2>5
  <2> QED BY <2>5, <2>6, <2>7 DEF Picks, H
<1> QED BY <1>2, <1>3

Works(s) == LsplantInit!Handle(s, {})

\* One alternative.
LEMMA Exact1 ==
    ASSUME NEW a PROVE LET H == LsplantInit!Exact(<<a>>) IN (H = {a} /\ Works(a)) \/ (H = {} /\ ~Works(a))
<1> DEFINE t == <<a>>
           H == LsplantInit!Exact(t)
<1>1. Len(t) = 1 /\ t[1] = a OBVIOUS
<1>2. Picks(H, t, {}) BY HandlerGives DEF LsplantInit!Exact
<1>3. 1..1 = {1} OBVIOUS
<1> HIDE DEF t, H
<1>4. (H = {a} /\ Works(a)) \/ (H = {} /\ ~Works(a)) BY <1>1, <1>2, <1>3 DEF Picks, Works
<1> QED BY <1>4 DEF t, H

\* Two alternatives.
LEMMA Exact2 ==
    ASSUME NEW a, NEW b
    PROVE  LET H == LsplantInit!Exact(<<a, b>>)
           IN (H = {a} /\ Works(a)) \/ (H = {b} /\ ~Works(a) /\ Works(b)) \/ (H = {} /\ ~Works(a) /\ ~Works(b))
<1> DEFINE t == <<a, b>>
           H == LsplantInit!Exact(t)
<1>1. Len(t) = 2 /\ t[1] = a /\ t[2] = b OBVIOUS
<1>2. Picks(H, t, {}) BY HandlerGives DEF LsplantInit!Exact
<1>3. 1..2 = {1, 2} OBVIOUS
<1> HIDE DEF t, H
<1>4. (H = {a} /\ Works(a)) \/ (H = {b} /\ ~Works(a) /\ Works(b)) \/ (H = {} /\ ~Works(a) /\ ~Works(b))
  BY <1>1, <1>2, <1>3 DEF Picks, Works
<1> QED BY <1>4 DEF t, H

\* Three alternatives.
LEMMA Exact3 ==
    ASSUME NEW a, NEW b, NEW c
    PROVE  LET H == LsplantInit!Exact(<<a, b, c>>)
           IN (\E x \in {a, b, c} : H = {x}) \/ (H = {} /\ \A x \in {a, b, c} : ~Works(x))
<1> DEFINE t == <<a, b, c>>
           H == LsplantInit!Exact(t)
<1>1. Len(t) = 3 /\ t[1] = a /\ t[2] = b /\ t[3] = c OBVIOUS
<1>2. Picks(H, t, {}) BY HandlerGives DEF LsplantInit!Exact
<1>3. 1..3 = {1, 2, 3} OBVIOUS
<1> HIDE DEF t, H
<1>4. (\E x \in {a, b, c} : H = {x}) \/ (H = {} /\ \A x \in {a, b, c} : ~Works(x))
  BY <1>1, <1>2, <1>3 DEF Picks, Works
<1> QED BY <1>4 DEF t, H

\* Four alternatives.
LEMMA Exact4 ==
    ASSUME NEW a, NEW b, NEW c, NEW d
    PROVE  LET H == LsplantInit!Exact(<<a, b, c, d>>)
           IN (\E x \in {a, b, c, d} : H = {x}) \/ (H = {} /\ \A x \in {a, b, c, d} : ~Works(x))
<1> DEFINE t == <<a, b, c, d>>
           H == LsplantInit!Exact(t)
<1>1. Len(t) = 4 /\ t[1] = a /\ t[2] = b /\ t[3] = c /\ t[4] = d OBVIOUS
<1>2. Picks(H, t, {}) BY HandlerGives DEF LsplantInit!Exact
<1>3. 1..4 = {1, 2, 3, 4} OBVIOUS
<1> HIDE DEF t, H
<1>4. (\E x \in {a, b, c, d} : H = {x}) \/ (H = {} /\ \A x \in {a, b, c, d} : ~Works(x))
  BY <1>1, <1>2, <1>3 DEF Picks, Works
<1> QED BY <1>4 DEF t, H

\* A symbol that the handler does not find, and with it what uses it.
LEMMA Missing ==
    ASSUME PhoneOk, NEW s \in Needed, NEW pre, ~LsplantInit!Handle(s, pre),
           s \in LsplantInit!Suffixed => s \in pre \/ s = "CurrentFromGdb"
    PROVE  Gone(s)
<1>1. s \in LsplantInit!Symbols BY NeededSymbols
<1>2. phone.place[s] \in LsplantInit!Places /\ (phone.place[s] = "suffixed" => s \in LsplantInit!Suffixed)
  BY <1>1 DEF PhoneOk
<1> QED BY <1>2 DEF LsplantInit!Handle, LsplantInit!Resolves, LsplantInit!Places, Gone, LsplantInit!Gone

\* A symbol that the handler finds is there.
LEMMA WorksThere ==
    ASSUME NEW s \in {"GetOptimizedCodeFor", "GetOptimizedCodeForL", "SetEntryPointsToInterpreter"}, NEW pre,
           LsplantInit!Handle(s, pre)
    PROVE  ~Gone(s)
BY DEF LsplantInit!Handle, LsplantInit!Resolves, Gone, LsplantInit!Gone

\* Of what is needed, these may have a suffix.
LEMMA NotSuffixed ==
    \A s \in Needed : s \in LsplantInit!Suffixed => s \in {"GetMethodShortyL", "GetOptimizedCodeForL", "CurrentFromGdb"}
BY DEF LsplantInit!Suffixed, Needed, Register, Unregister, Interpreter, Status, Collect, Reinit, OpenMem, Suspend, Shorty, Debug, Single

-----------------------------------------------------------------------------
(* The invariant.                                                          *)

Rank == [JNI |-> 0, ArtMethod |-> 1, Thread |-> 2, Class |-> 3, Runtime |-> 4, ClassLinker |-> 5, ScopedSuspendAll |-> 6,
         ScopedGCCriticalSection |-> 7, JitCodeCache |-> 8, Jit |-> 9, DexFile |-> 10, Instrumentation |-> 11,
         JniIdManager |-> 12, debug |-> 13, true |-> 14]

JniItems == {"Executable", "getName", "getDeclaringClass", "getParameterTypes", "getReturnType", "Class",
             "getClassLoader", "getDeclaredConstructors", "className", "accessFlags", "PathClassLoader",
             "PathClassLoaderInit", "DexFile", "loadClass", "setAccessible"}
Has(item) == phone.missing # item

\* What stage i of Init has made sure of.
Fact(i, K) ==
    /\ i = 0 => (\A item \in JniItems : Has(item)) /\ (sdk >= 26 => Has("DexFileInit"))
    /\ i = 1 => /\ Shorty \cap K # {} /\ (sdk <= 23 => "art_interpreter_to_compiled_code_bridge" \in K)
                /\ Has("Throwable") /\ (sdk >= 23 => Has("artMethod")) /\ (sdk <= 26 => Has("AbstractMethodError"))
    /\ i = 2 => "CurrentFromGdb" \in K
    /\ i = 3 => /\ "GetClassDef" \in K
                /\ sdk < 26 => {"SetStatus", "ClassSetStatus"} \cap K # {}
                /\ ~(sdk < 26) => {"SetClassStatus", "TrivialSetStatus"} \cap K # {}
    /\ i = 4 => "instance" \in K /\ phone.up /\ (sdk >= 26 => Debug \cap K # {})
    /\ i = 5 => /\ Register \cap K # {} /\ Unregister \cap K # {}
                /\ {"SetEntryPointsToInterpreter", "art_quick_to_interpreter_bridge"} \cap K # {}
                /\ Dummy => Has("Object") /\ Has("equals")
    /\ i = 6 => {"ScopedSuspendAllC2", "SuspendVM"} \cap K # {} /\ {"ScopedSuspendAllD2", "ResumeVM"} \cap K # {}
    /\ i = 7 => (sdk >= 24 => "ScopedGCCriticalSectionC2" \in K /\ "ScopedGCCriticalSectionD2" \in K)
    /\ i = 8 => (sdk >= 26 => "MoveObsoleteMethod" \in K) /\ (sdk >= 24 => Collect \cap K # {})
    /\ i = 10 => (sdk < 26 => /\ OpenMem \cap K # {} /\ Has("mCookie") /\ Has("mFileName")
                              /\ sdk >= 24 => Has("mInternalCookie"))
    /\ i = 11 => (phone.debuggable => Reinit \cap K # {})

Facts(n, K) == \A i \in 0..(n - 1) : Fact(i, K)

InitInv ==
    /\ PhoneOk
    /\ initStage = "false" => Excused
    /\ initStage # "false" =>
         /\ initStage \in DOMAIN Rank /\ Facts(Rank[initStage], known)
         /\ IF initStage = "true" THEN ~runtimeDebuggable ELSE runtimeDebuggable => phone.debuggable

\* The stages in order.
LEMMA RankGives ==
    /\ Rank["JNI"] = 0 /\ Rank["ArtMethod"] = 1 /\ Rank["Thread"] = 2 /\ Rank["Class"] = 3 /\ Rank["Runtime"] = 4
    /\ Rank["ClassLinker"] = 5 /\ Rank["ScopedSuspendAll"] = 6 /\ Rank["ScopedGCCriticalSection"] = 7
    /\ Rank["JitCodeCache"] = 8 /\ Rank["Jit"] = 9 /\ Rank["DexFile"] = 10 /\ Rank["Instrumentation"] = 11
    /\ Rank["JniIdManager"] = 12 /\ Rank["debug"] = 13 /\ Rank["true"] = 14
BY DEF Rank

\* The names of the stages.
LEMMA RankNames ==
    DOMAIN Rank = {"JNI", "ArtMethod", "Thread", "Class", "Runtime", "ClassLinker", "ScopedSuspendAll",
                   "ScopedGCCriticalSection", "JitCodeCache", "Jit", "DexFile", "Instrumentation", "JniIdManager",
                   "debug", "true"}
BY DEF Rank

\* What was found stays found.
LEMMA FactsGrow ==
    ASSUME NEW n \in 0..13, NEW K, NEW L, K \subseteq L, Facts(n, K), Fact(n, L) PROVE Facts(n + 1, L)
<1> SUFFICES ASSUME NEW i \in 0..n, i # n PROVE Fact(i, L) BY DEF Facts
<1>1. Fact(i, K) BY DEF Facts
<1>2. \A F : F \cap K # {} => F \cap L # {} OBVIOUS
<1>3. \A s : s \in K => s \in L OBVIOUS
<1> QED BY <1>1, <1>2, <1>3 DEF Fact

\* A stage of Init that goes on, or that gives up for a good reason.
LEMMA StageStep ==
    ASSUME InitInv, NEW here \in DOMAIN Rank \ {"debug", "true"}, NEW next \in DOMAIN Rank \ {"true"}, NEW L,
           NEW n \in 0..13, NEW m, m = n + 1, Rank[here] = n, Rank[next] = m,
           initStage = here, known' = L, known \subseteq L, phone' = phone, runtimeDebuggable' = runtimeDebuggable,
           \/ initStage' = "false" /\ Excused
           \/ initStage' = next /\ Fact(n, L)
    PROVE  InitInv'
<1>2. here # "false" /\ next # "false" BY RankNames
<1>3. PhoneOk' BY DEF InitInv, PhoneOk, sdk
<1>4. Excused => Excused' BY DEF Excused, Lacks, Dummy, sdk, With, Gone, LsplantInit!Gone, LsplantInit!Uses, LsplantInit!Sdk, LsplantInit!When
<1>5. CASE initStage' = "false" /\ Excused BY <1>3, <1>4, <1>5 DEF InitInv
<1>6. CASE initStage' = next /\ Fact(n, L)
  <2>1. Facts(m, L) BY <1>2, <1>6, FactsGrow DEF InitInv
  <2>2. (Facts(Rank[initStage], known))' BY <1>6, <2>1 DEF Facts, Fact, sdk, Has, Dummy, Gone, LsplantInit!Gone
  <2> QED BY <1>2, <1>3, <1>6, <2>1, <2>2 DEF InitInv
<1> QED BY <1>5, <1>6

\* A step that ends Init with false leaves the device as it was.
LEMMA StageFails ==
    ASSUME InitInv, Excused, initStage' = "false", phone' = phone
    PROVE  InitInv'
<1>1. PhoneOk' BY DEF InitInv, PhoneOk, sdk
<1>2. Excused' BY DEF Excused, Lacks, Dummy, sdk, With, Gone, LsplantInit!Gone, LsplantInit!Uses, LsplantInit!Sdk, LsplantInit!When
<1> QED BY <1>1, <1>2 DEF InitInv

-----------------------------------------------------------------------------
(* What excuses Init.                                                      *)

\* What is used on every device.
LEMMA UsesGive ==
    /\ Shorty \in LsplantInit!Uses /\ {"GetClassDef"} \in LsplantInit!Uses /\ {"instance"} \in LsplantInit!Uses
    /\ {"CurrentFromGdb"} \in LsplantInit!Uses /\ Register \in LsplantInit!Uses /\ Unregister \in LsplantInit!Uses
    /\ {"SetEntryPointsToInterpreter", "art_quick_to_interpreter_bridge"} \in LsplantInit!Uses
    /\ {"ScopedSuspendAllC2", "SuspendVM"} \in LsplantInit!Uses /\ {"ScopedSuspendAllD2", "ResumeVM"} \in LsplantInit!Uses
BY DEF LsplantInit!Uses, Shorty, Register, Unregister

\* What is used on some API levels.
LEMMA UsesBySdk ==
    /\ sdk < 26 => {"SetStatus", "ClassSetStatus"} \in LsplantInit!Uses
    /\ ~(sdk < 26) => {"SetClassStatus", "TrivialSetStatus"} \in LsplantInit!Uses
    /\ sdk <= 23 => {"art_interpreter_to_compiled_code_bridge"} \in LsplantInit!Uses
    /\ sdk >= 24 => /\ {"ScopedGCCriticalSectionC2"} \in LsplantInit!Uses
                    /\ {"ScopedGCCriticalSectionD2"} \in LsplantInit!Uses /\ Collect \in LsplantInit!Uses
    /\ sdk >= 26 => {"MoveObsoleteMethod"} \in LsplantInit!Uses /\ Debug \in LsplantInit!Uses
    /\ sdk < 26 => OpenMem \in LsplantInit!Uses
    /\ phone.debuggable => Reinit \in LsplantInit!Uses
<1> USE DEF LsplantInit!Uses, LsplantInit!When, LsplantInit!Sdk, sdk
<1>1. sdk < 26 => {"SetStatus", "ClassSetStatus"} \in LsplantInit!Uses OBVIOUS
<1>2. ~(sdk < 26) => {"SetClassStatus", "TrivialSetStatus"} \in LsplantInit!Uses OBVIOUS
<1>3. sdk <= 23 => {"art_interpreter_to_compiled_code_bridge"} \in LsplantInit!Uses OBVIOUS
<1>4. sdk >= 24 => /\ {"ScopedGCCriticalSectionC2"} \in LsplantInit!Uses
                   /\ {"ScopedGCCriticalSectionD2"} \in LsplantInit!Uses /\ Collect \in LsplantInit!Uses
  BY DEF Collect
<1>5. sdk >= 26 => {"MoveObsoleteMethod"} \in LsplantInit!Uses /\ Debug \in LsplantInit!Uses BY DEF Debug
<1>6. sdk < 26 => OpenMem \in LsplantInit!Uses BY DEF OpenMem
<1>7. phone.debuggable => Reinit \in LsplantInit!Uses BY FamiliesGive
<1> QED BY ONLY <1>1, <1>2, <1>3, <1>4, <1>5, <1>6, <1>7

\* None of the functions of a use is found.
LEMMA ExcusedBy ==
    ASSUME PhoneOk, NEW use \in LsplantInit!Uses, use \subseteq Needed \ Interpreter,
           NEW x \in use, \A s \in use : ~Works(s),
           "GetMethodShortyL" \notin use
    PROVE  Excused
<1>1. With(use) = use BY FamiliesGive DEF With
<1>2. ASSUME NEW s \in use PROVE Gone(s)
  <2>1. s # "GetMethodShortyL" /\ s # "GetOptimizedCodeForL" BY DEF Interpreter
  <2> QED BY <2>1, NotSuffixed, Missing DEF Works
<1> QED BY <1>1, <1>2 DEF Excused

\* A Java item that is looked up and missing.
LEMMA JavaGives ==
    /\ \A item \in JniItems \cup {"Throwable", "Object", "equals"} : item \in DOMAIN LsplantInit!JavaItems /\ LsplantInit!JavaItems[item] = InitSdks
    /\ DOMAIN LsplantInit!JavaItems = JniItems \cup {"Throwable", "DexFileInit", "artMethod", "AbstractMethodError", "mCookie",
                                                     "mFileName", "mInternalCookie", "Object", "equals"}
    /\ LsplantInit!JavaItems["DexFileInit"] = {k \in InitSdks : k >= 26}
    /\ LsplantInit!JavaItems["artMethod"] = {k \in InitSdks : k >= 23}
    /\ LsplantInit!JavaItems["AbstractMethodError"] = {k \in InitSdks : k <= 26}
    /\ LsplantInit!JavaItems["mCookie"] = {k \in InitSdks : k < 26}
    /\ LsplantInit!JavaItems["mFileName"] = {k \in InitSdks : k < 26}
    /\ LsplantInit!JavaItems["mInternalCookie"] = {k \in InitSdks : k \in {24, 25}}
<1> USE DEF LsplantInit!JavaItems, JniItems
<1>1. ASSUME NEW item \in JniItems \cup {"Throwable", "Object", "equals"}
      PROVE  item \in DOMAIN LsplantInit!JavaItems /\ LsplantInit!JavaItems[item] = InitSdks
  OBVIOUS
<1>2. DOMAIN LsplantInit!JavaItems = JniItems \cup {"Throwable", "DexFileInit", "artMethod", "AbstractMethodError", "mCookie",
                                                    "mFileName", "mInternalCookie", "Object", "equals"}
  OBVIOUS
<1>3. /\ LsplantInit!JavaItems["DexFileInit"] = {k \in InitSdks : k >= 26}
      /\ LsplantInit!JavaItems["artMethod"] = {k \in InitSdks : k >= 23}
      /\ LsplantInit!JavaItems["AbstractMethodError"] = {k \in InitSdks : k <= 26}
  OBVIOUS
<1>4. /\ LsplantInit!JavaItems["mCookie"] = {k \in InitSdks : k < 26}
      /\ LsplantInit!JavaItems["mFileName"] = {k \in InitSdks : k < 26}
      /\ LsplantInit!JavaItems["mInternalCookie"] = {k \in InitSdks : k \in {24, 25}}
  OBVIOUS
<1> QED BY ONLY <1>1, <1>2, <1>3, <1>4

\* What a device must have in Java, by its API level.
LEMMA JavaLacks ==
    ASSUME PhoneOk
    PROVE  Lacks <=> \/ phone.missing \in JniItems \cup {"Throwable"}
                     \/ phone.missing = "DexFileInit" /\ sdk >= 26
                     \/ phone.missing = "artMethod" /\ sdk >= 23
                     \/ phone.missing = "AbstractMethodError" /\ sdk <= 26
                     \/ phone.missing \in {"mCookie", "mFileName"} /\ sdk < 26
                     \/ phone.missing = "mInternalCookie" /\ sdk \in {24, 25}
                     \/ phone.missing \in {"Object", "equals"} /\ Dummy
<1>1. sdk \in InitSdks BY DEF PhoneOk
<1> QED BY <1>1, JavaGives DEF Lacks, JniItems

-----------------------------------------------------------------------------
(* The stages.                                                             *)

\* API levels are numbers.
LEMMA SdkGives == ASSUME PhoneOk PROVE sdk \in Nat /\ sdk >= 21
BY SdksAssumption DEF PhoneOk

\* InitJNI: an item that is missing is an excuse.
LEMMA StepJNI == ASSUME InitInv, LsplantInit!InitJNI PROVE InitInv'
<1>1. /\ initStage = "JNI" /\ known' = known \cup {} /\ phone' = phone /\ runtimeDebuggable' = runtimeDebuggable
      /\ \/ initStage' = "ArtMethod" /\ (\A i \in JniItems : Has(i)) /\ (sdk >= 26 => Has("DexFileInit"))
         \/ initStage' = "false" /\ (phone.missing \in JniItems \/ (phone.missing = "DexFileInit" /\ sdk >= 26))
  BY DEF LsplantInit!InitJNI, LsplantInit!Step, LsplantInit!When, LsplantInit!Has, LsplantInit!Sdk, sdk, JniItems, Has
<1>2. PhoneOk BY <1>1, RankGives DEF InitInv
<1>3. CASE initStage' = "ArtMethod" /\ (\A i \in JniItems : Has(i)) /\ (sdk >= 26 => Has("DexFileInit"))
  <2>1. Fact(0, known \cup {}) BY <1>3 DEF Fact
  <2> QED BY <1>1, <1>3, <2>1, RankGives, RankNames, StageStep, SMTT(30)
<1>4. CASE initStage' = "false" /\ (phone.missing \in JniItems \/ (phone.missing = "DexFileInit" /\ sdk >= 26))
  <2>1. Excused BY <1>2, <1>4, JavaLacks DEF Excused
  <2> QED BY <1>1, <1>4, <2>1, StageFails
<1> QED BY <1>1, <1>3, <1>4

\* Thread::Init.
LEMMA StepThread == ASSUME InitInv, LsplantInit!InitThread PROVE InitInv'
<1> DEFINE S == LsplantInit!Exact(<<"CurrentFromGdb">>)
<1>1. /\ initStage = "Thread" /\ known' = known \cup S /\ phone' = phone /\ runtimeDebuggable' = runtimeDebuggable
      /\ initStage' = IF S # {} THEN "Class" ELSE "false"
  BY DEF LsplantInit!InitThread, LsplantInit!Step
<1>2. PhoneOk BY <1>1, RankGives DEF InitInv
<1>3. (S = {"CurrentFromGdb"} /\ Works("CurrentFromGdb")) \/ (S = {} /\ ~Works("CurrentFromGdb")) BY Exact1
<1> HIDE DEF S
<1>4. CASE S = {"CurrentFromGdb"}
  <2>1. Fact(2, known \cup S) BY <1>4 DEF Fact
  <2> QED BY <1>1, <1>4, <2>1, RankGives, RankNames, StageStep, SMTT(30)
<1>5. CASE S = {} /\ ~Works("CurrentFromGdb")
  <2>1. Excused BY <1>2, <1>5, UsesGive, ExcusedBy DEF Needed, Single, Interpreter
  <2> QED BY <1>1, <1>5, <2>1, StageFails
<1> QED BY <1>3, <1>4, <1>5

\* ArtMethod::Init: what it needs, and what may be missing.
LEMMA StepArtMethod == ASSUME InitInv, LsplantInit!InitArtMethod PROVE InitInv'
<1> DEFINE shorty == LsplantInit!Handler(<<"GetMethodShortyL", "GetMethodShorty">>, {"GetMethodShortyL"})
           B == "art_interpreter_to_compiled_code_bridge"
           bridge == LsplantInit!When(sdk <= 23, LsplantInit!Exact(<<B>>))
           intrinsic == LsplantInit!When(sdk >= 28, LsplantInit!Exact(<<"SetNotIntrinsic">>))
           pretty == LsplantInit!Exact(<<"PrettyMethod", "PrettyMethodStatic", "PrettyMethodMirror">>)
           throw == LsplantInit!When(sdk = 26, LsplantInit!Exact(<<"ThrowInvocationTimeError">>))
           frame == LsplantInit!When(sdk = 23, LsplantInit!Exact(<<"GetQuickFrameInfo">>))
           S == shorty \cup bridge \cup intrinsic \cup pretty \cup throw \cup frame
           ok == /\ Has("Throwable") /\ (sdk >= 23 => Has("artMethod"))
                 /\ shorty # {}
                 /\ sdk <= 26 => Has("AbstractMethodError")
                 /\ sdk <= 23 => bridge # {}
<1>1. /\ initStage = "ArtMethod" /\ known' = known \cup S /\ phone' = phone /\ runtimeDebuggable' = runtimeDebuggable
      /\ initStage' = IF ok THEN "Thread" ELSE "false"
  BY DEF LsplantInit!InitArtMethod, LsplantInit!Step, LsplantInit!Sdk, sdk, LsplantInit!Has, Has
<1>2. PhoneOk BY <1>1, RankGives DEF InitInv
<1>3. \/ shorty \in {{"GetMethodShortyL"}, {"GetMethodShorty"}}
      \/ shorty = {} /\ Gone("GetMethodShortyL") /\ Gone("GetMethodShorty")
  <2> DEFINE t == <<"GetMethodShortyL", "GetMethodShorty">>
             pre == {"GetMethodShortyL"}
  <2>1. Picks(shorty, t, pre) BY HandlerGives
  <2>2. Len(t) = 2 /\ t[1] = "GetMethodShortyL" /\ t[2] = "GetMethodShorty" /\ 1..2 = {1, 2} OBVIOUS
  <2>3. ~LsplantInit!Handle("GetMethodShortyL", pre) => Gone("GetMethodShortyL")
    BY <1>2, Missing DEF Needed, Shorty
  <2>4. ~LsplantInit!Handle("GetMethodShorty", pre) => Gone("GetMethodShorty")
    <3>1. "GetMethodShorty" \in Needed BY DEF Needed, Shorty
    <3>2. "GetMethodShorty" \notin LsplantInit!Suffixed BY DEF LsplantInit!Suffixed
    <3> QED BY <1>2, <3>1, <3>2, Missing
  <2> HIDE DEF t, pre, shorty
  <2> QED BY <2>1, <2>2, <2>3, <2>4 DEF Picks
<1>4. \/ sdk <= 23 /\ bridge = {B}
      \/ sdk <= 23 /\ bridge = {} /\ ~Works(B)
      \/ ~(sdk <= 23) /\ bridge = {}
  BY Exact1 DEF LsplantInit!When
<1>5. /\ intrinsic \in {{}, {"SetNotIntrinsic"}} /\ throw \in {{}, {"ThrowInvocationTimeError"}}
      /\ frame \in {{}, {"GetQuickFrameInfo"}}
  BY Exact1 DEF LsplantInit!When
<1>6. pretty \in {{}, {"PrettyMethod"}, {"PrettyMethodStatic"}, {"PrettyMethodMirror"}} BY Exact3
<1> HIDE DEF shorty, bridge, intrinsic, pretty, throw, frame
<1>7. CASE ok
  <2>1. Fact(1, known \cup S) BY <1>3, <1>4, <1>7 DEF Fact, Shorty
  <2> HIDE DEF S
  <2> QED BY <1>1, <1>7, <2>1, RankGives, RankNames, StageStep, SMTT(30)
<1>8. CASE ~ok
  <2>1. Excused
    <3>1. CASE ~Has("Throwable") \/ ~(sdk >= 23 => Has("artMethod")) \/ ~(sdk <= 26 => Has("AbstractMethodError"))
      BY <1>2, <3>1, JavaLacks DEF Excused, Has
    <3>2. CASE shorty = {}
      <4>1. Gone("GetMethodShortyL") /\ Gone("GetMethodShorty") BY <1>3, <3>2
      <4>2. With(Shorty) = Shorty BY FamiliesGive DEF With, Shorty, Interpreter
      <4>3. \A s \in With(Shorty) : Gone(s) BY <4>1, <4>2 DEF Shorty
      <4> QED BY <4>3, UsesGive DEF Excused
    <3>3. CASE sdk <= 23 /\ bridge = {}
      <4>1. {B} \in LsplantInit!Uses BY <3>3, UsesBySdk
      <4>2. ~Works(B) BY <1>4, <3>3
      <4> QED BY <1>2, <4>1, <4>2, ExcusedBy DEF Needed, Single, Interpreter
    <3> QED BY <1>8, <3>1, <3>2, <3>3
  <2> HIDE DEF S, ok
  <2> QED BY <1>1, <1>8, <2>1, StageFails
<1> QED BY <1>7, <1>8

\* Class::Init: a function that sets the status is intercepted.
LEMMA StepClass == ASSUME InitInv, LsplantInit!InitClass PROVE InitInv'
<1> DEFINE def == LsplantInit!Exact(<<"GetClassDef">>)
           old == LsplantInit!Exact(<<"SetStatus", "ClassSetStatus">>)
           new == LsplantInit!Exact(<<"SetClassStatus", "TrivialSetStatus">>)
           status == IF def # {} THEN (IF sdk < 26 THEN old ELSE new) ELSE {}
           S == def \cup status
<1>1. /\ initStage = "Class" /\ known' = known \cup S /\ phone' = phone /\ runtimeDebuggable' = runtimeDebuggable
      /\ initStage' = IF def # {} /\ status # {} THEN "Runtime" ELSE "false"
  BY DEF LsplantInit!InitClass, LsplantInit!Step, LsplantInit!Sdk, sdk, LsplantInit!When
<1>2. PhoneOk BY <1>1, RankGives DEF InitInv
<1>3. def = {"GetClassDef"} \/ (def = {} /\ ~Works("GetClassDef")) BY Exact1
<1>4. old \in {{"SetStatus"}, {"ClassSetStatus"}} \/ (old = {} /\ ~Works("SetStatus") /\ ~Works("ClassSetStatus"))
  BY Exact2
<1>5. new \in {{"SetClassStatus"}, {"TrivialSetStatus"}} \/ (new = {} /\ ~Works("SetClassStatus") /\ ~Works("TrivialSetStatus"))
  BY Exact2
<1> HIDE DEF def, old, new
<1>6. CASE def # {} /\ status # {}
  <2>1. Fact(3, known \cup S) BY <1>3, <1>4, <1>5, <1>6 DEF Fact
  <2> HIDE DEF S
  <2> QED BY <1>1, <1>6, <2>1, RankGives, RankNames, StageStep, SMTT(30)
<1>7. CASE ~(def # {} /\ status # {})
  <2>1. Excused
    <3> USE DEF Needed, Single, Status, Interpreter
    <3>1. CASE def = {} BY <1>2, <1>3, <3>1, UsesGive, ExcusedBy
    <3>2. CASE def # {} /\ sdk < 26
      <4>1. old = {} BY <1>7, <3>2
      <4> QED BY <1>2, <1>4, <3>2, <4>1, UsesBySdk, ExcusedBy
    <3>3. CASE def # {} /\ ~(sdk < 26)
      <4>1. new = {} BY <1>7, <3>3
      <4> QED BY <1>2, <1>5, <3>3, <4>1, UsesBySdk, ExcusedBy
    <3> QED BY <3>1, <3>2, <3>3
  <2> HIDE DEF S
  <2> QED BY <1>1, <1>7, <2>1, StageFails
<1> QED BY <1>6, <1>7

\* Runtime::Init: the instance, and a way to set the state.
LEMMA StepRuntime == ASSUME InitInv, LsplantInit!InitRuntime PROVE InitInv'
<1> DEFINE instance == LsplantInit!Exact(<<"instance">>)
           found == LsplantInit!Exact(<<"SetJavaDebuggable", "SetRuntimeDebugState">>)
           set == IF sdk >= 26 THEN found ELSE {}
           S == instance \cup set
           ok == /\ instance # {} /\ phone.up
                 /\ sdk >= 26 => set # {}
                 /\ "SetRuntimeDebugState" \in set => phone.stateAt > 0
<1>1. /\ initStage = "Runtime" /\ known' = known \cup S /\ phone' = phone /\ runtimeDebuggable' = runtimeDebuggable
      /\ initStage' = IF ok THEN "ClassLinker" ELSE "false"
  BY DEF LsplantInit!InitRuntime, LsplantInit!Step, LsplantInit!Sdk, sdk, LsplantInit!When
<1>2. PhoneOk BY <1>1, RankGives DEF InitInv
<1>3. instance = {"instance"} \/ (instance = {} /\ ~Works("instance")) BY Exact1
<1>4. found \in {{"SetJavaDebuggable"}, {"SetRuntimeDebugState"}}
      \/ (found = {} /\ ~Works("SetJavaDebuggable") /\ ~Works("SetRuntimeDebugState"))
  BY Exact2
<1> HIDE DEF instance, found
<1>5. CASE ok
  <2>1. Fact(4, known \cup S) BY <1>3, <1>4, <1>5 DEF Fact, Debug
  <2> HIDE DEF S
  <2> QED BY <1>1, <1>5, <2>1, RankGives, RankNames, StageStep, SMTT(30)
<1>6. CASE ~ok
  <2>1. Excused
    <3> USE DEF Needed, Single, Debug, Interpreter
    <3>1. CASE instance = {} BY <1>2, <1>3, <3>1, UsesGive, ExcusedBy
    <3>2. CASE sdk >= 26 /\ set = {}
      <4>1. Debug \in LsplantInit!Uses BY <3>2, UsesBySdk
      <4>2. \A s \in Debug : ~Works(s) BY <1>4, <3>2
      <4> QED BY <1>2, <4>1, <4>2, ExcusedBy
    <3>3. CASE ~(phone.stateAt > 0)
      <4>1. phone.stateAt = 0 BY <1>2, <3>3 DEF PhoneOk
      <4> QED BY <4>1 DEF Excused
    <3>4. CASE ~phone.up BY <3>4 DEF Excused
    <3> QED BY <1>6, <3>1, <3>2, <3>3, <3>4
  <2> HIDE DEF S, ok
  <2> QED BY <1>1, <1>6, <2>1, StageFails
<1> QED BY <1>5, <1>6

\* ScopedSuspendAll: constructor and destructor, or SuspendVM and ResumeVM.
LEMMA StepScopedSuspendAll == ASSUME InitInv, LsplantInit!InitScopedSuspendAll PROVE InitInv'
<1> DEFINE C == "ScopedSuspendAllC2"
           D == "ScopedSuspendAllD2"
           on == LsplantInit!Exact(<<C, "SuspendVM">>)
           out == LsplantInit!Exact(<<D, "ResumeVM">>)
           off == IF on # {} THEN out ELSE {}
           S == on \cup off
<1>1. /\ initStage = "ScopedSuspendAll" /\ known' = known \cup S /\ phone' = phone /\ runtimeDebuggable' = runtimeDebuggable
      /\ initStage' = IF on # {} /\ off # {} THEN "ScopedGCCriticalSection" ELSE "false"
  BY DEF LsplantInit!InitScopedSuspendAll, LsplantInit!Step, LsplantInit!When
<1>2. PhoneOk BY <1>1, RankGives DEF InitInv
<1>3. \/ on = {C} /\ Works(C)
      \/ on = {"SuspendVM"} /\ ~Works(C)
      \/ on = {} /\ ~Works(C) /\ ~Works("SuspendVM")
  BY Exact2
<1>4. \/ out = {D} /\ Works(D)
      \/ out = {"ResumeVM"} /\ ~Works(D)
      \/ out = {} /\ ~Works(D) /\ ~Works("ResumeVM")
  BY Exact2
<1> HIDE DEF on, out
<1>6. CASE on # {} /\ off # {}
  <2>1. Fact(6, known \cup S) BY <1>3, <1>4, <1>6 DEF Fact
  <2> HIDE DEF S
  <2> QED BY <1>1, <1>6, <2>1, RankGives, RankNames, StageStep, SMTT(30)
<1>7. CASE ~(on # {} /\ off # {})
  <2>1. Excused
    <3> USE DEF Needed, Suspend, Interpreter
    <3>1. CASE on = {}
      <4>1. \A s \in {C, "SuspendVM"} : ~Works(s) BY <1>3, <3>1
      <4> QED BY <1>2, <4>1, UsesGive, ExcusedBy
    <3>2. CASE on # {} /\ out = {}
      <4>1. \A s \in {D, "ResumeVM"} : ~Works(s) BY <1>4, <3>2
      <4> QED BY <1>2, <4>1, UsesGive, ExcusedBy
    <3> QED BY <1>7, <3>1, <3>2
  <2> HIDE DEF S
  <2> QED BY <1>1, <1>7, <2>1, StageFails
<1> QED BY <1>6, <1>7

\* ScopedGCCriticalSection::Init.
LEMMA StepScopedGCCriticalSection == ASSUME InitInv, LsplantInit!InitScopedGCCriticalSection PROVE InitInv'
<1> DEFINE C == "ScopedGCCriticalSectionC2"
           D == "ScopedGCCriticalSectionD2"
           begin == LsplantInit!Exact(<<C>>)
           on == IF sdk >= 24 THEN begin ELSE {}
           end == LsplantInit!Exact(<<D>>)
           off == IF on # {} THEN end ELSE {}
           S == on \cup off
           ok == sdk >= 24 => on # {} /\ off # {}
<1>1. /\ initStage = "ScopedGCCriticalSection" /\ known' = known \cup S /\ phone' = phone
      /\ runtimeDebuggable' = runtimeDebuggable
      /\ initStage' = IF ok THEN "JitCodeCache" ELSE "false"
  BY DEF LsplantInit!InitScopedGCCriticalSection, LsplantInit!Step, LsplantInit!When, LsplantInit!Sdk, sdk
<1>2. PhoneOk BY <1>1, RankGives DEF InitInv
<1>3. begin = {C} \/ (begin = {} /\ ~Works(C)) BY Exact1
<1>4. end = {D} \/ (end = {} /\ ~Works(D)) BY Exact1
<1> HIDE DEF begin, end
<1>5. CASE ok
  <2>1. Fact(7, known \cup S) BY <1>3, <1>4, <1>5 DEF Fact
  <2> HIDE DEF S
  <2> QED BY <1>1, <1>5, <2>1, RankGives, RankNames, StageStep, SMTT(30)
<1>6. CASE ~ok
  <2>1. Excused
    <3> USE DEF Needed, Single, Interpreter
    <3>1. CASE begin = {}
      <4>1. {C} \in LsplantInit!Uses BY <1>6, UsesBySdk
      <4> QED BY <1>2, <1>3, <3>1, <4>1, ExcusedBy
    <3>2. CASE begin # {}
      <4>1. {D} \in LsplantInit!Uses /\ end = {} BY <1>6, <3>2, UsesBySdk
      <4> QED BY <1>2, <1>4, <4>1, ExcusedBy
    <3> QED BY <3>1, <3>2
  <2> HIDE DEF S, ok
  <2> QED BY <1>1, <1>6, <2>1, StageFails
<1> QED BY <1>5, <1>6

\* JitCodeCache::Init: a function that collects is intercepted.
LEMMA StepJitCodeCache == ASSUME InitInv, LsplantInit!InitJitCodeCache PROVE InitInv'
<1> DEFINE M == "MoveObsoleteMethod"
           mv == LsplantInit!Exact(<<M>>)
           move == IF sdk >= 26 THEN mv ELSE {}
           gc == LsplantInit!Exact(<<"GarbageCollectCache", "DoCollection">>)
           collect == IF sdk >= 24 /\ (sdk >= 26 => move # {}) THEN gc ELSE {}
           S == move \cup collect
           ok == (sdk >= 26 => move # {}) /\ (sdk >= 24 => collect # {})
<1>1. /\ initStage = "JitCodeCache" /\ known' = known \cup S /\ phone' = phone /\ runtimeDebuggable' = runtimeDebuggable
      /\ initStage' = IF ok THEN "Jit" ELSE "false"
  BY DEF LsplantInit!InitJitCodeCache, LsplantInit!Step, LsplantInit!When, LsplantInit!Sdk, sdk
<1>2. PhoneOk BY <1>1, RankGives DEF InitInv
<1>3. mv = {M} \/ (mv = {} /\ ~Works(M)) BY Exact1
<1>4. gc \in {{"GarbageCollectCache"}, {"DoCollection"}} \/ (gc = {} /\ ~Works("GarbageCollectCache") /\ ~Works("DoCollection"))
  BY Exact2
<1>s. sdk \in Nat BY <1>2, SdkGives
<1> HIDE DEF mv, gc
<1>5. CASE ok
  <2>1. Fact(8, known \cup S) BY <1>3, <1>4, <1>5 DEF Fact, Collect
  <2> HIDE DEF S
  <2> QED BY <1>1, <1>5, <2>1, RankGives, RankNames, StageStep, SMTT(30)
<1>6. CASE ~ok
  <2>1. Excused
    <3> USE DEF Needed, Single, Collect, Interpreter
    <3>1. CASE sdk >= 26 /\ mv = {} BY <1>2, <1>3, <3>1, UsesBySdk, ExcusedBy
    <3>2. CASE ~(sdk >= 26 /\ mv = {})
      <4>1. sdk >= 24 /\ gc = {} BY <1>6, <1>s, <3>2
      <4>2. Collect \in LsplantInit!Uses BY <4>1, UsesBySdk
      <4>3. \A s \in Collect : ~Works(s) BY <1>4, <4>1
      <4> QED BY <1>2, <4>2, <4>3, ExcusedBy
    <3> QED BY <3>1, <3>2
  <2> HIDE DEF S, ok
  <2> QED BY <1>1, <1>6, <2>1, StageFails
<1> QED BY <1>5, <1>6

\* ClassLinker::Init: the natives' functions, and a way into the interpreter.
LEMMA StepClassLinker == ASSUME InitInv, LsplantInit!InitClassLinker PROVE InitInv'
<1> DEFINE B == "art_quick_to_interpreter_bridge"
           E == "SetEntryPointsToInterpreter"
           pre == {"GetOptimizedCodeForL"}
           t == <<"GetOptimizedCodeFor", "GetOptimizedCodeForL">>
           register == LsplantInit!Exact(<<"RegisterNativeClassLinker", "RegisterNative", "RegisterNativeFast",
                                           "RegisterNativeThread">>)
           un == LsplantInit!Exact(<<"UnregisterNativeClassLinker", "UnregisterNative", "UnregisterNativeFast",
                                     "UnregisterNativeThread">>)
           unregister == IF register # {} THEN un ELSE {}
           into == LsplantInit!Exact(<<E>>)
           handled == LsplantInit!Handler(t, pre)
           code == IF into = {} THEN handled ELSE {}
           quick == LsplantInit!Exact(<<B>>)
           bridge == IF code # {} THEN {B} ELSE IF into = {} THEN quick ELSE {}
           both == register # {} /\ unregister # {}
           use == LsplantInit!Exact(<<"ShouldUseInterpreterEntrypoint">>)
           asks == IF sdk >= 24 /\ sdk < 33 THEN use ELSE {}
           fixup == LsplantInit!Exact(<<"FixupStaticTrampolinesWithThread", "FixupStaticTrampolines", "FixupStaticTrampolinesRaw">>)
           adjust == LsplantInit!Exact(<<"AdjustThreadVisibilityCounter", "MarkVisiblyInitialized">>)
           visible == IF both /\ sdk >= 30 THEN adjust ELSE {}
           ways == IF both THEN into \cup code \cup bridge ELSE {}
           S == asks \cup fixup \cup register \cup unregister \cup visible \cup ways
           ok == both /\ into \cup bridge # {} /\ (code # {} => Has("Object") /\ Has("equals"))
<1>1. /\ initStage = "ClassLinker" /\ known' = known \cup S /\ phone' = phone /\ runtimeDebuggable' = runtimeDebuggable
      /\ initStage' = IF ok THEN "ScopedSuspendAll" ELSE "false"
  BY DEF LsplantInit!InitClassLinker, LsplantInit!Step, LsplantInit!When, LsplantInit!Sdk, sdk, LsplantInit!Has, Has
<1>2. PhoneOk BY <1>1, RankGives DEF InitInv
<1>3. (\E x \in Register : register = {x}) \/ (register = {} /\ \A x \in Register : ~Works(x)) BY Exact4 DEF Register
<1>4. (\E x \in Unregister : un = {x}) \/ (un = {} /\ \A x \in Unregister : ~Works(x)) BY Exact4 DEF Unregister
<1>5. (into = {E} /\ Works(E)) \/ (into = {} /\ ~Works(E)) BY Exact1
<1>6. (quick = {B} /\ Works(B)) \/ (quick = {} /\ ~Works(B)) BY Exact1
<1>7. \/ handled = {"GetOptimizedCodeFor"} /\ ~Gone("GetOptimizedCodeFor")
      \/ handled = {"GetOptimizedCodeForL"} /\ ~Gone("GetOptimizedCodeForL")
      \/ handled = {} /\ Gone("GetOptimizedCodeFor") /\ Gone("GetOptimizedCodeForL")
  <2>1. Picks(handled, t, pre) BY HandlerGives
  <2>2. Len(t) = 2 /\ t[1] = "GetOptimizedCodeFor" /\ t[2] = "GetOptimizedCodeForL" /\ 1..2 = {1, 2} OBVIOUS
  <2>3. ~LsplantInit!Handle("GetOptimizedCodeForL", pre) => Gone("GetOptimizedCodeForL")
    BY <1>2, Missing DEF Needed, Interpreter
  <2>4. ~LsplantInit!Handle("GetOptimizedCodeFor", pre) => Gone("GetOptimizedCodeFor")
    <3>1. "GetOptimizedCodeFor" \in Needed BY DEF Needed, Interpreter
    <3>2. "GetOptimizedCodeFor" \notin LsplantInit!Suffixed BY DEF LsplantInit!Suffixed
    <3> QED BY <1>2, <3>1, <3>2, Missing
  <2>5. \A s \in {t[1], t[2]} : LsplantInit!Handle(s, pre) => ~Gone(s) BY <2>2, WorksThere
  <2> HIDE DEF t, pre, handled
  <2> QED BY <2>1, <2>2, <2>3, <2>4, <2>5 DEF Picks
<1>11. Gone(E) \/ Works(E)
  <2>1. E \in Needed /\ E \notin LsplantInit!Suffixed BY DEF Needed, Interpreter, LsplantInit!Suffixed
  <2> QED BY <1>2, <2>1, Missing DEF Works
<1>12. Gone(B) \/ Works(B)
  <2>1. B \in Needed /\ B \notin LsplantInit!Suffixed BY DEF Needed, Interpreter, LsplantInit!Suffixed
  <2> QED BY <1>2, <2>1, Missing DEF Works
<1> HIDE DEF register, un, into, handled, quick, use, fixup, adjust
<1>13. CASE ok
  <2>1. Fact(5, known \cup S)
    <3>1. register # {} /\ register \subseteq S /\ unregister # {} /\ unregister \subseteq S BY <1>13
    <3>2. Register \cap S # {} BY <1>3, <3>1
    <3>3. Unregister \cap S # {}
      <4>1. un # {} /\ un \subseteq S BY <1>13
      <4> QED BY <1>4, <4>1
    <3>4. into \subseteq S /\ bridge \subseteq S BY <1>13
    <3>5. into \subseteq {E} /\ bridge \subseteq {B} BY <1>5, <1>6
    <3>6. E \in S \/ B \in S
      <4> HIDE DEF S, bridge
      <4> QED BY <1>13, <3>4, <3>5
    <3>7. Dummy => code # {} BY <1>5, <1>7, WorksThere DEF Dummy, Works
    <3> HIDE DEF S, code
    <3> QED BY <1>13, <3>2, <3>3, <3>6, <3>7 DEF Fact
  <2> HIDE DEF S, ok
  <2> QED BY <1>1, <1>13, <2>1, RankGives, RankNames, StageStep, SMTT(30)
<1>14. CASE ~ok
  <2>1. Excused
    <3>1. CASE register = {}
      <4>1. Register \subseteq Needed \ Interpreter /\ "RegisterNative" \in Register /\ "GetMethodShortyL" \notin Register
        BY DEF Needed, Register, Interpreter
      <4> QED BY <1>2, <1>3, <3>1, <4>1, UsesGive, ExcusedBy
    <3>2. CASE register # {} /\ un = {}
      <4>1. Unregister \subseteq Needed \ Interpreter /\ "UnregisterNative" \in Unregister /\ "GetMethodShortyL" \notin Unregister
        BY DEF Needed, Unregister, Interpreter
      <4> QED BY <1>2, <1>4, <3>2, <4>1, UsesGive, ExcusedBy
    <3>3. CASE both /\ code # {} /\ ~(Has("Object") /\ Has("equals"))
      <4>1. Gone(E) /\ (~Gone("GetOptimizedCodeFor") \/ ~Gone("GetOptimizedCodeForL"))
        BY <1>5, <1>7, <1>11, <3>3
      <4>2. phone.missing \in {"Object", "equals"} BY <3>3 DEF Has
      <4> QED BY <1>2, <4>1, <4>2, JavaLacks DEF Excused, Dummy
    <3>4. CASE both /\ (code # {} => Has("Object") /\ Has("equals"))
      <4>1. into = {} /\ bridge = {} BY <1>14, <3>4
      <4>2. handled = {} /\ quick = {} BY <4>1
      <4>3. \A s \in Interpreter : Gone(s) BY <1>5, <1>6, <1>7, <1>11, <1>12, <4>1, <4>2 DEF Interpreter
      <4>4. With({E, B}) = Interpreter BY FamiliesGive DEF With, Interpreter
      <4> QED BY <4>3, <4>4, UsesGive DEF Excused
    <3> QED BY <3>1, <3>2, <3>3, <3>4
  <2> HIDE DEF S, ok
  <2> QED BY <1>1, <1>14, <2>1, StageFails
<1> QED BY <1>13, <1>14

\* Jit::Init: nothing that is needed.
LEMMA StepJit == ASSUME InitInv, LsplantInit!InitJit PROVE InitInv'
<1> DEFINE base == LsplantInit!Exact(<<"EnqueueBaselineCompilation">>)
           opt == LsplantInit!Exact(<<"EnqueueOptimizedCompilation">>)
           task == LsplantInit!Exact(<<"AddCompileTask">>)
           S == (IF sdk < 37 THEN base ELSE {}) \cup (IF sdk <= 34 THEN opt \cup task ELSE {})
<1>1. /\ initStage = "Jit" /\ known' = known \cup S /\ phone' = phone /\ runtimeDebuggable' = runtimeDebuggable
      /\ initStage' = "DexFile"
  BY DEF LsplantInit!InitJit, LsplantInit!Step, LsplantInit!When, LsplantInit!Sdk, sdk
<1>2. PhoneOk BY <1>1, RankGives DEF InitInv
<1> HIDE DEF S
<1>6. Fact(9, known \cup S) BY DEF Fact
<1> QED BY <1>1, <1>6, RankGives, RankNames, StageStep, SMTT(30)

\* DexFile::Init: what old versions open a dex file with.
LEMMA StepDexFile == ASSUME InitInv, LsplantInit!InitDexFile PROVE InitInv'
<1> DEFINE found == LsplantInit!Exact(<<"OpenMemory", "OpenMemoryRaw", "OpenMemoryWithoutOdex">>)
           open == IF sdk < 26 THEN found ELSE {}
           t == <<"DexFile_setTrusted">>
           handled == LsplantInit!Handler(t, {"DexFile_setTrusted"})
           S == (IF sdk >= 28 THEN handled ELSE {}) \cup open
           ok == sdk < 26 => open # {} /\ Has("mCookie") /\ Has("mFileName") /\ (sdk >= 24 => Has("mInternalCookie"))
<1>1. /\ initStage = "DexFile" /\ known' = known \cup S /\ phone' = phone /\ runtimeDebuggable' = runtimeDebuggable
      /\ initStage' = IF ok THEN "Instrumentation" ELSE "false"
  BY DEF LsplantInit!InitDexFile, LsplantInit!Step, LsplantInit!When, LsplantInit!Sdk, sdk, LsplantInit!Has, Has
<1>2. PhoneOk BY <1>1, RankGives DEF InitInv
<1>3. (\E x \in OpenMem : found = {x}) \/ (found = {} /\ \A x \in OpenMem : ~Works(x)) BY Exact3 DEF OpenMem
<1>4. handled \subseteq {"DexFile_setTrusted"}
  <2>1. Picks(handled, t, {"DexFile_setTrusted"}) BY HandlerGives
  <2>2. Len(t) = 1 /\ t[1] = "DexFile_setTrusted" /\ 1..1 = {1} OBVIOUS
  <2> HIDE DEF handled, t
  <2> QED BY <2>1, <2>2 DEF Picks
<1> HIDE DEF found, handled
<1>5. CASE ok
  <2>1. Fact(10, known \cup S)
    <3>1. sdk < 26 => OpenMem \cap (known \cup S) # {} BY <1>3, <1>5
    <3> HIDE DEF S
    <3> QED BY <1>5, <3>1 DEF Fact
  <2> HIDE DEF S
  <2> HIDE DEF ok
  <2> QED BY <1>1, <1>5, <2>1, RankGives, RankNames, StageStep, SMTT(30)
<1>6. CASE ~ok
  <2>1. Excused
    <3>1. CASE found = {}
      <4>1. OpenMem \subseteq Needed \ Interpreter /\ "OpenMemory" \in OpenMem /\ "GetMethodShortyL" \notin OpenMem
        BY DEF Needed, OpenMem, Interpreter
      <4>2. OpenMem \in LsplantInit!Uses BY <1>6, UsesBySdk
      <4> QED BY <1>2, <1>3, <3>1, <4>1, <4>2, ExcusedBy
    <3>2. CASE found # {}
      <4>1. sdk \in Nat BY <1>2, SdkGives
      <4>2. sdk < 26 /\ (phone.missing \in {"mCookie", "mFileName"} \/ (phone.missing = "mInternalCookie" /\ sdk \in {24, 25}))
        BY <1>6, <3>2, <4>1 DEF Has
      <4> QED BY <1>2, <4>2, JavaLacks DEF Excused
    <3> QED BY <3>1, <3>2
  <2> HIDE DEF S, ok
  <2> QED BY <1>1, <1>6, <2>1, StageFails
<1> QED BY <1>5, <1>6

\* Instrumentation::Init, if the runtime is debuggable.
LEMMA StepInstrumentation == ASSUME InitInv, LsplantInit!InitInstrumentation PROVE InitInv'
<1> DEFINE found == LsplantInit!Exact(<<"ReinitializeMethodsCode", "InitializeMethodsCode",
                                        "UpdateMethodsCodeToInterpreterEntryPoint">>)
           hook == IF phone.debuggable /\ sdk >= 28 THEN found ELSE {}
           ok == phone.debuggable /\ sdk >= 28 => hook # {}
<1>1. /\ initStage = "Instrumentation" /\ known' = known \cup hook /\ phone' = phone /\ runtimeDebuggable' = runtimeDebuggable
      /\ initStage' = IF ok THEN "JniIdManager" ELSE "false"
  BY DEF LsplantInit!InitInstrumentation, LsplantInit!Step, LsplantInit!When, LsplantInit!Sdk, sdk
<1>2. PhoneOk BY <1>1, RankGives DEF InitInv
<1>3. (\E x \in Reinit : found = {x}) \/ (found = {} /\ \A x \in Reinit : ~Works(x)) BY Exact3 DEF Reinit
<1>4. phone.debuggable => sdk >= 28 BY <1>2 DEF PhoneOk
<1> HIDE DEF found
<1>5. CASE ok
  <2>1. Fact(11, known \cup hook)
    <3>1. phone.debuggable => Reinit \cap (known \cup hook) # {} BY <1>3, <1>4, <1>5
    <3> HIDE DEF hook
    <3> QED BY <3>1 DEF Fact
  <2> HIDE DEF hook, ok
  <2> QED BY <1>1, <1>5, <2>1, RankGives, RankNames, StageStep, SMTT(30)
<1>6. CASE ~ok
  <2>1. Excused
    <3>1. Reinit \subseteq Needed \ Interpreter /\ "InitializeMethodsCode" \in Reinit /\ "GetMethodShortyL" \notin Reinit
      BY DEF Needed, Reinit, Interpreter
    <3>2. phone.debuggable /\ found = {} BY <1>6
    <3> QED BY <1>2, <1>3, <3>1, <3>2, UsesBySdk, ExcusedBy
  <2> HIDE DEF hook, ok
  <2> QED BY <1>1, <1>6, <2>1, StageFails
<1> QED BY <1>5, <1>6

\* JniIdManager::Init: nothing that is needed.
LEMMA StepJniIdManager == ASSUME InitInv, LsplantInit!InitJniIdManager PROVE InitInv'
<1> DEFINE encode == LsplantInit!Exact(<<"EncodeGenericId">>)
           S == IF sdk >= 30 /\ phone.debuggable THEN encode ELSE {}
<1>1. /\ initStage = "JniIdManager" /\ known' = known \cup S /\ phone' = phone /\ runtimeDebuggable' = runtimeDebuggable
      /\ initStage' = "debug"
  BY DEF LsplantInit!InitJniIdManager, LsplantInit!Step, LsplantInit!When, LsplantInit!Sdk, sdk
<1>2. PhoneOk BY <1>1, RankGives DEF InitInv
<1> HIDE DEF S
<1>6. Fact(12, known \cup S) BY DEF Fact
<1> QED BY <1>1, <1>6, RankGives, RankNames, StageStep, SMTT(30)

\* The runtime is made non-debuggable: a way to do so was found.
LEMMA StepDebuggable == ASSUME InitInv, LsplantInit!InitDebuggable PROVE InitInv'
<1>1. /\ initStage = "debug" /\ initStage' = "true" /\ phone' = phone /\ known' = known
      /\ runtimeDebuggable' = (runtimeDebuggable /\ Debug \cap known = {})
  BY DEF LsplantInit!InitDebuggable, Debug
<1>2. /\ PhoneOk /\ Facts(13, known) /\ (runtimeDebuggable => phone.debuggable)
  BY <1>1, RankGives DEF InitInv
<1>3. PhoneOk' BY <1>1, <1>2 DEF PhoneOk, sdk
<1>4. ~runtimeDebuggable'
  <2> SUFFICES ASSUME runtimeDebuggable PROVE Debug \cap known # {} BY <1>1
  <2>1. sdk \in Nat /\ sdk >= 28 BY <1>2, SdkGives DEF PhoneOk
  <2>2. Fact(4, known) BY <1>2 DEF Facts
  <2> QED BY <2>1, <2>2 DEF Fact
<1>5. Facts(14, known)
  <2>1. Fact(13, known) BY DEF Fact
  <2> QED BY <1>2, <2>1, FactsGrow, 14 = 13 + 1
<1>7. (Facts(Rank[initStage], known))' BY <1>1, <1>5, RankGives DEF Facts, Fact, sdk, Has, Dummy, Gone, LsplantInit!Gone
<1> QED BY <1>1, <1>3, <1>4, <1>7, RankNames DEF InitInv

\* At first nothing is known.
LEMMA InitStart == ASSUME LsplantInit!Init PROVE InitInv
<1>1. /\ PhoneOk /\ known = {} /\ initStage = "JNI" /\ (runtimeDebuggable => phone.debuggable)
  BY PhoneGives DEF LsplantInit!Init, LsplantInit!Sdk, sdk
<1>2. Facts(0, known) BY DEF Facts
<1> QED BY <1>1, <1>2, RankGives, RankNames DEF InitInv

\* Every stage keeps the invariant.
LEMMA InitStep == ASSUME InitInv, LsplantInit!Next PROVE InitInv'
BY StepJNI, StepArtMethod, StepThread, StepClass, StepRuntime, StepClassLinker, StepScopedSuspendAll,
   StepScopedGCCriticalSection, StepJitCodeCache, StepJit, StepDexFile, StepInstrumentation, StepJniIdManager,
   StepDebuggable
DEF LsplantInit!Next

\* Everything that is used later was found.
LEMMA UsesFound == ASSUME InitInv, initStage = "true", NEW use \in LsplantInit!Uses PROVE use \cap known # {}
<1>1. PhoneOk /\ Facts(14, known) BY RankGives DEF InitInv
<1>2. \A i \in 0..13 : Fact(i, known) BY <1>1 DEF Facts
<1>3. Fact(1, known) /\ Fact(2, known) /\ Fact(3, known) /\ Fact(4, known) /\ Fact(5, known) /\ Fact(6, known) BY <1>2
<1>4. Fact(7, known) /\ Fact(8, known) /\ Fact(10, known) /\ Fact(11, known) BY <1>2
<1>5. \/ use \in {Shorty, {"GetClassDef"}, {"instance"}, {"CurrentFromGdb"}, Register, Unregister,
                  {"SetEntryPointsToInterpreter", "art_quick_to_interpreter_bridge"},
                  {"ScopedSuspendAllC2", "SuspendVM"}, {"ScopedSuspendAllD2", "ResumeVM"}}
      \/ use = {"SetStatus", "ClassSetStatus"} /\ sdk < 26
      \/ use = {"SetClassStatus", "TrivialSetStatus"} /\ ~(sdk < 26)
      \/ use = {"art_interpreter_to_compiled_code_bridge"} /\ sdk <= 23
      \/ use \in {{"ScopedGCCriticalSectionC2"}, {"ScopedGCCriticalSectionD2"}, Collect} /\ sdk >= 24
      \/ use \in {{"MoveObsoleteMethod"}, Debug} /\ sdk >= 26
      \/ use = OpenMem /\ sdk < 26
      \/ use = Reinit /\ phone.debuggable
  BY FamiliesGive
  DEF LsplantInit!Uses, LsplantInit!When, LsplantInit!Sdk, sdk, Shorty, Register, Unregister, Collect, Debug, OpenMem
<1>6. CASE use \in {Shorty, {"GetClassDef"}, {"instance"}, {"CurrentFromGdb"}, Register, Unregister,
                    {"SetEntryPointsToInterpreter", "art_quick_to_interpreter_bridge"},
                    {"ScopedSuspendAllC2", "SuspendVM"}, {"ScopedSuspendAllD2", "ResumeVM"}}
  BY <1>3, <1>6 DEF Fact
<1>7. CASE (use = {"SetStatus", "ClassSetStatus"} /\ sdk < 26) \/ (use = {"SetClassStatus", "TrivialSetStatus"} /\ ~(sdk < 26))
           \/ (use = {"art_interpreter_to_compiled_code_bridge"} /\ sdk <= 23) \/ (use = OpenMem /\ sdk < 26)
  BY <1>3, <1>4, <1>7 DEF Fact
<1>8. CASE (use \in {{"ScopedGCCriticalSectionC2"}, {"ScopedGCCriticalSectionD2"}, Collect} /\ sdk >= 24)
           \/ (use \in {{"MoveObsoleteMethod"}, Debug} /\ sdk >= 26) \/ (use = Reinit /\ phone.debuggable)
  BY <1>3, <1>4, <1>8 DEF Fact
<1> QED BY <1>5, <1>6, <1>7, <1>8

\* Every Java item that has a use is there.
LEMMA NothingLacks == ASSUME InitInv, initStage = "true" PROVE ~Lacks
<1>1. PhoneOk /\ Facts(14, known) BY RankGives DEF InitInv
<1>2. Fact(0, known) /\ Fact(1, known) /\ Fact(10, known) BY <1>1 DEF Facts
<1>3. /\ phone.missing \notin JniItems /\ phone.missing # "Throwable" /\ (sdk >= 26 => phone.missing # "DexFileInit")
      /\ (sdk >= 23 => phone.missing # "artMethod") /\ (sdk <= 26 => phone.missing # "AbstractMethodError")
      /\ (sdk < 26 => phone.missing # "mCookie" /\ phone.missing # "mFileName")
      /\ (sdk < 26 /\ sdk >= 24 => phone.missing # "mInternalCookie")
  BY <1>2 DEF Fact, Has
<1>4. Dummy => phone.missing \notin {"Object", "equals"}
  <2>1. Fact(5, known) BY <1>1 DEF Facts
  <2> QED BY <2>1 DEF Fact, Has
<1> QED BY <1>1, <1>3, <1>4, JavaLacks

\* The names of this module, for LsplantInit's.
LEMMA LacksGives == Lacks <=> LsplantInit!Lacks
BY DEF Lacks, LsplantInit!Lacks, Dummy, Gone, LsplantInit!Sdk, sdk

\* The invariant says what the property does.
LEMMA InitGives == ASSUME InitInv PROVE LsplantInit!InitComplete
<1>1. CASE initStage = "true"
  <2>1. ~runtimeDebuggable BY <1>1 DEF InitInv
  <2>2. phone.up
    <3>1. Fact(4, known) BY <1>1, RankGives DEF InitInv, Facts
    <3> QED BY <3>1 DEF Fact
  <2>4. \A use \in LsplantInit!Uses : use \cap known # {} BY <1>1, UsesFound
  <2>5. ~Lacks BY <1>1, NothingLacks
  <2> QED BY <1>1, <2>1, <2>2, <2>4, <2>5, LacksGives DEF LsplantInit!InitComplete
<1>2. CASE initStage = "false"
  <2>1. Excused BY <1>2 DEF InitInv
  <2> QED BY <1>2, <2>1, LacksGives DEF Excused, With, Gone, LsplantInit!InitComplete
<1>3. CASE initStage # "true" /\ initStage # "false" BY <1>3 DEF LsplantInit!InitComplete
<1> QED BY <1>1, <1>2, <1>3

\* On every device lsplant::Init returns true only when everything that is used
\* later was found, and gives up only if the device lacks something that is needed
\* (lsplant::Init, HookHandler, ResolveArtSymbol).
THEOREM InitsComplete == LsplantSpec => []InitComplete
<1> DEFINE all == <<vars, part, initPart, methodPart, stubPart, jniPart>>
<1>1. LsplantStart => (part = "init" => InitInv)
  BY InitStart DEF LsplantStart
<1>2. (part = "init" => InitInv) /\ [LsplantNext]_all => (part = "init" => InitInv)'
  <2> SUFFICES ASSUME part = "init" => InitInv, [LsplantNext]_all, part' = "init" PROVE InitInv'
    OBVIOUS
  <2>1. CASE UNCHANGED all
    <3>1. /\ phone' = phone /\ known' = known /\ runtimeDebuggable' = runtimeDebuggable /\ initStage' = initStage
          /\ part = "init"
      BY <2>1 DEF initPart
    <3>2. PhoneOk => PhoneOk' BY <3>1 DEF PhoneOk, sdk
    <3>3. Excused => Excused'
      BY <3>1 DEF Excused, Lacks, Dummy, sdk, With, Gone, LsplantInit!Gone, LsplantInit!Uses, LsplantInit!Sdk, LsplantInit!When
    <3>4. Facts(Rank[initStage], known) => (Facts(Rank[initStage], known))' BY <3>1 DEF Facts, Fact, sdk, Has, Dummy, Gone, LsplantInit!Gone
    <3> QED BY <3>1, <3>2, <3>3, <3>4 DEF InitInv
  <2>2. CASE LsplantNext
    <3>1. part = "init" BY <2>2 DEF LsplantNext
    <3>2. LsplantInit!Next BY <2>2, <3>1 DEF LsplantNext
    <3> QED BY <3>1, <3>2, InitStep
  <2> QED BY <2>1, <2>2
<1>3. (part = "init" => InitInv) => InitComplete BY InitGives DEF InitComplete
<1> QED BY <1>1, <1>2, <1>3, PTL DEF LsplantSpec

-----------------------------------------------------------------------------
(* The trampoline in front of a hooked method.                             *)

Updated(arch, offset) == HookStub!UpdateTrampoline(HookStub!GetTrampoline(arch), offset)

\* The displacements the instructions of a trampoline can hold.
Reach(arch) == IF arch \in {"x86", "x64"} THEN 0..127 ELSE 0..255

\* The trampoline with this offset takes the address of `hook` from where it was
\* put, and loads the entry point from there.
Loads(arch, offset) ==
    HookStub!Executed(arch, Updated(arch, offset).code) = [method |-> Updated(arch, offset).method, entry |-> offset]

\* The two bytes of a trampoline that the offset goes into.
First(bit) == (bit \div 8) + 1
Second(bit) == (bit \div 8) + 2
Low(bit, offset) == (offset * 2^(bit % 8)) % 256
High(bit, offset) == offset \div 2^(8 - (bit % 8))

\* UpdateTrampoline adds to them, and leaves the others alone.
Adds(u, t, bit, offset) ==
    /\ u.method = t.method
    /\ \A j \in DOMAIN t.code \ {First(bit), Second(bit)} : u.code[j] = t.code[j]
    /\ u.code[First(bit)] = t.code[First(bit)] + Low(bit, offset)
    /\ u.code[Second(bit)] = t.code[Second(bit)] + High(bit, offset)

\* UpdateTrampoline puts the offset in two bytes.
LEMMA UpdateGives ==
    ASSUME NEW c, NEW bit \in Nat, NEW m, \A j \in DOMAIN c : c[j] \in Int,
           First(bit) \in DOMAIN c, Second(bit) \in DOMAIN c, NEW offset \in Nat
    PROVE  LET t == [code |-> c, bit |-> bit, method |-> m] IN Adds(HookStub!UpdateTrampoline(t, offset), t, bit, offset)
<1> DEFINE t == [code |-> c, bit |-> bit, method |-> m]
           d == [j \in DOMAIN c |-> c[j] + (CASE j = First(bit) -> Low(bit, offset)
                                              [] j = Second(bit) -> High(bit, offset)
                                              [] OTHER -> 0)]
           u == HookStub!UpdateTrampoline(t, offset)
<1>1. u = [t EXCEPT !.code = d] BY DEF HookStub!UpdateTrampoline, First, Second, Low, High
<1>2. First(bit) # Second(bit) BY DEF First, Second
<1>3. /\ d[First(bit)] = c[First(bit)] + Low(bit, offset) /\ d[Second(bit)] = c[Second(bit)] + High(bit, offset)
      /\ \A j \in DOMAIN c \ {First(bit), Second(bit)} : d[j] = c[j]
  BY <1>2
<1> HIDE DEF d, u
<1>4. u.code = d /\ u.method = m BY <1>1
<1>5. Adds(u, t, bit, offset) BY <1>3, <1>4 DEF Adds
<1> QED BY <1>5 DEF u

\* The trampoline for ARM.
LEMMA ArmLoads == ASSUME NEW offset \in 0..255 PROVE Loads("arm", offset)
<1> DEFINE c == <<0, 0, 159, 229, 0, 240, 144, 229, 120, 86, 52, 18>>
           t == [code |-> c, bit |-> 32, method |-> 8]
           u == Updated("arm", offset)
<1>1. HookStub!GetTrampoline("arm") = t BY DEF HookStub!GetTrampoline
<1>2. c[1] = 0 /\ c[2] = 0 /\ c[3] = 159 /\ c[5] = 0 /\ c[6] = 240 /\ c[7] = 144 /\ DOMAIN c = 1..12 OBVIOUS
<1>3. \A j \in DOMAIN c : c[j] \in Int OBVIOUS
<1>4. First(32) = 5 /\ Second(32) = 6 BY DEF First, Second
<1>5. Low(32, offset) = offset /\ High(32, offset) = 0 BY DEF Low, High
<1> HIDE DEF c
<1>6. Adds(u, t, 32, offset)
  <2>1. First(32) \in DOMAIN c /\ Second(32) \in DOMAIN c BY <1>2, <1>4
  <2> QED BY <1>1, <1>3, <2>1, UpdateGives DEF Updated
<1>7. t.code = c /\ t.method = 8 OBVIOUS
<1> HIDE DEF t, u
<1>8. u.code[1] = 0 /\ u.code[2] = 0 /\ u.code[3] = 159 /\ u.code[7] = 144 /\ u.method = 8
  BY <1>2, <1>4, <1>6, <1>7 DEF Adds
<1>9. u.code[5] = 0 + offset /\ u.code[6] = 240 + 0
  BY <1>2, <1>4, <1>5, <1>6, <1>7 DEF Adds
<1>10. HookStub!Word(u.code, 0) % 2^12 = 0 /\ HookStub!Word(u.code, 4) % 2^12 = offset
  BY <1>8, <1>9 DEF HookStub!Word
<1> QED BY <1>8, <1>10 DEF Loads, u, HookStub!Executed

\* The trampoline for 64-bit ARM.
LEMMA Arm64Loads == ASSUME NEW offset \in 0..255 PROVE Loads("arm64", offset)
<1> DEFINE c == <<96, 0, 0, 88, 16, 0, 64, 248, 0, 2, 31, 214, 120, 86, 52, 18, 120, 86, 52, 18>>
           t == [code |-> c, bit |-> 44, method |-> 12]
           u == Updated("arm64", offset)
<1>1. HookStub!GetTrampoline("arm64") = t BY DEF HookStub!GetTrampoline
<1>2. c[1] = 96 /\ c[2] = 0 /\ c[3] = 0 /\ c[5] = 16 /\ c[6] = 0 /\ c[7] = 64 /\ DOMAIN c = 1..20 OBVIOUS
<1>3. \A j \in DOMAIN c : c[j] \in Int OBVIOUS
<1>4. First(44) = 6 /\ Second(44) = 7 BY DEF First, Second
<1>5. Low(44, offset) = 16 * (offset % 16) /\ High(44, offset) = (offset \div 16) BY DEF Low, High
<1> HIDE DEF c
<1>6. Adds(u, t, 44, offset)
  <2>1. First(44) \in DOMAIN c /\ Second(44) \in DOMAIN c BY <1>2, <1>4
  <2> QED BY <1>1, <1>3, <2>1, UpdateGives DEF Updated
<1>7. t.code = c /\ t.method = 12 OBVIOUS
<1> HIDE DEF t, u
<1>8. u.code[1] = 96 /\ u.code[2] = 0 /\ u.code[3] = 0 /\ u.code[5] = 16 /\ u.method = 12
  BY <1>2, <1>4, <1>6, <1>7 DEF Adds
<1>9. u.code[6] = 0 + 16 * (offset % 16) /\ u.code[7] = 64 + (offset \div 16)
  BY <1>2, <1>4, <1>5, <1>6, <1>7 DEF Adds
<1>10. HookStub!Word(u.code, 0) = 96 /\ 4 * ((96 \div 2^5) % 2^19) = 12 BY <1>8 DEF HookStub!Word
<1>11. HookStub!Word(u.code, 4) = 16 + 4096 * offset + 65536 * 64 BY <1>8, <1>9 DEF HookStub!Word
<1>12. (HookStub!Word(u.code, 4) \div 2^12) % 2^9 = offset BY <1>11
<1>13. HookStub!Signed(offset, 9) = offset BY DEF HookStub!Signed
<1> QED BY <1>8, <1>10, <1>12, <1>13 DEF Loads, u, HookStub!Executed

\* The trampoline for x86, whose displacement is a signed byte.
LEMMA X86Loads == ASSUME NEW offset \in 0..127 PROVE Loads("x86", offset)
<1> DEFINE c == <<184, 120, 86, 52, 18, 255, 112, 0, 195>>
           t == [code |-> c, bit |-> 56, method |-> 1]
           u == Updated("x86", offset)
<1>1. HookStub!GetTrampoline("x86") = t BY DEF HookStub!GetTrampoline
<1>2. c[8] = 0 /\ c[9] = 195 /\ DOMAIN c = 1..9 OBVIOUS
<1>3. \A j \in DOMAIN c : c[j] \in Int OBVIOUS
<1>4. First(56) = 8 /\ Second(56) = 9 BY DEF First, Second
<1>5. Low(56, offset) = offset /\ High(56, offset) = 0 BY DEF Low, High
<1> HIDE DEF c
<1>6. Adds(u, t, 56, offset)
  <2>1. First(56) \in DOMAIN c /\ Second(56) \in DOMAIN c BY <1>2, <1>4
  <2> QED BY <1>1, <1>3, <2>1, UpdateGives DEF Updated
<1>7. t.code = c /\ t.method = 1 OBVIOUS
<1> HIDE DEF t, u
<1>8. u.method = 1
  BY <1>2, <1>4, <1>6, <1>7 DEF Adds
<1>9. u.code[8] = 0 + offset /\ u.code[9] = 195 + 0
  BY <1>2, <1>4, <1>5, <1>6, <1>7 DEF Adds
<1>10. HookStub!Signed(u.code[8], 8) = offset BY <1>9 DEF HookStub!Signed
<1> QED BY <1>8, <1>10 DEF Loads, u, HookStub!Executed

\* The trampoline for x86-64, whose displacement is a signed byte.
LEMMA X64Loads == ASSUME NEW offset \in 0..127 PROVE Loads("x64", offset)
<1> DEFINE c == <<72, 191, 120, 86, 52, 18, 120, 86, 52, 18, 255, 119, 0, 195>>
           t == [code |-> c, bit |-> 96, method |-> 2]
           u == Updated("x64", offset)
<1>1. HookStub!GetTrampoline("x64") = t BY DEF HookStub!GetTrampoline
<1>2. c[13] = 0 /\ c[14] = 195 /\ DOMAIN c = 1..14 OBVIOUS
<1>3. \A j \in DOMAIN c : c[j] \in Int OBVIOUS
<1>4. First(96) = 13 /\ Second(96) = 14 BY DEF First, Second
<1>5. Low(96, offset) = offset /\ High(96, offset) = 0 BY DEF Low, High
<1> HIDE DEF c
<1>6. Adds(u, t, 96, offset)
  <2>1. First(96) \in DOMAIN c /\ Second(96) \in DOMAIN c BY <1>2, <1>4
  <2> QED BY <1>1, <1>3, <2>1, UpdateGives DEF Updated
<1>7. t.code = c /\ t.method = 2 OBVIOUS
<1> HIDE DEF t, u
<1>8. u.method = 2
  BY <1>2, <1>4, <1>6, <1>7 DEF Adds
<1>9. u.code[13] = 0 + offset /\ u.code[14] = 195 + 0
  BY <1>2, <1>4, <1>5, <1>6, <1>7 DEF Adds
<1>10. HookStub!Signed(u.code[13], 8) = offset BY <1>9 DEF HookStub!Signed
<1> QED BY <1>8, <1>10 DEF Loads, u, HookStub!Executed

\* The trampoline for RISC-V.
LEMMA RiscvLoads == ASSUME NEW offset \in 0..255 PROVE Loads("riscv64", offset)
<1> DEFINE c == <<23, 5, 0, 0, 3, 53, 5, 1, 131, 63, 5, 0, 103, 128, 15, 0, 120, 86, 52, 18, 120, 86, 52, 18>>
           t == [code |-> c, bit |-> 84, method |-> 16]
           u == Updated("riscv64", offset)
<1>1. HookStub!GetTrampoline("riscv64") = t BY DEF HookStub!GetTrampoline
<1>2. c[7] = 5 /\ c[8] = 1 /\ c[11] = 5 /\ c[12] = 0 /\ DOMAIN c = 1..24 OBVIOUS
<1>3. \A j \in DOMAIN c : c[j] \in Int OBVIOUS
<1>4. First(84) = 11 /\ Second(84) = 12 BY DEF First, Second
<1>5. Low(84, offset) = 16 * (offset % 16) /\ High(84, offset) = (offset \div 16) BY DEF Low, High
<1> HIDE DEF c
<1>6. Adds(u, t, 84, offset)
  <2>1. First(84) \in DOMAIN c /\ Second(84) \in DOMAIN c BY <1>2, <1>4
  <2> QED BY <1>1, <1>3, <2>1, UpdateGives DEF Updated
<1>7. t.code = c /\ t.method = 16 OBVIOUS
<1> HIDE DEF t, u
<1>8. u.code[7] = 5 /\ u.code[8] = 1 /\ u.method = 16
  BY <1>2, <1>4, <1>6, <1>7 DEF Adds
<1>9. u.code[11] = 5 + 16 * (offset % 16) /\ u.code[12] = 0 + (offset \div 16)
  BY <1>2, <1>4, <1>5, <1>6, <1>7 DEF Adds
<1>10. (u.code[7] \div 2^4) + 2^4 * u.code[8] = 16 BY <1>8
<1>11. (u.code[11] \div 2^4) + 2^4 * u.code[12] = offset BY <1>9
<1>12. HookStub!Signed(offset, 12) = offset BY DEF HookStub!Signed
<1> QED BY <1>8, <1>10, <1>11, <1>12 DEF Loads, u, HookStub!Executed

Architectures == {"arm", "arm64", "x86", "x64", "riscv64"}

\* What is generated for a method has the trampoline of its processor.
StubInv ==
    stubStep \in {"hooked", "called"} => stub.entry = Updated(cpu.arch, cpu.offset)

\* The trampoline of every hooked method, on each processor and wherever in an
\* ArtMethod the entry point is as far as its load can tell, takes the address of
\* `hook` from the literal it was put in, and the entry point from that offset.
TrampolineLoads ==
    part = "stub" /\ stubStep \in {"hooked", "called"} /\ cpu.arch \in Architectures /\ cpu.offset \in Reach(cpu.arch) =>
        HookStub!Executed(cpu.arch, stub.entry.code) = [method |-> stub.entry.method, entry |-> cpu.offset]

\* A call of a hooked method gets to `hook`, for every processor and every offset
\* (GetTrampoline, UpdateTrampoline).
THEOREM TrampolinesLoad == LsplantSpec => []TrampolineLoads
<1> DEFINE all == <<vars, part, initPart, methodPart, stubPart, jniPart>>
<1>1. LsplantStart => (part = "stub" => StubInv)
  BY DEF LsplantStart, HookStub!Init, StubInv
<1>2. (part = "stub" => StubInv) /\ [LsplantNext]_all => (part = "stub" => StubInv)'
  <2> SUFFICES ASSUME part = "stub" => StubInv, [LsplantNext]_all, part' = "stub" PROVE StubInv'
    OBVIOUS
  <2>1. CASE UNCHANGED all BY <2>1 DEF stubPart, StubInv
  <2>2. CASE LsplantNext
    <3>1. part = "stub" BY <2>2 DEF LsplantNext
    <3>2. HookStub!Hook \/ HookStub!Call BY <2>2, <3>1 DEF LsplantNext, HookStub!Next
    <3>3. CASE HookStub!Hook
      <4>1. cpu' = cpu /\ (stubStep' = "failed" \/ (stubStep' = "hooked" /\ stub'.entry = Updated(cpu.arch, cpu.offset)))
        BY <3>3 DEF HookStub!Hook, Updated
      <4> QED BY <4>1 DEF StubInv
    <3>4. CASE HookStub!Call BY <3>1, <3>4 DEF HookStub!Call, StubInv
    <3> QED BY <3>2, <3>3, <3>4
  <2> QED BY <2>1, <2>2
<1>3. (part = "stub" => StubInv) => TrampolineLoads
  <2> SUFFICES ASSUME StubInv, stubStep \in {"hooked", "called"}, cpu.arch \in Architectures, cpu.offset \in Reach(cpu.arch)
               PROVE  HookStub!Executed(cpu.arch, stub.entry.code) = [method |-> stub.entry.method, entry |-> cpu.offset]
    BY DEF TrampolineLoads
  <2>1. Loads(cpu.arch, cpu.offset)
    BY ArmLoads, Arm64Loads, X86Loads, X64Loads, RiscvLoads DEF Architectures, Reach
  <2> QED BY <2>1 DEF StubInv, Loads
<1> QED BY <1>1, <1>2, <1>3, PTL DEF LsplantSpec
=============================================================================
