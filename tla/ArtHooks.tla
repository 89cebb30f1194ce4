----------------------------- MODULE ArtHooks -----------------------------
(***************************************************************************)
(* LSPlant's hooks inside ART: Hook, UnHook and Deoptimize of lsplant.cc   *)
(* with the maps of common.cxx, and the functions of ART that LSPlant      *)
(* intercepts so that a hook survives them: the initialisation of a class  *)
(* (mirror/class.cxx, class_linker.cxx), RegisterNative, the updates of    *)
(* instrumentation.cxx, compilation and collection of the JIT's code.      *)
(*                                                                         *)
(* A Hook makes a stub class with a method `hook`, entered through a       *)
(* trampoline, and a method `backup` that becomes a copy of the target.    *)
(* The model names all three after the backup: b in Backups is the         *)
(* ArtMethod, the stub class, and, as an entry point, the trampoline.      *)
(***************************************************************************)
EXTENDS Naturals, FiniteSets

CONSTANTS
    Threads,
    Targets,   \* methods of the class App
    Backups,   \* the stubs that can be built
    App,       \* the class of the targets
    None,
    MaxRegs,   \* bound on the number of RegisterNative calls
    FollowAll  \* bound: FALSE starts nothing new once operations have overlapped

ASSUME FollowAssumption == FollowAll \in BOOLEAN
ASSUME NamesAssumption ==
    /\ Targets \cap Backups = {}
    /\ None \notin Targets \cup Backups
    /\ App \notin Backups
    /\ (Targets \cup Backups) \cap
         {"resolve", "code", "jit", "interpreter", "stub", "none", "freed"} = {}

Methods == Targets \cup Backups
Classes == {App} \cup Backups
MethodsOf(c) == IF c = App THEN Targets ELSE {c}

\* Entry points: the resolution stub, compiled code, code of the JIT, the bridge
\* to the interpreter, ART's code for the stub's own method, or a trampoline.
Entries == {"resolve", "code", "jit", "interpreter", "stub"} \cup Backups

VARIABLES
    statics,      \* targets with kAccStatic
    natives,      \* targets with kAccNative
    debuggable,   \* the runtime is Java debuggable: instrumentation is hooked
    fixupSeen,    \* FixupStaticTrampolines goes through the hooked instrumentation
    entry,        \* entry point of every ArtMethod
    fn,           \* native function of every ArtMethod
    private,      \* methods with kAccPrivate
    copyOf,       \* per backup: the target it is a copy of
    hooked,       \* hooked_methods_, target -> backup
    hookedBy,     \* hooked_methods_, backup -> target
    hookedClasses, deoptClasses, deoptSet,  \* the other maps of common.cxx
    internal,     \* per target: what LSPlant's own jmethodID of it names
    jit,          \* per target: the owner of its JIT code, "none" or "freed"
    movements,    \* jit_movements_
    saved,        \* backup_methods_, per class
    initPc,       \* per class: the thread that initialises it
    pc, arg, bk,  \* per thread: step, target, backup
    built,        \* stubs that were built
    latest,       \* history: per target, its native function
    disturbed     \* history: targets with overlapping operations

flagVars == <<statics, natives, debuggable, fixupSeen>>
artVars == <<entry, fn, private, copyOf>>
mapVars == <<hooked, hookedBy, hookedClasses, deoptClasses, deoptSet>>
initVars == <<saved, initPc>>
jitVars == <<jit, movements>>
thrVars == <<pc, arg, bk>>
vars == <<flagVars, artVars, mapVars, internal, jitVars, initVars, thrVars, built, latest, disturbed>>

Empty == [m \in {} |-> "code"]

Init ==
    /\ statics \in SUBSET Targets
    /\ natives \in SUBSET Targets
    /\ debuggable \in BOOLEAN
    /\ fixupSeen \in {FALSE, debuggable}
    /\ entry = [m \in Methods |-> IF m \in Backups THEN "stub"
                                  ELSE IF m \in statics THEN "resolve" ELSE "code"]
    /\ fn = [m \in Methods |-> 0]
    /\ private = {}
    /\ copyOf = [b \in Backups |-> None]
    /\ hooked = [m \in Targets |-> None]
    /\ hookedBy = [b \in Backups |-> None]
    /\ hookedClasses = {}
    /\ deoptClasses = {}
    /\ deoptSet = {}
    /\ internal = [m \in Targets |-> m]
    /\ jit = [m \in Targets |-> "none"]
    /\ movements = {}
    /\ saved = [c \in Classes |-> Empty]
    /\ initPc = [c \in Classes |-> "loaded"]
    /\ pc = [t \in Threads |-> "idle"]
    /\ arg = [t \in Threads |-> None]
    /\ bk = [t \in Threads |-> None]
    /\ built = {}
    /\ latest = [m \in Targets |-> 0]
    /\ disturbed = {}

\* A step of a call; the locals of a call end with it.
Local(t, label, m, b) ==
    /\ pc' = [pc EXCEPT ![t] = label]
    /\ arg' = [arg EXCEPT ![t] = m]
    /\ bk' = [bk EXCEPT ![t] = b]
Goto(t, label) == Local(t, label, arg[t], bk[t])
Return(t) == Local(t, "idle", None, None)

IsStatic(m) == IF m \in Targets THEN m \in statics ELSE copyOf[m] \in statics \cup {None}
IsNative(m) == IF m \in Targets THEN m \in natives ELSE copyOf[m] \in natives
IsHooked(m) == m \in Targets /\ hooked[m] # None

\* A thread in the middle of BackupClassMethods or RestoreBackup does not reach
\* a safepoint.  It may reach one between FixupStaticTrampolines and
\* RestoreBackup when the former is inlined into MarkVisiblyInitialized.
AtSafepoint(c) == initPc[c] \notin {"backup", "restore"}
SuspendAll == \A c \in Classes : AtSafepoint(c)

-----------------------------------------------------------------------------
(* Hook.  CoreEngineImpl calls Hook and UnHook of one member in the monitor *)
(* of its Holder.                                                          *)

InHook == {"doHook", "recordClass", "recordMethod", "recordDeoptClass", "recordDeopt"}
InUnhook == {"eraseBackup", "eraseClass", "doUnhook"}
InDeoptimize == {"deoptSet", "deoptRead", "deoptWrite"}

HolderFree(m) == \A u \in Threads : arg[u] = m => pc[u] \notin InHook \cup InUnhook
Followed == FollowAll \/ disturbed = {}

\* A duplicate hook and a stub that cannot be built end the call at once.
Hook(t) ==
    \E m \in Targets, b \in Backups \ built :
        /\ pc[t] = "idle"
        /\ Followed
        /\ HolderFree(m)
        /\ ~IsHooked(m)
        /\ built' = built \cup {b}
        /\ Local(t, "doHook", m, b)
        /\ UNCHANGED <<flagVars, internal, jitVars, artVars, mapVars, initVars, latest>>

DoHook(t) ==
    LET m == arg[t]
        b == bk[t]
    IN  /\ pc[t] = "doHook"
        /\ SuspendAll
        /\ entry' = [entry EXCEPT ![b] = entry[m], ![m] = b]
        /\ fn' = [fn EXCEPT ![b] = fn[m]]
        /\ copyOf' = [copyOf EXCEPT ![b] = m]
        /\ private' = IF m \in statics THEN private ELSE private \cup {b}
        /\ Goto(t, "recordClass")
        /\ UNCHANGED <<flagVars, internal, jitVars, mapVars, initVars, built, latest>>

\* GenerateTrampolineFor returned null.
DoHookFails(t) ==
    /\ pc[t] = "doHook"
    /\ Return(t)
    /\ UNCHANGED <<flagVars, internal, jitVars, artVars, mapVars, initVars, built, latest>>

\* LSPlant's own ids of the target come to name the backup first.
RecordHookedClass(t) ==
    /\ pc[t] = "recordClass"
    /\ hookedClasses' = hookedClasses \cup {arg[t]}
    /\ internal' = [internal EXCEPT ![arg[t]] = IF @ = arg[t] THEN bk[t] ELSE @]
    /\ Goto(t, "recordMethod")
    /\ UNCHANGED <<flagVars, jitVars, artVars, hooked, hookedBy, deoptClasses, deoptSet, initVars, built, latest>>

RecordHookedMethod(t) ==
    /\ pc[t] = "recordMethod"
    /\ hooked' = [hooked EXCEPT ![arg[t]] = bk[t]]
    /\ hookedBy' = [hookedBy EXCEPT ![bk[t]] = arg[t]]
    /\ Goto(t, "recordDeoptClass")
    /\ UNCHANGED <<flagVars, internal, jitVars, artVars, hookedClasses, deoptClasses, deoptSet, initVars, built, latest>>

\* RecordDeoptimized: the class map, then the set.
RecordDeoptClass(t, label, m, next) ==
    /\ pc[t] = label
    /\ deoptClasses' = deoptClasses \cup {m}
    /\ next
    /\ UNCHANGED <<flagVars, internal, jit, artVars, hooked, hookedBy, hookedClasses, deoptSet, initVars, built, latest>>

RecordDeoptSet(t, label, m, next) ==
    /\ pc[t] = label
    /\ deoptSet' = deoptSet \cup {m}
    /\ next
    /\ UNCHANGED <<flagVars, internal, jitVars, artVars, hooked, hookedBy, hookedClasses, deoptClasses, initVars, built, latest>>

\* RecordJitMovement; the backup counts as deoptimized in the stub class; Hook
\* returns it.
RecordBackupClass(t) ==
    /\ movements' = movements \cup {<<arg[t], bk[t]>>}
    /\ RecordDeoptClass(t, "recordDeoptClass", bk[t], Goto(t, "recordDeopt"))
RecordBackup(t) == RecordDeoptSet(t, "recordDeopt", bk[t], Return(t))

-----------------------------------------------------------------------------
(* UnHook.                                                                 *)

\* hooked_methods_.erase_if; a method that is not hooked ends the call.
UnHook(t) ==
    \E m \in Targets :
        /\ pc[t] = "idle"
        /\ Followed
        /\ HolderFree(m)
        /\ IsHooked(m)
        /\ hooked' = [hooked EXCEPT ![m] = None]
        /\ Local(t, "eraseBackup", m, hooked[m])
        /\ UNCHANGED <<flagVars, internal, jitVars, artVars, hookedBy, hookedClasses, deoptClasses, deoptSet, initVars, built, latest>>

EraseBackup(t) ==
    /\ pc[t] = "eraseBackup"
    /\ hookedBy' = [hookedBy EXCEPT ![bk[t]] = None]
    /\ Goto(t, "eraseClass")
    /\ UNCHANGED <<flagVars, internal, jitVars, artVars, hooked, hookedClasses, deoptClasses, deoptSet, initVars, built, latest>>

\* Fault: the target stays in the set of its class.
EraseClassKept(t) ==
    /\ pc[t] = "eraseClass"
    /\ Goto(t, "doUnhook")
    /\ UNCHANGED <<flagVars, internal, jitVars, artVars, mapVars, initVars, built, latest>>

EraseClass(t) ==
    /\ pc[t] = "eraseClass"
    /\ hookedClasses' = hookedClasses \ {arg[t]}
    /\ Goto(t, "doUnhook")
    /\ UNCHANGED <<flagVars, internal, jitVars, artVars, hooked, hookedBy, deoptClasses, deoptSet, initVars, built, latest>>

\* Fault: only the entry point is copied back.
DoUnHookEntry(t) ==
    /\ pc[t] = "doUnhook"
    /\ SuspendAll
    /\ entry' = [entry EXCEPT ![arg[t]] = entry[bk[t]]]
    /\ internal' = [internal EXCEPT ![arg[t]] = IF @ = bk[t] THEN arg[t] ELSE @]
    /\ Return(t)
    /\ UNCHANGED <<flagVars, jitVars, fn, private, copyOf, mapVars, initVars, built, latest>>

\* The target becomes a copy of the backup but keeps its access flags.
DoUnHook(t) ==
    /\ pc[t] = "doUnhook"
    /\ SuspendAll
    /\ entry' = [entry EXCEPT ![arg[t]] = entry[bk[t]]]
    /\ fn' = [fn EXCEPT ![arg[t]] = fn[bk[t]]]
    /\ internal' = [internal EXCEPT ![arg[t]] = IF @ = bk[t] THEN arg[t] ELSE @]
    /\ Return(t)
    /\ UNCHANGED <<flagVars, jitVars, private, copyOf, mapVars, initVars, built, latest>>

-----------------------------------------------------------------------------
(* Deoptimize.  Nothing keeps it from running beside Hook and UnHook.      *)

Deoptimize(t) ==
    /\ pc[t] = "idle"
    /\ Followed
    /\ UNCHANGED movements
    /\ \E m \in Targets : RecordDeoptClass(t, "idle", m, Local(t, "deoptSet", m, None))
DeoptSet(t) == RecordDeoptSet(t, "deoptSet", arg[t], Goto(t, "deoptRead"))

\* The backup instead of the target, if there is one.
DeoptRead(t) ==
    /\ pc[t] = "deoptRead"
    /\ IF IsNative(arg[t]) THEN Return(t)
       ELSE Local(t, "deoptWrite", arg[t], IF IsHooked(arg[t]) THEN hooked[arg[t]] ELSE arg[t])
    /\ UNCHANGED <<flagVars, internal, jitVars, artVars, mapVars, initVars, built, latest>>

DeoptWrite(t) ==
    /\ pc[t] = "deoptWrite"
    /\ entry' = [entry EXCEPT ![bk[t]] = "interpreter"]
    /\ Return(t)
    /\ UNCHANGED <<flagVars, internal, jitVars, fn, private, copyOf, mapVars, initVars, built, latest>>

-----------------------------------------------------------------------------
(* Initialisation of class c.                                              *)

Step(c, from, to) ==
    /\ initPc[c] = from
    /\ initPc' = [initPc EXCEPT ![c] = to]
    /\ UNCHANGED <<flagVars, internal, jitVars, fn, private, copyOf, mapVars, thrVars, built, latest>>

EntriesOf(S) == [m \in {x \in S : IsStatic(x)} |-> entry[m]]

\* Fault: the entry points of hooked methods are not saved.
BackupNone(c) ==
    /\ c \in {App} \cup built
    /\ \E m \in MethodsOf(c) : IsStatic(m)
    /\ Followed
    /\ Step(c, "loaded", "backup")
    /\ UNCHANGED <<entry, saved>>

\* BackupClassMethods: the hooked methods, then the deoptimized ones.  A class
\* without static methods is left alone by all that follows.
BackupHooked(c) ==
    /\ c \in {App} \cup built
    /\ \E m \in MethodsOf(c) : IsStatic(m)
    /\ Followed
    /\ Step(c, "loaded", "backup")
    /\ saved' = [saved EXCEPT ![c] = EntriesOf(MethodsOf(c) \cap hookedClasses)]
    /\ UNCHANGED entry

\* emplace keeps what is there.
Emplace(f, g) == [m \in DOMAIN f \cup DOMAIN g |-> IF m \in DOMAIN f THEN f[m] ELSE g[m]]

BackupDeoptimized(c) ==
    /\ Step(c, "backup", "status")
    /\ saved' = [saved EXCEPT ![c] = Emplace(@, EntriesOf(MethodsOf(c) \cap deoptClasses))]
    /\ UNCHANGED entry

\* What ART finds for a static method of c.
ArtCode(c) == IF c = App THEN "code" ELSE "stub"

\* Instrumentation: a deoptimized method is skipped, the backup of a hooked
\* one gets the code.
Skipped(m) == m \in deoptSet
MaybeUseBackupMethod(m, code) == IF IsHooked(m) /\ entry[m] # code THEN hooked[m] ELSE m

FixupStaticTrampolines(c) ==
    /\ Step(c, "status", "fixed")
    /\ LET S == {m \in MethodsOf(c) : IsStatic(m) /\ ~(fixupSeen /\ Skipped(m))}
           W == {IF fixupSeen THEN MaybeUseBackupMethod(m, ArtCode(c)) ELSE m : m \in S}
       IN  entry' = [m \in Methods |-> IF m \in W THEN ArtCode(c) ELSE entry[m]]
    /\ UNCHANGED saved

\* Fault: the code ART has found is not passed on to the backup.
RestoreOnly(c) ==
    \E m \in DOMAIN saved[c], label \in {"fixed", "restore"} :
        LET reset == IF ~IsHooked(m) /\ m \in deoptSet /\ entry[m] # "interpreter" /\ ~IsNative(m)
                     THEN "interpreter" ELSE saved[c][m]
        IN  /\ Step(c, label, "restore")
            /\ entry' = [entry EXCEPT ![m] = reset]
            /\ saved' = [saved EXCEPT ![c] = [x \in DOMAIN @ \ {m} |-> @[x]]]

\* PopBackup and one turn of the loop of RestoreBackup.
RestoreBackup(c) ==
    \E m \in DOMAIN saved[c], label \in {"fixed", "restore"} :
        LET new == entry[m]
            old == saved[c][m]
            deoptimized == m \in deoptSet
            reset == IF ~IsHooked(m) /\ deoptimized /\ new # "interpreter" /\ ~IsNative(m)
                     THEN "interpreter" ELSE old
            moved == {hooked[x] : x \in {y \in {m} : IsHooked(y) /\ ~deoptimized /\ new # old}}
        IN  /\ Step(c, label, "restore")
            /\ entry' = [x \in Methods |-> IF x \in moved THEN new ELSE IF x = m THEN reset ELSE entry[x]]
            /\ saved' = [saved EXCEPT ![c] = [x \in DOMAIN @ \ {m} |-> @[x]]]

Initialized(c) ==
    /\ DOMAIN saved[c] = {}
    /\ \E label \in {"fixed", "restore"} : Step(c, label, "initialized")
    /\ UNCHANGED <<entry, saved>>

ClassInit(c) ==
    \/ BackupHooked(c) \/ BackupDeoptimized(c) \/ FixupStaticTrampolines(c)
    \/ RestoreBackup(c) \/ Initialized(c)

-----------------------------------------------------------------------------
(* ART at any time.                                                        *)

\* RegisterNative, UnregisterNative: MayGetBackup.
RegisterNative(m) ==
    /\ m \in natives
    /\ Followed
    /\ latest[m] < MaxRegs
    /\ latest' = [latest EXCEPT ![m] = @ + 1]
    /\ fn' = [fn EXCEPT ![IF IsHooked(m) THEN hooked[m] ELSE m] = latest[m] + 1]
    /\ UNCHANGED <<flagVars, internal, jitVars, entry, private, copyOf, mapVars, initVars, thrVars, built>>

\* ReinitializeMethodsCode and its siblings, in a debuggable runtime.
ReinitializeMethodsCode(m) ==
    /\ debuggable
    /\ Followed
    /\ ~Skipped(m)
    /\ \E code \in IF m \in statics /\ initPc[App] # "initialized"
                     THEN {"resolve"} ELSE {"code", "interpreter"} :
          entry' = [entry EXCEPT ![MaybeUseBackupMethod(m, None)] = code]
    /\ UNCHANGED <<flagVars, internal, jitVars, fn, private, copyOf, mapVars, initVars, thrVars, built, latest>>

-----------------------------------------------------------------------------
(* The JIT.                                                                *)

\* The method a request for x compiles: EnqueueOptimizedCompilation_ turns a
\* backup into its target, AddCompileTask_ a target into its backup.
Compiled(x) ==
    IF x \in Backups THEN IF hookedBy[x] # None THEN {hookedBy[x]} ELSE {x}
    ELSE IF IsHooked(x) THEN {hooked[x], x} ELSE {x}

\* SetNonCompilable in BackupTo, for the target and the backup; UnHook leaves it.
Compilable(x) == IF x \in Backups THEN copyOf[x] = None ELSE \A b \in Backups : copyOf[b] # x

JitCompile(x) ==
    \E m \in Compiled(x) \cap Targets :
        /\ Followed
        /\ Compilable(m)
        /\ m \notin natives \cup deoptSet
        /\ jit[m] = "none"
        /\ entry[m] # "resolve"
        /\ entry' = [entry EXCEPT ![m] = "jit"]
        /\ jit' = [jit EXCEPT ![m] = m]
        /\ UNCHANGED <<flagVars, fn, private, copyOf, mapVars, internal, movements, initVars, thrVars, built, latest>>

\* MoveObsoleteMethods: the owner of the code of m; the list is emptied.
MoveObsoleteMethods(m) ==
    LET to == {b \in Backups : <<m, b>> \in movements}
    IN IF jit[m] = m /\ to # {} THEN CHOOSE b \in to : TRUE ELSE jit[m]

\* GarbageCollectCache_ and DoCollection_: code that its owner does not enter goes.
GarbageCollectCache ==
    /\ Followed
    /\ \E m \in Targets : jit[m] \notin {"none", "freed"}
    /\ jit' = [m \in Targets |->
                 LET owner == MoveObsoleteMethods(m)
                 IN IF owner \in Methods /\ entry[owner] # "jit" THEN "freed" ELSE owner]
    /\ movements' = {}
    /\ UNCHANGED <<flagVars, artVars, mapVars, internal, initVars, thrVars, built, latest>>

-----------------------------------------------------------------------------
Run(t) ==
    \/ DoHook(t) \/ DoHookFails(t)
    \/ RecordHookedClass(t) \/ RecordHookedMethod(t) \/ RecordBackupClass(t) \/ RecordBackup(t)
    \/ EraseBackup(t) \/ EraseClass(t) \/ DoUnHook(t)
    \/ DeoptSet(t) \/ DeoptRead(t) \/ DeoptWrite(t)

\* The steps of an operation on m from its first effect to its last.
Hooking(t, m) == arg[t] = m /\ pc[t] \in (InHook \ {"doHook"}) \cup InUnhook
Deoptimizing(t, m) == arg[t] = m /\ pc[t] \in InDeoptimize

Open(c) == initPc[c] \notin {"loaded", "initialized"}

\* Hook or UnHook of m beside a Deoptimize of m, or any of them beside the
\* initialisation of the class of m or of the stub class, or both of these.
Overlap(m) ==
    \/ \E t, u \in Threads : Hooking(t, m) /\ Deoptimizing(u, m)
    \/ \E t \in Threads, c \in Classes :
          /\ Hooking(t, m) \/ Deoptimizing(t, m)
          /\ c \in {App, bk[t]}
          /\ Open(c)
    \/ IsHooked(m) /\ Open(App) /\ Open(hooked[m])

\* No operation on m, and no initialisation of its class or its stub, is under way.
Quiet(m) ==
    /\ \A t \in Threads : ~Hooking(t, m) /\ ~Deoptimizing(t, m)
    /\ ~Open(App)
    /\ IsHooked(m) => ~Open(hooked[m])

\* The code of m belongs, or would by a movement of an earlier hook, to the
\* backup of that hook, which does not enter it any more.
Stale(m) ==
    LET owner == MoveObsoleteMethods(m)
    IN owner \in Backups /\ owner # hooked[m] /\ entry[owner] # "jit"

Disturb(S) == disturbed' = disturbed \cup S

Next ==
    \/ /\ \/ \E t \in Threads : Hook(t) \/ UnHook(t) \/ Deoptimize(t) \/ Run(t)
          \/ \E c \in Classes : ClassInit(c)
       /\ Disturb({m \in Targets : Overlap(m)'})
    \/ /\ GarbageCollectCache \/ \E x \in Methods : JitCompile(x)
       /\ Disturb({m \in Targets : ~Quiet(m) \/ Stale(m)})
    \/ \E m \in Targets :
          /\ RegisterNative(m) \/ ReinitializeMethodsCode(m)
          /\ Disturb({x \in {m} : ~Quiet(x)})

Spec == Init /\ [][Next]_vars

-----------------------------------------------------------------------------
(* Properties                                                              *)

\* A hook that was made stays in force: class initialisation, instrumentation
\* and operations on other methods leave the trampoline in place.
HookEffective ==
    \A m \in Targets \ disturbed :
        Quiet(m) /\ IsHooked(m) => entry[m] = hooked[m]

\* What ArtMethod x, standing for the original of target m, should be like: it
\* neither comes back to the hook nor stays at the resolution stub once the
\* class is initialised, nor enters code the JIT has freed, it is interpreted
\* when m was deoptimized, and it has the native function registered last.
Original(x, m) ==
    /\ entry[x] \in {"code", "interpreter"} \cup
            (IF jit[m] # "freed" THEN {"jit"} ELSE {}) \cup
            (IF m \in statics /\ initPc[App] = "loaded" THEN {"resolve"} ELSE {})
    /\ m \in deoptSet => entry[x] = "interpreter"
    /\ fn[x] = latest[m]

\* Calling the backup of a hooked method runs the original.
BackupIsOriginal ==
    \A m \in Targets \ disturbed :
        Quiet(m) /\ IsHooked(m) /\ ~(IsNative(m) /\ m \in deoptSet) => Original(hooked[m], m)

\* After UnHook the target is the original again, and as accessible as before:
\* the private flag of the backup never comes back with the copy (DoUnHook).
UnhookedIsOriginal ==
    \A m \in Targets :
        /\ m \notin private
        /\ m \notin disturbed /\ Quiet(m) /\ ~IsHooked(m) /\ ~(IsNative(m) /\ m \in deoptSet)
             => Original(m, m)

\* The maps agree about m whenever no Hook or UnHook of it is under way,
\* whatever overlapped before, and LSPlant's own uses of m reach the original.
MapsAgree ==
    \A m \in Targets :
        (\A t \in Threads : ~Hooking(t, m)) =>
            /\ IsHooked(m) <=> m \in hookedClasses
            /\ \A b \in Backups : hooked[m] = b <=> hookedBy[b] = m
            /\ internal[m] = IF IsHooked(m) THEN hooked[m] ELSE m
=============================================================================
