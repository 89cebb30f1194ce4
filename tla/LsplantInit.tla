---------------------------- MODULE LsplantInit ----------------------------
(***************************************************************************)
(* lsplant::Init: what it looks up in Java (InitJNI) and in libart.so      *)
(* (InitNative, through HookHandler and the resolver of glue.cpp), on      *)
(* devices that lack or hide part of it, compared with what the library    *)
(* calls once Init has returned true.                                      *)
(*                                                                         *)
(* A device has everything in the dynamic symbol table but the functions   *)
(* of one family, which are anywhere, and at most one Java item missing.   *)
(* Families are independent: each is looked up by handler calls of its own.*)
(***************************************************************************)
EXTENDS Integers, Sequences

CONSTANTS
    InitSdks   \* API levels of the devices

\* Where the resolver of glue.cpp finds a symbol: by its name in the dynamic or
\* in the full symbol table, only by a prefix (.llvm suffixes), nowhere; Dobby
\* refuses to hook a function that is too short.
Places == {"dynsym", "symtab", "suffixed", "refused", "none"}

\* The functions that are looked up, by what they are for.
Families ==
    [shorty |-> {"GetMethodShortyL", "GetMethodShorty"},
     intrinsic |-> {"SetNotIntrinsic"},
     pretty |-> {"PrettyMethod", "PrettyMethodStatic", "PrettyMethodMirror"},
     throw |-> {"ThrowInvocationTimeError", "GetQuickFrameInfo"},
     compiledBridge |-> {"art_interpreter_to_compiled_code_bridge"},
     thread |-> {"CurrentFromGdb"},
     classDef |-> {"GetClassDef"},
     status |-> {"SetClassStatus", "SetStatus", "TrivialSetStatus", "ClassSetStatus"},
     runtime |-> {"instance", "SetJavaDebuggable", "SetRuntimeDebugState"},
     entrypoint |-> {"ShouldUseInterpreterEntrypoint"},
     fixup |-> {"FixupStaticTrampolinesWithThread", "FixupStaticTrampolines", "FixupStaticTrampolinesRaw"},
     register |-> {"RegisterNativeClassLinker", "RegisterNative", "RegisterNativeFast", "RegisterNativeThread"},
     unregister |-> {"UnregisterNativeClassLinker", "UnregisterNative", "UnregisterNativeFast", "UnregisterNativeThread"},
     visible |-> {"AdjustThreadVisibilityCounter", "MarkVisiblyInitialized"},
     interpreter |-> {"SetEntryPointsToInterpreter", "GetOptimizedCodeFor", "GetOptimizedCodeForL",
                      "art_quick_to_interpreter_bridge"},
     suspend |-> {"ScopedSuspendAllC2", "ScopedSuspendAllD2", "SuspendVM", "ResumeVM"},
     gc |-> {"ScopedGCCriticalSectionC2", "ScopedGCCriticalSectionD2"},
     jitMove |-> {"MoveObsoleteMethod"},
     jitCollect |-> {"GarbageCollectCache", "DoCollection"},
     jitTask |-> {"EnqueueBaselineCompilation", "EnqueueOptimizedCompilation", "AddCompileTask"},
     openMemory |-> {"OpenMemory", "OpenMemoryRaw", "OpenMemoryWithoutOdex"},
     trusted |-> {"DexFile_setTrusted"},
     instrumentation |-> {"ReinitializeMethodsCode", "InitializeMethodsCode",
                          "UpdateMethodsCodeToInterpreterEntryPoint"},
     jniId |-> {"EncodeGenericId"}]

Symbols == UNION {Families[f] : f \in DOMAIN Families}

\* The symbols that Init replaces with functions of its own; it only calls the others.
Hookers ==
    (UNION {Families[f] : f \in {"status", "entrypoint", "fixup", "register", "unregister", "visible",
                                 "jitCollect", "instrumentation", "jniId"}})
    \cup {"EnqueueOptimizedCompilation", "AddCompileTask", "GetQuickFrameInfo"}

\* Two hookers that stand for one symbol.
SymbolOf(s) == CASE s = "UnregisterNativeFast" -> "UnregisterNative"
                 [] s = "TrivialSetStatus" -> "SetStatus"
                 [] OTHER -> s

\* Java items that Init looks up, with the API levels that have a use for them.
JavaItems ==
    [Executable |-> InitSdks, getName |-> InitSdks, getDeclaringClass |-> InitSdks,
     getParameterTypes |-> InitSdks, getReturnType |-> InitSdks, Class |-> InitSdks,
     getClassLoader |-> InitSdks, getDeclaredConstructors |-> InitSdks, className |-> InitSdks,
     accessFlags |-> InitSdks, PathClassLoader |-> InitSdks, PathClassLoaderInit |-> InitSdks,
     DexFile |-> InitSdks, DexFileInit |-> {k \in InitSdks : k >= 26}, loadClass |-> InitSdks,
     setAccessible |-> InitSdks, artMethod |-> {k \in InitSdks : k >= 23}, Throwable |-> InitSdks,
     AbstractMethodError |-> {k \in InitSdks : k <= 26}, mCookie |-> {k \in InitSdks : k < 26},
     mFileName |-> {k \in InitSdks : k < 26}, mInternalCookie |-> {k \in InitSdks : k \in {24, 25}},
     Object |-> InitSdks, equals |-> InitSdks]

VARIABLES
    phone,     \* the device
    known,     \* functions whose pointer is set, or that are hooked
    debuggable,\* state of the runtime
    stage      \* what Init does next; "true" or "false" once it has returned

initVars == <<phone, known, debuggable, stage>>

\* Symbols that may have a suffix: those that are looked up by prefix, and one that is not.
Suffixed == {"GetMethodShortyL", "GetOptimizedCodeForL", "DexFile_setTrusted", "CurrentFromGdb"}

PlacesOf(s) ==
    {"symtab", "none"} \cup (IF s \in Hookers THEN {"refused"} ELSE {})
                       \cup (IF s \in Suffixed THEN {"suffixed"} ELSE {})

\* The functions of family f are anywhere, each on its own.
Spread(f) ==
    {[s \in Symbols |-> IF SymbolOf(s) \in Families[f] THEN p[SymbolOf(s)] ELSE "dynsym"] :
       p \in {q \in [Families[f] -> Places] : \A s \in Families[f] : q[s] \in PlacesOf(s)}}

\* Everything is in the symbol table, the function `gone` excepted.
AllBut(gone) == [s \in Symbols |-> IF s = gone THEN "none" ELSE "symtab"]

\* stateAt: offset of the state in a Runtime, 0 if it is not found; up: *instance_
\* is set.
Phones ==
    (UNION {[sdk : InitSdks, place : Spread(f), missing : {"none"}, debuggable : BOOLEAN,
             stateAt : IF f = "runtime" THEN {0, 8} ELSE {8}, up : IF f = "runtime" THEN BOOLEAN ELSE {TRUE}] :
               f \in DOMAIN Families})
    \cup
    [sdk : InitSdks, place : {AllBut("nothing"), AllBut("SetEntryPointsToInterpreter")}, missing : DOMAIN JavaItems,
     debuggable : {FALSE}, stateAt : {8}, up : {TRUE}]

Sdk == phone.sdk

Init ==
    /\ phone \in Phones
    /\ phone.debuggable => Sdk >= 28
    /\ known = {}
    /\ debuggable = phone.debuggable
    /\ stage = "JNI"

-----------------------------------------------------------------------------
(* HookHandler: alternatives are tried in order, the first that works ends *)
(* the search.  pre: those that may be looked up by prefix.                *)

Resolves(s, pre) ==
    \/ phone.place[s] \in {"dynsym", "symtab", "refused"}
    \/ phone.place[s] = "suffixed" /\ s \in pre

Handle(s, pre) == Resolves(s, pre) /\ (s \in Hookers => phone.place[s] # "refused")

Handler(alts, pre) ==
    LET works == {i \in 1..Len(alts) : Handle(alts[i], pre)}
    IN IF works = {} THEN {} ELSE {alts[CHOOSE i \in works : \A j \in works : i <= j]}

Exact(alts) == Handler(alts, {})
Has(item) == phone.missing # item

\* A stage that found the functions S, and the next stage if ok.
Step(here, S, ok, next) ==
    /\ stage = here
    /\ known' = known \cup S
    /\ stage' = IF ok THEN next ELSE "false"
    /\ UNCHANGED <<phone, debuggable>>

When(cond, S) == IF cond THEN S ELSE {}

-----------------------------------------------------------------------------
(* The stages.  glue.cpp leaves InitInfo's names as they are: InitConfig   *)
(* has nothing to refuse.                                                  *)

InitJNI ==
    LET looked == {"Executable", "getName", "getDeclaringClass", "getParameterTypes", "getReturnType", "Class",
                   "getClassLoader", "getDeclaredConstructors", "className", "accessFlags", "PathClassLoader",
                   "PathClassLoaderInit", "DexFile", "loadClass", "setAccessible"}
                  \cup When(Sdk >= 26, {"DexFileInit"})
    IN Step("JNI", {}, \A i \in looked : Has(i), "ArtMethod")

\* SetNotIntrinsic, PrettyMethod, ThrowInvocationTimeError and GetQuickFrameInfo
\* may be missing.
InitArtMethod ==
    LET shorty == Handler(<<"GetMethodShortyL", "GetMethodShorty">>, {"GetMethodShortyL"})
        bridge == When(Sdk <= 23, Exact(<<"art_interpreter_to_compiled_code_bridge">>))
    IN Step("ArtMethod",
            shorty \cup bridge \cup When(Sdk >= 28, Exact(<<"SetNotIntrinsic">>))
            \cup Exact(<<"PrettyMethod", "PrettyMethodStatic", "PrettyMethodMirror">>)
            \cup When(Sdk = 26, Exact(<<"ThrowInvocationTimeError">>))
            \cup When(Sdk = 23, Exact(<<"GetQuickFrameInfo">>)),
            /\ Has("Throwable") /\ (Sdk >= 23 => Has("artMethod"))
            /\ shorty # {}
            /\ Sdk <= 26 => Has("AbstractMethodError")
            /\ Sdk <= 23 => bridge # {},
            "Thread")

InitThread == LET S == Exact(<<"CurrentFromGdb">>) IN Step("Thread", S, S # {}, "Class")

\* Fault: the status of a class is not watched on the oldest versions.
InitClassLate ==
    LET status == When(Sdk >= 24, Exact(IF Sdk < 26 THEN <<"SetStatus", "ClassSetStatus">>
                                        ELSE <<"SetClassStatus", "TrivialSetStatus">>))
        def == Exact(<<"GetClassDef">>)
    IN Step("Class", def \cup status, def # {} /\ (Sdk >= 24 => status # {}), "Runtime")

InitClass ==
    LET def == Exact(<<"GetClassDef">>)
        status == When(def # {}, Exact(IF Sdk < 26 THEN <<"SetStatus", "ClassSetStatus">>
                                       ELSE <<"SetClassStatus", "TrivialSetStatus">>))
    IN Step("Class", def \cup status, def # {} /\ status # {}, "Runtime")

\* SetRuntimeDebugState is tried on a buffer to find the state's offset.
InitRuntime ==
    LET instance == Exact(<<"instance">>)
        set == When(Sdk >= 26, Exact(<<"SetJavaDebuggable", "SetRuntimeDebugState">>))
    IN Step("Runtime", instance \cup set,
            /\ instance # {} /\ phone.up
            /\ Sdk >= 26 => set # {}
            /\ "SetRuntimeDebugState" \in set => phone.stateAt > 0,
            "ClassLinker")

\* Only RegisterNative, UnregisterNative and a way into the interpreter are
\* needed.  With GetOptimizedCodeFor the bridge is the code of Object.equals, which
\* has to be there.
InitClassLinker ==
    LET register == Exact(<<"RegisterNativeClassLinker", "RegisterNative", "RegisterNativeFast",
                            "RegisterNativeThread">>)
        unregister == When(register # {},
                           Exact(<<"UnregisterNativeClassLinker", "UnregisterNative", "UnregisterNativeFast",
                                   "UnregisterNativeThread">>))
        into == Exact(<<"SetEntryPointsToInterpreter">>)
        code == When(into = {}, Handler(<<"GetOptimizedCodeFor", "GetOptimizedCodeForL">>, {"GetOptimizedCodeForL"}))
        bridge == IF code # {} THEN {"art_quick_to_interpreter_bridge"}
                  ELSE When(into = {}, Exact(<<"art_quick_to_interpreter_bridge">>))
        natives == register # {} /\ unregister # {}
    IN Step("ClassLinker",
            When(Sdk >= 24 /\ Sdk < 33, Exact(<<"ShouldUseInterpreterEntrypoint">>))
            \cup Exact(<<"FixupStaticTrampolinesWithThread", "FixupStaticTrampolines", "FixupStaticTrampolinesRaw">>)
            \cup register \cup unregister
            \cup When(natives /\ Sdk >= 30, Exact(<<"AdjustThreadVisibilityCounter", "MarkVisiblyInitialized">>))
            \cup When(natives, into \cup code \cup bridge),
            /\ natives /\ into \cup bridge # {}
            /\ code # {} => Has("Object") /\ Has("equals"),
            "ScopedSuspendAll")

InitScopedSuspendAll ==
    LET on == Exact(<<"ScopedSuspendAllC2", "SuspendVM">>)
        off == When(on # {}, Exact(<<"ScopedSuspendAllD2", "ResumeVM">>))
    IN Step("ScopedSuspendAll", on \cup off, on # {} /\ off # {}, "ScopedGCCriticalSection")

InitScopedGCCriticalSection ==
    LET on == When(Sdk >= 24, Exact(<<"ScopedGCCriticalSectionC2">>))
        off == When(on # {}, Exact(<<"ScopedGCCriticalSectionD2">>))
    IN Step("ScopedGCCriticalSection", on \cup off, Sdk >= 24 => on # {} /\ off # {}, "JitCodeCache")

InitJitCodeCache ==
    LET move == When(Sdk >= 26, Exact(<<"MoveObsoleteMethod">>))
        collect == When(Sdk >= 24 /\ (Sdk >= 26 => move # {}), Exact(<<"GarbageCollectCache", "DoCollection">>))
    IN Step("JitCodeCache", move \cup collect, (Sdk >= 26 => move # {}) /\ (Sdk >= 24 => collect # {}), "Jit")

InitJit ==
    Step("Jit", When(Sdk < 37, Exact(<<"EnqueueBaselineCompilation">>))
                \cup When(Sdk <= 34, Exact(<<"EnqueueOptimizedCompilation">>) \cup Exact(<<"AddCompileTask">>)),
         TRUE, "DexFile")

InitDexFile ==
    LET open == When(Sdk < 26, Exact(<<"OpenMemory", "OpenMemoryRaw", "OpenMemoryWithoutOdex">>))
    IN Step("DexFile",
            When(Sdk >= 28, Handler(<<"DexFile_setTrusted">>, {"DexFile_setTrusted"})) \cup open,
            Sdk < 26 => open # {} /\ Has("mCookie") /\ Has("mFileName") /\ (Sdk >= 24 => Has("mInternalCookie")),
            "Instrumentation")

InitInstrumentation ==
    LET hook == When(phone.debuggable /\ Sdk >= 28,
                     Exact(<<"ReinitializeMethodsCode", "InitializeMethodsCode",
                             "UpdateMethodsCodeToInterpreterEntryPoint">>))
    IN Step("Instrumentation", hook, phone.debuggable /\ Sdk >= 28 => hook # {}, "JniIdManager")

InitJniIdManager ==
    Step("JniIdManager", When(Sdk >= 30 /\ phone.debuggable, Exact(<<"EncodeGenericId">>)), TRUE, "debug")

\* Runtime::SetJavaDebuggable(kNonJavaDebuggable), by its function or by the offset.
InitDebuggable ==
    /\ stage = "debug"
    /\ debuggable' = (debuggable /\ {"SetJavaDebuggable", "SetRuntimeDebugState"} \cap known = {})
    /\ stage' = "true"
    /\ UNCHANGED <<phone, known>>

Next ==
    \/ InitJNI \/ InitArtMethod \/ InitThread \/ InitClass \/ InitRuntime \/ InitClassLinker
    \/ InitScopedSuspendAll \/ InitScopedGCCriticalSection \/ InitJitCodeCache \/ InitJit
    \/ InitDexFile \/ InitInstrumentation \/ InitJniIdManager \/ InitDebuggable

Spec == Init /\ [][Next]_initVars

-----------------------------------------------------------------------------
\* The functions one of which the rest of the library calls or relies on
\* without asking whether Init has found it.
Uses ==
    {{"GetMethodShortyL", "GetMethodShorty"},                        \* BuildDex
     {"GetClassDef"},                                                \* RecordHooked, RestoreBackup
     IF Sdk < 26 THEN {"SetStatus", "ClassSetStatus"} ELSE {"SetClassStatus", "TrivialSetStatus"},
     {"instance"}, {"CurrentFromGdb"},
     {"RegisterNativeClassLinker", "RegisterNative", "RegisterNativeFast", "RegisterNativeThread"},
     {"UnregisterNativeClassLinker", "UnregisterNative", "UnregisterNativeFast", "UnregisterNativeThread"},
     {"SetEntryPointsToInterpreter", "art_quick_to_interpreter_bridge"},  \* Deoptimize
     {"ScopedSuspendAllC2", "SuspendVM"}, {"ScopedSuspendAllD2", "ResumeVM"}}  \* DoHook
    \cup When(Sdk <= 23, {{"art_interpreter_to_compiled_code_bridge"}})       \* SetEntryPoint
    \cup When(Sdk >= 24, {{"ScopedGCCriticalSectionC2"}, {"ScopedGCCriticalSectionD2"},
                          {"GarbageCollectCache", "DoCollection"}})
    \cup When(Sdk >= 26, {{"MoveObsoleteMethod"}, {"SetJavaDebuggable", "SetRuntimeDebugState"}})
    \cup When(Sdk < 26, {{"OpenMemory", "OpenMemoryRaw", "OpenMemoryWithoutOdex"}})
    \cup When(phone.debuggable, {Families["instrumentation"]})

\* The symbol is not there for Init.
Gone(s) ==
    \/ phone.place[s] = "none"
    \/ phone.place[s] = "suffixed" /\ s = "CurrentFromGdb"
    \/ phone.place[s] = "refused" /\ s \in Hookers

\* A Java item that has a use is missing.
Lacks ==
    /\ phone.missing \in DOMAIN JavaItems /\ Sdk \in JavaItems[phone.missing]
    /\ phone.missing \in {"Object", "equals"} =>
          Gone("SetEntryPointsToInterpreter") /\ ~(Gone("GetOptimizedCodeFor") /\ Gone("GetOptimizedCodeForL"))

\* When Init returns true, every function that hooking, unhooking and the ART
\* interceptors use later without asking has been found, no Java item they need
\* is missing, and the runtime is no longer debuggable; when it returns false,
\* the device lacks something that is needed, however its symbols are spread over
\* the tables (lsplant::Init, HookHandler, ResolveArtSymbol).
InitComplete ==
    LET With(use) == IF use \subseteq Families["interpreter"] THEN Families["interpreter"] ELSE use
    IN  /\ stage = "true" => (\A use \in Uses : use \cap known # {}) /\ phone.up /\ ~debuggable /\ ~Lacks
        /\ stage = "false" =>
             \/ Lacks \/ ~phone.up
             \/ phone.stateAt = 0
             \/ \E use \in Uses : \A s \in With(use) : Gone(s)
=============================================================================
