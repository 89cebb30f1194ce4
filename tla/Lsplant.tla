------------------------------ MODULE Lsplant ------------------------------
(***************************************************************************)
(* LSPlant as a whole.  ArtHooks is what its threads do to ART; the four   *)
(* parts below it share no variable with it or with each other: what Init  *)
(* finds on a device, the layout of a method, the code generated for one   *)
(* hook, and the wrappers of local references, which live on one thread's  *)
(* stack.  A behaviour therefore follows one part, and interleavings of    *)
(* several add nothing.                                                    *)
(***************************************************************************)
EXTENDS ArtHooks

CONSTANTS
    InitSdks, Sdks, MaxWords, Cases,     \* of LsplantInit, ArtMethod, HookStub
    Slots, Refs, Pins, Null, Length      \* of JniRefs

ASSUME HandlesAssumption == Null \notin Refs \cup Pins /\ Refs \cap Pins = {}

\* LSPlant supports Android from Lollipop on.
ASSUME SdksAssumption == Sdks \cup InitSdks \subseteq {k \in Nat : k >= 21} /\ MaxWords \in Nat

VARIABLES
    part,                                       \* the part that is followed
    phone, known, runtimeDebuggable, initStage, \* LsplantInit
    device, layout, method, was, layoutStep,    \* ArtMethod
    target, cpu, stub, call, stubStep,          \* HookStub
    wrap, vm, raw, lost                         \* JniRefs

initPart == <<phone, known, runtimeDebuggable, initStage>>
methodPart == <<device, layout, method, was, layoutStep>>
stubPart == <<target, cpu, stub, call, stubStep>>
jniPart == <<wrap, vm, raw, lost>>

LsplantInit == INSTANCE LsplantInit WITH debuggable <- runtimeDebuggable, stage <- initStage
ArtMethod == INSTANCE ArtMethod WITH at <- layout, step <- layoutStep
HookStub == INSTANCE HookStub WITH at <- stubStep
JniRefs == INSTANCE JniRefs

\* The parts that are not followed are at rest.
NoInit == phone = None /\ known = {} /\ runtimeDebuggable = FALSE /\ initStage = None
NoMethod == device = None /\ layout = None /\ method = None /\ was = None /\ layoutStep = None
NoStub == target = None /\ cpu = None /\ stub = None /\ call = None /\ stubStep = None
NoJni == wrap = None /\ vm = None /\ raw = {} /\ lost = {}
NoArt == Init /\ statics = {} /\ natives = {} /\ ~debuggable

LsplantStart ==
    \/ part = "art" /\ Init /\ NoInit /\ NoMethod /\ NoStub /\ NoJni
    \/ part = "init" /\ LsplantInit!Init /\ NoArt /\ NoMethod /\ NoStub /\ NoJni
    \/ part = "method" /\ ArtMethod!Init /\ NoArt /\ NoInit /\ NoStub /\ NoJni
    \/ part = "stub" /\ HookStub!Init /\ NoArt /\ NoInit /\ NoMethod /\ NoJni
    \/ part = "jni" /\ JniRefs!Init /\ NoArt /\ NoInit /\ NoMethod /\ NoStub

LsplantNext ==
    /\ \/ part = "art" /\ Next /\ UNCHANGED <<initPart, methodPart, stubPart, jniPart>>
       \/ part = "init" /\ LsplantInit!Next /\ UNCHANGED <<vars, methodPart, stubPart, jniPart>>
       \/ part = "method" /\ ArtMethod!Next /\ UNCHANGED <<vars, initPart, stubPart, jniPart>>
       \/ part = "stub" /\ HookStub!Next /\ UNCHANGED <<vars, initPart, methodPart, jniPart>>
       \/ part = "jni" /\ JniRefs!Next /\ UNCHANGED <<vars, initPart, methodPart, stubPart>>
    /\ UNCHANGED part

LsplantSpec == LsplantStart /\ [][LsplantNext]_<<vars, part, initPart, methodPart, stubPart, jniPart>>

-----------------------------------------------------------------------------
\* LsplantInit's property: Init returns true exactly when everything that the
\* library uses later was found (lsplant::Init, HookHandler).
InitComplete == part = "init" => LsplantInit!InitComplete

\* ArtMethod's property: on every device and layout hooking, unhooking and
\* opening a class change what they mean to and nothing else (ArtMethod::Init,
\* BackupTo, DoHook, DoUnHook, MakeClassInheritable).
MethodIntact == part = "method" => ArtMethod!MethodIntact

\* HookStub's property: a call of a hooked method reaches the callback with all
\* its arguments and returns the answer (GetTrampoline, BuildDex).
CallReachesCallback == part = "stub" => HookStub!CallReachesCallback

\* JniRefs' property: a handle or buffer has one owner, which gives it back
\* once, and no call is made with an exception pending (jni_helper.hpp).
RefsOwnedOnce == part = "jni" => JniRefs!RefsOwnedOnce
=============================================================================
