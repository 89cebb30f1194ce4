------------------------------ MODULE ArtMethod ------------------------------
(***************************************************************************)
(* ART's method objects as LSPlant sees them (art_method.cxx): the size    *)
(* and the offsets that ArtMethod::Init works out on the device it runs    *)
(* on, and the functions that change a method through these offsets, as    *)
(* DoHook, DoUnHook and MakeClassInheritable call them.                    *)
(*                                                                         *)
(* A method in memory is a function from offsets (in words of 4 bytes) to  *)
(* values.  Access flags are sets of bit numbers.                          *)
(***************************************************************************)
EXTENDS Integers, FiniteSets

CONSTANTS
    Sdks,      \* API levels of the devices
    MaxWords   \* bound on the 32-bit fields in front of the pointers

\* API levels that matter here.
kSdkLollipop == 21
kSdkLollipopMr1 == 22
kSdkMarshmallow == 23
kSdkNougat == 24
kSdkOreo == 26
kSdkQ == 29
kSdkR == 30
kSdkS == 31

kAccPublic == 0
kAccPrivate == 1
kAccProtected == 2
kAccStatic == 3
kAccFinal == 4
kAccDefaultConflict == 24

VARIABLES
    device,  \* the device and the layout of a method on it
    at,      \* what ArtMethod::Init has found out: sizes, offsets and flags
    method,  \* memory of the target, the backup, and of first and second
    was,     \* history: the target before DoHook
    step     \* progress

methodVars == <<device, at, method, was, step>>

\* How a method is laid out: the class, the other 32-bit fields, then the
\* pointers, of which the last three are interpreter, data and entry point.
\* twin: another 32-bit field that has the value of the access flags, -1 if none;
\* hidden: Java does not show the field accessFlags; throws: what invoking a
\* method with kAccDefaultConflict throws.
Devices ==
    {d \in [sdk : Sdks, ptr : {1, 2}, words : 2..MaxWords, flagsAt : 1..MaxWords - 1,
            ptrs : 2..4, twin : -1..MaxWords - 1, hidden : BOOLEAN, throws : {"none", "abstract", "other"}] :
        /\ d.flagsAt < d.words
        /\ d.twin < d.words /\ d.twin # d.flagsAt
        /\ d.sdk <= kSdkMarshmallow => d.ptrs >= 3
        /\ d.throws = "none" \/ d.sdk = kSdkOreo
        /\ d.hidden => d.sdk >= kSdkMarshmallow}

AlignUp(n, p) == ((n + p - 1) \div p) * p
Pointer(d, k) == AlignUp(d.words, d.ptr) + d.ptr * (d.ptrs - k)
Size(d) == Pointer(d, 0)
Real(d) == [class |-> 0, flags |-> d.flagsAt, entry |-> Pointer(d, 1), data |-> Pointer(d, 2),
            interpreter |-> IF d.sdk <= kSdkMarshmallow THEN Pointer(d, 3) ELSE 0]

\* Flags of the methods: enough to tell the functions below apart.
SomeFlags == {{kAccPublic}, {kAccPublic, kAccStatic, kAccFinal}, {kAccProtected, kAccFinal, 21, 30},
              {21, 23, 24, 25, 30, 31}, {}}

\* A method: other fields hold a value of their own, told from flags by its size.
Fresh(d, id, flags) ==
    [o \in 0..Size(d) - 1 |->
        CASE o = d.flagsAt -> flags
          [] o = d.twin -> flags
          [] OTHER -> {id + o}]

NotFound == [size |-> 0, entry |-> 0, data |-> 0, flags |-> 0, class |-> 0, interpreter |-> 0,
             preCompiled |-> {21}, fast |-> {30}, dontBother |-> {25}, intrinsic |-> {31}]

Init ==
    /\ device \in Devices
    /\ at = NotFound
    /\ \E f \in SomeFlags :
          method = [target |-> Fresh(device, 100, f), backup |-> Fresh(device, 200, {kAccPublic, kAccStatic}),
                    first |-> Fresh(device, 300, {kAccPublic, 16})]
    /\ was = method.target
    /\ step = "size"

Then(s) == step' = s
Found == UNCHANGED <<device, method, was>>

-----------------------------------------------------------------------------
(* ArtMethod::Init.                                                        *)

\* Throwable's two constructors lie next to each other; the entry point is the
\* last pointer of a method, the data the one before.
InitSize ==
    /\ step = "size"
    /\ at' = [at EXCEPT !.size = Size(device), !.entry = Size(device) - device.ptr,
                        !.data = Size(device) - 2 * device.ptr]
    /\ Then("offsets")
    /\ Found

\* The first word that has the flags of Throwable's constructor; none, or the
\* very first, means the fallback (4 bytes).
FlagsOffset(hits) == IF hits = {} \/ 0 \in hits THEN 1 ELSE CHOOSE i \in hits : \A j \in hits : i <= j

\* Before Marshmallow methods are Java objects and their fields tell the offsets.
InitOffsets ==
    /\ step = "offsets"
    /\ IF device.sdk >= kSdkMarshmallow
       THEN at' = [at EXCEPT !.flags = FlagsOffset(
                      {i \in 0..at.size - 1 : ~device.hidden /\ method.first[i] = method.first[device.flagsAt]})]
       ELSE at' = [at EXCEPT !.flags = Real(device).flags, !.class = Real(device).class,
                             !.entry = IF device.sdk = kSdkLollipop THEN Real(device).entry ELSE @,
                             !.data = IF device.sdk = kSdkLollipop THEN Real(device).data ELSE @,
                             !.interpreter = IF device.sdk = kSdkLollipop THEN Real(device).interpreter ELSE @]
    /\ Then("flags")
    /\ Found

\* The flags that depend on the API level.  Up to Oreo ART may use the bit of
\* kAccDefaultConflict for methods that are not to be compiled; on Oreo the
\* exception a method with that bit throws tells.
InitFlags ==
    /\ step = "flags"
    /\ at' = [at EXCEPT
                !.preCompiled = IF device.sdk < kSdkR THEN {} ELSE IF device.sdk >= kSdkS THEN {23} ELSE @,
                !.fast = IF device.sdk < kSdkQ THEN {} ELSE @,
                !.intrinsic = IF device.sdk < kSdkOreo THEN {} ELSE @,
                !.dontBother = IF device.sdk < kSdkNougat THEN {}
                               ELSE IF device.sdk <= kSdkOreo /\ device.throws # "other"
                               THEN {kAccDefaultConflict} ELSE @]
    /\ Then("bridge")
    /\ Found

\* art_interpreter_to_compiled_code_bridge_: needed up to Marshmallow.
InitBridge ==
    /\ step = "bridge"
    /\ IF device.sdk <= kSdkMarshmallow /\ device.sdk >= kSdkLollipopMr1
       THEN at' = [at EXCEPT !.interpreter = at.entry - 2 * device.ptr]
       ELSE UNCHANGED at
    /\ Then("ready")
    /\ Found

-----------------------------------------------------------------------------
(* Functions of a method m in memory.                                      *)

GetAccessFlags(m) == m[at.flags]
SetAccessFlags(m, f) == [m EXCEPT ![at.flags] = f]
SetNonCompilable(m) == SetAccessFlags(m, (GetAccessFlags(m) \cup at.dontBother) \ at.preCompiled)
ClearFastInterpretFlag(m) == SetAccessFlags(m, GetAccessFlags(m) \ at.fast)
SetNonIntrinsic(m) == SetAccessFlags(m, GetAccessFlags(m) \ at.intrinsic)
SetPrivate(m) == SetAccessFlags(m, (GetAccessFlags(m) \cup {kAccPrivate}) \ {kAccProtected, kAccPublic})
SetProtected(m) == SetAccessFlags(m, (GetAccessFlags(m) \cup {kAccProtected}) \ {kAccPrivate, kAccPublic})
SetNonFinal(m) == SetAccessFlags(m, GetAccessFlags(m) \ {kAccFinal})

SetEntryPoint(m, e) ==
    [o \in DOMAIN m |-> IF o = at.entry THEN e
                        ELSE IF at.interpreter # 0 /\ o = at.interpreter THEN "bridge" ELSE m[o]]

CopyFrom(m, other) == [o \in DOMAIN m |-> IF o < at.size THEN other[o] ELSE m[o]]

\* Fault: the backup is copied before SetNonCompilable.
BackupToEarly(m) ==
    LET n == SetNonCompilable(m)
        b == CopyFrom(method.backup, m)
    IN [target |-> ClearFastInterpretFlag(n), backup |-> IF kAccStatic \in GetAccessFlags(b) THEN b ELSE SetPrivate(b)]

\* BackupTo: the target m and the backup after it.
BackupTo(m) ==
    LET n == SetNonCompilable(m)
        b == CopyFrom(method.backup, n)
    IN [target |-> ClearFastInterpretFlag(n), backup |-> IF kAccStatic \in GetAccessFlags(b) THEN b ELSE SetPrivate(b)]

DoHook ==
    /\ step = "ready"
    /\ LET x == BackupTo(SetNonIntrinsic(method.target))
       IN method' = [method EXCEPT !.target = SetEntryPoint(SetNonCompilable(x.target), "trampoline"),
                                   !.backup = x.backup]
    /\ was' = method.target
    /\ Then("hooked")
    /\ UNCHANGED <<device, at>>

\* The target keeps its access flags.
DoUnHook ==
    /\ step = "hooked"
    /\ LET f == GetAccessFlags(method.target)
       IN method' = [method EXCEPT !.target = SetAccessFlags(CopyFrom(@, method.backup), f)]
    /\ Then("unhooked")
    /\ UNCHANGED <<device, at, was>>

\* MakeClassInheritable, for one constructor.
Inheritable(m) ==
    LET f == GetAccessFlags(m)
        n == IF f \cap {kAccPublic, kAccProtected} = {} THEN SetProtected(m) ELSE m
    IN IF kAccFinal \in f THEN SetNonFinal(n) ELSE n

MakeClassInheritable ==
    /\ step = "ready"
    /\ method' = [method EXCEPT !.target = Inheritable(@)]
    /\ was' = method.target
    /\ Then("inheritable")
    /\ UNCHANGED <<device, at>>

Next ==
    \/ InitSize \/ InitOffsets \/ InitFlags \/ InitBridge
    \/ DoHook \/ DoUnHook \/ MakeClassInheritable

Spec == Init /\ [][Next]_methodVars

-----------------------------------------------------------------------------
\* The offsets are those of ART.  The access flags may be missed where they are
\* not the second field, if they are hidden or an earlier one has their value.
Located ==
    LET r == Real(device)
    IN /\ at.entry = r.entry /\ at.data = r.data /\ at.class = r.class /\ at.interpreter = r.interpreter
       /\ (at.flags # r.flags => r.flags # 1 /\ (device.hidden \/ device.twin \in 0..r.flags - 1))

Bits == at.preCompiled \cup at.fast \cup at.intrinsic \cup at.dontBother

\* On every device and layout, hooking, unhooking and opening a class change
\* what they mean to and nothing else: the hooked target enters the trampoline,
\* will not be compiled or invoked past its entry point, and keeps every other
\* field; the backup is the original, not compiled either, and private unless it
\* is static; the unhooked target is the original again with the flags of the
\* hooked one; a class that was opened has no final or private constructor
\* (ArtMethod::Init, BackupTo, DoHook, DoUnHook, MakeClassInheritable).
MethodIntact ==
    LET r == Real(device)
        t == method.target
        o == was
        Same(m, S) == \A i \in DOMAIN m \ S : m[i] = o[i]
        Flags(m) == m[r.flags]
        Kept(m) == Flags(m) \ Bits = o[r.flags] \ Bits /\ at.dontBother \subseteq Flags(m)
                   /\ (at.preCompiled \cup at.intrinsic) \cap Flags(m) = {}
    IN  /\ step \in {"ready", "hooked", "unhooked", "inheritable"} => Located
        /\ at.flags = r.flags =>
             /\ step = "hooked" =>
                  /\ t[r.entry] = "trampoline" /\ Same(t, {r.entry, r.flags, r.interpreter} \ {0})
                  /\ Kept(t) /\ at.fast \cap Flags(t) = {}
                  /\ r.interpreter # 0 => t[r.interpreter] = "bridge"
                  /\ Same(method.backup, {r.flags})
                  /\ at.dontBother \subseteq Flags(method.backup)
                  /\ kAccStatic \in o[r.flags] \/ Flags(method.backup) \cap 0..2 = {kAccPrivate}
             /\ step = "unhooked" => Same(t, {r.flags}) /\ Kept(t)
             /\ step = "inheritable" =>
                  /\ Same(t, {r.flags})
                  /\ Flags(t) \cap {kAccPublic, kAccProtected} # {} /\ {kAccPrivate, kAccFinal} \cap Flags(t) = {}
=============================================================================
