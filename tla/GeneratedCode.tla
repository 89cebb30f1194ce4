---------------------------- MODULE GeneratedCode ----------------------------
(***************************************************************************)
(* All the code Dobby generates.  On ARM, for an instrumented instruction: *)
(* the trampoline at the instruction, the closure trampoline and bridge it *)
(* leads to (ClosureBridge), and the relocated instructions the bridge     *)
(* goes on to (Relocation).  The programs in Instrumented are entered that *)
(* way; the others are hooked functions, whose original is called directly.*)
(* The assemblers that turn the generators' calls into words (Assembler)   *)
(* and the generators for x86 (X86Relocation) share no state with these: a *)
(* behaviour follows one of the three parts.                               *)
(***************************************************************************)
EXTENDS Relocation

CONSTANTS
    FullPacks, CallerSp, Written, Instrumented(_),            \* of ClosureBridge
    AsmAbis, Requests(_), Fillers(_), MaxCalls,               \* of Assembler
    Isas, Texts(_), Origin, HookAt, Stub, ChunkBase, NearBase, MaxRun \* of X86Relocation

VARIABLES
    part,                                      \* the part that is followed
    full, at, reg, sp, mem, saw, wrote,        \* ClosureBridge
    asmAbi, asked, words, refs, bound,         \* Assembler
    isa, text, taken, wanted, room, cursor, decoded, out, near, stage, cpu86, cpu86r \* X86Relocation

bridge == <<full, at, reg, sp, mem, saw, wrote>>
armPart == <<vars, bridge>>
asmPart == <<asmAbi, asked, words, refs, bound>>
x86Part == <<isa, text, taken, wanted, room, cursor, decoded, out, near, stage, cpu86, cpu86r>>

Closure ==
    INSTANCE ClosureBridge WITH abi <- IF arch = "arm64" THEN "arm64" ELSE "arm",
                                Abis <- {"arm64", "arm"}
Assembler == INSTANCE Assembler WITH abi <- asmAbi
X86 == INSTANCE X86Relocation WITH holds <- taken, phase <- stage, original <- cpu86, relocated <- cpu86r

\* The parts that are not followed are at rest.
Rest == <<>>
NoArm ==
    /\ arch = Rest /\ origin = Rest /\ hook = Rest /\ program = Rest /\ holds = Rest /\ tramp = Rest
    /\ insn = Rest /\ buf = Rest /\ labels = Rest /\ offsets = Rest /\ changed = Rest /\ phase = Rest
    /\ code = Rest /\ entered = Rest /\ original = Rest /\ relocated = Rest
    /\ full = Rest /\ at = Rest /\ reg = Rest /\ sp = Rest /\ mem = Rest /\ saw = Rest /\ wrote = Rest
NoAsm == asmAbi = Rest /\ asked = Rest /\ words = Rest /\ refs = Rest /\ bound = Rest
NoX86 ==
    /\ isa = Rest /\ text = Rest /\ taken = Rest /\ wanted = Rest /\ room = Rest /\ cursor = Rest
    /\ decoded = Rest /\ out = Rest /\ near = Rest /\ stage = Rest /\ cpu86 = Rest /\ cpu86r = Rest

BuildInit ==
    \/ /\ part = "arm" /\ NoAsm /\ NoX86
       /\ Init /\ Closure!Init /\ (full => program \in Instrumented(arch))
    \/ part = "assembler" /\ Assembler!Init /\ NoArm /\ NoX86
    \/ part = "x86" /\ X86!Init /\ NoArm /\ NoAsm

Build == Next /\ UNCHANGED bridge
Callback == phase = "done" /\ program \in Instrumented(arch) /\ UNCHANGED vars /\ Closure!Next

BuildNext ==
    /\ \/ part = "arm" /\ (Build \/ Callback) /\ UNCHANGED <<asmPart, x86Part>>
       \/ part = "assembler" /\ Assembler!Next /\ UNCHANGED <<armPart, x86Part>>
       \/ part = "x86" /\ X86!Next /\ UNCHANGED <<armPart, asmPart>>
    /\ UNCHANGED part

BuildSpec == BuildInit /\ [][BuildNext]_<<part, armPart, asmPart, x86Part>>

-----------------------------------------------------------------------------
\* ClosureBridge's property: the callback gets the caller's registers, and the
\* thread goes on with them, or with what the callback wrote (get_closure_bridge).
BridgeTransparent == part = "arm" => Closure!BridgeTransparent

\* Assembler's property: the processor does what the generator asked the
\* assembler for (assembler-arm64.h, assembler-arm.h).
WordsMeanCalls == part = "assembler" => Assembler!WordsMeanCalls

\* X86Relocation's property: instructions are read for what they are, and do
\* where they are put what they did (GenRelocateCodeX86Shared).
X86RelocatedAgrees == part = "x86" => X86!X86RelocatedAgrees

\* Of those, the short conditional jumps of x64, which are to reach the address
\* they reached (GenRelocateSingleX86Insn).
ShortJccAgrees == part = "x86" => X86!ShortJccAgrees
=============================================================================
