----------------------------- MODULE Relocation -----------------------------
(***************************************************************************)
(* Dobby's normal trampoline and its instruction relocation, on the two    *)
(* ABIs libmq-core is built for (src/native/dobby/source, Instruction-     *)
(* Relocation/arm64, InstructionRelocation/arm, TrampolineBridge/Trampoline*)
(* and the assemblers and labels they use).                                *)
(*                                                                         *)
(* A function at origin gets a trampoline to hook.  The instructions that  *)
(* the trampoline overwrites are rewritten one by one into a buffer that   *)
(* ends in a branch back, the labels are bound behind it, and the result   *)
(* is placed at Relocated.  Then three processors run: one enters the      *)
(* trampoline, one the relocated code, and one the original instructions   *)
(* as they were.                                                           *)
(***************************************************************************)
EXTENDS MachineCode

CONSTANTS
    Archs,      \* the instruction sets to relocate
    Origins(_), \* addresses of the function
    Hooks(_, _), \* addresses a trampoline leads to
    Relocated,  \* where the relocated code is placed
    AdrpBits,   \* width of adrp's immediate (21)
    Programs(_), \* sequences of encoded instructions
    MaxSteps    \* bound on what a run of the code may do

VARIABLES
    arch, origin, hook, program, holds,
    tramp,   \* the trampoline
    insn,    \* the instruction relo_relocate looks at, by index
    buf,     \* the code buffer
    labels,  \* AppendRelocLabel: the labels' data
    offsets, \* relocated_offset_map
    changed, \* execute_state_map
    phase,   \* generate, bind, run, done, abort
    code,    \* the original, the trampoline and the relocated code, by address
    entered, original, relocated \* the three processors

input == <<arch, origin, hook, program, holds>>
generator == <<tramp, insn, buf, labels, offsets, changed>>
processors == <<entered, original, relocated>>
vars == <<input, generator, phase, code, processors>>

----------------------------------------------------------------------------
\* Encoded instructions: kind k, immediate field v, condition c, register r,
\* width w and size sz.  Enc is the place of each field: its width, the zeros
\* below it, and the width SignExtend is called with.
Field(width, shift, extended) == [width |-> width, shift |-> shift, extended |-> extended]
Enc == [arm64 |-> [b |-> Field(26, 2, 28), bl |-> Field(26, 2, 28), bcond |-> Field(19, 2, 21),
                   cbz |-> Field(19, 2, 21), tbz |-> Field(14, 2, 16), ldr |-> Field(19, 2, 21),
                   adr |-> Field(21, 0, 21), adrp |-> Field(AdrpBits, 0, AdrpBits)],
        arm |-> [b |-> Field(24, 2, 26), bl |-> Field(24, 2, 26), blx |-> Field(24, 2, 26)],
        thumb |-> [bc1 |-> Field(8, 1, 9), b1 |-> Field(11, 1, 12), bc3 |-> Field(20, 1, 21),
                   b4 |-> Field(24, 1, 25), bl |-> Field(24, 1, 25), blx |-> Field(23, 2, 24)]]

SignExtend(x, m) == IF (x \div 2^(m - 1)) % 2 = 1 THEN (x % 2^m) - 2^m ELSE x

\* The offset the code decodes, and the one the processor uses.  Immediates
\* with a separate sign are given with it.
Decoded(a, i) ==
    IF i.k \notin DOMAIN Enc[a] THEN i.v
    ELSE LET f == Enc[a][i.k] IN SignExtend(i.v * 2^f.shift, f.extended) * (IF i.k = "adrp" THEN 2^PageBits ELSE 1)
Meant(a, i) ==
    IF i.k \notin DOMAIN Enc[a] THEN i.v
    ELSE LET f == Enc[a][i.k] IN Signed(i.v, f.width) * 2^f.shift * (IF i.k = "adrp" THEN 2^PageBits ELSE 1)

\* What the processor does for an encoded instruction.  movpc is a register form
\* that reads pc (mov, add, a load from pc and a register), tb a jump by a
\* register or a table (add pc, tbb, tbh), which go by v here.
Original(a, i) ==
    LET off == Meant(a, i)
        w == CASE i.k = "plain" -> Plain(i.v, i.sz)
               [] i.k \in {"b", "bl", "bcond", "cbz", "tbz", "bc1", "b1", "bc3", "b4", "tb"} -> B(i.c, off, i.k = "bl")
               [] i.k = "blx" -> Blx(off + (IF a = "arm" /\ i.w = 1 THEN 2 ELSE 0))
               [] i.k \in {"ldr", "ldr1", "ldr2", "ldrh"} -> LdrLiteral(i.r, off, i.w)
               [] i.k \in {"adr", "adr1", "adr3"} -> Adr(i.r, off)
               [] i.k = "adrp" -> Adrp(i.r, off)
               [] i.k = "movpc" -> MovPc(i.r, 2)
               [] i.k \in {"bxpc", "blxpc"} -> BxPc(i.k = "blxpc")
    IN [w EXCEPT !.sz = i.sz, !.c = i.c]

Sources == [n \in 1..Len(program) |-> Original(arch, program[n])]
SourceAt(n) == origin + Offset(program, n)

----------------------------------------------------------------------------
\* Rewriting one instruction at address a.  A word that loads a label carries
\* the label's data until AppendRelocLabel numbers it.
ToLabel(r, value) == [LdrLiteral(r, value, 4) EXCEPT !.lab = 1]

\* Fault: the condition is not inverted.
InvertedNot(c) == c

Inverted(c) == IF c % 2 = 0 THEN c + 1 ELSE c - 1

\* UNIMPLEMENTED, a literal load in relo_relocate, and UNREACHABLE, what has the
\* pattern of a Thumb branch on condition 14 or 15 and is udf or svc.
Rejected(i) ==
    \/ arch = "arm64" /\ i.k = "ldr" /\ i.w \notin {4, 8}
    \/ arch = "thumb" /\ i.k = "bc1" /\ i.c >= AL

\* relo_relocate
RelocateArm64(i, a) ==
    LET dst == a + Decoded("arm64", i)
        jump(link) == <<ToLabel("tmp", dst), Br("tmp", link)>>
    IN CASE i.k \in {"b", "bl"} -> jump(i.k = "bl")
         [] i.k = "ldr" -> <<Mov("tmp", dst), Ldr("r", "tmp", 8)>>
         [] i.k = "adr" -> <<Mov(i.r, dst)>>
         [] i.k = "adrp" -> <<Mov(i.r, Floor(dst, 2^PageBits))>>
         [] i.k \in {"bcond", "cbz", "tbz"} -> <<B(Inverted(i.c), 12, FALSE)>> \o jump(FALSE)
         [] OTHER -> <<Original("arm64", i)>>

\* ARMRelocateSingleInsn
RelocateArm(i, a) ==
    LET dst == Pc("arm", a) + Decoded("arm", i)
    IN CASE i.k = "ldr" ->
                LET r == IF i.r = "pc" THEN "tmp" ELSE i.r IN <<ToLabel(r, dst), Ldr(i.r, r, 4)>>
         [] i.k = "adr" -> <<ToLabel(i.r, dst)>>
         [] i.k \in {"b", "bl", "blx"} ->
                <<B(i.c, 0, i.k # "b"), B(AL, 4, FALSE), LdrLiteral("pc", -4, 4),
                  Data(dst + (IF i.k = "blx" THEN 1 ELSE 0), 4), Nop(4)>>
         [] OTHER -> <<Original("arm", i)>>

\* The 16-bit conditional branch the Thumb generator emits: 0xe000 with the
\* condition in bits 8 to 11, which is an unconditional branch with part of
\* the condition in its offset, or the first half of a 32-bit instruction.
ThumbBCond(c) == IF c < 8 THEN [B(AL, 2 * Signed(c * 256 + 2, 11), FALSE) EXCEPT !.sz = 2] ELSE Undefined(2)

\* Thumb1RelocateSingleInsn, past the alignment.
Skip(n) == B(AL, n, FALSE)
RelocateThumb1(i, a) ==
    LET pc == Pc("thumb", a)
        dst == pc + Decoded("thumb", i)
    IN CASE i.k = "movpc" -> <<ToLabel("tmp", pc), Copy(i.r, "tmp", 2)>>
         [] i.k = "bxpc" -> <<ToLabel("pc", pc)>>
         [] i.k = "blxpc" -> <<B(AL, 4, TRUE), Skip(4), ToLabel("pc", pc)>>
         [] i.k = "ldr1" -> <<ToLabel(i.r, Floor(dst, 4)), Ldr(i.r, i.r, 4)>>
         [] i.k = "adr1" -> <<ToLabel(i.r, dst)>>
         [] i.k = "bc1" -> <<ThumbBCond(i.c), Nop(2), Skip(4), ToLabel("pc", dst + 1)>>
         [] i.k = "cbz" -> <<[B(i.c, 4, FALSE) EXCEPT !.sz = 2], Nop(2), Skip(4), ToLabel("pc", dst + 1)>>
         [] i.k = "b1" -> <<ToLabel("pc", dst + 1)>>
         [] OTHER -> <<Original("thumb", i)>>

\* Thumb2RelocateSingleInsn, past the alignment.
RelocateThumb2(i, a) ==
    LET pc == Pc("thumb", a)
        dst == pc + Decoded("thumb", i)
        call(to) == <<B(AL, 4, TRUE), Skip(8), LdrLiteral("pc", 0, 4), Data(to, 4)>>
    IN CASE i.k = "bc3" -> <<ThumbBCond(i.c), Nop(2), Skip(8), LdrLiteral("pc", 0, 4), Data(dst + 1, 4)>>
         [] i.k = "b4" -> <<LdrLiteral("pc", 0, 4), Data(dst + 1, 4)>>
         [] i.k = "bl" -> call(dst + 1)
         [] i.k = "blx" -> call(Floor(pc, 4) + Decoded("thumb", i))
         [] i.k = "adr3" -> <<LdrLiteral(i.r, 4, 4), Skip(0), Data(dst, 4)>>
         [] i.k = "ldr2" -> <<LdrLiteral(i.r, 8, 4), Ldr(i.r, i.r, 4), Skip(4), Data(dst, 4)>>
         [] OTHER -> <<Original("thumb", i)>>

Relocate(i, a) ==
    CASE arch = "arm64" -> RelocateArm64(i, a)
      [] arch = "arm" -> RelocateArm(i, a)
      [] arch = "thumb" -> IF i.sz = 2 THEN RelocateThumb1(i, a) ELSE RelocateThumb2(i, a)

AlignThumbNop(b, at) == IF (Size(b) + at) % 4 # 0 THEN Append(b, Nop(2)) ELSE b

\* PseudoBind and link_confused_instructions: label k is emitted behind the
\* code, and the word that loads it gets its distance.
LabelSize(a) == IF a = "arm64" THEN 8 ELSE 4
Bound(a, b, data) ==
    LET place(k) == Size(b) + LabelSize(a) * (k - 1)
        linked(n) == place(b[n].lab) - Pc(a, Offset(b, n))
    IN [n \in DOMAIN b |-> IF b[n].lab = 0 THEN b[n] ELSE [b[n] EXCEPT !.v = linked(n)]]
       \o [k \in DOMAIN data |-> Data(data[k], LabelSize(a))]

\* RelocLabelFixup, which looks an address up among offsets.
Fixup(data) == [k \in DOMAIN data |-> IF data[k] \in DOMAIN offsets THEN offsets[data[k]] ELSE data[k]]

----------------------------------------------------------------------------
\* GenerateNormalTrampolineBuffer
AdrpRange == 2^(AdrpBits + PageBits - 1)
Distance(from, to) == IF from > to THEN from - to ELSE to - from
Pages(from, to) == (Floor(to, 2^PageBits) - Floor(from, 2^PageBits)) \div 2^PageBits

\* Fault: the page of the destination is rounded up.
AdrpAddUp(from, to) ==
    <<Adrp("tmp", Signed(Pages(from, to + 2^PageBits - 1) % 2^AdrpBits, AdrpBits) * 2^PageBits),
      AddTo("tmp", to % 2^PageBits)>>

AdrpAdd(from, to) ==
    <<Adrp("tmp", Signed(Pages(from, to) % 2^AdrpBits, AdrpBits) * 2^PageBits), AddTo("tmp", to % 2^PageBits)>>

GenerateNormalTrampoline(a, from, to) ==
    CASE a = "arm64" /\ Distance(from, to) < AdrpRange -> AdrpAdd(from, to) \o <<Br("tmp", FALSE)>>
      [] a = "arm64" /\ Distance(from, to) >= AdrpRange ->
            Bound(a, <<ToLabel("tmp", to), Br("tmp", FALSE)>>, <<to>>)
      [] a = "arm" -> <<LdrLiteral("pc", -4, 4), Data(to, 4)>>
      [] a = "thumb" -> AlignThumbNop(<<>>, from) \o <<LdrLiteral("pc", 0, 4), Data(to, 4)>>

Init ==
    /\ arch \in Archs
    /\ origin \in Origins(arch)
    /\ hook \in Hooks(arch, origin)
    /\ program \in Programs(arch)
    /\ holds \in BOOLEAN
    /\ tramp = GenerateNormalTrampoline(arch, origin, hook)
    /\ insn = 1
    /\ buf = <<>>
    /\ labels = <<>>
    /\ offsets = [o \in {} |-> 0]
    /\ changed = {}
    /\ phase = "generate"
    /\ code = [original |-> <<>>, tramp |-> <<>>, relocated |-> <<>>]
    /\ entered = Cpu(arch, origin)
    /\ original = Cpu(arch, origin)
    /\ relocated = Cpu(arch, Relocated)

More(n) == SourceAt(n) < origin + Size(tramp)

\* One turn of the loop of relo_relocate, gen_arm_relocate_code or
\* gen_thumb_relocate_code.  Where the state is thought to change the Thumb
\* loop is left, the buffer aligned, and the loop entered again.
RelocateInsn ==
    LET i == program[insn]
        start == IF arch = "thumb" THEN AlignThumbNop(Append(buf, Nop(2)), 0) ELSE buf
        words == Relocate(i, SourceAt(insn))
        data == SelectSeq(words, LAMBDA w : w.lab = 1)
        numbered == [n \in DOMAIN words |->
                        IF words[n].lab = 1 THEN [words[n] EXCEPT !.lab = Len(labels) + 1] ELSE words[n]]
        changes == changed \cup (IF i.k \in {"bxpc", "blxpc"} THEN {Pc(arch, SourceAt(insn))} ELSE {})
    IN /\ phase = "generate"
       /\ More(insn)
       /\ ~Rejected(i)
       /\ offsets' = [o \in DOMAIN offsets \cup {Offset(program, insn)} |->
                        IF o = Offset(program, insn) THEN Size(buf) ELSE offsets[o]]
       /\ buf' = IF SourceAt(insn + 1) \in changes /\ More(insn + 1)
                 THEN AlignThumbNop(start \o numbered, 0)
                 ELSE start \o numbered
       /\ labels' = labels \o [n \in DOMAIN data |-> data[n].v]
       /\ changed' = changes
       /\ insn' = insn + 1
       /\ UNCHANGED <<input, tramp, phase, code, processors>>

Unimplemented ==
    /\ phase = "generate"
    /\ More(insn)
    /\ Rejected(program[insn])
    /\ phase' = "abort"
    /\ UNCHANGED <<input, generator, code, processors>>

\* The branch to the instruction behind the overwritten ones.
End == SourceAt(insn)
BranchBack ==
    /\ phase = "generate"
    /\ ~More(insn)
    /\ buf' = CASE arch = "arm64" ->
                        buf \o <<[ToLabel("tmp", End) EXCEPT !.lab = Len(labels) + 1], Br("tmp", FALSE)>>
                [] arch = "arm" -> buf \o <<LdrLiteral("pc", -4, 4), Data(End, 4)>>
                [] arch = "thumb" -> AlignThumbNop(buf, 0) \o <<LdrLiteral("pc", 0, 4), Data(End + 1, 4)>>
    /\ labels' = IF arch = "arm64" THEN Append(labels, End) ELSE labels
    /\ phase' = "bind"
    /\ UNCHANGED <<input, tramp, insn, offsets, changed, code, processors>>

\* RelocLabelFixup, RelocBind, FinalizeFromTurboAssembler.
RelocBind ==
    LET data == IF arch = "arm64" THEN labels ELSE Fixup(labels)
    IN /\ phase = "bind"
       /\ labels' = data
       /\ buf' = Bound(arch, buf, data)
       /\ code' = [original |-> Placed(SubSeq(Sources, 1, insn - 1), origin),
                   tramp |-> Placed(tramp, origin),
                   relocated |-> Placed(buf', Relocated)]
       /\ phase' = "run"
       /\ UNCHANGED <<input, tramp, insn, offsets, changed, processors>>

Overwritten == origin .. End - 1

RunTrampoline ==
    /\ phase = "run"
    /\ Inside(code.tramp, entered)
    /\ entered' = Step(arch, code.tramp, entered, holds, {})
    /\ UNCHANGED <<input, generator, phase, code, original, relocated>>

RunOriginal ==
    /\ phase = "run"
    /\ ~Inside(code.tramp, entered)
    /\ Len(original.did) < MaxSteps
    /\ \/ /\ Inside(code.original, original)
          /\ original' = Step(arch, code.original, original, holds, {})
       \/ /\ Called(code.original, End, original)
          /\ original' = Returned(arch, original)
    /\ UNCHANGED <<input, generator, phase, code, entered, relocated>>

Left(block, end, cpu) == ~Inside(block, cpu) /\ ~Called(block, end, cpu)

RunRelocated ==
    /\ phase = "run"
    /\ Left(code.original, End, original)
    /\ \/ /\ Inside(code.relocated, relocated)
          /\ relocated' = Step(arch, code.relocated, relocated, holds, Overwritten)
       \/ /\ Called(code.relocated, Relocated, relocated)
          /\ relocated' = Returned(arch, relocated)
    /\ UNCHANGED <<input, generator, phase, code, entered, original>>

Finish ==
    /\ phase = "run"
    /\ Left(code.tramp, End, entered)
    /\ Left(code.original, End, original)
    /\ Left(code.relocated, Relocated, relocated)
    /\ phase' = "done"
    /\ UNCHANGED <<input, generator, code, processors>>

Next ==
    RelocateInsn \/ Unimplemented \/ BranchBack \/ RelocBind
    \/ RunTrampoline \/ RunOriginal \/ RunRelocated \/ Finish

Spec == Init /\ [][Next]_vars

----------------------------------------------------------------------------
\* The address an instruction branches to or loads from.
Target(n) ==
    LET w == Sources[n]
        here == Pc(arch, SourceAt(n))
    IN CASE w.op = "literal" \/ w.op = "bxpc" \/ (w.op = "b" /\ w.x /\ arch = "thumb") -> Floor(here, 4) + w.v
         [] w.op = "b" /\ ~(w.x /\ arch = "thumb") -> here + w.v
         [] OTHER -> 0

\* What the relocator does not get right: references into the bytes the
\* trampoline overwrites, and per instruction set
\*   - arm64: literal loads that are not 64-bit loads of a general register
\*     (the load emitted is always one), and a branch on condition 14 or 15;
\*   - arm: the condition of a literal load or adr, byte loads, halfword loads
\*     and register forms that read pc (copied verbatim), blx to an odd halfword;
\*   - thumb: conditional branches, adr.w, byte loads, adr and ldr.w at an
\*     address that is no multiple of 4, ldr.w to pc, blx beyond 2^23, and jumps
\*     by a register or a table (copied verbatim).
Limited(n) ==
    LET i == program[n]
        a == SourceAt(n)
    IN \/ Target(n) \in Overwritten
       \/ arch = "arm64" /\ \/ i.k = "ldr" /\ (i.w # 8 \/ i.r # "r" \/ Target(n) + 4 \in Overwritten)
                            \/ i.k = "bcond" /\ i.c >= AL
       \/ arch = "arm" /\ \/ i.k = "ldr" /\ (i.w # 4 \/ i.c # AL)
                          \/ i.k = "adr" /\ i.c # AL
                          \/ i.k \in {"ldrh", "movpc"}
                          \/ i.k = "blx" /\ i.w = 1
       \/ arch = "thumb" /\ \/ i.k \in {"bc1", "bc3", "adr3", "ldrh", "tb"}
                            \/ i.k \in {"adr1", "ldr2"} /\ a % 4 # 0
                            \/ i.k = "ldr2" /\ i.r = "pc"
                            \/ i.k = "blx" /\ Meant(arch, i) \notin -2^23 .. 2^23 - 1

\* Relocated code does what the instructions it was made from did: the same
\* instructions and calls in the same order, the same registers but the
\* scratch one, and control at the same place in the same state, unless one of
\* the instructions is Limited.  (GenRelocateCodeAndBranch)
RelocatedAgrees ==
    phase = "done" /\ (\A n \in 1 .. insn - 1 : ~Limited(n)) =>
        [relocated EXCEPT !.tmp = Old(0)] = [original EXCEPT !.tmp = Old(0)]

\* A thread that enters a patched function arrives at the hook with all
\* registers but the scratch one, in the state the hook's address asks for,
\* unless the hook is exactly the most pages above that adrp cannot reach.
\* (GenerateNormalTrampolineBuffer)
TrampolineReaches ==
    phase = "done" /\ ~(arch = "arm64" /\ Pages(origin, hook) = 2^(AdrpBits - 1)) =>
        [entered EXCEPT !.tmp = Old(0)]
            = [Goto(arch, Cpu(arch, origin), Address(hook)) EXCEPT !.tmp = Old(0)]
=============================================================================
