---------------------------- MODULE X86Relocation ----------------------------
(***************************************************************************)
(* Dobby's instruction decoder and relocator for x86 (src/native/dobby/    *)
(* source/InstructionRelocation/x86 and x64) and its trampolines there.    *)
(* The shipped libmq-core is not built for these processors; the code is   *)
(* part of the repository.                                                 *)
(*                                                                         *)
(* Code is bytes.  GenRelocateCodeFixed decodes the instructions that the  *)
(* trampoline overwrites, one by one, into a buffer that ends in a jump    *)
(* back; when the memory it was given is too small it is called again with *)
(* more.  Then a processor runs the original bytes, and one the relocated. *)
(***************************************************************************)
EXTENDS Integers, Sequences, FiniteSets, TLC

CONSTANTS
    Isas,       \* "x64", "ia32"
    Texts(_),   \* the bytes a function may start with
    Origin, HookAt, Stub, ChunkBase, NearBase, \* addresses: the function, the hook, memory to allocate
    MaxRun      \* bound on what a processor does

VARIABLES
    isa, text, holds,  \* holds: how the conditions in the text turn out
    wanted,   \* origin->size: how much of the text is replaced
    room,     \* expected_relocated_mem_size
    cursor,   \* buffer_cursor - buffer
    decoded,  \* the offsets and lengths decoded so far
    out,      \* the code buffer
    near,     \* the code near what an instruction refers to, by address
    phase,    \* relocate, run, abort
    original, relocated \* the two processors

input == <<isa, text, holds>>
processors == <<original, relocated>>
vars == <<input, wanted, room, cursor, decoded, out, near, phase, processors>>

----------------------------------------------------------------------------
\* Bytes.  Beyond what is known the memory holds int3.
Peek(f, a) == IF a \in DOMAIN f THEN f[a] ELSE \hCC
Placed(bytes, a) == [b \in a .. a + Len(bytes) - 1 |-> bytes[b - a + 1]]
Int8(f, a) == IF Peek(f, a) > 127 THEN Peek(f, a) - 256 ELSE Peek(f, a)
Int32(f, a) == Peek(f, a) + 2^8 * Peek(f, a + 1) + 2^16 * Peek(f, a + 2) + 2^24 * Int8(f, a + 3)
Emit32(n) == <<n % 256, (n \div 2^8) % 256, (n \div 2^16) % 256, (n \div 2^24) % 256>>
Emit64(n) == Emit32(n) \o <<0, 0, 0, 0>>
OrigIp(offset) == Origin + offset

----------------------------------------------------------------------------
\* The opcode tables, as far as they decide what an instruction consists of:
\* the opcodes with a G, E, M or R operand, and the types of I, J and O operands.
Combine(op) == op < 64
one_byte_modrm(op) ==
    \/ Combine(op) /\ op % 8 < 4
    \/ op \in \h80 .. \h8F \/ op \in \hC4 .. \hC7 \/ op \in \hD0 .. \hD3
    \/ op \in {\h62, \h63, \h69, \h6B, \hC0, \hC1, \hFE}
two_byte_modrm(op) ==
    \/ op \in \h20 .. \h23 \/ op \in \h40 .. \h4F \/ op \in \h90 .. \h9F \/ op \in \hA3 .. \hA5
    \/ op \in \hAB .. \hAD \/ op \in \hB0 .. \hB7 \/ op \in \hBA .. \hBF
    \/ op \in {\h02, \h03, \hAF, \hC0, \hC1, \hC3, \hC7}
one_byte_immediate(op) ==
    CASE \/ Combine(op) /\ op % 8 = 4
         \/ op \in \h70 .. \h7F \/ op \in \hB0 .. \hB7 \/ op \in \hE0 .. \hE7
         \/ op \in {\h6A, \h6B, \h80, \h82, \h83, \hA0, \hA2, \hA8, \hC0, \hC1, \hC6, \hCD, \hEB} -> "b"
      [] op \in {\hC2, \hC8, \hCA} -> "w"
      [] (Combine(op) /\ op % 8 = 5) \/ op \in {\h68, \h69, \h81, \hA9, \hC7, \hE8, \hE9} -> "z"
      [] op \in {\hA1, \hA3} \/ op \in \hB8 .. \hBF -> "v"
      [] OTHER -> "none"

\* Fault: shld, shrd and group 8 are listed without their Ib.
two_byte_no_Ib(op) == IF op \in \h80 .. \h8F THEN "z" ELSE "none"

two_byte_immediate(op) == IF op \in {\hA4, \hAC, \hBA} THEN "b" ELSE IF op \in \h80 .. \h8F THEN "z" ELSE "none"
\* X86_INSN_SPEC_DEFAULT_64_BIT, of those with an immediate.
Default64 == {\h68, \h6A, \hE8, \hE9}
sse_group(op) ==
    \/ op \in \h10 .. \h17 \/ op \in \h28 .. \h2F \/ op \in \h50 .. \h70 \/ op \in \h74 .. \h7F
    \/ op = \hC2 \/ op \in \hC4 .. \hC6 \/ op \in \hD0 .. \hFF

Legacy == {\hF0, \hF2, \hF3, \h2E, \h36, \h3E, \h26, \h64, \h65, \h66, \h67}

\* x86_insn_decode_prefix: a REX byte ends the prefixes, where it is one.
Prefix(f, a, mode) ==
    LET n == CHOOSE k \in 0 .. 15 : Peek(f, a + k) \notin Legacy /\ \A j \in 0 .. k - 1 : Peek(f, a + j) \in Legacy
        isRex == mode = 64 /\ Peek(f, a + n) \in \h40 .. \h4F
    IN [legacy |-> {Peek(f, a + k) : k \in 0 .. n - 1}, rex |-> IF isRex THEN Peek(f, a + n) ELSE 0,
        len |-> IF isRex THEN n + 1 ELSE n]

\* x86_insn_decode_opcode, and what follows the opcode read as ModR/M and SIB.
Start(f, a, mode) ==
    LET prefix == Prefix(f, a, mode)
        p == prefix.len
        two == Peek(f, a + p) = \h0F
        after == IF two THEN p + 2 ELSE p + 1
        modrm == Peek(f, a + after)
    IN [prefix |-> prefix.legacy, rex |-> prefix.rex, two |-> two, op |-> Peek(f, a + after - 1), after |-> after,
        mod |-> modrm \div 64, reg |-> (modrm \div 8) % 8, rm |-> modrm % 8, base |-> Peek(f, a + after + 1) % 8]

REX_W(i) == (i.rex \div 8) % 2 = 1
REX_B(i) == i.rex % 2
OperandSize(i) == \h66 \in i.prefix
AddressSize(i) == \h67 \in i.prefix

\* x86_insn_decode: the parts in their order.  Modrm, Disp and Imm are what a
\* decoder takes them for.
Whole(i, hasModrm, disp, imm) ==
    LET memory == hasModrm /\ i.mod # 3
        sib == memory /\ i.rm = 4
        at == i.after + (IF hasModrm THEN 1 ELSE 0) + (IF sib THEN 1 ELSE 0)
        d == IF memory THEN disp ELSE 0
    IN i @@ [relative |-> memory /\ i.mod = 0 /\ i.rm = 5, disp |-> IF d > 0 THEN at ELSE 0,
             imm |-> IF imm > 0 THEN at + d ELSE 0, len |-> at + d + imm]

----------------------------------------------------------------------------
\* x86_insn_decode_modrm_sib: RBP and R13 are 7 and 14 in x86_ia32e_register_t.
Disp(i) ==
    LET base == i.base + 8 * REX_B(i)
        based == i.rm = 4 /\ (base = 7 \/ (base = 14 /\ ~AddressSize(i)))
    IN CASE i.mod = 0 /\ i.rm = 5 -> 4
         [] based -> IF i.mod = 1 THEN 1 ELSE 4
         [] OTHER -> <<0, 1, 4, 0>>[i.mod + 1]

HasModrm(i) == IF i.two THEN two_byte_modrm(i.op) ELSE one_byte_modrm(i.op)

ImmediateType(i) == IF i.two THEN two_byte_immediate(i.op) ELSE one_byte_immediate(i.op)

\* x86_insn_decode_immediate: an operand relative to rip has replaced the flags,
\* and with them the operand size; read_qword goes on by 4 bytes.
Imm(i) ==
    LET type == ImmediateType(i)
        flagged == REX_W(i) /\ ~(HasModrm(i) /\ i.mod = 0 /\ i.rm = 5)
        bits == IF flagged \/ (~i.two /\ i.op \in Default64) THEN 64 ELSE IF OperandSize(i) THEN 16 ELSE 32
    IN CASE type = "b" -> 1
         [] type = "w" -> 2
         [] type \in {"z", "v"} -> IF bits = 16 THEN 2 ELSE 4
         [] OTHER -> 0

\* Both relocators ask for 64-bit mode.
Decode(f, a) == LET i == Start(f, a, 64) IN Whole(i, HasModrm(i), Disp(i), Imm(i))

----------------------------------------------------------------------------
\* The processor: the same parts, by the architecture's own tables.
RealModrm(i) ==
    \/ HasModrm(i)
    \/ i.two /\ (i.op \in {\h00, \h01, \h0D, \h71, \h72, \h73, \hAE, \hB8, \hB9} \/ i.op \in \h18 .. \h1F)
    \/ ~i.two /\ (i.op \in {\hF6, \hF7, \hFF} \/ i.op \in \hD8 .. \hDF)
RealDisp(i) == IF i.mod = 0 /\ (i.rm = 5 \/ (i.rm = 4 /\ i.base = 5)) THEN 4 ELSE <<0, 1, 4, 0>>[i.mod + 1]
RealImm(s, i) ==
    LET word == OperandSize(i) /\ ~REX_W(i)
        z == IF word THEN 2 ELSE 4
        jump == IF s = "x64" THEN 4 ELSE z
        address == IF (s = "x64") = AddressSize(i) THEN 4 ELSE IF s = "x64" THEN 8 ELSE 2
    IN IF i.two
       THEN CASE i.op \in \h80 .. \h8F -> jump
              [] i.op \in {\hA4, \hAC, \hBA, \h71, \h72, \h73} -> 1
              [] OTHER -> 0
       ELSE CASE i.op \in {\hE8, \hE9} -> jump
              [] i.op \in \hA0 .. \hA3 -> address
              [] i.op \in {\h9A, \hEA} -> z + 2
              [] i.op = \hC8 -> 3
              [] i.op \in {\hD4, \hD5} \/ (i.op = \hF6 /\ i.reg < 2) -> 1
              [] i.op = \hF7 /\ i.reg < 2 -> z
              [] i.op \in \hB8 .. \hBF -> IF REX_W(i) THEN 8 ELSE z
              [] one_byte_immediate(i.op) = "b" -> 1
              [] one_byte_immediate(i.op) = "w" -> 2
              [] one_byte_immediate(i.op) = "z" -> z
              [] OTHER -> 0
Real(s, f, a) ==
    LET i == Start(f, a, IF s = "x64" THEN 64 ELSE 32) IN Whole(i, RealModrm(i), RealDisp(i), RealImm(s, i))

Conditional(i) == IF i.two THEN i.op \in \h80 .. \h8F ELSE i.op \in (\h70 .. \h7F) \cup (\hE0 .. \hE3)
Jumps(i) == ~i.two /\ i.op \in {\hE9, \hEB}
Calls(i) == ~i.two /\ i.op = \hE8
Indirect(i, reg) == ~i.two /\ i.op = \hFF /\ i.relative /\ i.reg = reg
Short(i) == ~i.two /\ i.op \notin {\hE8, \hE9}
Target(s, f, a, i) ==
    a + i.len + (IF Short(i) THEN Int8(f, a + i.imm) ELSE Int32(f, a + i.imm))

\* The instruction i at a: what happens, and where the processor goes on.
\* Operands relative to rip count by the address they mean.
Step(s, f, a, i) ==
    LET bytes == [k \in 0 .. i.len - 1 |-> Peek(f, a + k)]
        disp == IF s = "x64" /\ i.relative THEN i.disp .. i.disp + 3 ELSE {}
        place == (IF s = "x64" THEN a + i.len ELSE 0) + Int32(f, a + i.disp)
    IN CASE Conditional(i) -> <<<<"test", i.op % 16>>, IF holds THEN Target(s, f, a, i) ELSE a + i.len>>
         [] Jumps(i) -> <<<<>>, Target(s, f, a, i)>>
         [] Calls(i) -> <<<<"call", Target(s, f, a, i)>>, a + i.len>>
         [] Indirect(i, 4) -> <<<<>>, Int32(f, place)>>
         [] Indirect(i, 2) -> <<<<"call", Int32(f, place)>>, a + i.len>>
         [] OTHER -> <<<<"do", [k \in DOMAIN bytes \ disp |-> bytes[k]], IF disp = {} THEN 0 ELSE place>>, a + i.len>>

----------------------------------------------------------------------------
\* CodeGen: the two jumps, emitted at an address.
JmpNearIndirect(at, stub) == <<\hFF, \h25>> \o Emit32(stub - (at + 6))
JmpNear(at, address) == <<\hE9>> \o Emit32(address - (at + 5))

\* GenerateNormalTrampolineBuffer: jmp near, or through a stub nearby.
Trampoline(s) == IF s = "x64" THEN JmpNearIndirect(Origin, Stub) ELSE JmpNear(Origin, HookAt)

Processor(a) == [at |-> a, did |-> <<>>, ran |-> <<>>]
Init ==
    /\ isa \in Isas
    /\ text \in Texts(isa)
    /\ holds \in BOOLEAN
    /\ wanted = Len(Trampoline(isa))
    /\ room = 32
    /\ cursor = 0
    /\ decoded = <<>>
    /\ out = <<>>
    /\ near = [a \in {} |-> 0]
    /\ phase = "relocate"
    /\ original = Processor(Origin)
    /\ relocated = Processor(ChunkBase)

Text == Placed(text, Origin)
\* Every attempt allocates anew.
Chunk == ChunkBase + 16 * room
NearAt == NearBase + Cardinality(DOMAIN near)
ReloIp == Chunk + Len(out)
Here == Decode(Text, OrigIp(cursor))
Verbatim(first, last) == SubSeq(text, cursor + first + 1, cursor + last)

codegen_x64_jmp_absolute_addr(target) == <<\hFF, \h25>> \o Emit32(0) \o Emit64(target)

\* What fails an assertion: the last branches of GenRelocateSingleX86Insn and the
\* SSE opcodes, which are not implemented, and jmp and call behind a prefix, whose
\* immediate is not at offset 1.
Unimplemented(i) == IF i.two THEN sse_group(i.op) ELSE i.op \in \hE0 .. \hE3
Asserted(i) == ~i.two /\ i.op \in {\hE8, \hE9} => i.imm = 1
Aborts(i) == Unimplemented(i) \/ ~Asserted(i)

\* GenRelocateSingleX86Insn.  A two-byte opcode is known by its second byte.
RelocatedInsn(i) ==
    LET ip == OrigIp(cursor + i.len)
        target == ip + (CASE i.imm = 0 -> 0
                          [] i.op \in {\hE8, \hE9} -> Int32(Text, OrigIp(cursor + i.imm))
                          [] OTHER -> Int8(Text, OrigIp(cursor + i.imm)))
        jcc == \h80 + (i.op % 16)
    IN CASE i.op \in \h70 .. \h7F /\ isa = "ia32" -> <<\h0F, jcc>> \o Emit32(target - (ReloIp + 6))
         [] i.op \in \h70 .. \h7F /\ isa = "x64" -> <<jcc, 2, \hEB, 14>> \o codegen_x64_jmp_absolute_addr(target)
         [] i.relative -> codegen_x64_jmp_absolute_addr(NearAt)
         [] i.op = \hEB /\ isa = "ia32" -> <<\hE9>> \o Emit32(target - (ReloIp + 5))
         [] i.op \in {\hE8, \hE9} /\ isa = "ia32" -> Verbatim(0, i.imm) \o Emit32(target - (ReloIp + 5))
         [] i.op \in {\hEB, \hE9} /\ isa = "x64" -> codegen_x64_jmp_absolute_addr(target)
         [] i.op = \hE8 /\ isa = "x64" -> <<\hFF, \h15>> \o Emit32(0) \o Emit64(target)
         [] OTHER -> Verbatim(0, i.len)

\* The sequence allocated near the address that an instruction refers to.
RipSequence(i) ==
    LET ref == OrigIp(cursor + i.len) + Int32(Text, OrigIp(cursor + i.disp))
    IN Verbatim(0, i.disp) \o Emit32(ref - (NearAt + i.len)) \o (IF i.imm > 0 THEN Verbatim(i.imm, i.len) ELSE <<>>)
       \o codegen_x64_jmp_absolute_addr(ReloIp + 14)

RelocateInsn ==
    /\ phase = "relocate" /\ cursor < wanted
    /\ \E i \in {Here} :
          /\ ~Aborts(i)
          /\ out' = out \o RelocatedInsn(i)
          /\ near' = IF i.relative THEN near @@ Placed(RipSequence(i), NearAt) ELSE near
          /\ decoded' = Append(decoded, <<cursor, i.len>>)
          /\ cursor' = cursor + i.len
    /\ UNCHANGED <<input, wanted, room, phase, processors>>

Abort ==
    /\ phase = "relocate" /\ cursor < wanted
    /\ Aborts(Here)
    /\ phase' = "abort"
    /\ UNCHANGED <<input, wanted, room, cursor, decoded, out, near, processors>>

\* The jump to the rest of the function; on x64 its stub is right behind it.
BranchBack ==
    IF isa = "x64" THEN JmpNearIndirect(ReloIp, ReloIp + 6) \o Emit64(OrigIp(cursor)) ELSE JmpNear(ReloIp, OrigIp(cursor))

\* The end of GenRelocateCodeFixed.
Finish ==
    /\ phase = "relocate" /\ cursor >= wanted
    /\ Len(out \o BranchBack) <= room
    /\ wanted' = cursor
    /\ out' = out \o BranchBack
    /\ phase' = "run"
    /\ relocated' = Processor(Chunk)
    /\ UNCHANGED <<input, room, cursor, decoded, near, original>>

\* It failed for want of room, and GenRelocateCodeX86Shared calls it again: with
\* more room, and the size the last attempt found.
TryAgain ==
    /\ phase = "relocate" /\ cursor >= wanted
    /\ Len(out \o BranchBack) > room
    /\ wanted' = cursor
    /\ room' = room + 16
    /\ cursor' = 0 /\ decoded' = <<>> /\ out' = <<>>
    /\ UNCHANGED <<input, near, phase, processors>>

----------------------------------------------------------------------------
\* A processor stops where it leaves the code it was to run.
Ran(p, f, i) ==
    LET s == Step(isa, f, p.at, i)
    IN [at |-> s[2], did |-> IF s[1] = <<>> THEN p.did ELSE Append(p.did, s[1]), ran |-> Append(p.ran, p.at)]
Overwritten == Origin .. Origin + cursor - 1
Rewritten == Placed(out, Chunk) @@ near

\* The two share nothing: one runs after the other.
Goes(p, area) == p.at \in area /\ Len(p.ran) < MaxRun
RunOriginal ==
    /\ phase = "run" /\ Goes(original, Overwritten)
    /\ \E i \in {Real(isa, Text, original.at)} : original' = Ran(original, Text, i)
    /\ UNCHANGED <<input, wanted, room, cursor, decoded, out, near, phase, relocated>>
RunRelocated ==
    /\ phase = "run" /\ ~Goes(original, Overwritten) /\ Goes(relocated, DOMAIN Rewritten)
    /\ \E i \in {Real(isa, Rewritten, relocated.at)} : relocated' = Ran(relocated, Rewritten, i)
    /\ UNCHANGED <<input, wanted, room, cursor, decoded, out, near, phase, original>>

Next == RelocateInsn \/ Abort \/ Finish \/ TryAgain \/ RunOriginal \/ RunRelocated

Spec == Init /\ [][Next]_vars

----------------------------------------------------------------------------
RealAt(a) == Real(isa, Text, a)
WellRead(k) == decoded[k][2] = RealAt(OrigIp(decoded[k][1])).len

\* Instructions whose length the decoder gets wrong.
Misread(i) ==
    LET word == OperandSize(i) /\ ~REX_W(i)
        memory == HasModrm(i) /\ i.mod # 3
        address == IF (isa = "x64") = AddressSize(i) THEN 4 ELSE IF isa = "x64" THEN 8 ELSE 2
        base == i.base + 8 * REX_B(i)
    IN \/ memory /\ i.mod = 0 /\ i.rm = 4 /\ (base % 8 = 5 \/ base = 7 \/ (base = 14 /\ ~AddressSize(i)))
       \/ i.two /\ RealModrm(i) /\ ~HasModrm(i)
       \/ i.two /\ i.op \in \h80 .. \h8F /\ word /\ isa = "x64"
       \/ ~i.two /\ \/ isa = "ia32" /\ i.op \in \h40 .. \h4F
                    \/ i.op \in (\hD8 .. \hDF) \cup {\hF6, \hF7, \hFF, \hC8, \hD4, \hD5, \h9A, \hEA, \hA0, \hA2}
                    \/ i.op \in {\hA1, \hA3} /\ address # (IF word THEN 2 ELSE 4)
                    \/ i.op \in \hB8 .. \hBF /\ REX_W(i)
                    \/ i.op = \h68 /\ word
                    \/ i.op \in {\hE8, \hE9} /\ word /\ isa = "ia32"
                    \/ one_byte_immediate(i.op) = "z" /\ i.relative /\ OperandSize(i) /\ REX_W(i)

\* A short conditional jump on x64, for which the byte 0x80 | cc is emitted.
ShortJcc(i) == isa = "x64" /\ ~i.two /\ i.op \in \h70 .. \h7F

\* Other instructions that do something else where they are put: calls on x64; an
\* absolute address on ia32, which is taken for one relative to rip; a near
\* conditional jump that is taken; and what jumps to a byte that was overwritten.
Unfaithful(a) ==
    LET i == RealAt(a)
    IN \/ i.two /\ i.op \in \h80 .. \h8F /\ holds
       \/ isa = "x64" /\ ~i.two /\ i.op = \hE8
       \/ isa = "ia32" /\ i.relative
       \/ (Jumps(i) \/ (Conditional(i) /\ holds)) /\ Target(isa, Text, a, i) \in Overwritten

Ended == phase = "run" /\ ~Goes(original, Overwritten) /\ ~Goes(relocated, DOMAIN Rewritten)
Same == original.did = relocated.did /\ original.at = relocated.at /\ relocated.at \notin Overwritten

TrampolineLeadsTo(f) == \A i \in {Real(isa, f, Origin)} : Step(isa, f, Origin, i)[2] = HookAt

\* The decoder finds the length of every instruction but the ones listed, and
\* where it does, the relocated code does what the original did and goes on
\* where it went on, unless it met one of the unfaithful ones (short conditional
\* jumps on x64 are ShortJccAgrees's); the trampoline leads to the hook.
\* (x86_insn_decode, GenRelocateCodeX86Shared)
X86RelocatedAgrees ==
    /\ phase = "relocate" /\ decoded # <<>> =>
          LET k == Len(decoded)
          IN (\A j \in 1 .. k - 1 : WellRead(j)) => (WellRead(k) <=> ~Misread(RealAt(OrigIp(decoded[k][1]))))
    /\ Ended =>
          /\ TrampolineLeadsTo(Placed(Trampoline(isa), Origin) @@ Placed(Emit64(HookAt), Stub))
          /\ (\A k \in DOMAIN decoded : WellRead(k)) /\ (\A k \in DOMAIN original.ran : ~ShortJcc(RealAt(original.ran[k]))) =>
                (Same <=> \A k \in DOMAIN original.ran : ~Unfaithful(original.ran[k]))

\* Code that takes a short conditional jump, and runs no other instruction that
\* is not kept, goes on at the same address where it is put, as the jumps of
\* test_insn_relo_x64.cpp have to.  (GenRelocateSingleX86Insn)
ShortJccAgrees ==
    /\ Ended /\ holds
    /\ \A k \in DOMAIN decoded : WellRead(k)
    /\ \A k \in DOMAIN original.ran : ~Unfaithful(original.ran[k])
    /\ \E k \in DOMAIN original.ran : ShortJcc(RealAt(original.ran[k]))
    => original.at = relocated.at
=============================================================================
