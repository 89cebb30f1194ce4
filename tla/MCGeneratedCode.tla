--------------------------- MODULE MCGeneratedCode ---------------------------
\* A small instance of GeneratedCode: every instruction the relocators treat,
\* with immediates at the ends of their fields and near the function itself,
\* next to one of every other kind, at each alignment; one program per
\* instruction set is instrumented.
EXTENDS GeneratedCode

I(k, v, c, r, w, sz) == [k |-> k, v |-> v, c |-> c, r |-> r, w |-> w, sz |-> sz]
P(id, sz) == I("plain", id, AL, "r", 4, sz)

Ends(bits) == {0, 1, 6, 2^(bits - 1) - 1, 2^(bits - 1), 2^bits - 1, 2^bits - 5}
At(k, raws, cs, sz) == {I(k, v, c, "r", 4, sz) : v \in raws, c \in cs}
\* One or two instructions of each kind.
Few(insns) == {i \in insns : i.v \in {6, 40} \/ i.k \in {"adrp", "movpc", "bxpc"}}

Arm64Insns ==
    At("b", Ends(26), {AL}, 4) \cup At("bl", Ends(26), {AL}, 4) \cup At("bcond", {6, 2^19 - 5}, {0, 1, 14}, 4)
    \cup At("cbz", Ends(19), {0}, 4) \cup At("tbz", Ends(14), {1}, 4)
    \cup {I("ldr", v, AL, r, w, 4) : v \in {0, 6, 2^18}, r \in {"r", "v"}, w \in {4, 8, 16}}
    \cup At("adr", Ends(21), {AL}, 4) \cup At("adrp", {0, 1, 2^AdrpBits - 1}, {AL}, 4)

ArmInsns ==
    At("b", Ends(24), {AL, 0}, 4) \cup At("bl", Ends(24), {AL, 1}, 4)
    \cup {I("blx", v, AL, "r", w, 4) : v \in Ends(24), w \in {0, 1}}
    \cup {I("ldr", v, c, r, w, 4) : v \in {-4, 0, 40}, c \in {AL, 0}, r \in {"r", "pc"}, w \in {1, 4}}
    \cup At("adr", {-40, 0, 40}, {AL, 1}, 4) \cup At("ldrh", {40}, {AL}, 4)
    \cup At("movpc", {0}, {AL, 0}, 4)

ThumbInsns ==
    At("movpc", {0}, {AL}, 2) \cup At("bxpc", {0}, {AL}, 2) \cup At("blxpc", {0}, {AL}, 2)
    \cup At("ldr1", {0, 40}, {AL}, 2) \cup At("adr1", {40}, {AL}, 2) \cup At("bc1", {40}, {0, 1, 8, 14}, 2)
    \cup At("cbz", {2, 40}, {0, 1}, 2) \cup At("b1", Ends(11), {AL}, 2) \cup At("bc3", {40}, {0, 9}, 4)
    \cup At("b4", Ends(24), {AL}, 4) \cup At("bl", Ends(24), {AL}, 4) \cup At("blx", Ends(23), {AL}, 4)
    \cup At("tb", {40}, {AL}, 2) \cup At("tb", {40}, {AL}, 4) \cup At("adr3", {-40, 40}, {AL}, 4) \cup At("ldrh", {40}, {AL}, 4)
    \cup {I("ldr2", v, AL, r, 4, 4) : v \in {-40, 40}, r \in {"r", "pc"}}

PlainProgram(a) ==
    IF a = "thumb" THEN <<P(1, 4), P(2, 2), P(3, 2), P(4, 2), P(5, 4), P(6, 2)>>
    ELSE <<P(1, 4), P(2, 4), P(3, 4), P(4, 4)>>
MCWritten == {<<"x", 0>>, <<"x", 12>>, <<"x", 14>>, <<"x", 30>>, <<"q", 7>>, <<"q", 31>>}
MCInstrumented(a) == {PlainProgram(a)}

MCPrograms(a) ==
    {PlainProgram(a)} \cup
    CASE a = "arm64" -> {<<x, y, P(3, 4), P(4, 4)>> : x \in Arm64Insns, y \in Few(Arm64Insns)}
                        \cup {<<P(1, 4), P(2, 4), P(3, 4), x>> : x \in Arm64Insns}
      [] a = "arm" -> {<<x, y, P(3, 4)>> : x \in ArmInsns \cup {P(1, 4)}, y \in Few(ArmInsns) \cup {P(2, 4)}}
      [] a = "thumb" -> {<<x, y, P(3, 2), P(4, 2), P(5, 4), P(6, 2)>> :
                            x \in ThumbInsns \cup {P(1, 2), P(1, 4)}, y \in Few(ThumbInsns) \cup {P(2, 4)}}

\* Around the end of a page, and of the distance adrp is used for.
MCOrigins(a) ==
    CASE a = "arm64" -> {2^28, 2^28 + 12}
      [] a = "arm" -> {2^28}
      [] a = "thumb" -> {2^28, 2^28 + 2}
MCHooks(a, o) ==
    CASE a = "arm64" -> {o + AdrpRange - 4, IF o = 2^28 THEN o - AdrpRange + 4 ELSE o + AdrpRange}
      [] a = "arm" -> {2^27, 2^27 + 1}
      [] a = "thumb" -> {2^27}

----------------------------------------------------------------------------
\* The assemblers: every call, with numbers around the ends of its fields.
Xs == {<<"x", n>> : n \in {0, 1, 30, 31}}
Around(width, unit) == {0, unit, (2^width - 1) * unit, 2^width * unit, -unit}
SignedAround(width, unit) == {0, 1, unit, (2^(width - 1) - 1) * unit, 2^(width - 1) * unit, -(2^(width - 1)) * unit, -(2^(width - 1)) * unit - unit}
Arm64Requests ==
    {Assembler!Op("nop"), Assembler!Op("ret")} \cup {Assembler!Jump("brk", v) : v \in {0, 5, 65535}}
    \cup {[Assembler!Op("adrp") EXCEPT !.d = d, !.v = v] : d \in Xs, v \in SignedAround(21, 1)}
    \cup {Assembler!Arith(op, r[1], r[2], v) : op \in {"add", "sub"}, r \in {<<<<"x", 3>>, Assembler!SP>>, <<Assembler!SP, Assembler!SP>>, <<<<"w", 1>>, <<"w", 2>>>>}, v \in Around(12, 1)}
    \cup {Assembler!Jump("b", v) : v \in SignedAround(26, 4)}
    \cup {Assembler!ToReg(op, n) : op \in {"br", "blr"}, n \in Xs}
    \cup {Assembler!Literal(<<k, 7>>, v) : k \in {"w", "x", "s", "d", "q"}, v \in {0, 8, -8}}
    \cup {Assembler!Memory(op, <<k, 9>>, n, v, "offset") : op \in {"ldr", "str"}, k \in {"w", "x"}, n \in {Assembler!SP, <<"x", 17>>}, v \in {4, 0, 8, 32760, 32768, -8}}
    \cup {Assembler!Pair(op, <<k, 2>>, <<k, 3>>, Assembler!SP, v, m) : op \in {"ldp", "stp"}, k \in {"x", "q"}, m \in {"offset", "post", "pre"}, v \in {0, 8, 16, 504, 512, 1008, -512, -1024, -1040}}
    \cup {[Assembler!Op("mov") EXCEPT !.d = r[1], !.n = r[2]] : r \in (Xs \X Xs) \cup {<<<<"w", 1>>, <<"w", 2>>>>, <<<<"w", 1>>, <<"w", 0>>>>}}
    \cup {Assembler!Wide(op, d, v, s) : op \in {"movn", "movz", "movk"}, d \in {<<"x", 2>>, <<"w", 2>>}, v \in {0, 1, 65535, 65536}, s \in {-1, 0, 8, 16, 32, 48}}
    \cup {Assembler!Orr(d, <<d[1], 5>>, <<d[1], m>>, k, s) : d \in {<<"x", 2>>, <<"w", 2>>}, m \in {0, 8}, k \in {"LSL", "ROR"}, s \in {0, 31, 32, 63}}
    \cup {Assembler!OrrImm(<<"x", 2>>, <<"x", 3>>, v) : v \in {0, 1, 4096}}
    \cup {[Assembler!Op("Mov") EXCEPT !.d = <<"x", 4>>, !.h = h] : h \in {<<1, 2, 3, 4>>, <<65535, 0, 32768, 0>>}}
    \cup {[Assembler!Op("CallFunction") EXCEPT !.h = h] : h \in {<<4660, 22136, 65535, 0>>}}
    \cup {[Assembler!Op("AdrpAdd") EXCEPT !.d = <<"x", 17>>, !.s = f, !.v = t] : f \in {2^28, 2^28 + 4092}, t \in {2^28 + 4096, 2^28 - 4, 2^30 + 2^29 + 8, 12}}
R(n) == <<"r", n>>
ArmRequests ==
    {Assembler!Cond(Assembler!Arith(op, r[1], r[2], v), c) : op \in {"add", "sub"}, r \in {<<R(0), R(13)>>, <<R(13), R(13)>>}, v \in {0, 8, 56, 255, 256, -1}, c \in {Assembler!AL}}
    \cup {Assembler!Cond([Assembler!Arith(op, R(1), R(2), 0) EXCEPT !.m = R(3)], Assembler!AL) : op \in {"add", "sub"}}
    \cup {Assembler!Cond(Assembler!Memory(op, d, n, v, k), Assembler!AL) : op \in {"ldr", "str"}, d \in {R(0), R(14), R(15)}, n \in {R(13), R(15)}, k \in {"offset", "pre", "post"}, v \in {0, 4, -4, 4095, 4096, -4095, -4096}}
    \cup {Assembler!Cond(Assembler!Jump(op, v), c) : op \in {"b", "bl"}, v \in SignedAround(24, 4), c \in {Assembler!AL, 0, 1}}
    \cup {Assembler!Cond([Assembler!Op("mov") EXCEPT !.d = d, !.m = m], c) : d \in {R(0), R(15)}, m \in {R(0), R(12), R(13)}, c \in {Assembler!AL, 0}}
    \cup {Assembler!Cond([Assembler!Op("mov") EXCEPT !.d = R(1), !.v = v, !.k = "imm"], Assembler!AL) : v \in {0, 1, 15, 255}}
    \cup {[Assembler!Op("CallFunction") EXCEPT !.h = <<4660, 22136, 0, 0>>]}
MCRequests(a) == IF a = "arm64" THEN Arm64Requests ELSE ArmRequests
MCFillers(a) == IF a = "arm64" THEN {Assembler!Op("nop"), Assembler!Jump("b", -8)} ELSE {Assembler!Cond(Assembler!Jump("b", -8), Assembler!AL)}

----------------------------------------------------------------------------
\* x86: every opcode the two instruction sets have and the model follows, behind
\* prefixes, with one of every form of operand, before an instruction of each
\* kind.
OneByteOpcodes(s) ==
    (0 .. 255) \ (X86!Legacy \cup {\h0F, \h62, \h8F, \hC4, \hC5, \hD6, \hF1} \cup
                  (IF s = "x64" THEN {\h06, \h07, \h0E, \h16, \h17, \h1E, \h1F, \h27, \h2F, \h37, \h3F, \h60, \h61, \h82, \h9A, \hCE, \hD4, \hD5, \hEA}
                                     \cup (\h40 .. \h4F) ELSE {}))
TwoByteOpcodes ==
    (0 .. 255) \ ({\h04, \h0A, \h0C, \h0E, \h0F, \hA6, \hA7, \hFF} \cup (\h20 .. \h27) \cup (\h36 .. \h3F))
Forms == {<<\hC3>>, <<\h05>>, <<\h04, \h25>>, <<\h04, \h26>>, <<\h04, \h27>>, <<\h43>>, <<\h84, \h27>>}
WithForm(two, op, forms) == IF X86!RealModrm([two |-> two, op |-> op]) THEN forms ELSE {<<>>}
Operations(s, forms) ==
    UNION {{<<op>> \o m : m \in WithForm(FALSE, op, forms)} : op \in OneByteOpcodes(s)}
    \cup UNION {{<<\h0F, op>> \o m : m \in WithForm(TRUE, op, forms)} : op \in TwoByteOpcodes}
\* Of jumps with a 16 bit target only the length is modelled.
WordJump(o) == o[1] \in (\h70 .. \h7F) \cup (\hE0 .. \hE3) \cup {\hEB} \/ (o[1] = \h0F /\ o[2] \in \h80 .. \h8F)
MCTexts(s) ==
    LET rest(y) == <<16, 0, 0, 0>> \o y \o [k \in 1 .. 24 |-> \h90]
        prefixes == IF s = "x64" THEN {<<>>, <<\h67>>, <<\h49>>, <<\h66, \h48>>} ELSE {<<>>, <<\hF3>>}
        ops == Operations(s, Forms)
    IN {p \o o \o rest(<<>>) : p \in prefixes, o \in ops}
       \cup {<<\h67, \h41>> \o o \o rest(<<>>) : o \in IF s = "x64" THEN Operations(s, {<<\h04, \h26>>}) ELSE {}}
       \cup {<<\h66>> \o o \o rest(<<>>) : o \in {o \in ops : s = "x64" \/ ~WordJump(o)}}
       \cup {o \o rest(y) : o \in Operations(s, {<<\hC3>>, <<\h05>>}), y \in {<<\hEB, 40>>, <<\h75, 40>>, <<\h8B, \h05>>}}
       \cup {j \o rest(<<>>) : j \in {<<\hEB, \hFE>>, <<\h74, \hFC>>, <<\hE9, \hFB, \hFF, \hFF, \hFF>>, <<\h8B, \h05, 0, 1, 0, 0, \h8B, \h0D>>}}
\* The conditional jumps of test_insn_relo_x64.cpp: cmp eax, eax and jz, backwards
\* and forwards.
JumpTexts(s) == {<<\h39, \hC0, \h74, d>> \o [k \in 1 .. 24 |-> \h90] : d \in {\hDC, \h1C}}
=============================================================================
