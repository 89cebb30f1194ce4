------------------------------ MODULE Assembler ------------------------------
(***************************************************************************)
(* Dobby's assemblers (src/native/dobby/source/core/assembler), bit by bit. *)
(* The other modules take the instructions a generator asks for as what it  *)
(* gets; here a generator calls the assembler, which puts 32-bit words into *)
(* its buffer, and the processor reads them back.  A word is the set of its *)
(* bits, so that both can be written as the code and the architecture       *)
(* manuals write them.                                                     *)
(***************************************************************************)
EXTENDS Integers, Sequences, FiniteSetsExt

CONSTANTS
    AsmAbis,     \* "arm64", "arm"
    Requests(_), \* the calls a generator may start with
    Fillers(_),  \* and those it goes on with
    MaxCalls

VARIABLES
    abi,
    asked,   \* the calls made, with the place of the words they left
    words,   \* the code buffer
    refs,    \* the label's ref_label_insts_: places of words, from 0
    bound    \* the label's relocated_pos_, -1 while it has none

vars == <<abi, asked, words, refs, bound>>

----------------------------------------------------------------------------
\* Bits.  Integers are as wide as they need to be; a negative one has all the
\* higher bits set.
Bit(a, i) == IF i > 30 THEN a < 0 ELSE (a \div 2^i) % 2 = 1
LeftShift(a, b, c) == {c + i : i \in {j \in 0 .. b - 1 : Bit(a, j)}}
Hex(high, low) == LeftShift(high, 16, 16) \cup LeftShift(low, 16, 0)
Bits(word, first, last) == MapThenSumSet(LAMBDA i : 2^(i - first), word \cap (first .. last))
Has(word, i) == i \in word
Signed(a, width) == IF a >= 2^(width - 1) THEN a - 2^width ELSE a

\* Registers: their kind (w, x; b, h, s, d, q) and number.
Code(r) == r[2]
Is(r, s) == Code(r) = Code(s)
Is64Bits(r) == r[1] \in {"x", "d"}
IsVRegister(r) == r[1] \in {"b", "h", "s", "d", "q"}
InvalidRegister == <<"invalid", 0>>
ZR == 31
SP == <<"x", 31>>
TMP_REG_0 == <<"x", 17>>

\* A call of the assembler, and what a word means to the processor: operation,
\* registers, number, shift (or condition), kind of shift or address, and the
\* half-words of an address.
Insn == [op |-> "undefined", d |-> InvalidRegister, n |-> InvalidRegister, m |-> InvalidRegister,
         v |-> 0, s |-> 0, k |-> "offset", h |-> <<0, 0, 0, 0>>]
Undefined == Insn
Op(op) == [Insn EXCEPT !.op = op]
Jump(op, v) == [Op(op) EXCEPT !.v = v]
ToReg(op, n) == [Op(op) EXCEPT !.n = n]
Literal(d, v) == [Op("literal") EXCEPT !.d = d, !.v = v]
Arith(op, d, n, v) == [Op(op) EXCEPT !.d = d, !.n = n, !.v = v]
Memory(op, d, n, v, k) == [Op(op) EXCEPT !.d = d, !.n = n, !.v = v, !.k = k]
Pair(op, d, m, n, v, k) == [Op(op) EXCEPT !.d = d, !.m = m, !.n = n, !.v = v, !.k = k]
Wide(op, d, v, s) == [Op(op) EXCEPT !.d = d, !.v = v, !.s = s]
Orr(d, n, m, k, s) == [Op("orr") EXCEPT !.d = d, !.n = n, !.m = m, !.k = k, !.s = s]
OrrImm(d, n, v) == [Op("orr") EXCEPT !.d = d, !.n = n, !.v = v, !.k = "imm"]
Cond(insn, c) == [insn EXCEPT !.s = c]

----------------------------------------------------------------------------
\* The 64-bit ARM assembler.
Rd(r) == LeftShift(Code(r), 5, 0)
Rn(r) == LeftShift(Code(r), 5, 5)
Rt2(r) == LeftShift(Code(r), 5, 10)
Rm(r) == LeftShift(Code(r), 5, 16)
sf(r) == IF Is64Bits(r) THEN LeftShift(1, 1, 31) ELSE {}

BRK == Hex(\hD400, 0) \cup Hex(\h0020, 0)
B == Hex(\h1400, 0)
BR == Hex(\hD600, 0) \cup Hex(\h001F, 0)
BLR == Hex(\hD600, 0) \cup Hex(\h003F, 0)
ADRP == Hex(\h1000, 0) \cup Hex(\h8000, 0)
LoadRegLiteralSub(opc, v) == Hex(\h1800, 0) \cup LeftShift(opc, 2, 30) \cup LeftShift(v, 1, 26)
LoadStoreOpSub(size, v, opc) == LeftShift(size, 2, 30) \cup LeftShift(v, 1, 26) \cup LeftShift(opc, 2, 22)
LDR_x == LoadStoreOpSub(3, 0, 1)
STR_x == LoadStoreOpSub(3, 0, 0)
LoadStoreUnsignedOffsetFixed == Hex(\h3900, 0)
LoadStorePairOpSub(opc, v, l) == LeftShift(opc, 2, 30) \cup LeftShift(v, 1, 26) \cup LeftShift(l, 1, 22)
LoadStorePairFixed == [offset |-> Hex(\h2900, 0), post |-> Hex(\h2880, 0), pre |-> Hex(\h2980, 0)]
MoveWideImmediateFixed == Hex(\h1280, 0)
MoveWideImmediateOp == [movn |-> {}, movz |-> Hex(\h4000, 0), movk |-> Hex(\h6000, 0)]
AddSubImmediateOpSub(f, op, s) ==
    Hex(\h1100, 0) \cup LeftShift(f, 1, 31) \cup LeftShift(op, 1, 30) \cup LeftShift(s, 1, 29)
ORR == Hex(\h2000, 0)
LogicalShiftedFixed == Hex(\h0A00, 0)
Shift == [LSL |-> 0, LSR |-> 1, ASR |-> 2, ROR |-> 3]

\* adrp takes its distance in pages: the low 12 bits are shifted out.
adrp(rd, pages) ==
    ADRP \cup Rd(rd) \cup LeftShift(pages, 2, 29) \cup LeftShift(pages \div 4, 19, 5)

AddSubImmediate(rd, rn, imm, op) == op \cup Rd(rd) \cup Rn(rn) \cup LeftShift(imm, 12, 10)
addsub(rd, rn, imm, minus) ==
    AddSubImmediate(rd, rn, imm,
                    AddSubImmediateOpSub(IF Is64Bits(rd) /\ Is64Bits(rn) THEN 1 ELSE 0, IF minus THEN 1 ELSE 0, 0))

b(imm) == B \cup LeftShift(imm \div 4, 26, 0)

EmitLoadRegLiteral(op, rt, imm) == op \cup LeftShift(imm, 26, 5) \cup Rd(rt)
ldr_literal(rt, imm) ==
    LET op == CASE rt[1] = "w" -> LoadRegLiteralSub(0, 0)
                [] rt[1] = "x" -> LoadRegLiteralSub(1, 0)
                [] rt[1] = "s" -> LoadRegLiteralSub(0, 1)
                [] rt[1] = "d" -> LoadRegLiteralSub(1, 1)
                [] rt[1] = "q" -> LoadRegLiteralSub(2, 1)
    IN EmitLoadRegLiteral(op, rt, imm)

\* Only MemOperands with an offset; the scale is that of the operation.
scale(op) == Bits(op, 30, 31)
LoadStore(op, rt, base, offset) ==
    LoadStoreUnsignedOffsetFixed \cup op \cup LeftShift(offset \div 2^scale(op), 12, 10) \cup Rn(base) \cup Rd(rt)

PairScale(op, rt) == 2 + (IF IsVRegister(rt) THEN scale(op) ELSE scale(op) \div 2)
LoadStorePair(op, rt, rt2, base, offset, mode) ==
    op \cup LoadStorePairFixed[mode] \cup LeftShift(offset \div 2^PairScale(op, rt), 7, 15)
    \cup Rt2(rt2) \cup Rn(base) \cup Rd(rt)
ldpstp(rt, rt2, base, offset, mode, load) ==
    LoadStorePair(LoadStorePairOpSub(2, IF rt[1] = "q" THEN 1 ELSE 0, load), rt, rt2, base, offset, mode)

MoveWide(rd, imm, shift, op) ==
    MoveWideImmediateFixed \cup op \cup sf(rd) \cup LeftShift(IF shift > 0 THEN shift \div 16 ELSE 0, 2, 21)
    \cup LeftShift(imm, 16, 5) \cup Rd(rd)

\* An Operand is an immediate when its register is InvalidRegister, and Is
\* compares numbers only.
LogicalImmediate(rd, rn, imm, op) ==
    op \cup sf(rd) \cup LeftShift(imm, 6, 16) \cup LeftShift(imm \div 64, 6, 10) \cup Rd(rd) \cup Rn(rn)
LogicalShift(rd, rn, rm, kind, amount, op) ==
    op \cup LogicalShiftedFixed \cup sf(rd) \cup LeftShift(Shift[kind], 2, 22) \cup Rm(rm)
    \cup LeftShift(amount, 6, 10) \cup Rn(rn) \cup Rd(rd)
orr(q) ==
    IF Is(q.m, InvalidRegister) THEN LogicalImmediate(q.d, q.n, q.v, ORR)
    ELSE LogicalShift(q.d, q.n, q.m, q.k, q.s, ORR)

mov64(rd, rn) ==
    IF Is(rd, SP) \/ Is(rn, SP) THEN addsub(rd, rn, 0, FALSE)
    ELSE orr(Orr(rd, <<rd[1], ZR>>, rn, "LSL", 0))

\* A 64-bit value as four 16-bit ones, the lowest first.
Mov(rd, halves) == [i \in 1 .. 4 |-> MoveWide(rd, halves[i], 16 * (i - 1), MoveWideImmediateOp[IF i = 1 THEN "movz" ELSE "movk"])]

AdrpAdd(rd, from, to) ==
    <<adrp(rd, to \div 4096 - from \div 4096), addsub(rd, rd, to % 4096, FALSE)>>

CallFunction64(halves) == Append(Mov(TMP_REG_0, halves), BLR \cup Rn(TMP_REG_0))

Assemble64(q) ==
    CASE q.op = "nop" -> <<Hex(\hD503, \h201F)>>
      [] q.op = "ret" -> <<Hex(\hD65F, \h03C0)>>
      [] q.op = "brk" -> <<BRK \cup LeftShift(q.v, 16, 5)>>
      [] q.op = "adrp" -> <<adrp(q.d, q.v)>>
      [] q.op \in {"add", "sub"} -> <<addsub(q.d, q.n, q.v, q.op = "sub")>>
      [] q.op = "b" -> <<b(q.v)>>
      [] q.op = "br" -> <<BR \cup Rn(q.n)>>
      [] q.op = "blr" -> <<BLR \cup Rn(q.n)>>
      [] q.op = "literal" -> <<ldr_literal(q.d, q.v)>>
      [] q.op = "ldr" -> <<LoadStore(LDR_x, q.d, q.n, q.v)>>
      [] q.op = "str" -> <<LoadStore(STR_x, q.d, q.n, q.v)>>
      [] q.op \in {"ldp", "stp"} -> <<ldpstp(q.d, q.m, q.n, q.v, q.k, IF q.op = "ldp" THEN 1 ELSE 0)>>
      [] q.op = "mov" -> <<mov64(q.d, q.n)>>
      [] q.op \in {"movn", "movz", "movk"} -> <<MoveWide(q.d, q.v, q.s, MoveWideImmediateOp[q.op])>>
      [] q.op = "orr" -> <<orr(q)>>
      [] q.op = "Mov" -> Mov(q.d, q.h)
      [] q.op = "AdrpAdd" -> AdrpAdd(q.d, q.s, q.v)
      [] q.op = "CallFunction" -> CallFunction64(q.h)

----------------------------------------------------------------------------
\* The 32-bit ARM assembler.
AL == 14
ArmRd(r) == LeftShift(Code(r), 4, 12)
ArmRn(r) == LeftShift(Code(r), 4, 16)
IsValid(r) == Code(r) # 0

\* OpEncode: a MemOperand is a base and an offset, an Operand a register or a
\* number.
MemOperand(base, offset, mode) ==
    (IF offset >= 0 THEN {23} ELSE {}) \cup LeftShift(IF offset >= 0 THEN offset ELSE -offset, 12, 0)
    \cup (CASE mode = "offset" -> {24} [] mode = "post" -> {} [] mode = "pre" -> {24, 21}) \cup ArmRn(base)
Operand(q) == IF IsValid(q.m) THEN LeftShift(Code(q.m), 4, 0) ELSE LeftShift(q.v, 32, 0)

Conditional(c) == LeftShift(c, 4, 28)
add_sub(op, q) == op \cup Conditional(q.s) \cup LeftShift(q.v, 32, 0) \cup ArmRd(q.d) \cup ArmRn(q.n)
load_store(op, q) == op \cup Conditional(q.s) \cup ArmRd(q.d) \cup MemOperand(q.n, q.v, q.k)
branch(op, offset, c) == op \cup Conditional(c) \cup LeftShift(offset \div 4, 24, 0)

\* bl to the load, which takes the address behind it; the callee returns to the b
\* over both.
CallFunctionArm(halves) ==
    <<branch(Hex(\h0B00, 0), 0, AL), branch(Hex(\h0A00, 0), 4, AL),
      load_store({20, 26}, Cond(Memory("ldr", <<"r", 15>>, <<"r", 15>>, -4, "offset"), AL)),
      Hex(halves[2], halves[1])>>

AssembleArm(q) ==
    CASE q.op = "sub" -> <<add_sub({25, 22}, q)>>
      [] q.op = "add" -> <<add_sub({25, 23}, q)>>
      [] q.op = "ldr" -> <<load_store({20, 26}, q)>>
      [] q.op = "str" -> <<load_store({26}, q)>>
      [] q.op = "mov" -> <<Hex(\h01A0, 0) \cup Conditional(q.s) \cup ArmRd(q.d) \cup Operand(q)>>
      [] q.op = "b" -> <<branch(Hex(\h0A00, 0), q.v, q.s)>>
      [] q.op = "bl" -> <<branch(Hex(\h0B00, 0), q.v, q.s)>>
      [] q.op = "CallFunction" -> CallFunctionArm(q.h)

----------------------------------------------------------------------------
\* The processors: what a word means.
X(word, at, wide) == <<IF wide THEN "x" ELSE "w", Bits(word, at, at + 4)>>
V(kind, word, at) == <<kind, Bits(word, at, at + 4)>>

LoadedKind(vector, size, opc) ==
    CASE ~vector /\ opc < 2 /\ size >= 2 -> IF size = 3 THEN "x" ELSE "w"
      [] vector /\ opc < 2 -> <<"b", "h", "s", "d">>[size + 1]
      [] vector /\ opc >= 2 /\ size = 0 -> "q"
      [] OTHER -> "other"
Log2Bytes(kind) ==
    CASE kind = "b" -> 0 [] kind = "h" -> 1 [] kind \in {"w", "s"} -> 2 [] kind \in {"x", "d"} -> 3
      [] kind = "q" -> 4 [] OTHER -> 0

Decode64(w) ==
    LET wide == Has(w, 31)
        field(first, last) == Bits(w, first, last)
        vector == Has(w, 26)
    IN CASE w = Hex(\hD503, \h201F) -> Op("nop")
         [] field(21, 31) = \h6A1 /\ field(0, 4) = 0 -> Jump("brk", field(5, 20))
         [] field(10, 31) = \h3587C0 /\ field(0, 4) = 0 -> ToReg("br", X(w, 5, TRUE))
         [] field(10, 31) = \h358FC0 /\ field(0, 4) = 0 -> ToReg("blr", X(w, 5, TRUE))
         [] field(10, 31) = \h3597C0 /\ field(0, 4) = 0 -> ToReg("ret", X(w, 5, TRUE))
         [] field(24, 28) = 16 /\ wide ->
                [Op("adrp") EXCEPT !.d = X(w, 0, TRUE), !.v = Signed(field(5, 23) * 4 + field(29, 30), 21)]
         [] field(23, 28) = 34 /\ ~Has(w, 29) ->
                Arith(IF Has(w, 30) THEN "sub" ELSE "add", X(w, 0, wide), X(w, 5, wide),
                      field(10, 21) * (IF Has(w, 22) THEN 4096 ELSE 1))
         [] field(26, 31) = 5 -> Jump("b", 4 * Signed(field(0, 25), 26))
         [] field(27, 29) = 3 /\ field(24, 25) = 0 /\ field(30, 31) # 3 ->
                Literal(IF vector THEN V(<<"s", "d", "q">>[field(30, 31) + 1], w, 0)
                        ELSE V(<<"w", "x", "sw">>[field(30, 31) + 1], w, 0), 4 * Signed(field(5, 23), 19))
         [] field(27, 29) = 7 /\ field(24, 25) = 1 ->
                LET kind == LoadedKind(vector, field(30, 31), field(22, 23))
                IN Memory(IF Has(w, 22) THEN "ldr" ELSE "str", V(kind, w, 0), X(w, 5, TRUE),
                          field(10, 21) * 2^Log2Bytes(kind), "offset")
         [] field(27, 29) = 5 /\ field(23, 25) \in 1 .. 3 /\ field(30, 31) # 3 ->
                LET kind == (IF vector THEN <<"s", "d", "q">> ELSE <<"w", "sw", "x">>)[field(30, 31) + 1]
                IN Pair(IF Has(w, 22) THEN "ldp" ELSE "stp", V(kind, w, 0), V(kind, w, 10), X(w, 5, TRUE),
                        Signed(field(15, 21), 7) * 2^Log2Bytes(kind), <<"post", "offset", "pre">>[field(23, 25)])
         [] field(23, 28) = 37 /\ field(29, 30) # 1 /\ (wide \/ ~Has(w, 22)) ->
                Wide(<<"movn", "none", "movz", "movk">>[field(29, 30) + 1], X(w, 0, wide), field(5, 20), 16 * field(21, 22))
         [] field(24, 28) = 10 /\ field(29, 30) = 1 /\ ~Has(w, 21) /\ (wide \/ ~Has(w, 15)) ->
                Orr(X(w, 0, wide), X(w, 5, wide), X(w, 16, wide), <<"LSL", "LSR", "ASR", "ROR">>[field(22, 23) + 1], field(10, 15))
         [] field(23, 28) = 36 /\ field(29, 30) = 1 -> OrrImm(X(w, 0, wide), X(w, 5, wide), field(10, 22))
         [] OTHER -> Undefined

Arm(word, at) == <<"r", Bits(word, at, at + 3)>>
DecodeArm(w) ==
    LET field(first, last) == Bits(w, first, last)
        c == field(28, 31)
        offset == field(0, 11) * (IF Has(w, 23) THEN 1 ELSE -1)
        insn == CASE field(25, 27) = 5 -> Jump(IF Has(w, 24) THEN "bl" ELSE "b", 4 * Signed(field(0, 23), 24))
                  [] field(25, 27) = 2 /\ ~Has(w, 22) /\ (Has(w, 24) \/ ~Has(w, 21)) ->
                        Memory(IF Has(w, 20) THEN "ldr" ELSE "str", Arm(w, 12), Arm(w, 16), offset,
                               IF ~Has(w, 24) THEN "post" ELSE IF Has(w, 21) THEN "pre" ELSE "offset")
                  [] field(20, 27) \in {40, 36} /\ field(8, 11) = 0 ->
                        Arith(IF field(20, 27) = 40 THEN "add" ELSE "sub", Arm(w, 12), Arm(w, 16), field(0, 7))
                  [] field(16, 27) = 416 /\ field(4, 11) = 0 ->
                        [Op("mov") EXCEPT !.d = Arm(w, 12), !.m = Arm(w, 0)]
                  [] OTHER -> Undefined
    IN IF c = 15 THEN Undefined ELSE Cond(insn, c)

----------------------------------------------------------------------------
Init ==
    /\ abi \in AsmAbis
    /\ asked = <<>>
    /\ words = <<>>
    /\ refs = <<>>
    /\ bound = -1

Assemble(q) == IF abi = "arm64" THEN Assemble64(q) ELSE AssembleArm(q)
Offset == 4 * Len(words)

Call ==
    /\ Len(asked) < MaxCalls
    /\ \E q \in IF asked = <<>> THEN Requests(abi) ELSE Fillers(abi) :
          /\ asked' = Append(asked, [q |-> q, at |-> Len(words) + 1, late |-> FALSE])
          /\ words' = words \o Assemble(q)
    /\ UNCHANGED <<abi, refs, bound>>

\* TurboAssembler::Ldr
PcLoad(offset) ==
    IF abi = "arm64" THEN ldr_literal(<<"x", 17>>, offset)
    ELSE load_store({20, 26}, Cond(Memory("ldr", <<"r", 12>>, <<"r", 15>>, offset, "offset"), AL))
Ldr ==
    /\ Len(asked) < MaxCalls
    /\ asked' = Append(asked, [q |-> Op("label"), at |-> Len(words) + 1, late |-> bound # -1])
    /\ \/ bound > 0 /\ words' = Append(words, PcLoad(bound - Offset)) /\ refs' = refs
       \/ bound <= 0 /\ words' = Append(words, PcLoad(0)) /\ refs' = Append(refs, Offset)
    /\ UNCHANGED <<abi, bound>>

\* link_confused_instructions: the word at ref gets the distance to pos.
LinkedImm19(word, ref, pos) == (word \ (5 .. 23)) \cup LeftShift((pos - ref) \div 4, 19, 5)

\* Fault: the offset is counted from the instruction, not from what pc reads as.
LinkedFrom(word, ref, pos) == (word \ (0 .. 11)) \cup LeftShift(pos - ref, 12, 0) \cup {23}

LinkedLdrLiteral(word, ref, pos) ==
    LET imm12 == pos - (ref + 8)
    IN (word \ ((0 .. 11) \cup {23})) \cup LeftShift(IF imm12 > 0 THEN imm12 ELSE -imm12, 12, 0)
       \cup (IF imm12 > 0 THEN {23} ELSE {})

Linked(word, ref, pos) == IF abi = "arm64" THEN LinkedImm19(word, ref, pos) ELSE LinkedLdrLiteral(word, ref, pos)

\* RelocBind: PseudoBind, then the label's data.
RelocBind ==
    /\ bound = -1
    /\ bound' = Offset
    /\ words' = [i \in 1 .. Len(words) |->
                   IF \E r \in DOMAIN refs : refs[r] = 4 * (i - 1) THEN Linked(words[i], 4 * (i - 1), Offset) ELSE words[i]]
                \o (IF abi = "arm64" THEN <<{}, {}>> ELSE <<{}>>)
    /\ UNCHANGED <<abi, asked, refs>>

Next == Call \/ Ldr \/ RelocBind

Spec == Init /\ [][Next]_vars

----------------------------------------------------------------------------
Decode(word) == IF abi = "arm64" THEN Decode64(word) ELSE DecodeArm(word)

\* What the processor does for the words of a call, and what was asked for.  A
\* Mov is judged by the value that ends up in the register, AdrpAdd by the
\* address, a label by the place that is read.
Does(a) ==
    LET w(i) == Decode(words[a.at + i])
    IN CASE a.q.op = "label" -> <<w(0).op, 4 * (a.at - 1) + w(0).v + (IF abi = "arm64" THEN 0 ELSE 8)>>
         [] a.q.op \in {"Mov", "CallFunction"} /\ abi = "arm64" ->
                [i \in 1 .. 4 |-> IF w(i - 1).op = (IF i = 1 THEN "movz" ELSE "movk") /\ w(i - 1).s = 16 * (i - 1)
                                 THEN w(i - 1).v ELSE -1]
         [] a.q.op = "AdrpAdd" -> <<w(0).op, w(1).op, ((a.q.s \div 4096) + w(0).v) * 4096 + w(1).v>>
         [] a.q.op = "CallFunction" -> <<w(0).v, w(1).v, w(2).v, Bits(words[a.at + 3], 0, 15), Bits(words[a.at + 3], 16, 31)>>
         [] OTHER -> w(0)
Means(a) ==
    LET q == a.q
    IN CASE q.op = "label" -> <<IF abi = "arm64" THEN "literal" ELSE "ldr", bound>>
         [] q.op = "Mov" \/ (q.op = "CallFunction" /\ abi = "arm64") -> q.h
         [] q.op = "AdrpAdd" -> <<"adrp", "add", q.v>>
         [] q.op = "CallFunction" -> <<0, 4, -4, q.h[1], q.h[2]>>
         [] q.op = "ret" -> ToReg("ret", <<"x", 30>>)
         [] q.op = "mov" /\ abi = "arm64" ->
                IF ZR \in {Code(q.d), Code(q.n)} THEN Arith("add", q.d, q.n, 0)
                ELSE Orr(q.d, <<q.d[1], ZR>>, q.n, "LSL", 0)
         [] q.op \in {"movn", "movz", "movk"} -> [q EXCEPT !.s = IF q.s = -1 THEN 0 ELSE q.s]
         [] OTHER -> q

\* Calls that do not get what they ask for: numbers beyond their field or not a
\* multiple of its unit, a literal's distance (which is not scaled), a load or
\* store of anything but an x register, x0 as the operand of a logical operation
\* (it passes for an immediate), and a label that was bound before.
Within(v, unit, low, high) == v % unit = 0 /\ v \div unit \in low .. high - 1
Misread64(q) ==
    CASE q.op = "adrp" -> ~Within(q.v, 1, -(2^20), 2^20)
      [] q.op \in {"add", "sub"} -> ~Within(q.v, 1, 0, 4096)
      [] q.op = "b" -> ~Within(q.v, 4, -(2^25), 2^25)
      [] q.op = "literal" -> q.v # 0
      [] q.op \in {"ldr", "str"} -> q.d[1] # "x" \/ ~Within(q.v, 8, 0, 4096)
      [] q.op \in {"ldp", "stp"} -> ~Within(q.v, IF q.d[1] = "q" THEN 16 ELSE 8, -64, 64)
      [] q.op = "mov" -> Code(q.n) = 0 /\ Code(q.d) # ZR
      [] q.op \in {"movn", "movz", "movk"} ->
            ~Within(q.v, 1, 0, 65536) \/ (q.s # -1 /\ ~Within(q.s, 16, 0, IF Is64Bits(q.d) THEN 4 ELSE 2))
      [] q.op = "orr" -> q.k = "imm" \/ Code(q.m) = 0 \/ ~Within(q.s, 1, 0, IF Is64Bits(q.d) THEN 64 ELSE 32)
      [] OTHER -> FALSE
MisreadArm(q) ==
    CASE q.op \in {"add", "sub"} -> q.m # InvalidRegister \/ ~Within(q.v, 1, 0, 256)
      [] q.op \in {"ldr", "str"} -> ~Within(q.v, 1, -4095, 4096)
      [] q.op \in {"b", "bl"} -> ~Within(q.v, 4, -(2^23), 2^23)
      [] q.op = "mov" -> q.k = "imm"
      [] OTHER -> FALSE
Misread(a) ==
    CASE a.q.op = "label" -> a.late
      [] abi = "arm64" -> Misread64(a.q)
      [] abi = "arm" -> MisreadArm(a.q)

\* The processor does what the generator asked the assembler for, exactly when
\* the call is none of those above; a label's reference reads the label's data
\* once the label is bound, wherever that is.  (assembler-arm64.h, assembler-arm.h)
WordsMeanCalls ==
    \A i \in DOMAIN asked :
        (asked[i].q.op = "label" /\ bound = -1) \/ ((Does(asked[i]) = Means(asked[i])) <=> ~Misread(asked[i]))
=============================================================================
