---------------------------- MODULE MachineCode ----------------------------
(***************************************************************************)
(* The processors Dobby's generators write code for (64-bit ARM, and 32-bit*)
(* ARM in its ARM and Thumb states), as far as code that depends on its own *)
(* address needs them.  An instruction is a record: its operation op, the  *)
(* register r it writes, its base register b, the immediate or offset v,   *)
(* the condition c, whether it sets lr, whether it changes the state (x),  *)
(* the width w of a load, the label whose place it still waits for (lab,   *)
(* 0 for none) and its size in bytes.                                      *)
(*                                                                         *)
(* A value is an address, the content of memory at one, or what a register *)
(* held before the code was entered.                                       *)
(***************************************************************************)
EXTENDS Integers, Sequences, SequencesExt

CONSTANT PageBits \* log2 of the page that adrp counts in

AL == 14

Address(n) == [t |-> "address", v |-> n, w |-> 0]
Content(a, w) == [t |-> "content", v |-> a, w |-> w]
Old(n) == [t |-> "old", v |-> n, w |-> 0]

Word == [op |-> "plain", r |-> "r", b |-> "r", v |-> 0, c |-> AL, link |-> FALSE,
         x |-> FALSE, w |-> 4, lab |-> 0, sz |-> 4]
Plain(id, sz) == [Word EXCEPT !.v = id, !.sz = sz]
Nop(sz) == [Word EXCEPT !.op = "nop", !.sz = sz]
Adr(r, off) == [Word EXCEPT !.op = "adr", !.r = r, !.v = off]
Adrp(r, off) == [Word EXCEPT !.op = "adrp", !.r = r, !.v = off]
AddTo(r, n) == [Word EXCEPT !.op = "add", !.r = r, !.v = n]
MovPc(r, sz) == [Word EXCEPT !.op = "movpc", !.r = r, !.sz = sz]
Mov(r, n) == [Word EXCEPT !.op = "mov", !.r = r, !.v = n, !.sz = 16]
Copy(r, b, sz) == [Word EXCEPT !.op = "copy", !.r = r, !.b = b, !.sz = sz]
LdrLiteral(r, off, w) == [Word EXCEPT !.op = "literal", !.r = r, !.v = off, !.w = w]
Ldr(r, b, w) == [Word EXCEPT !.op = "ldr", !.r = r, !.b = b, !.w = w]
B(c, off, link) == [Word EXCEPT !.op = "b", !.c = c, !.v = off, !.link = link]
Blx(off) == [B(AL, off, TRUE) EXCEPT !.x = TRUE]
Br(b, link) == [Word EXCEPT !.op = "br", !.b = b, !.link = link]
BxPc(link) == [Word EXCEPT !.op = "bxpc", !.link = link, !.sz = 2]
Data(value, sz) == [Word EXCEPT !.op = "data", !.v = value, !.sz = sz]
Undefined(sz) == [Word EXCEPT !.op = "undefined", !.sz = sz]

Size(buf) == FoldLeft(LAMBDA n, w : n + w.sz, 0, buf)
Offset(buf, i) == Size(SubSeq(buf, 1, i - 1))

\* A buffer placed at address a: its words by address.
Placed(buf, a) ==
    LET at == [i \in DOMAIN buf |-> a + Offset(buf, i)]
    IN [p \in {at[i] : i \in DOMAIN buf} |-> buf[CHOOSE i \in DOMAIN buf : at[i] = p]]

Floor(a, n) == a - (a % n)
Signed(x, bits) == IF x >= 2^(bits - 1) THEN x - 2^bits ELSE x

\* What pc reads as is ahead of the instruction by this much.
Bias == [arm64 |-> 0, arm |-> 8, thumb |-> 4]
Pc(arch, a) == a + Bias[arch]

\* Conditions come in pairs of which exactly one is met, the even one when
\* holds; AL is always met, and so is the code after it.
Met(c, holds) == c >= AL \/ ((c % 2 = 0) = holds)

\* A processor about to execute the instruction at a.  did is what it did that
\* others can see: plain instructions, and calls that have returned.
Cpu(arch, a) ==
    [pc |-> a, thumb |-> arch = "thumb", via |-> Old(0), r |-> Old(1), v |-> Old(2),
     tmp |-> Old(3), lr |-> Old(4), did |-> <<>>, ok |-> TRUE]

\* A value written to pc.  On 32-bit ARM the lowest bit of an address selects
\* the state; what memory holds is an address outside the code at hand.
Goto(arch, cpu, val) ==
    IF val.t # "address" THEN [cpu EXCEPT !.pc = 0, !.via = val]
    ELSE IF arch = "arm64" THEN [cpu EXCEPT !.pc = val.v]
    ELSE [cpu EXCEPT !.pc = Floor(val.v, 2), !.thumb = (val.v % 2 = 1)]

Into(arch, cpu, r, val) == IF r = "pc" THEN Goto(arch, cpu, val) ELSE [cpu EXCEPT ![r] = val]

\* What a load from a sees: a literal of the code itself, or memory, which the
\* bytes in lost no longer hold.
Read(code, a, w, lost) ==
    IF a \in DOMAIN code /\ code[a].op = "data" THEN Address(code[a].v)
    ELSE Content(a, IF (a .. a + w - 1) \cap lost = {} THEN w ELSE 0)

\* One instruction of code.
Step(arch, code, cpu, holds, lost) ==
    LET w == code[cpu.pc]
        here == Pc(arch, cpu.pc)
        next == [cpu EXCEPT !.pc = @ + w.sz]
        back == IF ~w.link THEN next
                ELSE [next EXCEPT !.lr = Address(next.pc + (IF arch = "thumb" THEN 1 ELSE 0))]
    IN CASE arch # "arm64" /\ cpu.thumb # (arch = "thumb") -> [cpu EXCEPT !.ok = FALSE]
         [] ~Met(w.c, holds) \/ w.op = "nop" -> next
         [] w.op = "plain" -> [next EXCEPT !.did = Append(@, Address(w.v))]
         [] w.op = "adr" -> Into(arch, next, w.r, Address(Floor(here, 4) + w.v))
         [] w.op = "adrp" -> Into(arch, next, w.r, Address(Floor(here, 2^PageBits) + w.v))
         [] w.op = "add" -> Into(arch, next, w.r, Address(cpu[w.r].v + w.v))
         [] w.op = "movpc" -> Into(arch, next, w.r, Address(here))
         [] w.op = "mov" -> Into(arch, next, w.r, Address(w.v))
         [] w.op = "copy" -> Into(arch, next, w.r, cpu[w.b])
         [] w.op = "literal" -> Into(arch, next, w.r, Read(code, Floor(here, 4) + w.v, w.w, lost))
         [] w.op = "ldr" /\ cpu[w.b].t = "address" ->
                Into(arch, next, w.r, Read(code, cpu[w.b].v, w.w, lost))
         [] w.op = "b" -> IF w.x THEN [back EXCEPT !.pc = (IF arch = "thumb" THEN Floor(here, 4) ELSE here) + w.v,
                                                   !.thumb = ~@]
                          ELSE [back EXCEPT !.pc = here + w.v]
         [] w.op = "br" -> Goto(arch, back, cpu[w.b])
         [] w.op = "bxpc" -> Goto(arch, back, Address(Floor(here, 4)))
         [] OTHER -> [cpu EXCEPT !.ok = FALSE]

Inside(code, cpu) == cpu.pc \in DOMAIN code /\ cpu.ok

\* Code that was left with a return address of its own in lr has called
\* something, which returns there.
Called(code, end, cpu) ==
    cpu.ok /\ ~Inside(code, cpu) /\ cpu.lr.t = "address" /\ Floor(cpu.lr.v, 2) \in DOMAIN code \cup {end}
Returned(arch, cpu) ==
    Goto(arch, [cpu EXCEPT !.did = @ \o <<Address(cpu.pc), Old(IF cpu.thumb THEN 1 ELSE 0), cpu.via>>,
                           !.via = Old(0), !.lr = Old(5)],
         cpu.lr)
=============================================================================
