---------------------------- MODULE ClosureBridge ----------------------------
(***************************************************************************)
(* Dobby's closure trampoline and bridge (src/native/dobby/source/         *)
(* TrampolineBridge/ClosureTrampolineBridge), through which a thread at an *)
(* instrumented instruction reaches the callback and goes on at the next   *)
(* hop: the code get_closure_bridge and CreateClosureTrampoline emit,      *)
(* executed on a stack by one thread, with the handler as one step.        *)
(***************************************************************************)
EXTENDS Integers, Sequences, SequencesExt

CONSTANTS
    Abis,      \* "arm64", "arm"
    FullPacks, \* whether FULL_FLOATING_POINT_REGISTER_PACK is defined
    CallerSp,  \* the thread's sp
    Written    \* registers whose fields callbacks write

VARIABLES
    abi, full,
    at,   \* the next instruction of the trampoline and the bridge
    reg,  \* the registers written since the thread came, by name
    sp,
    mem,  \* the stack
    saw,  \* the context the handler was given
    wrote \* the register whose field in it the handler overwrote

vars == <<abi, full, at, reg, sp, mem, saw, wrote>>

X(n) == <<"x", n>>
Q(n) == <<"q", n>>
Flags == <<"nzcv", 0>>
Nothing == <<"none", 0>>

\* Values: what the caller had in a register, the stack address n, an address
\* in generated code or data by name, what the handler wrote, or rubbish.
Value(t, r, n) == [t |-> t, r |-> r, n |-> n]
Callers(r) == Value("caller", r, 0)
Handlers(r) == Value("handler", r, 0)
Stack(n) == Value("stack", Nothing, n)
Named(s) == Value(s, Nothing, 0)
Lost == Named("lost")

Registers(a) == {Flags} \cup {X(n) : n \in 0 .. (IF a = "arm64" THEN 30 ELSE 14)} \cup {Q(n) : n \in 0 .. 31}
HopRegister(a) == IF a = "arm64" THEN X(17) ELSE X(12)

----------------------------------------------------------------------------
\* DobbyRegisterContext: the offset of each field.
SpField(a) == IF a = "arm64" THEN 8 ELSE 12
FieldOf(a, r) ==
    CASE a = "arm" -> IF r = X(14) THEN 68 ELSE 16 + 4 * r[2]
      [] a = "arm64" /\ r[1] = "x" -> 24 + 8 * r[2]
      [] a = "arm64" /\ r[1] = "q" -> 272 + 16 * r[2]

ContextSize(f) == 272 + 32 * 16 - (IF f THEN 0 ELSE 24 * 16)

\* The registers with a field that the bridge fills.
Packed(a, f) ==
    IF a = "arm" THEN {X(n) : n \in (0 .. 12) \cup {14}}
    ELSE {X(n) : n \in 0 .. 30} \cup {Q(n) : n \in 0 .. (IF f THEN 31 ELSE 7)}

----------------------------------------------------------------------------
\* The emitted instructions.
Op(op, r, n) == [op |-> op, r |-> r, n |-> n, s |-> "", b |-> Nothing]
Sub(n) == Op("add", Nothing, -n)
Add(n) == Op("add", Nothing, n)
Str(r, n) == Op("str", r, n)
Ldr(r, n) == Op("ldr", r, n)
Pop(r, n) == Op("pop", r, n)
SpTo(r, n) == Op("sp", r, n)
AddTo(r, n) == Op("addto", r, n)
Load(r, s) == [Op("load", r, 0) EXCEPT !.s = s]
Move(r, b) == [Op("move", r, 0) EXCEPT !.b = b]
Call == Op("call", Nothing, 0)
Blr == Op("blr", Nothing, 0)
Ret == Op("ret", Nothing, 0)
Br == Op("br", Nothing, 0)

\* Registers first..last of a kind, stored upwards or popped in order.
Stores(kind, first, last, size) == [i \in 1 .. last - first + 1 |-> Str(<<kind, first + i - 1>>, size * (i - 1))]
Pops(kind, first, last, size) == [i \in 1 .. last - first + 1 |-> Pop(<<kind, first + i - 1>>, size)]
If(c, ops) == IF c THEN ops ELSE <<>>

Arm64Saves(f) ==
    If(f, <<Sub(24 * 16)>> \o Stores("q", 8, 31, 16))
    \o <<Sub(8 * 16)>> \o Stores("q", 0, 7, 16)
    \o <<Sub(30 * 8)>> \o Stores("x", 1, 30, 8)
    \o <<Sub(2 * 8), Str(X(0), 8)>>
    \o <<SpTo(X(17), 2 * 8), AddTo(X(17), 2 * 8 + 30 * 8 + 8 * 16)>> \o If(f, <<AddTo(X(17), 24 * 16)>>)
    \o <<Sub(2 * 8), Str(X(17), 8)>>

\* Fault: the floating point registers are restored before the general ones.
Arm64RestoresSwapped(f) ==
    <<Add(2 * 8), Ldr(X(0), 8), Add(2 * 8)>> \o Pops("q", 0, 7, 16) \o Pops("x", 1, 30, 8)
    \o If(f, Pops("q", 8, 31, 16)) \o <<Ret>>

Arm64Restores(f) ==
    <<Add(2 * 8), Ldr(X(0), 8), Add(2 * 8)>> \o Pops("x", 1, 30, 8) \o Pops("q", 0, 7, 16)
    \o If(f, Pops("q", 8, 31, 16)) \o <<Ret>>

ArmBridge ==
    <<Sub(14 * 4), Str(X(14), 13 * 4)>> \o Reverse(Stores("x", 0, 12, 4))
    \o <<SpTo(X(0), 14 * 4), Sub(8), Str(X(0), 4), Sub(8), SpTo(X(0), 0), Move(X(1), X(12)), Call, Add(8), Add(8)>>
    \o Pops("x", 0, 12, 4) \o <<Pop(X(14), 4), Br>>

\* CreateClosureTrampoline, with the bridge in place of the branch to it.
Code(a, f) ==
    IF a = "arm" THEN <<Load(X(12), "entry")>> \o ArmBridge
    ELSE <<Sub(2 * 8), Str(X(30), 8), Load(X(17), "entry"), Str(X(17), 0), Load(X(17), "bridge"), Blr>>
         \o Arm64Saves(f) \o <<SpTo(X(0), 0), Ldr(X(1), ContextSize(f)), Load(X(17), "handler"), Call>>
         \o Arm64Restores(f) \o <<Ldr(X(30), 8), Add(2 * 8), Br>>

----------------------------------------------------------------------------
Init ==
    /\ abi \in Abis
    /\ full \in FullPacks
    /\ at = 1
    /\ reg = [r \in {} |-> Lost]
    /\ sp = CallerSp
    /\ mem = [a \in {} |-> Lost]
    /\ saw = [a \in {} |-> Lost]
    /\ wrote = Nothing

\* The thread is at an instruction of one of these kinds.
Running(ops) == at <= Len(Code(abi, full)) /\ Code(abi, full)[at].op \in ops
Reg(r) == IF r \in DOMAIN reg THEN reg[r] ELSE Callers(r)
Peek(a) == IF a \in DOMAIN mem THEN mem[a] ELSE Lost
Poke(m, a, val) == [b \in DOMAIN m \cup {a} |-> IF b = a THEN val ELSE m[b]]

\* sub and add on sp; what lies below sp may be overwritten.
MoveSp(i) ==
    /\ i.op = "add"
    /\ sp' = sp + i.n
    /\ mem' = [a \in {b \in DOMAIN mem : b >= sp'} |-> mem[a]]
    /\ at' = at + 1
    /\ UNCHANGED <<abi, full, reg, saw, wrote>>

Store(i) ==
    /\ i.op = "str"
    /\ mem' = Poke(mem, sp + i.n, Reg(i.r))
    /\ at' = at + 1
    /\ UNCHANGED <<abi, full, reg, sp, saw, wrote>>

Restore(i) ==
    /\ i.op \in {"ldr", "pop"}
    /\ reg' = Poke(reg, i.r, Peek(IF i.op = "ldr" THEN sp + i.n ELSE sp))
    /\ sp' = IF i.op = "pop" THEN sp + i.n ELSE sp
    /\ at' = at + 1
    /\ UNCHANGED <<abi, full, mem, saw, wrote>>

Compute(i) ==
    /\ i.op \in {"sp", "addto", "load", "move"}
    /\ reg' = Poke(reg, i.r,
                    CASE i.op = "sp" -> Stack(sp + i.n)
                      [] i.op = "addto" -> Stack(Reg(i.r).n + i.n)
                      [] i.op = "load" -> Named(i.s)
                      [] i.op = "move" -> Reg(i.b))
    /\ at' = at + 1
    /\ UNCHANGED <<abi, full, sp, mem, saw, wrote>>

\* blr to the bridge, and ret back into the trampoline.
Link(i) ==
    /\ \/ i.op = "blr" /\ reg' = Poke(reg, X(30), Named("trampoline"))
       \/ i.op = "ret" /\ Reg(X(30)) = Named("trampoline") /\ reg' = reg
    /\ at' = at + 1
    /\ UNCHANGED <<abi, full, sp, mem, saw, wrote>>

\* common_closure_bridge_handler and instrument_routing_dispatch: the callback
\* may write a field of the context, then set_routing_bridge_next_hop writes
\* the hop.  The call leaves only callee-saved registers as they were.
CalleeSaved(a) == IF a = "arm64" THEN {X(n) : n \in 19 .. 29} ELSE {X(n) : n \in 4 .. 11}
Clobbered(a) == [r \in Registers(a) |-> IF r \in CalleeSaved(a) THEN Reg(r) ELSE Lost]

Handler(i) ==
    LET ctx == Reg(X(0)).n
        field(r) == ctx + FieldOf(abi, r)
    IN /\ i.op = "call"
       /\ saw' = [r \in Packed(abi, full) \cup {<<"sp", 0>>, <<"entry", 0>>} |->
                    CASE r[1] = "sp" -> Peek(ctx + SpField(abi))
                      [] r[1] = "entry" -> Reg(X(1))
                      [] OTHER -> Peek(field(r))]
       /\ wrote' \in (Packed(abi, full) \cap Written) \cup {Nothing}
       /\ mem' = Poke(IF wrote' = Nothing THEN mem ELSE Poke(mem, field(wrote'), Handlers(wrote')),
                      field(HopRegister(abi)), Named("hop"))
       /\ reg' = Clobbered(abi)
       /\ at' = at + 1
       /\ UNCHANGED <<abi, full, sp>>

\* br to the next hop: the relocated instructions.
Leave(i) ==
    /\ i.op = "br"
    /\ at' = at + 1
    /\ UNCHANGED <<abi, full, reg, sp, mem, saw, wrote>>

Execute(i) ==
    MoveSp(i) \/ Store(i) \/ Restore(i) \/ Compute(i) \/ Link(i) \/ Handler(i) \/ Leave(i)

Next == \E code \in {Code(abi, full)} : at \in DOMAIN code /\ Execute(code[at])

Spec == Init /\ [][Next]_vars

----------------------------------------------------------------------------
Handled == DOMAIN saw # {}
Gone == Handled /\ at > Len(Code(abi, full))

\* The callback sees the thread as it was when it reached the instrumented
\* instruction: its sp and every register with a field, but the hop register;
\* and on arm64, in lr, the bridge's own return address.
ContextIsCallers ==
    /\ saw[<<"sp", 0>>] = Stack(CallerSp)
    /\ saw[<<"entry", 0>>] = Named("entry")
    /\ \A r \in Packed(abi, full) \ {HopRegister(abi)} :
          saw[r] = IF r = X(30) THEN Named("trampoline") ELSE Callers(r)

\* The callback gets the caller's registers, and the thread goes on at the next
\* hop with its sp and, in every register with a field, what it had or what the
\* callback wrote there.  A callback that writes lr on arm64 never gets there,
\* and flags and the registers without a field are not kept.
\* (get_closure_bridge, CreateClosureTrampoline)
BridgeTransparent ==
    /\ Handled => ContextIsCallers
    /\ Gone =>
        /\ sp = CallerSp
        /\ Reg(HopRegister(abi)) = Named("hop")
        /\ \A r \in Packed(abi, full) \ {HopRegister(abi)} :
              Reg(r) = IF r = wrote THEN Handlers(r) ELSE Callers(r)
    /\ Handled /\ Running({"ret"}) /\ wrote # X(30) => Reg(X(30)) = Named("trampoline")
=============================================================================
