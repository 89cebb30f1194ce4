------------------------------ MODULE HookStub ------------------------------
(***************************************************************************)
(* What lsplant::Hook generates for a method: the trampoline that becomes  *)
(* the method's entry point (GetTrampoline, UpdateTrampoline), and the     *)
(* class with `hook` and `backup` that BuildDex makes of the method's      *)
(* shorty.  A call of the hooked method runs through both to the callback. *)
(*                                                                         *)
(* Dex instructions are records; a register holds a whole 32-bit value, or *)
(* one half of a wide one.                                                 *)
(***************************************************************************)
EXTENDS Integers, Sequences

LOCAL INSTANCE SequencesExt

CONSTANTS
    Cases   \* pairs of a method and a processor

\* Declared types, and the letters of a shorty.
Letter == [int |-> "I", long |-> "J", float |-> "F", double |-> "D", boolean |-> "Z",
           byte |-> "B", char |-> "C", short |-> "S", void |-> "V"]
Types == DOMAIN Letter \cup {"object"}
Primitive == {Letter[t] : t \in DOMAIN Letter \ {"void"}}
IsWide(c) == c \in {"J", "D"}

VARIABLES
    target,  \* the method [ret, params, static, proxy]: its declared types, whether
             \* it is static or a proxy's
    cpu,     \* [arch, offset]: architecture, and offset of the entry point
    stub,    \* what was generated
    call,    \* a call of the hooked method
    at       \* progress

stubVars == <<target, cpu, stub, call, at>>

Init ==
    /\ \E x \in Cases : target = x[1] /\ cpu = x[2]
    /\ stub = <<>>
    /\ call = <<>>
    /\ at = "hook"

-----------------------------------------------------------------------------
(* The trampoline: bytes.                                                  *)

\* The template, the bit at which the offset goes in, and the byte at which the
\* address of `hook` goes in.
GetTrampoline(arch) ==
    CASE arch = "arm" ->
            [code |-> <<0, 0, 159, 229, 0, 240, 144, 229, 120, 86, 52, 18>>, bit |-> 32, method |-> 8]
      [] arch = "arm64" ->
            [code |-> <<96, 0, 0, 88, 16, 0, 64, 248, 0, 2, 31, 214, 120, 86, 52, 18, 120, 86, 52, 18>>,
             bit |-> 44, method |-> 12]
      [] arch = "x86" ->
            [code |-> <<184, 120, 86, 52, 18, 255, 112, 0, 195>>, bit |-> 56, method |-> 1]
      [] arch = "x64" ->
            [code |-> <<72, 191, 120, 86, 52, 18, 120, 86, 52, 18, 255, 119, 0, 195>>, bit |-> 96, method |-> 2]
      [] arch = "riscv64" ->
            [code |-> <<23, 5, 0, 0, 3, 53, 5, 1, 131, 63, 5, 0, 103, 128, 15, 0,
                        120, 86, 52, 18, 120, 86, 52, 18>>, bit |-> 84, method |-> 16]

\* The bits that are set are free in the templates, so |= adds.
UpdateTrampoline(t, offset) ==
    LET i == t.bit \div 8
        s == t.bit % 8
        added(j) == CASE j = i + 1 -> (offset * 2^s) % 256
                      [] j = i + 2 -> offset \div 2^(8 - s)
                      [] OTHER -> 0
    IN [t EXCEPT !.code = [j \in DOMAIN t.code |-> t.code[j] + added(j)]]

\* What the processor makes of it: the byte where it finds the address of `hook`
\* and the displacement of the load of the entry point from that.
Word(c, i) == c[i + 1] + 2^8 * c[i + 2] + 2^16 * c[i + 3]
Signed(n, bits) == IF n >= 2^(bits - 1) THEN n - 2^bits ELSE n
Executed(arch, c) ==
    CASE arch = "arm" -> [method |-> 8 + (Word(c, 0) % 2^12), entry |-> Word(c, 4) % 2^12]
      [] arch = "arm64" -> [method |-> 4 * ((Word(c, 0) \div 2^5) % 2^19), entry |-> Signed((Word(c, 4) \div 2^12) % 2^9, 9)]
      [] arch = "x86" -> [method |-> 1, entry |-> Signed(c[8], 8)]
      [] arch = "x64" -> [method |-> 2, entry |-> Signed(c[13], 8)]
      [] arch = "riscv64" -> [method |-> (c[7] \div 2^4) + 2^4 * c[8], entry |-> Signed((c[11] \div 2^4) + 2^4 * c[12], 12)]

-----------------------------------------------------------------------------
(* The shorty.                                                             *)

\* GetProxyMethodShorty compares each type with the TYPE fields.
TypeToShorty(t) == IF t \in DOMAIN Letter THEN Letter[t] ELSE "L"
GetProxyMethodShorty(m) ==
    <<TypeToShorty(m.ret)>> \o [i \in DOMAIN m.params |-> TypeToShorty(m.params[i])]

\* ART's own, for a method of an ordinary class.
GetMethodShorty(m) ==
    [i \in 1..Len(m.params) + 1 |->
        LET t == IF i = 1 THEN m.ret ELSE m.params[i - 1] IN IF t = "object" THEN "L" ELSE Letter[t]]

-----------------------------------------------------------------------------
(* BuildDex.  Local registers come first, then the parameters.             *)

Tmp == 0
HookParamsArray == 1
Parameter(j) == 2 + j

Insn(op, a, b, c) == [op |-> op, a |-> a, b |-> b, c |-> c]

ParameterTypes(shorty, static) == (IF static THEN <<>> ELSE <<"L">>) \o Tail(shorty)

\* Fault: a wide parameter is taken for one register.
WidthOne(c) == 1

\* The registers of a parameter.
Width(c) == IF IsWide(c) THEN 2 ELSE 1

\* The registers in front of parameter i.
RegisterOf(types, i) == FoldSeq(LAMBDA c, n : n + Width(c), 0, SubSeq(types, 1, i - 1))

\* BuildBoxIfPrimitive, BuildConst, BuildAput.
StoreParameter(types, i) ==
    LET p == Parameter(RegisterOf(types, i))
        box == IF types[i] \in Primitive THEN <<Insn("box", p, types[i], 0)>> ELSE <<>>
    IN box \o <<Insn("const", Tmp, i - 1, 0), Insn("aput", HookParamsArray, p, Tmp)>>

\* The return of `hook`: nothing, the unboxed result, or the result.
ReturnResult(ret) ==
    CASE ret = "V" -> <<Insn("return", Tmp, "V", 0)>>
      [] ret \in Primitive ->
            <<Insn("cast", Tmp, ret, 0), Insn("unbox", Tmp, ret, 0), Insn("return", Tmp, ret, 0)>>
      [] OTHER -> <<Insn("cast", Tmp, "L", 0), Insn("return", Tmp, "L", 0)>>

BuildHook(shorty, static) ==
    LET types == ParameterTypes(shorty, static)
    IN <<Insn("const", Tmp, Len(types), 0), Insn("newarray", HookParamsArray, Tmp, 0)>>
       \o FlattenSeq([i \in DOMAIN types |-> StoreParameter(types, i)])
       \o <<Insn("sget", Tmp, "hooker", 0), Insn("invoke", Tmp, Tmp, HookParamsArray)>>
       \o ReturnResult(shorty[1])

\* `backup` returns zero until DoHook makes it the original.
BuildBackup(shorty) ==
    IF shorty[1] = "V" THEN <<Insn("return", Tmp, "V", 0)>>
    ELSE <<Insn(IF IsWide(shorty[1]) THEN "constwide" ELSE "const", Tmp, 0, 0),
           Insn("return", Tmp, shorty[1], 0)>>

\* BuildDex, and the class loaded from the image; any of the JNI calls may fail.
Hook ==
    /\ at = "hook"
    /\ LET shorty == IF target.proxy THEN GetProxyMethodShorty(target) ELSE GetMethodShorty(target)
       IN \/ /\ stub' = [hook |-> BuildHook(shorty, target.static), backup |-> BuildBackup(shorty),
                         entry |-> UpdateTrampoline(GetTrampoline(cpu.arch), cpu.offset)]
             /\ at' = "hooked"
          \/ at' = "failed" /\ UNCHANGED stub
    /\ UNCHANGED <<target, cpu, call>>

-----------------------------------------------------------------------------
(* The virtual machine runs a method.                                      *)

\* The values: argument i of type c, an object holding it, and others.
Arg(i, c) == <<"value", c, i>>
Box(v) == <<"box", v[2], v[3]>>
Halves(r, c, v) == IF IsWide(c) THEN {<<r, <<"low", v>>>>, <<r + 1, <<"high", v>>>>} ELSE {<<r, v>>}

\* The registers at the start: this, then the arguments, after the two locals.
Arguments ==
    LET types == ParameterTypes(GetMethodShorty(target), target.static)
        Place(i) == 2 + i - 1 + Len(SelectSeq(SubSeq(types, 1, i - 1), IsWide))
        Filled == UNION {Halves(Place(i), types[i], Arg(i, types[i])) : i \in DOMAIN types}
    IN [r \in 0..2 + 2 * Len(types) |->
          LET S == {x \in Filled : x[1] = r} IN IF S = {} THEN <<"undefined">> ELSE (CHOOSE x \in S : TRUE)[2]]

\* A wide or narrow value of type c at register r, or an error.
Get(m, r, c) ==
    IF ~IsWide(c) THEN m.reg[r]
    ELSE IF m.reg[r][1] = "low" /\ m.reg[r + 1] = <<"high", m.reg[r][2]>> THEN m.reg[r][2] ELSE <<"undefined">>
Put(m, r, c, v) ==
    [m EXCEPT !.reg = [x \in DOMAIN @ |-> LET S == {y \in Halves(r, c, v) : y[1] = x}
                                          IN IF S = {} THEN @[x] ELSE (CHOOSE y \in S : TRUE)[2]]]

Stop(m, how) == [m EXCEPT !.out = how]

Exec(m, i) ==
    CASE m.out # <<>> -> m
      [] m.out = <<>> /\ i.op = "const" -> Put(m, i.a, "I", <<"number", i.b>>)
      [] m.out = <<>> /\ i.op = "constwide" -> Put(m, i.a, "J", <<"number", i.b>>)
      [] m.out = <<>> /\ i.op = "newarray" ->
            [Put(m, i.a, "L", <<"array">>) EXCEPT !.array = [k \in 1..m.reg[i.b][2] |-> <<"null">>]]
      [] m.out = <<>> /\ i.op = "box" ->
            LET v == Get(m, i.a, i.b)
            IN IF v[1] = "value" /\ v[2] = i.b THEN Put(m, i.a, "L", Box(v)) ELSE Stop(m, <<"fault">>)
      [] m.out = <<>> /\ i.op = "aput" ->
            IF m.reg[i.a] = <<"array">> /\ m.reg[i.c][2] + 1 \in DOMAIN m.array
            THEN [m EXCEPT !.array[m.reg[i.c][2] + 1] = m.reg[i.b]] ELSE Stop(m, <<"fault">>)
      [] m.out = <<>> /\ i.op = "sget" -> Put(m, i.a, "L", <<i.b>>)
      [] m.out = <<>> /\ i.op = "invoke" ->
            IF m.reg[i.b] = <<"hooker">> /\ m.reg[i.c] = <<"array">>
            THEN [Put(m, i.a, "L", m.answer) EXCEPT !.received = m.array] ELSE Stop(m, <<"fault">>)
      [] m.out = <<>> /\ i.op = "cast" ->
            IF i.b = "L" \/ m.reg[i.a] = <<"null">> \/ (m.reg[i.a][1] = "box" /\ m.reg[i.a][2] = i.b)
            THEN m ELSE Stop(m, <<"ClassCastException">>)
      [] m.out = <<>> /\ i.op = "unbox" ->
            IF m.reg[i.a] = <<"null">> THEN Stop(m, <<"NullPointerException">>)
            ELSE Put(m, i.a, i.b, <<"value", i.b, m.reg[i.a][3]>>)
      [] m.out = <<>> /\ i.op = "return" -> Stop(m, IF i.b = "V" THEN <<"void">> ELSE Get(m, i.a, i.b))

Run(code, answer) ==
    FoldLeft(Exec, [reg |-> Arguments, array |-> <<>>, received |-> <<"nothing">>, answer |-> answer, out |-> <<>>],
             code)

\* What a callback may answer: a box of some type, null, or another object.
Answers == {<<"box", c, 99>> : c \in {"I", "J", "Z"}} \cup {<<"null">>, <<"object", "L", 99>>}

\* A call of the hooked method.
Call ==
    /\ at = "hooked"
    /\ at' = "called"
    /\ \E answer \in Answers : call' = Run(stub.hook, answer)
    /\ UNCHANGED <<target, cpu, stub>>

Next == Hook \/ Call
Spec == Init /\ [][Next]_stubVars

-----------------------------------------------------------------------------
\* The result a caller of m must see.
Expected(c, answer) ==
    CASE c = "V" -> <<"void">>
      [] c = "L" -> answer
      [] c \in Primitive ->
            CASE answer = <<"null">> -> <<"NullPointerException">>
              [] answer[1] = "box" /\ answer[2] = c -> <<"value", c, answer[3]>>
              [] OTHER -> <<"ClassCastException">>

\* A call of a hooked method reaches the callback and comes back, whatever the
\* processor, the place of the entry point, and the types of the method: the
\* trampoline loads the address of `hook` and that method's entry point; `hook`
\* passes this and every argument once, boxed and in order, although wide ones
\* take two registers; and the caller gets the answer unboxed, or an exception,
\* as its return type demands (GetTrampoline, UpdateTrampoline, BuildDex,
\* GetProxyMethodShorty).
CallReachesCallback ==
    /\ at \in {"hooked", "called"} =>
         /\ Executed(cpu.arch, stub.entry.code) = [method |-> stub.entry.method, entry |-> cpu.offset]
         /\ LET z == Run(stub.backup, <<"null">>).out
            IN z \in {<<"void">>, <<"number", 0>>} /\ (z = <<"void">> <=> target.ret = "void")
    /\ at = "called" =>
         LET types == ParameterTypes(GetMethodShorty(target), target.static)
         IN /\ call.received =
                 [i \in DOMAIN types |-> IF types[i] = "L" THEN Arg(i, "L") ELSE Box(Arg(i, types[i]))]
            /\ call.out = Expected(GetMethodShorty(target)[1], call.answer)
=============================================================================
