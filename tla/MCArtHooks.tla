----------------------------- MODULE MCArtHooks -----------------------------
(***************************************************************************)
(* An instance of Lsplant for TLC.                                         *)
(***************************************************************************)
EXTENDS Lsplant, TLC

\* Threads and stubs are interchangeable: nothing names one.
Symmetry == Permutations(Threads) \cup Permutations(Backups)

\* Methods to hook: one with every mix of narrow, wide and object parameters,
\* on a phone; and a plain one on every processor and layout.
AnyParams ==
    {<<>>, <<"int">>, <<"long">>}
    \cup {<<a, b, c>> : a \in {"long", "object", "boolean"}, b \in {"double", "char", "object"},
                        c \in {"long", "short", "float", "byte"}}
Returns == {"int", "long", "float", "double", "boolean", "byte", "char", "short", "void", "object"}
AnyMethod == [ret : Returns, params : AnyParams, static : BOOLEAN, proxy : BOOLEAN]
PlainMethod == [ret |-> "void", params |-> <<>>, static |-> TRUE, proxy |-> FALSE]
MCCases ==
    (AnyMethod \X {[arch |-> "arm64", offset |-> 24]})
    \cup ({PlainMethod} \X [arch : {"arm", "arm64", "x86", "x64", "riscv64"}, offset : {4 * k : k \in 2..31}])
=============================================================================
