--------------------------- MODULE MCMemoryAnnotator ---------------------------
(* MemoryAnnotator on small modules.                                       *)
EXTENDS MemoryAnnotator

Argument == -1

Fun(name, ids, blocks) == [name |-> name, ids |-> ids, blocks |-> blocks]

(* Instructions with number n that take the value v.                       *)
LoadOf(n, v, ty, what) == Instr(n, "load", <<v>>, ty, what)
StoreOf(n, v, ty, what) == Instr(n, "store", <<Argument, v>>, ty, what)
Other(n, v) == Instr(n, "other", <<v>>, "none", "none")
Ret(n, v) == Instr(n, "ret", <<v>>, "none", "none")

Accesses(n, v) ==
    {LoadOf(n, v, ty, "i8*") : ty \in {"i64", "i32", "aggregate"}}
    \cup {LoadOf(n, v, ty, "other") : ty \in {"i64", "double", "ptr", "float"}}
    \cup {StoreOf(n, v, ty, "i8*") : ty \in {"i64", "ptr", "float"}}
    \cup {StoreOf(n, v, ty, "other") : ty \in {"i64", "i32", "double", "aggregate"}}

Calls(n, v) ==
    {Instr(n, op, <<v>>, "none", "none") :
        op \in {"malloc", "free", "stacksave", "stackrestore", "call", "indirect"}}

All(n, v) ==
    {Instr(n, "alloca", <<>>, "none", "none"), Other(n, v)} \cup Calls(n, v) \cup Accesses(n, v)

(* Two instructions, the second of which may use the first, in front of   *)
(* the return of main; a second block returns, too.                        *)
Pairs ==
    {<<Fun("main", 5, <<<<a, b, Ret(3, 2)>>,
                        <<Instr(4, "alloca", <<>>, "none", "none"), Ret(5, 1)>>>>)>> :
        a \in All(1, Argument), b \in All(2, 1) \cup {LoadOf(2, Argument, "i32", "other")}}

(* main between two other functions and a declaration; no main at all.      *)
Callee(name) ==
    {Fun(name, 3, <<<<a, Other(2, 1), Ret(3, Constant)>>>>) :
        a \in {LoadOf(1, Argument, "i32", "other"), StoreOf(1, Argument, "i64", "i8*")}}
SmallMain ==
    {Fun("main", 3, <<<<Other(1, Argument)>>, <<a, Ret(3, 2)>>>>) :
        a \in {LoadOf(2, 1, "i32", "other"), Instr(2, "call", <<>>, "none", "none"),
               Instr(2, "malloc", <<Constant>>, "none", "none")}}

Several ==
    {<<f, m, g, Declaration("puts")>> : f \in Callee("f"), m \in SmallMain, g \in Callee("main_")}
    \cup {<<f>> : f \in Callee("f")}

SmallModules == Pairs \cup Several
=============================================================================
