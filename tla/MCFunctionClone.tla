--------------------------- MODULE MCFunctionClone -----------------------------
(* FunctionClone on small modules.                                         *)
EXTENDS FunctionClone

Def(name, body) == [name |-> name, kind |-> "defined", body |-> body]
Decl(base) == [name |-> Name(base), kind |-> "declared", body |-> <<>>]
Intrinsic(base) == [name |-> Name(base), kind |-> "intrinsic", body |-> <<>>]
Numbered(base, n) == [base |-> base, pieces |-> <<n>>]

Main(body) == Def(Name("main"), body)
F(body) == Def(Name("f"), body)
G(body) == Def(Name("g"), body)
H(body) == Def(Name("h"), body)

(* main (0), f (1), g (2) and h (3): every way to call the others twice.   *)
Pairs(first, second) == {<<a, b>> : a \in first, b \in second}
Graph3 ==
    {<<Main(m), F(f), G(g), H(<<Plain>>)>> :
        m \in Pairs({1, 2}, {1, 2}), f \in Pairs({1, 2, 3}, {2, 3, Plain}),
        g \in Pairs({1, 2, 3}, {1, 3, External})}

(* A chain that is deeper than K, with weights around the threshold.       *)
Chain ==
    {<<Main(<<1, 2>>), F(f), G(<<3, Plain, 3>>), H(<<Load, 4>>), Def(Name("error"), <<5>>),
       Decl("puts")>> : f \in {<<2, 4, 3>>, <<4, Plain>>, <<Load, Load, Load>>,
                                <<Load, Load, Load, Load>>}}

(* The functions f_1 and f, with main at number 1.                         *)
SimilarNames ==
    {<<Def(Numbered("f", 1), <<Plain>>), Main(m), G(<<3, 3>>), F(<<0>>),
       Intrinsic("llvm.dbg")>> : m \in {<<0, 2, 0>>, <<2, 0>>, <<4, 2, 0>>, <<0, 2>>}}

(* main is called, alone or beside other calls; there is no main.          *)
RecursiveMain ==
    {<<Main(m), F(f), G(<<0>>)>> : m \in {<<1>>, <<1, 2>>, <<2, 1>>, <<0>>}, f \in {<<0>>, <<2>>}}

NoMain == {<<F(<<1>>), G(<<0>>)>>}

SmallModules == Graph3 \cup Chain \cup SimilarNames \cup RecursiveMain \cup NoMain

Noops == {Name("error")}
=============================================================================
