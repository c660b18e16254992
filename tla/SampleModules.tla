---------------------------- MODULE SampleModules ----------------------------
(***************************************************************************)
(* Small modules for the interprocedural analysis, with calls in loops,    *)
(* from several contexts, through recursion, and with several exits.       *)
(***************************************************************************)
EXTENDS SampleFunctions, FiniteSets

A(k) == 0 - 2 * k           \* the k-th argument
G(k) == 0 - 2 * k - 1       \* the k-th global

Blk(first, last, succs, ret) ==
    [first |-> first, last |-> last, succs |-> succs, ret |-> ret]

Function(params, retPtr, insts, blocks) ==
    [params |-> params, retPtr |-> retPtr, varArg |-> FALSE,
     insts |-> insts, blocks |-> blocks]

CallOf(f, args) == Instr("call", f, 4, args, <<>>)
CallVoid(f, args) == [CallOf(f, args) EXCEPT !.isPtr = FALSE]
Use(p) == [Instr("store", "none", 4, <<p>>, <<>>) EXCEPT !.isPtr = FALSE]

Module(globals, funs) == [globals |-> globals, funs |-> funs]

(* main has an int[2] and an unknown pointer, and calls f twice.           *)
MainCalls(first, second) ==
    Function(<<>>, FALSE,
        <<Alloca(4, 2), Load, CallOf("f", <<first>>), CallOf("f", <<second>>), Use(3), Use(4)>>,
        <<Blk(1, 6, {}, <<0>>)>>)

(* f(p) has a loop: an instruction before it, in its header, in its latch; *)
(* it returns one of them or p.                                            *)
Before == <<Gep(A(1), 4), Cast(A(1)), Load, CallOf("f", <<A(1)>>)>>
Header == <<Phi(1, 3), Phi(A(1), 3), Gep(1, 4), CallOf("f", <<1>>)>>
Latch == <<Gep(2, 4), Gep(2, 0), Cast(1), CallOf("f", <<2>>), Use(2)>>
Returned == <<A(1), 1, 2>>

LoopFunction(before, header, latch, ret) ==
    Function(<<4>>, TRUE, <<before, header, latch>>,
        <<Blk(1, 1, {2}, <<>>), Blk(2, 2, {3, 4}, <<>>), Blk(3, 3, {2}, <<>>),
          Blk(4, 3, {}, <<ret>>)>>)

(* At most one of the three instructions calls f again.                    *)
LoopNames ==
    {n \in (DOMAIN Before) \X (DOMAIN Header) \X (DOMAIN Latch) \X (DOMAIN Returned) :
        Cardinality({j \in 1 .. 3 : <<Before[n[1]], Header[n[2]], Latch[n[3]]>>[j].op = "call"}) <= 1}

LoopModules ==
    [n \in LoopNames |->
        Module(<<>>, [main |-> MainCalls(1, 2),
                      f |-> LoopFunction(Before[n[1]], Header[n[2]], Latch[n[3]],
                                         Returned[n[4]])])]

(* f has three exits: two returns and one that is unreachable.             *)
ThreeExits(x, y) ==
    Function(<<4>>, TRUE,
        <<[Allocate("malloc", <<8>>) EXCEPT !.deref = 4], Gep(A(1), 0), Use(1)>>,
        <<Blk(1, 1, {2, 3, 4}, <<>>), Blk(2, 2, {}, <<x>>), Blk(3, 3, {}, <<y>>),
          Blk(4, 3, {}, <<>>)>>)

(* The call is in a block that is visited twice.                           *)
Joined ==
    Function(<<4>>, TRUE, <<Gep(A(1), 0), CallOf("g", <<A(1)>>), Use(2)>>,
        <<Blk(1, 0, {2, 3}, <<>>), Blk(1, 1, {3}, <<>>), Blk(2, 3, {}, <<2>>)>>)

(* f never returns.                                                        *)
Forever == Function(<<4>>, TRUE, <<Gep(A(1), 4)>>, <<Blk(1, 1, {2}, <<>>), Blk(2, 1, {2}, <<>>)>>)

(* f and g call each other, from two sites: once with the pointer behind p *)
(* and once, as recursive1 and recursive2 of tooManyFunctions.c do, with   *)
(* something of which nothing is known.                                    *)
PingPong(callee) ==
    Function(<<4>>, TRUE, <<Gep(A(1), 4), CallOf(callee, <<1>>), Use(2), CallVoid(callee, <<0>>)>>,
        <<Blk(1, 1, {2, 3}, <<>>), Blk(2, 3, {4}, <<>>), Blk(4, 4, {4}, <<>>), Blk(5, 4, {}, <<1>>)>>)

(* Globals, library functions, and calls the pass does not follow.         *)
Mixed ==
    Function(<<>>, FALSE,
        <<Gep(G(1), 4), [Allocate("calloc", <<2, 4>>) EXCEPT !.deref = 4],
          [Call("retArg0Funcs") EXCEPT !.operands = <<2, 0>>],
          [Call("retArg1Funcs") EXCEPT !.operands = <<0, 1>>],
          [Call("retArg2Funcs") EXCEPT !.operands = <<0, 0, 5>>],
          Call("noop"), Call("indirect"), CallOf("declared", <<2>>), CallOf("print", <<2, 2>>),
          CallVoid("show", <<3>>), Allocate("reallocFuncs", <<>>), Alloca(4, NonConst), NotPointer,
          CallOf("f", <<4>>), Use(14)>>,
        <<Blk(1, 15, {}, <<0>>)>>)

Declaration == Function(<<4>>, TRUE, <<>>, <<>>)
Variadic == [Declaration EXCEPT !.varArg = TRUE]
Show == Function(<<4>>, FALSE, <<Gep(A(1), 4), Use(1)>>,
                 <<Blk(1, 0, {2, 3}, <<>>), Blk(1, 2, {}, <<0>>), Blk(3, 2, {}, <<>>)>>)

MixedModule ==
    Module(<<8, 0>>, [main |-> Mixed, declared |-> Declaration, print |-> Variadic,
                      show |-> Show, f |-> Forever])

(* f returns what g returns, g returns something loaded, and on the way g  *)
(* may use what f returns.                                                 *)
Recursion ==
    <<Module(<<>>,
        [main |-> Function(<<>>, FALSE, <<Alloca(4, 2), CallVoid("f", <<1>>)>>, <<Blk(1, 2, {}, <<0>>)>>),
         f    |-> Function(<<4>>, TRUE, <<CallOf("g", <<A(1)>>)>>, <<Blk(1, 1, {}, <<1>>)>>),
         g    |-> Function(<<4>>, TRUE, <<CallOf("f", <<A(1)>>), Use(1), Load>>,
                    <<Blk(1, 0, {2, 3}, <<>>), Blk(1, 2, {3}, <<>>), Blk(3, 3, {}, <<3>>)>>)])>>

OtherModules ==
    <<Module(<<>>, [main |-> MainCalls(1, 2), f |-> ThreeExits(1, A(1))]),
      Module(<<>>, [main |-> MainCalls(1, 1), f |-> ThreeExits(2, A(1))]),
      Module(<<>>, [main |-> MainCalls(2, 1), f |-> ThreeExits(2, 1)]),
      Module(<<>>, [main |-> MainCalls(1, 2), f |-> PingPong("g"), g |-> PingPong("f")]),
      MixedModule,
      Module(<<>>, [main |-> MainCalls(1, 2), f |-> Joined, g |-> ThreeExits(A(1), A(1))]),
      Module(<<4>>, [f |-> Forever])>>
=============================================================================
