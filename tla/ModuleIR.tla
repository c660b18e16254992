------------------------------ MODULE ModuleIR -------------------------------
(***************************************************************************)
(* Whole modules, as objectPass sees them: functions with basic blocks,    *)
(* calls of functions by name, arguments and globals.                      *)
(*                                                                         *)
(* A module is a record                                                    *)
(*   globals  the sizes of the global variables                            *)
(*   funs     for every function name a record                             *)
(*     params   the pointee sizes of the parameters, 0 for an integer          *)
(*     retPtr   is the return type a pointer                               *)
(*     varArg   is it variadic                                             *)
(*     insts    its instructions in layout order                           *)
(*     blocks   its basic blocks, <<>> for a declaration; a block is       *)
(*       first, last  the instructions it holds                            *)
(*       succs        the numbers of its successors                        *)
(*       ret          <<v>> if it ends in a return of v                    *)
(* Block 1 is the entry block. A value is a number: an instruction its     *)
(* position, Outside anything the pass has no name for (null, an integer). *)
(***************************************************************************)
EXTENDS BoundRules, FiniteSets

CONSTANTS
    Modules,    \* the modules to analyse, by name
    IntWord     \* 2^32: the range of int

Outside == 0
Arg(k) == 0 - 2 * k
Global(k) == 0 - 2 * k - 1

GlobalsOf(m) == {Global(k) : k \in DOMAIN Modules[m].globals}
FunsOf(m) == DOMAIN Modules[m].funs
Fun(m, f) == Modules[m].funs[f]
ArgsOf(m, f) == {Arg(k) : k \in DOMAIN Fun(m, f).params}
PositionsOf(m, f) == DOMAIN Fun(m, f).insts
ValuesOf(m, f) == {Outside} \cup GlobalsOf(m) \cup ArgsOf(m, f) \cup PositionsOf(m, f)

BlocksOf(m, f) == DOMAIN Fun(m, f).blocks
Block(m, f, n) == Fun(m, f).blocks[n]
Exits(m, f) == {n \in BlocksOf(m, f) : Block(m, f, n).succs = {}}
Preds(m, f, n) == {p \in BlocksOf(m, f) : n \in Block(m, f, p).succs}

(***************************************************************************)
(* What the verifier guarantees: blocks hold the instructions in order,    *)
(* the entry block has no predecessor, a call passes one value for every   *)
(* parameter, and main is there with a body. A callee is told by its name: *)
(* no function of the module has one that the tables have.                 *)
(***************************************************************************)
WellFormed(m) ==
    /\ FunsOf(m) \cap (Library \cup {"indirect", "none"}) = {}
    /\ "main" \in FunsOf(m) => Fun(m, "main").blocks # <<>>
    /\ Modules[m].globals \in Seq(Words)
    /\ \A f \in FunsOf(m) :
        /\ Fun(m, f).params \in Seq(Words)
        /\ Fun(m, f).insts \in Seq(Insts(ValuesOf(m, f), FunsOf(m)))
        /\ \A v \in PositionsOf(m, f) :
              LET inst == Fun(m, f).insts[v]
              IN  /\ Arity(inst)
                  /\ inst.op = "call" /\ inst.callee \in FunsOf(m) /\ ~Fun(m, inst.callee).varArg
                       => Len(inst.operands) = Len(Fun(m, inst.callee).params)
        /\ Fun(m, f).blocks \in Seq([first : Nat, last : 0 .. Len(Fun(m, f).insts),
                                    succs : SUBSET Nat, ret : Seq(ValuesOf(m, f))])
        /\ \A n \in BlocksOf(m, f) :
              /\ Block(m, f, n).first <= Block(m, f, n).last + 1
              /\ Block(m, f, n).succs \subseteq BlocksOf(m, f) \ {1}
              /\ Block(m, f, n).first = IF n = 1 THEN 1 ELSE Block(m, f, n - 1).last + 1
              /\ Len(Block(m, f, n).ret) <= 1
              /\ Block(m, f, n).ret # <<>> => Block(m, f, n).succs = {}

ASSUME ModulesAssumption == \A m \in DOMAIN Modules : WellFormed(m)
ASSUME IntWordAssumption == IntWord \in Nat /\ IntWord > 1 /\ IntWord <= Word
=============================================================================
