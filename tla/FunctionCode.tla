---------------------------- MODULE FunctionCode -----------------------------
(***************************************************************************)
(* The functions contextFreeAnalysis runs on. It looks at one function at  *)
(* a time and knows nothing of an operand that is no instruction of it: an *)
(* argument, a global, null. Instructions are named by their position in   *)
(* layout order, and Outside stands for all other operands.                *)
(***************************************************************************)
EXTENDS BoundRules

CONSTANT Code     \* the instructions of every function

Functions == DOMAIN Code

Outside == 0
Positions(f) == 1 .. Len(Code[f])
Values(f) == Outside .. Len(Code[f])

(* Calls of functions that are not in the library are all alike.           *)
FunctionInsts(f) == Insts(Values(f), {"other"})

ASSUME CodeAssumption ==
    \A f \in Functions :
        /\ Code[f] \in Seq(FunctionInsts(f))
        /\ \A v \in Positions(f) : Arity(Code[f][v])
=============================================================================
