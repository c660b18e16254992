------------------------------- MODULE PtrIR --------------------------------
(***************************************************************************)
(* The pointer instructions of LLVM IR as the bound analyses of            *)
(* PointerAnalysis.cpp see them, and the two classifications every         *)
(* analysis starts from: is this instruction an allocation, and how many   *)
(* bytes does it allocate when that is known at compile time.              *)
(*                                                                         *)
(* An instruction is a record                                              *)
(*   op       the instruction class                                        *)
(*   callee   for a call, what the name tables say of the callee           *)
(*   isPtr    does the instruction produce a pointer (isaPointer)          *)
(*   deref    store size of the pointee type, 0 if it is unsized           *)
(*   operands the pointer operands the analyses test                       *)
(*   consts   the integer operands; NonConst stands for one that is not a  *)
(*            ConstantInt                                                  *)
(*                                                                         *)
(* Sizes and offsets are uint64_t: numbers below Word, where Word stands   *)
(* for 2^64 and is small when TLC runs.                                    *)
(***************************************************************************)
EXTENDS Integers, Sequences

CONSTANTS Word, NonConst

ASSUME WordAssumption == Word \in Nat /\ Word > 1
ASSUME NonConstAssumption == NonConst \notin Int

Words == 0 .. Word - 1

(* uint64_t arithmetic                                                     *)
Wrap(n) == n % Word
Signed(n) == IF 2 * n >= Word THEN n - Word ELSE n

(***************************************************************************)
(* Library functions are told apart by the tables that hold their name.    *)
(* The tables themselves (printf, strlen, ... over a hundred names) are    *)
(* data: "noop" stands for a name in noopFuncs, memcpyFuncs or             *)
(* convertFuncs, whose calls no analysis looks at.                         *)
(***************************************************************************)
SizedAllocators == {"malloc", "valloc", "calloc", "memalign"}
TableAllocators == {"mallocFuncs", "reallocFuncs"}
ReturnsArgument == {"retArg0Funcs", "retArg1Funcs", "retArg2Funcs"}
Library == SizedAllocators \cup TableAllocators \cup ReturnsArgument \cup {"noop"}

Ops == {"alloca", "call", "phi", "gep", "cast", "load", "store"}

(* Instructions over these values, calling the library, these functions,   *)
(* or through a pointer; the callee of what is no call is "none".          *)
Insts(Value, Function) ==
    [op : Ops, callee : Library \cup Function \cup {"indirect", "none"}, isPtr : BOOLEAN,
     deref : Words, operands : Seq(Value), consts : Seq(Words \cup {NonConst})]

(* What the LLVM verifier and the prototypes of the allocators guarantee;  *)
(* the size of the type an alloca allocates is always known.               *)
Arity(inst) ==
    /\ inst.op # "call" => inst.callee = "none"
    /\ inst.op = "alloca" => Len(inst.consts) = 2 /\ inst.consts[1] # NonConst
    /\ inst.op = "gep" => Len(inst.operands) = 1 /\ Len(inst.consts) = 1
    /\ inst.op \in {"load", "store"} => Len(inst.operands) = 1
    /\ inst.op = "call" /\ inst.callee \in {"malloc", "valloc"} => Len(inst.consts) = 1
    /\ inst.op = "call" /\ inst.callee \in {"calloc", "memalign"} => Len(inst.consts) = 2

(***************************************************************************)
(* isAllocation: an alloca, or a direct call of a function in the          *)
(* allocator tables.                                                       *)
(***************************************************************************)
IsAllocation(inst) ==
    \/ inst.op = "alloca"
    \/ /\ inst.op = "call"
       /\ inst.callee \in SizedAllocators \cup TableAllocators

(* The integer operands whose product is the size in bytes.                *)
SizeFactors(inst) ==
    CASE inst.op = "alloca"       -> <<inst.consts[1], inst.consts[2]>>
      [] inst.callee = "calloc"   -> <<inst.consts[1], inst.consts[2]>>
      [] inst.callee = "memalign" -> <<inst.consts[2], 1>>
      [] OTHER                    -> <<inst.consts[1], 1>>

HasConstSize(inst) ==
    /\ \/ inst.op = "alloca"
       \/ (inst.op = "call" /\ inst.callee \in SizedAllocators)
    /\ SizeFactors(inst)[1] # NonConst
    /\ SizeFactors(inst)[2] # NonConst

(* The number of bytes the program asks for, before any overflow.          *)
RequestedSize(inst) == SizeFactors(inst)[1] * SizeFactors(inst)[2]

(***************************************************************************)
(* getConstantAllocSize: the size of the object, 0 when it is not known at *)
(* compile time (and when it is 0). The product is computed in uint64_t.   *)
(***************************************************************************)
ConstantAllocSize(inst) ==
    IF HasConstSize(inst) THEN Wrap(RequestedSize(inst)) ELSE 0
=============================================================================
