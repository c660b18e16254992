--------------------------- MODULE SampleFunctions ---------------------------
(***************************************************************************)
(* Small functions for the model checker. With Word = 16 an address is     *)
(* four bits wide: 12 is the offset -4, and calloc(6, 3) wraps to 2.       *)
(*                                                                         *)
(* Instructions are numbered, and the name of a function is the tuple of   *)
(* its instructions' numbers.                                              *)
(***************************************************************************)
EXTENDS PtrIR

Instr(op, callee, deref, operands, consts) ==
    [op |-> op, callee |-> callee, isPtr |-> TRUE, deref |-> deref,
     operands |-> operands, consts |-> consts]

Alloca(stride, length) == Instr("alloca", "none", stride, <<>>, <<stride, length>>)
Allocate(callee, consts) == Instr("call", callee, 1, <<>>, consts)
Phi(a, b) == Instr("phi", "none", 4, <<a, b>>, <<>>)
Gep(base, off) == Instr("gep", "none", 4, <<base>>, <<off>>)
Cast(src) == Instr("cast", "none", 4, <<src>>, <<>>)
Load == Instr("load", "none", 4, <<0>>, <<>>)
Call(callee) == Instr("call", callee, 4, <<>>, <<>>)
IntToPtr == Instr("cast", "none", 4, <<>>, <<>>)
NotPointer == [Load EXCEPT !.isPtr = FALSE]

(* int[2], a variable-length int[], malloc(8), malloc(n), a calloc whose   *)
(* product wraps, a memalign, and an allocator known only by its table.    *)
Allocations ==
    <<Alloca(4, 2), Alloca(4, NonConst), Allocate("malloc", <<8>>),
      Allocate("malloc", <<NonConst>>), Allocate("calloc", <<6, 3>>),
      Allocate("memalign", <<2, 8>>), Allocate("mallocFuncs", <<>>)>>

(* Derivations from the values 0 .. 3 going forward, and opaque pointers.  *)
Forward ==
    <<Phi(0, 1), Phi(1, 1), Phi(1, 2), Phi(1, 3), Phi(2, 3),
      Gep(0, 4), Gep(1, 0), Gep(1, 4), Gep(1, NonConst), Gep(2, 0), Gep(2, 4),
      Gep(3, 4), Gep(3, NonConst), Cast(0), Cast(1), Cast(2), Cast(3),
      Load, NotPointer, IntToPtr, Call("other"), Call("indirect")>>

(* Derivations of the value 4, which is allocated last: facts travel       *)
(* against the layout order and need several sweeps. A load interrupts     *)
(* them.                                                                   *)
Upward ==
    <<Phi(1, 4), Phi(2, 3), Phi(3, 4), Phi(4, 4), Gep(2, 0), Gep(3, 0),
      Gep(3, 4), Gep(4, 0), Gep(4, 4), Cast(1), Cast(2), Cast(3), Cast(4),
      Load, NotPointer>>

(* An allocation and two derivations.                                      *)
Forward3 ==
    [n \in (DOMAIN Allocations) \X (DOMAIN Forward) \X (DOMAIN Forward) |->
        <<Allocations[n[1]], Forward[n[2]], Forward[n[3]]>>]

Upward4 ==
    [n \in (DOMAIN Upward) \X (DOMAIN Upward) \X (DOMAIN Upward) |->
        <<Upward[n[1]], Upward[n[2]], Upward[n[3]], Alloca(4, 2)>>]

(* A step back from the start of an int[2], and one from its middle.       *)
StepBack ==
    <<<<Alloca(4, 2), Gep(1, 12)>>, <<Alloca(4, 2), Gep(1, 4), Gep(2, 12)>>>>
BothWays == {-4, 0, 4, 8}
=============================================================================
