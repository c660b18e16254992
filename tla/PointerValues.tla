------------------------------ MODULE PointerValues ------------------------------
(***************************************************************************)
(* Pointers at run time: the size of the object a pointer was derived from *)
(* and its offset in that object. Null is not among them: the analyses     *)
(* count the result of an allocator as in bounds without a null check.     *)
(***************************************************************************)
EXTENDS PtrIR

CONSTANTS
    ObjectSizes,    \* sizes of objects whose size is not a constant
    Offsets,        \* the offsets a pointer may have
    NoPointer       \* the value of an instruction that has not executed

ASSUME PointersAssumption ==
    /\ ObjectSizes \subseteq Nat
    /\ Offsets \subseteq Int
    /\ 0 \in Offsets

Pointers == [size : ObjectSizes, off : Offsets]

(* n bytes at p lie inside the object.                                     *)
Addresses(p, n) == p.off >= 0 /\ p.off + n <= p.size

-----------------------------------------------------------------------------
(* What the instructions make of pointers. An object that would not fit    *)
(* into the address space is never created, and one of run-time size has   *)
(* room for at least one pointee.                                          *)
Allocated(inst) ==
    IF HasConstSize(inst)
    THEN {p \in {[size |-> RequestedSize(inst), off |-> 0]} : p.size < Word}
    ELSE {p \in Pointers : Addresses(p, inst.deref)}

Stepped(inst, p) ==
    IF inst.consts[1] # NonConst
    THEN {[p EXCEPT !.off = @ + Signed(inst.consts[1])]}
    ELSE {[p EXCEPT !.off = o] : o \in Offsets}
=============================================================================
