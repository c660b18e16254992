----------------------------- MODULE BoundRules ------------------------------
(***************************************************************************)
(* When does one known pointer make another one known? The conditions of   *)
(* contextFreeAnalysis, stated for any containers: in holds the pointers   *)
(* known to be in bounds, tr those with an exact bound, and b the exact    *)
(* bounds (a value the map does not hold reads as 0). contextFreeAnalysis  *)
(* and objectPass apply the same conditions to different containers.       *)
(***************************************************************************)
EXTENDS PtrIR

AllInbounds(inst, in) == \A k \in DOMAIN inst.operands : inst.operands[k] \in in

(* Mutant: only the start of the new pointee is tested.                    *)
GepStartInRange(inst, b) ==
    /\ inst.consts[1] # NonConst
    /\ b[inst.operands[1]] > 0
    /\ inst.consts[1] <= b[inst.operands[1]]

(* The bytes from the new pointer to the end of its pointee fit into what  *)
(* is left of the object. The sum is a uint64_t sum.                       *)
GepInRange(inst, b) ==
    LET base == inst.operands[1]
        off  == inst.consts[1]
    IN  /\ off # NonConst
        /\ b[base] > 0
        /\ Wrap(off + inst.deref) <= b[base]

GepKeepsBound(inst, in, tr, b) ==
    /\ inst.operands[1] \in in
    /\ inst.operands[1] \in tr
    /\ GepInRange(inst, b)

(* operands is empty for a cast whose source is no pointer.                *)
CastKeepsBound(inst, in, tr, b) ==
    /\ inst.operands # <<>>
    /\ inst.operands[1] \in in
    /\ inst.operands[1] \in tr
    /\ b[inst.operands[1]] > 0
    /\ inst.deref <= b[inst.operands[1]]

HasExactSize(inst) == IsAllocation(inst) /\ ConstantAllocSize(inst) > 0

(* The instruction is entitled to an exact bound ...                       *)
EarnsExact(inst, in, tr, b) ==
    /\ inst.isPtr
    /\ \/ HasExactSize(inst)
       \/ (inst.op = "gep" /\ GepKeepsBound(inst, in, tr, b))
       \/ (inst.op = "cast" /\ CastKeepsBound(inst, in, tr, b))

(* ... namely this one ...                                                 *)
ExactBound(inst, b) ==
    CASE inst.op = "gep"  -> Wrap(b[inst.operands[1]] - inst.consts[1])
      [] inst.op = "cast" -> b[inst.operands[1]]
      [] OTHER            -> ConstantAllocSize(inst)

(* ... or only to being in bounds.                                         *)
EarnsInbound(inst, in, tr, b) ==
    /\ inst.isPtr
    /\ \/ IsAllocation(inst)
       \/ (inst.op = "phi" /\ AllInbounds(inst, in))
       \/ EarnsExact(inst, in, tr, b)
=============================================================================
