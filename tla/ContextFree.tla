----------------------------- MODULE ContextFree -----------------------------
(***************************************************************************)
(* PointerAnalysis::contextFreeAnalysis: for one function, find the        *)
(* pointers that surely address a whole pointee inside their object.       *)
(*                                                                         *)
(* The code sweeps over the instructions in layout order, adding pointers  *)
(* to three containers, and sweeps again until a sweep adds nothing:       *)
(*   inbounds     pointers known to be in bounds                           *)
(*   transitives  those whose distance to the end of the object is a       *)
(*                compile-time constant                                    *)
(*   bounds       that distance                                            *)
(* BoundRules holds the conditions under which a pointer is added.         *)
(***************************************************************************)
EXTENDS FunctionCode

VARIABLES
    fn,            \* the function being analysed
    pc,            \* "sweep" until a sweep changes nothing, then "done"
    i,             \* the next instruction of the sweep
    changed,       \* did this sweep add a pointer
    inbounds,
    transitives,
    bounds         \* a value the map does not hold reads as 0

vars == <<fn, pc, i, changed, inbounds, transitives, bounds>>

Inst == Code[fn][i]

-----------------------------------------------------------------------------
Init ==
    /\ fn \in Functions
    /\ pc = "sweep"
    /\ i = 1
    /\ changed = FALSE
    /\ inbounds = {}
    /\ transitives = {}
    /\ bounds = [v \in Values(fn) |-> 0]

(* Mutant: every visit overwrites what the earlier ones reported.          *)
AdvanceOverwrite(in, tr, b) ==
    /\ changed' = ((in # inbounds) \/ (tr # transitives))
    /\ inbounds' = in
    /\ transitives' = tr
    /\ bounds' = b
    /\ i' = i + 1
    /\ UNCHANGED <<fn, pc>>

(* testAndInsert reports an insertion; bounds is assigned all the same.    *)
Advance(in, tr, b) ==
    /\ changed' = (changed \/ (in # inbounds) \/ (tr # transitives))
    /\ inbounds' = in
    /\ transitives' = tr
    /\ bounds' = b
    /\ i' = i + 1
    /\ UNCHANGED <<fn, pc>>

(* Mutant: the pointer is not added to inbounds.                           *)
InsertTransitive(bound) ==
    Advance(inbounds, transitives \cup {i}, [bounds EXCEPT ![i] = bound])

InsertExact(bound) ==
    Advance(inbounds \cup {i}, transitives \cup {i}, [bounds EXCEPT ![i] = bound])

InsertInbound == Advance(inbounds \cup {i}, transitives, bounds)

PassOver == Advance(inbounds, transitives, bounds)

AtInst(op) ==
    /\ pc = "sweep"
    /\ i <= Len(Code[fn])
    /\ Inst.isPtr
    /\ Inst.op = op

(* An object of known size gets an exact bound, one of unknown size none.  *)
VisitAllocation ==
    /\ \E op \in {"alloca", "call"} : AtInst(op)
    /\ IsAllocation(Inst)
    /\ IF ConstantAllocSize(Inst) > 0
       THEN InsertExact(ConstantAllocSize(Inst))
       ELSE InsertInbound

(* Mutant: one incoming value in bounds is taken to be enough.             *)
VisitPhiAny ==
    /\ AtInst("phi")
    /\ IF \E k \in DOMAIN Inst.operands : Inst.operands[k] \in inbounds
       THEN InsertInbound
       ELSE PassOver

VisitPhi ==
    /\ AtInst("phi")
    /\ IF AllInbounds(Inst, inbounds) THEN InsertInbound ELSE PassOver

VisitGep ==
    /\ AtInst("gep")
    /\ IF GepKeepsBound(Inst, inbounds, transitives, bounds)
       THEN InsertExact(Wrap(bounds[Inst.operands[1]] - Inst.consts[1]))
       ELSE PassOver

VisitCast ==
    /\ AtInst("cast")
    /\ IF CastKeepsBound(Inst, inbounds, transitives, bounds)
       THEN InsertExact(bounds[Inst.operands[1]])
       ELSE PassOver

(* Loads, other calls and everything that is no pointer.                   *)
VisitOther ==
    /\ pc = "sweep"
    /\ i <= Len(Code[fn])
    /\ \/ ~Inst.isPtr
       \/ Inst.op \in {"load", "store"}
       \/ (Inst.op = "call" /\ ~IsAllocation(Inst))
    /\ PassOver

(* Mutant: there is no second sweep.                                       *)
EndOnlySweep ==
    /\ pc = "sweep"
    /\ i > Len(Code[fn])
    /\ pc' = "done"
    /\ UNCHANGED <<fn, i, changed, inbounds, transitives, bounds>>

(* Mutant: changed is not reset.                                           *)
EndSweepChanged ==
    /\ pc = "sweep"
    /\ i > Len(Code[fn])
    /\ IF changed
       THEN i' = 1 /\ UNCHANGED <<pc, changed>>
       ELSE pc' = "done" /\ UNCHANGED <<i, changed>>
    /\ UNCHANGED <<fn, inbounds, transitives, bounds>>

(* The end of a sweep: do { ... } while (changed).                         *)
EndSweep ==
    /\ pc = "sweep"
    /\ i > Len(Code[fn])
    /\ IF changed
       THEN i' = 1 /\ changed' = FALSE /\ UNCHANGED pc
       ELSE pc' = "done" /\ UNCHANGED <<i, changed>>
    /\ UNCHANGED <<fn, inbounds, transitives, bounds>>

Visit == VisitAllocation \/ VisitPhi \/ VisitGep \/ VisitCast \/ VisitOther

Next == Visit \/ EndSweep

Spec == Init /\ [][Next]_vars /\ WF_vars(Next)

-----------------------------------------------------------------------------
TypeOK ==
    /\ fn \in Functions
    /\ pc \in {"sweep", "done"}
    /\ i \in 1 .. Len(Code[fn]) + 1
    /\ changed \in BOOLEAN
    /\ inbounds \subseteq Positions(fn)
    /\ transitives \subseteq inbounds
    /\ bounds \in [Values(fn) -> Words]

(***************************************************************************)
(* The changed flag is right: while a sweep has added nothing, no          *)
(* instruction it has passed has anything left to add. At the end this is  *)
(* the fixpoint: however the blocks are laid out, no sweep too few.        *)
(***************************************************************************)
SweptClean ==
    ~changed => \A v \in 1 .. i - 1 :
        /\ EarnsInbound(Code[fn][v], inbounds, transitives, bounds) => v \in inbounds
        /\ EarnsExact(Code[fn][v], inbounds, transitives, bounds) => v \in transitives

(***************************************************************************)
(* Every pointer in the containers is still entitled to its place, and to  *)
(* exactly the bound recorded for it: an entry is never left behind by a   *)
(* later change of the bound it was computed from.                         *)
(***************************************************************************)
Justified ==
    /\ \A v \in inbounds : EarnsInbound(Code[fn][v], inbounds, transitives, bounds)
    /\ \A v \in transitives :
          /\ EarnsExact(Code[fn][v], inbounds, transitives, bounds)
          /\ bounds[v] = ExactBound(Code[fn][v], bounds)

(***************************************************************************)
(* The sweeps implement the inference: whatever the layout order of the    *)
(* instructions, every step derives a justified fact and the analysis does *)
(* not stop before all of them are derived.                                *)
(***************************************************************************)
Inference == INSTANCE BoundInference WITH done <- (pc = "done")

ImplementsInference == Inference!Spec

(* The do-while loop ends: a function cannot keep it sweeping.             *)
Terminates == <>(pc = "done")
=============================================================================
