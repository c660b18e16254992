------------------------- MODULE ContextFree_proofs --------------------------
(***************************************************************************)
(* Proofs about contextFreeAnalysis for every function and every word      *)
(* size: types, the meaning of the containers, the changed flag, the       *)
(* inference the sweeps implement; and, about the functions that run once  *)
(* they are analysed (FunctionRun), its promise: in a module whose         *)
(* functions are well typed and never step back, every pointer in inbounds *)
(* addresses a whole pointee in every execution.                           *)
(***************************************************************************)
EXTENDS FunctionRun, TLAPS

-----------------------------------------------------------------------------
(* Wrap is uint64_t truncation: the result is a word ...                   *)
LEMMA WrapType == \A n \in Int : Wrap(n) \in Words
BY WordAssumption DEF Wrap, Words

(* ... and what fits into a word already is left alone.                    *)
LEMMA WrapWord == \A n \in Words : Wrap(n) = n
BY WordAssumption DEF Wrap, Words

(* An instruction of the module is well-typed data of the right arity.     *)
LEMMA InstType ==
    ASSUME NEW f \in Functions, NEW v \in Positions(f)
    PROVE  /\ Code[f][v] \in Insts(Values(f), {"other"})
           /\ Arity(Code[f][v])
           /\ v \in Values(f)
BY CodeAssumption DEF Positions, Values, Outside, FunctionInsts

(* A size known at compile time is the product of two numbers.             *)
LEMMA FactorsType ==
    ASSUME NEW V, NEW F, NEW inst \in Insts(V, F), Arity(inst), HasConstSize(inst)
    PROVE  /\ SizeFactors(inst)[1] \in Nat
           /\ SizeFactors(inst)[2] \in Nat
           /\ RequestedSize(inst) \in Nat
<1>1. /\ SizeFactors(inst)[1] \in Words \cup {NonConst, 1}
      /\ SizeFactors(inst)[2] \in Words \cup {NonConst, 1}
  <2>1. CASE inst.op = "alloca"
    BY <2>1 DEF SizeFactors, Insts, Arity
  <2>2. CASE inst.op # "alloca" /\ inst.callee = "calloc"
    BY <2>2 DEF SizeFactors, Insts, Arity, HasConstSize
  <2>3. CASE inst.op # "alloca" /\ inst.callee = "memalign"
    BY <2>3 DEF SizeFactors, Insts, Arity, HasConstSize
  <2>4. CASE inst.op # "alloca" /\ inst.callee \in {"malloc", "valloc"}
    BY <2>4 DEF SizeFactors, Insts, Arity, HasConstSize
  <2>5. QED
    BY <2>1, <2>2, <2>3, <2>4 DEF HasConstSize, SizedAllocators
<1>2. /\ SizeFactors(inst)[1] \in Nat
      /\ SizeFactors(inst)[2] \in Nat
  BY <1>1 DEF HasConstSize, Words
<1>3. \A m, n \in Nat : m * n \in Nat
  OBVIOUS
<1>4. QED
  BY <1>2, <1>3 DEF RequestedSize

(* getConstantAllocSize returns a uint64_t.                                *)
LEMMA AllocSizeType ==
    ASSUME NEW V, NEW F, NEW inst \in Insts(V, F), Arity(inst)
    PROVE  ConstantAllocSize(inst) \in Words
<1>1. CASE HasConstSize(inst)
  <2>1. RequestedSize(inst) \in Int
    BY <1>1, FactorsType
  <2>2. QED
    BY <1>1, <2>1, WrapType DEF ConstantAllocSize
<1>2. CASE ~HasConstSize(inst)
  BY <1>2, WordAssumption DEF ConstantAllocSize, Words
<1>3. QED
  BY <1>1, <1>2

-----------------------------------------------------------------------------
(* Every visit adds an exact bound, adds an inbound pointer or passes over *)
(* the instruction, and adds what the instruction is entitled to.          *)
LEMMA VisitCases ==
    ASSUME TypeOK, Visit
    PROVE  /\ pc = "sweep"
           /\ i \in Positions(fn)
           /\ \/ /\ EarnsExact(Inst, inbounds, transitives, bounds)
                 /\ InsertExact(ExactBound(Inst, bounds))
              \/ /\ EarnsInbound(Inst, inbounds, transitives, bounds)
                 /\ ~EarnsExact(Inst, inbounds, transitives, bounds)
                 /\ InsertInbound
              \/ /\ ~EarnsInbound(Inst, inbounds, transitives, bounds)
                 /\ PassOver
<1>1. pc = "sweep" /\ i \in Positions(fn)
  BY DEF Visit, VisitAllocation, VisitPhi, VisitGep, VisitCast, VisitOther, AtInst,
         TypeOK, Positions
<1>2. fn \in Functions
  BY DEF TypeOK
<1>3. Inst \in Insts(Values(fn), {"other"}) /\ Arity(Inst)
  BY <1>1, <1>2, InstType DEF Inst
<1>4. ConstantAllocSize(Inst) \in Nat
  BY <1>3, AllocSizeType DEF Words
<1>5. CASE VisitAllocation
  BY <1>1, <1>4, <1>5 DEF VisitAllocation, AtInst, EarnsExact, EarnsInbound, ExactBound,
     HasExactSize, IsAllocation
<1>6. CASE VisitPhi
  BY <1>1, <1>6 DEF VisitPhi, AtInst, EarnsExact, EarnsInbound, HasExactSize, IsAllocation
<1>7. CASE VisitGep
  BY <1>1, <1>7 DEF VisitGep, AtInst, EarnsExact, EarnsInbound, ExactBound, HasExactSize,
     IsAllocation
<1>8. CASE VisitCast
  BY <1>1, <1>8 DEF VisitCast, AtInst, EarnsExact, EarnsInbound, ExactBound, HasExactSize,
     IsAllocation
<1>9. CASE VisitOther
  BY <1>1, <1>9 DEF VisitOther, EarnsExact, EarnsInbound, HasExactSize, IsAllocation
<1>10. QED
  BY <1>1, <1>5, <1>6, <1>7, <1>8, <1>9 DEF Visit

(* A new exact bound is a word.                                            *)
LEMMA ExactBoundType ==
    ASSUME TypeOK, i \in Positions(fn), EarnsExact(Inst, inbounds, transitives, bounds)
    PROVE  ExactBound(Inst, bounds) \in Words
<1>1. fn \in Functions
  BY DEF TypeOK
<1>2. Inst \in Insts(Values(fn), {"other"}) /\ Arity(Inst)
  BY <1>1, InstType DEF Inst
<1>3. CASE Inst.op = "gep"
  <2>1. Inst.operands[1] \in Values(fn)
    BY <1>2, <1>3 DEF Insts, Arity
  <2>2. bounds[Inst.operands[1]] \in Int
    BY <2>1 DEF TypeOK, Words
  <2>3. Inst.consts[1] \in Words
    BY <1>2, <1>3 DEF EarnsExact, GepKeepsBound, GepInRange, HasExactSize, IsAllocation,
       Insts, Arity
  <2>4. bounds[Inst.operands[1]] - Inst.consts[1] \in Int
    BY <2>2, <2>3 DEF Words
  <2>5. QED
    BY <1>3, <2>4, WrapType DEF ExactBound
<1>4. CASE Inst.op = "cast"
  <2>1. Inst.operands[1] \in Values(fn)
    BY <1>2, <1>4 DEF EarnsExact, CastKeepsBound, HasExactSize, IsAllocation, Insts
  <2>2. QED
    BY <1>4, <2>1 DEF ExactBound, TypeOK
<1>5. CASE Inst.op # "gep" /\ Inst.op # "cast"
  BY <1>2, <1>5, AllocSizeType DEF ExactBound
<1>6. QED
  BY <1>3, <1>4, <1>5

-----------------------------------------------------------------------------
LEMMA InitType == Init => TypeOK
<1> SUFFICES ASSUME Init PROVE TypeOK
  OBVIOUS
<1>1. Code[fn] \in Seq(FunctionInsts(fn))
  BY CodeAssumption DEF Init
<1>2. Len(Code[fn]) \in Nat
  BY <1>1
<1>3. bounds \in [Values(fn) -> Words]
  BY WordAssumption DEF Init, Words
<1>4. i \in 1 .. Len(Code[fn]) + 1
  BY <1>2 DEF Init
<1>5. changed \in BOOLEAN
  BY DEF Init
<1>6. QED
  BY <1>3, <1>4, <1>5 DEF Init, TypeOK

LEMMA NextType == TypeOK /\ [Next]_vars => TypeOK'
<1> SUFFICES ASSUME TypeOK, [Next]_vars PROVE TypeOK'
  OBVIOUS
<1>1. Len(Code[fn]) \in Nat
  BY CodeAssumption DEF TypeOK
<1>2. CASE Visit
  <2>1. i \in Positions(fn) /\ i \in Values(fn)
    BY <1>1, <1>2, VisitCases DEF Positions, Values, Outside
  <2>2. CASE /\ EarnsExact(Inst, inbounds, transitives, bounds)
             /\ InsertExact(ExactBound(Inst, bounds))
    <3>1. ExactBound(Inst, bounds) \in Words
      BY <2>1, <2>2, ExactBoundType
    <3>2. [bounds EXCEPT ![i] = ExactBound(Inst, bounds)] \in [Values(fn) -> Words]
      BY <2>1, <3>1 DEF TypeOK
    <3>3. QED
      BY <1>1, <2>1, <2>2, <3>2 DEF InsertExact, Advance, TypeOK, Positions
  <2>3. CASE InsertInbound
    BY <1>1, <2>1, <2>3 DEF InsertInbound, Advance, TypeOK, Positions
  <2>4. CASE PassOver
    BY <1>1, <2>1, <2>4 DEF PassOver, Advance, TypeOK, Positions
  <2>5. QED
    BY <1>2, <2>2, <2>3, <2>4, VisitCases
<1>3. CASE EndSweep
  <2>1. CASE changed
    <3>1. i' \in 1 .. Len(Code[fn]) + 1 /\ pc' = pc
      BY <1>1, <1>3, <2>1 DEF EndSweep
    <3>2. changed' \in BOOLEAN
      BY <1>3, <2>1 DEF EndSweep
    <3>3. QED
      BY <1>3, <3>1, <3>2 DEF EndSweep, TypeOK
  <2>2. CASE ~changed
    <3>1. i' = i /\ changed' = changed /\ pc' = "done"
      BY <1>3, <2>2 DEF EndSweep
    <3>2. QED
      BY <1>3, <3>1 DEF EndSweep, TypeOK
  <2>3. QED
    BY <2>1, <2>2
<1>4. CASE UNCHANGED vars
  BY <1>4 DEF vars, TypeOK
<1>5. QED
  BY <1>2, <1>3, <1>4 DEF Next

(* contextFreeAnalysis keeps its containers and bounds well typed: bounds  *)
(* are uint64_t values and every transitive pointer is in bounds, for any  *)
(* module and word size.                                                   *)
THEOREM TypeCorrect == Spec => []TypeOK
BY InitType, NextType, PTL DEF Spec

-----------------------------------------------------------------------------
(* The rules are monotone: larger containers that keep the exact bounds    *)
(* withdraw nothing.                                                       *)
LEMMA Monotone ==
    ASSUME NEW inst, NEW in, NEW in2, NEW tr, NEW tr2, NEW b, NEW b2,
           in \subseteq in2, tr \subseteq tr2, \A u \in tr : b2[u] = b[u]
    PROVE  /\ EarnsExact(inst, in, tr, b) =>
                 /\ EarnsExact(inst, in2, tr2, b2)
                 /\ ExactBound(inst, b2) = ExactBound(inst, b)
           /\ EarnsInbound(inst, in, tr, b) => EarnsInbound(inst, in2, tr2, b2)
<1>1. ASSUME EarnsExact(inst, in, tr, b)
      PROVE  /\ EarnsExact(inst, in2, tr2, b2)
             /\ ExactBound(inst, b2) = ExactBound(inst, b)
  <2>1. CASE inst.op = "gep"
    <3>1. GepKeepsBound(inst, in, tr, b)
      BY <1>1, <2>1 DEF EarnsExact, HasExactSize, IsAllocation
    <3>2. b2[inst.operands[1]] = b[inst.operands[1]]
      BY <3>1 DEF GepKeepsBound
    <3>3. GepKeepsBound(inst, in2, tr2, b2)
      BY <3>1, <3>2 DEF GepKeepsBound, GepInRange
    <3>4. QED
      BY <1>1, <2>1, <3>2, <3>3 DEF EarnsExact, ExactBound
  <2>2. CASE inst.op = "cast"
    <3>1. CastKeepsBound(inst, in, tr, b)
      BY <1>1, <2>2 DEF EarnsExact, HasExactSize, IsAllocation
    <3>2. b2[inst.operands[1]] = b[inst.operands[1]]
      BY <3>1 DEF CastKeepsBound
    <3>3. CastKeepsBound(inst, in2, tr2, b2)
      BY <3>1, <3>2 DEF CastKeepsBound
    <3>4. QED
      BY <1>1, <2>2, <3>2, <3>3 DEF EarnsExact, ExactBound
  <2>3. CASE inst.op # "gep" /\ inst.op # "cast"
    BY <1>1, <2>3 DEF EarnsExact, ExactBound
  <2>4. QED
    BY <2>1, <2>2, <2>3
<1>2. ASSUME EarnsInbound(inst, in, tr, b)
      PROVE  EarnsInbound(inst, in2, tr2, b2)
  BY <1>1, <1>2 DEF EarnsInbound, AllInbounds
<1>3. QED
  BY <1>1, <1>2

(* Assigning the bound of a pointer again, in a later sweep, changes       *)
(* nothing; what was derived from it cannot go stale.                      *)
LEMMA ExactBoundStable ==
    ASSUME TypeOK, Justified, i \in Positions(fn)
    PROVE  LET b == [bounds EXCEPT ![i] = ExactBound(Inst, bounds)]
           IN  /\ b \in [Values(fn) -> Words] => b[i] = ExactBound(Inst, bounds)
               /\ \A u \in transitives : b[u] = bounds[u]
               /\ i \in transitives => b = bounds
<1>1. i \in Values(fn)
  BY CodeAssumption DEF Positions, Values, Outside, TypeOK
<1>2. i \in transitives => bounds[i] = ExactBound(Inst, bounds)
  BY DEF Justified, Inst
<1>3. transitives \subseteq Values(fn)
  BY CodeAssumption DEF TypeOK, Positions, Values, Outside
<1>4. QED
  BY <1>1, <1>2, <1>3 DEF TypeOK

LEMMA NextJustified == TypeOK /\ Justified /\ [Next]_vars => Justified'
<1> SUFFICES ASSUME TypeOK, Justified, [Next]_vars PROVE Justified'
  OBVIOUS
<1>1. CASE Visit
  <2>1. i \in Positions(fn) /\ i \in Values(fn) /\ fn' = fn
    BY <1>1, VisitCases, CodeAssumption
       DEF Positions, Values, Outside, TypeOK, InsertExact, InsertInbound, PassOver, Advance
  <2>2. CASE /\ EarnsExact(Inst, inbounds, transitives, bounds)
             /\ InsertExact(ExactBound(Inst, bounds))
    <3>1. /\ inbounds' = inbounds \cup {i}
          /\ transitives' = transitives \cup {i}
          /\ bounds' = [bounds EXCEPT ![i] = ExactBound(Inst, bounds)]
      BY <2>2 DEF InsertExact, Advance
    <3>2. \A u \in transitives : bounds'[u] = bounds[u]
      BY <2>1, <3>1, ExactBoundStable
    <3>3. bounds'[i] = ExactBound(Inst, bounds)
      BY <2>1, <3>1 DEF TypeOK
    <3>4. EarnsInbound(Inst, inbounds, transitives, bounds)
      BY <2>2 DEF EarnsInbound, EarnsExact
    <3>. DEFINE Kept(inst) ==
           /\ EarnsExact(inst, inbounds, transitives, bounds) =>
                 /\ EarnsExact(inst, inbounds', transitives', bounds')
                 /\ ExactBound(inst, bounds') = ExactBound(inst, bounds)
           /\ EarnsInbound(inst, inbounds, transitives, bounds) =>
                 EarnsInbound(inst, inbounds', transitives', bounds')
    <3>5. \A inst : Kept(inst)
      <4>1. inbounds \subseteq inbounds' /\ transitives \subseteq transitives'
        BY <3>1
      <4>2. QED
        BY <3>2, <4>1, Monotone
    <3>6. ASSUME NEW v \in inbounds'
          PROVE  EarnsInbound(Code[fn][v], inbounds', transitives', bounds')
      <4>1. EarnsInbound(Code[fn][v], inbounds, transitives, bounds)
        BY <3>1, <3>4 DEF Justified, Inst
      <4>2. QED
        BY <3>5, <4>1
    <3>7. ASSUME NEW v \in transitives'
          PROVE  /\ EarnsExact(Code[fn][v], inbounds', transitives', bounds')
                 /\ bounds'[v] = ExactBound(Code[fn][v], bounds')
      <4>1. /\ EarnsExact(Code[fn][v], inbounds, transitives, bounds)
            /\ bounds'[v] = ExactBound(Code[fn][v], bounds)
        BY <2>2, <3>1, <3>2, <3>3 DEF Justified, Inst
      <4>2. QED
        BY <3>5, <4>1
    <3>8. QED
      BY <2>1, <3>6, <3>7 DEF Justified
  <2>3. CASE /\ EarnsInbound(Inst, inbounds, transitives, bounds)
             /\ InsertInbound
    <3>1. inbounds' = inbounds \cup {i} /\ UNCHANGED <<transitives, bounds>>
      BY <2>3 DEF InsertInbound, Advance
    <3>2. QED
      BY <2>1, <2>3, <3>1, Monotone DEF Justified, Inst
  <2>4. CASE PassOver
    BY <2>1, <2>4 DEF PassOver, Advance, Justified
  <2>5. QED
    BY <1>1, <2>2, <2>3, <2>4, VisitCases
<1>2. CASE EndSweep
  BY <1>2 DEF EndSweep, Justified
<1>3. CASE UNCHANGED vars
  BY <1>3 DEF vars, Justified
<1>4. QED
  BY <1>1, <1>2, <1>3 DEF Next

LEMMA InitJustified == Init => Justified
BY DEF Init, Justified

(* Nothing goes stale: whatever is in the containers is entitled to its    *)
(* place and its bound now, although entries were made earlier, with other *)
(* containers, and bounds are assigned anew in every sweep.                *)
THEOREM ContainersJustified == Spec => []Justified
<1>1. TypeOK /\ Justified /\ [Next]_vars => (TypeOK /\ Justified)'
  BY NextType, NextJustified
<1>2. QED
  BY <1>1, InitType, InitJustified, PTL DEF Spec

-----------------------------------------------------------------------------
(* While the changed flag stays down, a visit has changed nothing at all:  *)
(* not even a bound, which is assigned without touching the flag.          *)
LEMMA QuietVisit ==
    ASSUME TypeOK, Justified, Visit, ~changed'
    PROVE  /\ UNCHANGED <<fn, inbounds, transitives, bounds>>
           /\ ~changed
           /\ i' = i + 1
           /\ EarnsInbound(Inst, inbounds, transitives, bounds) => i \in inbounds
           /\ EarnsExact(Inst, inbounds, transitives, bounds) => i \in transitives
<1>1. i \in Positions(fn)
  BY VisitCases
<1>2. CASE /\ EarnsExact(Inst, inbounds, transitives, bounds)
           /\ InsertExact(ExactBound(Inst, bounds))
  <2>1. /\ inbounds' = inbounds /\ transitives' = transitives /\ ~changed
        /\ inbounds' = inbounds \cup {i} /\ transitives' = transitives \cup {i}
        /\ bounds' = [bounds EXCEPT ![i] = ExactBound(Inst, bounds)]
        /\ i' = i + 1 /\ fn' = fn
    BY <1>2 DEF InsertExact, Advance
  <2>2. i \in inbounds /\ i \in transitives
    BY <2>1
  <2>3. bounds' = bounds
    BY <1>1, <2>1, <2>2, ExactBoundStable
  <2>4. QED
    BY <2>1, <2>2, <2>3
<1>3. CASE /\ ~EarnsExact(Inst, inbounds, transitives, bounds)
           /\ InsertInbound
  <2>1. /\ inbounds' = inbounds /\ ~changed
        /\ inbounds' = inbounds \cup {i}
        /\ i' = i + 1 /\ UNCHANGED <<fn, transitives, bounds>>
    BY <1>3 DEF InsertInbound, Advance
  <2>2. QED
    BY <1>3, <2>1
<1>4. CASE /\ ~EarnsInbound(Inst, inbounds, transitives, bounds)
           /\ PassOver
  <2>1. ~EarnsExact(Inst, inbounds, transitives, bounds)
    BY <1>4 DEF EarnsInbound, EarnsExact
  <2>2. QED
    BY <1>4, <2>1 DEF PassOver, Advance
<1>5. QED
  BY <1>2, <1>3, <1>4, VisitCases

(* The analysis stops at the end of a sweep that changed nothing.          *)
StoppedClean == pc = "done" => ~changed /\ i > Len(Code[fn])

LEMMA InitSwept == Init => SweptClean /\ StoppedClean
BY DEF Init, SweptClean, StoppedClean

LEMMA NextSwept ==
    TypeOK /\ Justified /\ SweptClean /\ StoppedClean /\ [Next]_vars
        => (SweptClean /\ StoppedClean)'
<1> SUFFICES ASSUME TypeOK, Justified, SweptClean, StoppedClean, [Next]_vars
             PROVE  (SweptClean /\ StoppedClean)'
  OBVIOUS
<1>1. CASE Visit
  <2>1. pc = "sweep" /\ pc' = pc
    BY <1>1, VisitCases DEF InsertExact, InsertInbound, PassOver, Advance
  <2>2. ASSUME ~changed'
        PROVE  \A v \in 1 .. i' - 1 :
                  /\ EarnsInbound(Code[fn][v], inbounds, transitives, bounds) => v \in inbounds
                  /\ EarnsExact(Code[fn][v], inbounds, transitives, bounds) => v \in transitives
    <3>1. i \in Nat
      BY CodeAssumption DEF TypeOK
    <3>2. \A v \in 1 .. i' - 1 : v \in 1 .. i - 1 \/ v = i
      BY <1>1, <2>2, <3>1, QuietVisit
    <3>3. QED
      BY <1>1, <2>2, <3>2, QuietVisit DEF SweptClean, Inst
  <2>3. SweptClean'
    BY <1>1, <2>2, QuietVisit DEF SweptClean
  <2>4. QED
    BY <2>1, <2>3 DEF StoppedClean
<1>2. CASE EndSweep
  <2>1. CASE changed
    <3>1. i' = 1 /\ pc' = "sweep"
      BY <1>2, <2>1 DEF EndSweep
    <3>2. QED
      BY <3>1 DEF SweptClean, StoppedClean
  <2>2. CASE ~changed
    BY <1>2, <2>2 DEF EndSweep, SweptClean, StoppedClean
  <2>3. QED
    BY <2>1, <2>2
<1>3. CASE UNCHANGED vars
  BY <1>3 DEF vars, SweptClean, StoppedClean
<1>4. QED
  BY <1>1, <1>2, <1>3 DEF Next

(* The inductive invariant of contextFreeAnalysis.                         *)
SweepInv == TypeOK /\ Justified /\ SweptClean /\ StoppedClean

LEMMA SweepInvariant == Init /\ [][Next]_vars => []SweepInv
<1>1. Init => SweepInv
  BY InitType, InitJustified, InitSwept DEF SweepInv
<1>2. SweepInv /\ [Next]_vars => SweepInv'
  BY NextType, NextJustified, NextSwept DEF SweepInv
<1>3. QED
  BY <1>1, <1>2, PTL

(* The changed flag tells the truth: a sweep that has added nothing so far *)
(* has nothing left to add in the part it has passed, so that stopping     *)
(* after a quiet sweep leaves no pointer behind.                           *)
THEOREM ChangedFlagCorrect == Spec => []SweptClean
BY SweepInvariant, PTL DEF Spec, SweepInv

-----------------------------------------------------------------------------
(* The inference uses the same rules: the instance substitutes nothing     *)
(* in them.                                                                *)
LEMMA InferenceRules ==
    /\ \A inst, in, tr, b :
          /\ Inference!EarnsInbound(inst, in, tr, b) <=> EarnsInbound(inst, in, tr, b)
          /\ Inference!EarnsExact(inst, in, tr, b) <=> EarnsExact(inst, in, tr, b)
    /\ \A inst, b : Inference!ExactBound(inst, b) = ExactBound(inst, b)
    /\ \A f : /\ Inference!Positions(f) = Positions(f)
              /\ Inference!Values(f) = Values(f)
    /\ Inference!Functions = Functions
<1>1. \A inst :
         /\ Inference!IsAllocation(inst) <=> IsAllocation(inst)
         /\ Inference!ConstantAllocSize(inst) = ConstantAllocSize(inst)
  BY DEF Inference!IsAllocation, IsAllocation, Inference!ConstantAllocSize,
         ConstantAllocSize, Inference!HasConstSize, HasConstSize, Inference!SizeFactors,
         SizeFactors, Inference!RequestedSize, RequestedSize, Inference!Wrap, Wrap,
         Inference!SizedAllocators, SizedAllocators, Inference!TableAllocators,
         TableAllocators
<1>2. \A inst, in, tr, b :
         /\ Inference!GepKeepsBound(inst, in, tr, b) <=> GepKeepsBound(inst, in, tr, b)
         /\ Inference!CastKeepsBound(inst, in, tr, b) <=> CastKeepsBound(inst, in, tr, b)
         /\ Inference!AllInbounds(inst, in) <=> AllInbounds(inst, in)
  BY DEF Inference!GepKeepsBound, GepKeepsBound, Inference!GepInRange, GepInRange,
         Inference!CastKeepsBound, CastKeepsBound, Inference!AllInbounds, AllInbounds,
         Inference!Wrap, Wrap
<1>3. \A inst, b : Inference!ExactBound(inst, b) = ExactBound(inst, b)
  BY <1>1 DEF Inference!ExactBound, ExactBound, Inference!Wrap, Wrap
<1>4. \A inst, in, tr, b :
         Inference!EarnsExact(inst, in, tr, b) <=> EarnsExact(inst, in, tr, b)
  BY <1>1, <1>2 DEF Inference!EarnsExact, EarnsExact, Inference!HasExactSize, HasExactSize
<1>5. \A inst, in, tr, b :
         Inference!EarnsInbound(inst, in, tr, b) <=> EarnsInbound(inst, in, tr, b)
  BY <1>1, <1>2, <1>4 DEF Inference!EarnsInbound, EarnsInbound
<1>6. QED
  BY <1>3, <1>4, <1>5
     DEF Inference!Positions, Positions, Inference!Values, Values, Inference!Outside,
         Outside, Inference!Functions, Functions

LEMMA InferenceInit == Init => Inference!Init
BY InferenceRules DEF Init, Inference!Init

(* A visit derives a fact or changes nothing.                              *)
LEMMA InferenceVisit ==
    ASSUME TypeOK, Justified, Visit
    PROVE  [Inference!Next]_(Inference!vars)
<1>1. pc = "sweep" /\ pc' = "sweep" /\ fn' = fn /\ i \in Positions(fn)
  BY VisitCases DEF InsertExact, InsertInbound, PassOver, Advance
<1>2. CASE /\ EarnsExact(Inst, inbounds, transitives, bounds)
           /\ InsertExact(ExactBound(Inst, bounds))
  <2>1. /\ inbounds' = inbounds \cup {i} /\ transitives' = transitives \cup {i}
        /\ bounds' = [bounds EXCEPT ![i] = ExactBound(Inst, bounds)]
    BY <1>2 DEF InsertExact, Advance
  <2>2. CASE i \in transitives
    <3>1. bounds' = bounds
      BY <1>1, <2>1, <2>2, ExactBoundStable
    <3>2. inbounds' = inbounds /\ transitives' = transitives
      BY <2>1, <2>2 DEF TypeOK
    <3>3. QED
      BY <1>1, <3>1, <3>2 DEF Inference!vars
  <2>3. CASE i \notin transitives
    <3>1. Inference!DeriveExact(i)
      BY <1>1, <1>2, <2>1, <2>3, InferenceRules DEF Inference!DeriveExact, Inst
    <3>2. QED
      BY <1>1, <3>1, InferenceRules DEF Inference!Next
  <2>4. QED
    BY <2>2, <2>3
<1>3. CASE /\ EarnsInbound(Inst, inbounds, transitives, bounds)
           /\ ~EarnsExact(Inst, inbounds, transitives, bounds)
           /\ InsertInbound
  <2>1. inbounds' = inbounds \cup {i} /\ UNCHANGED <<transitives, bounds>>
    BY <1>3 DEF InsertInbound, Advance
  <2>2. CASE i \in inbounds
    BY <1>1, <2>1, <2>2 DEF Inference!vars
  <2>3. CASE i \notin inbounds
    <3>1. Inference!DeriveInbound(i)
      BY <1>1, <1>3, <2>1, <2>3, InferenceRules DEF Inference!DeriveInbound, Inst
    <3>2. QED
      BY <1>1, <3>1, InferenceRules DEF Inference!Next
  <2>4. QED
    BY <2>2, <2>3
<1>4. CASE PassOver
  BY <1>1, <1>4 DEF PassOver, Advance, Inference!vars
<1>5. QED
  BY <1>2, <1>3, <1>4, VisitCases

(* The end of a sweep stops the inference only when it is complete.        *)
LEMMA InferenceEndSweep ==
    ASSUME TypeOK, SweptClean, EndSweep
    PROVE  [Inference!Next]_(Inference!vars)
<1>1. pc = "sweep" /\ UNCHANGED <<fn, inbounds, transitives, bounds>>
  BY DEF EndSweep
<1>2. CASE changed
  <2>1. pc' = pc
    BY <1>2 DEF EndSweep
  <2>2. QED
    BY <1>1, <2>1 DEF Inference!vars
<1>3. CASE ~changed
  <2>1. pc' = "done"
    BY <1>3 DEF EndSweep
  <2>2. Positions(fn) \subseteq 1 .. i - 1
    BY CodeAssumption DEF TypeOK, EndSweep, Positions
  <2>3. \A v \in Positions(fn) : Inference!Underivable(v)
    BY <1>3, <2>2, InferenceRules DEF SweptClean, Inference!Underivable
  <2>4. Inference!Stop
    BY <1>1, <2>1, <2>3, InferenceRules DEF Inference!Stop
  <2>5. QED
    BY <1>1, <2>4 DEF Inference!Next
<1>4. QED
  BY <1>2, <1>3

(* contextFreeAnalysis implements the inference: each sweep, in whatever   *)
(* order the blocks are laid out, derives justified facts only, and the    *)
(* do-while loop does not end before all of them are derived.              *)
THEOREM SweepsImplementInference == Spec => ImplementsInference
<1>1. SweepInv /\ [Next]_vars => [Inference!Next]_(Inference!vars)
  <2> SUFFICES ASSUME SweepInv, [Next]_vars
               PROVE  [Inference!Next]_(Inference!vars)
    OBVIOUS
  <2>1. CASE Visit
    BY <2>1, InferenceVisit DEF SweepInv
  <2>2. CASE EndSweep
    BY <2>2, InferenceEndSweep DEF SweepInv
  <2>3. CASE UNCHANGED vars
    BY <2>3 DEF vars, Inference!vars
  <2>4. QED
    BY <2>1, <2>2, <2>3 DEF Next
<1>2. QED
  BY <1>1, InferenceInit, SweepInvariant, PTL DEF Spec, ImplementsInference, Inference!Spec

-----------------------------------------------------------------------------
(* Execution                                                               *)

RunPointers == [size : Nat, off : Int]

Sound(v, p) == Addresses(p, Code[fn][v].deref)

Exact(v, p) == p.off + bounds[v] = p.size

(* The inductive invariant: beside InboundsSound, the bound of a           *)
(* transitive pointer is the distance to the end of its object.            *)
RunInv ==
    /\ SweepInv
    /\ ptr \in [Positions(fn) -> RunPointers \cup {NoPointer}]
    /\ pc # "done" => \A v \in Positions(fn) : ptr[v] = NoPointer
    /\ \A v \in inbounds : ptr[v] # NoPointer => Sound(v, ptr[v])
    /\ \A v \in transitives : ptr[v] # NoPointer => Exact(v, ptr[v])

-----------------------------------------------------------------------------
LEMMA RunInit_RunInv == RunInit /\ SweepInv => RunInv
BY DEF RunInit, RunInv, SweepInv, TypeOK

LEMMA AnalysisStep ==
    ASSUME RunInv, SweepInv', Next, UNCHANGED ptr
    PROVE  RunInv'
<1>1. pc = "sweep" /\ fn' = fn
  BY DEF Next, Visit, VisitAllocation, VisitPhi, VisitGep, VisitCast, VisitOther, AtInst,
         EndSweep, InsertExact, InsertInbound, PassOver, Advance
<1>2. \A v \in Positions(fn) : ptr[v] = NoPointer
  BY <1>1 DEF RunInv
<1>3. inbounds' \subseteq Positions(fn) /\ transitives' \subseteq Positions(fn)
  BY <1>1 DEF SweepInv, TypeOK, Positions
<1>4. QED
  BY <1>1, <1>2, <1>3 DEF RunInv, Positions

(* A new value that is as the containers say keeps the invariant.          *)
LEMMA ProduceStep ==
    ASSUME RunInv, SweepInv', pc = "done", UNCHANGED vars,
           NEW v \in Positions(fn), NEW p \in RunPointers, Produce(v, p),
           v \in inbounds => Sound(v, p),
           v \in transitives => Exact(v, p)
    PROVE  RunInv'
<1>1. ptr' \in [Positions(fn) -> RunPointers \cup {NoPointer}]
  BY DEF RunInv, Produce
<1>2. \A u \in Positions(fn) : ptr'[u] = IF u = v THEN p ELSE ptr[u]
  BY DEF RunInv, Produce
<1>3. inbounds \subseteq Positions(fn) /\ transitives \subseteq Positions(fn)
  BY DEF RunInv, SweepInv, TypeOK
<1>4. QED
  BY <1>1, <1>2, <1>3 DEF RunInv, vars, Sound, Exact, Positions

-----------------------------------------------------------------------------
(* What the containers say of an operand that has a value.                 *)
LEMMA OperandFacts ==
    ASSUME RunInv, NEW u \in Values(fn), NEW p \in OperandValues(u)
    PROVE  /\ p \in RunPointers
           /\ u \in inbounds => Sound(u, p)
           /\ u \in transitives => Exact(u, p)
<1>1. CASE u = Outside
  <2>1. u \notin inbounds /\ u \notin transitives
    BY <1>1, CodeAssumption DEF RunInv, SweepInv, TypeOK, Positions, Outside
  <2>2. p \in RunPointers
    BY <1>1, PointersAssumption DEF OperandValues, Pointers, RunPointers
  <2>3. QED
    BY <2>1, <2>2
<1>2. CASE u # Outside
  <2>1. u \in Positions(fn)
    BY <1>2, CodeAssumption DEF RunInv, SweepInv, TypeOK, Values, Positions, Outside
  <2>2. p = ptr[u] /\ p # NoPointer
    BY <1>2 DEF OperandValues
  <2>3. QED
    BY <2>1, <2>2 DEF RunInv
<1>3. QED
  BY <1>1, <1>2

(* Each kind of instruction produces a pointer as good as promised.        *)
Good(v) == \E p \in RunPointers :
               /\ Produce(v, p)
               /\ v \in inbounds => Sound(v, p)
               /\ v \in transitives => Exact(v, p)

LEMMA AllocationGood ==
    ASSUME RunInv, NEW v \in Positions(fn), WellTyped(fn), RunAllocation(v)
    PROVE  Good(v)
<1>. DEFINE inst == Code[fn][v]
<1>1. fn \in Functions
  BY DEF RunInv, SweepInv, TypeOK
<1>2. inst \in Insts(Values(fn), {"other"}) /\ Arity(inst)
  BY <1>1, InstType
<1>3. PICK p \in Allocated(inst) : Produce(v, p)
  BY DEF RunAllocation
<1>4. CASE HasConstSize(inst)
  <2>1. p = [size |-> RequestedSize(inst), off |-> 0] /\ RequestedSize(inst) < Word
    BY <1>3, <1>4 DEF Allocated
  <2>2. inst.deref \in Nat /\ inst.deref <= RequestedSize(inst)
    BY <1>2, <1>4 DEF WellTyped, RunAllocation, Insts, Words
  <2>3. RequestedSize(inst) \in Nat
    BY <1>2, <1>4, FactorsType
  <2>4. ConstantAllocSize(inst) = RequestedSize(inst)
    BY <1>4, <2>1, <2>3, WordAssumption, WrapWord DEF ConstantAllocSize, Words
  <2>5. Sound(v, p)
    BY <2>1, <2>2, <2>3 DEF Sound, Addresses
  <2>6. v \in transitives => Exact(v, p)
    <3>1. v \in transitives => bounds[v] = ExactBound(inst, bounds)
      BY DEF RunInv, SweepInv, Justified
    <3>2. ExactBound(inst, bounds) = RequestedSize(inst)
      BY <2>4 DEF ExactBound, RunAllocation, IsAllocation
    <3>3. QED
      BY <2>1, <2>3, <3>1, <3>2 DEF Exact
  <2>7. p \in RunPointers
    BY <2>1, <2>3 DEF RunPointers
  <2>8. QED
    BY <1>3, <2>5, <2>6, <2>7 DEF Good
<1>5. CASE ~HasConstSize(inst)
  <2>1. p \in Pointers /\ Addresses(p, inst.deref)
    BY <1>3, <1>5 DEF Allocated
  <2>2. p \in RunPointers
    BY <2>1, PointersAssumption DEF Pointers, RunPointers
  <2>3. v \notin transitives
    <3>1. v \in transitives => EarnsExact(inst, inbounds, transitives, bounds)
      BY DEF RunInv, SweepInv, Justified
    <3>2. ~EarnsExact(inst, inbounds, transitives, bounds)
      BY <1>5 DEF RunAllocation, EarnsExact, HasExactSize, ConstantAllocSize, IsAllocation
    <3>3. QED
      BY <3>1, <3>2
  <2>4. QED
    BY <1>3, <2>1, <2>2, <2>3 DEF Good, Sound
<1>6. QED
  BY <1>4, <1>5

LEMMA PhiGood ==
    ASSUME RunInv, NEW v \in Positions(fn), WellTyped(fn), RunPhi(v)
    PROVE  Good(v)
<1>. DEFINE inst == Code[fn][v]
<1>1. fn \in Functions
  BY DEF RunInv, SweepInv, TypeOK
<1>2. inst \in Insts(Values(fn), {"other"})
  BY <1>1, InstType
<1>3. PICK k \in DOMAIN inst.operands :
         \E p \in OperandValues(inst.operands[k]) : Produce(v, p)
  BY DEF RunPhi
<1>4. PICK p \in OperandValues(inst.operands[k]) : Produce(v, p)
  BY <1>3
<1>. DEFINE u == inst.operands[k]
<1>5. u \in Values(fn)
  BY <1>2 DEF Insts
<1>6. /\ p \in RunPointers
      /\ u \in inbounds => Sound(u, p)
  BY <1>4, <1>5, OperandFacts
<1>7. v \notin transitives
  BY DEF RunPhi, RunInv, SweepInv, Justified, EarnsExact, HasExactSize, IsAllocation
<1>8. ASSUME v \in inbounds
      PROVE  Sound(v, p)
  <2>1. EarnsInbound(inst, inbounds, transitives, bounds)
    BY <1>8 DEF RunInv, SweepInv, Justified
  <2>2. AllInbounds(inst, inbounds)
    BY <2>1 DEF RunPhi, EarnsInbound, EarnsExact, HasExactSize, IsAllocation
  <2>3. u \in inbounds
    BY <2>2 DEF AllInbounds
  <2>4. u # Outside
    BY <2>3, CodeAssumption DEF RunInv, SweepInv, TypeOK, Positions, Outside
  <2>5. Code[fn][u].deref = inst.deref
    BY <2>4 DEF WellTyped, RunPhi
  <2>6. QED
    BY <1>6, <2>3, <2>5 DEF Sound
<1>9. QED
  BY <1>4, <1>6, <1>7, <1>8 DEF Good

LEMMA GepGood ==
    ASSUME RunInv, NEW v \in Positions(fn), StepsForward(fn), RunGep(v)
    PROVE  Good(v)
<1>. DEFINE inst == Code[fn][v]
            u == inst.operands[1]
            off == inst.consts[1]
<1>1. fn \in Functions
  BY DEF RunInv, SweepInv, TypeOK
<1>2. inst \in Insts(Values(fn), {"other"}) /\ Arity(inst) /\ inst.op = "gep"
  BY <1>1, InstType DEF RunGep
<1>3. u \in Values(fn) /\ off \in Words \cup {NonConst} /\ inst.deref \in Words
  BY <1>2 DEF Insts, Arity
<1>4. PICK p \in OperandValues(u) : \E q \in Stepped(inst, p) : Produce(v, q)
  BY DEF RunGep
<1>5. /\ p \in RunPointers
      /\ u \in transitives => Exact(u, p)
      /\ u \in inbounds => Sound(u, p)
  BY <1>3, <1>4, OperandFacts
<1>6. v \in inbounds \/ v \in transitives =>
         GepKeepsBound(inst, inbounds, transitives, bounds)
  BY <1>2 DEF RunInv, SweepInv, Justified, EarnsInbound, EarnsExact, HasExactSize,
     IsAllocation
<1>7. CASE off = NonConst
  <2>1. v \notin inbounds /\ v \notin transitives
    BY <1>6, <1>7 DEF GepKeepsBound, GepInRange
  <2>2. PICK o \in Offsets : Produce(v, [p EXCEPT !.off = o])
    BY <1>4, <1>7 DEF Stepped
  <2>3. [p EXCEPT !.off = o] \in RunPointers
    BY <1>5, <2>2, PointersAssumption DEF RunPointers
  <2>4. QED
    BY <2>1, <2>2, <2>3 DEF Good
<1>8. CASE off # NonConst
  <2>. DEFINE q == [p EXCEPT !.off = @ + Signed(off)]
  <2>1. off \in Nat /\ inst.deref \in Nat
    BY <1>3, <1>8 DEF Words
  <2>2. Signed(off) \in Int
    BY <2>1, WordAssumption DEF Signed
  <2>3. q \in RunPointers /\ q.off = p.off + Signed(off) /\ q.size = p.size
    BY <1>5, <2>2 DEF RunPointers
  <2>4. Produce(v, q)
    BY <1>4, <1>8 DEF Stepped
  <2>5. ASSUME GepKeepsBound(inst, inbounds, transitives, bounds)
        PROVE  Sound(v, q) /\ bounds[u] - off \in Words /\ q.off + (bounds[u] - off) = q.size
    <3>1. 2 * inst.deref < Word /\ 2 * off < Word
      BY <1>2, <1>8 DEF StepsForward
    <3>2. Signed(off) = off /\ Wrap(off + inst.deref) = off + inst.deref
      BY <2>1, <3>1, WordAssumption, WrapWord DEF Signed, Words
    <3>3. bounds[u] \in Words
      BY <1>3 DEF RunInv, SweepInv, TypeOK
    <3>4. off + inst.deref <= bounds[u]
      BY <2>5, <3>2 DEF GepKeepsBound, GepInRange
    <3>5. p.off >= 0 /\ p.off + bounds[u] = p.size
      BY <1>5, <2>5 DEF GepKeepsBound, Sound, Exact, Addresses
    <3>6. p.off \in Int /\ p.size \in Nat
      BY <1>5 DEF RunPointers
    <3>7. bounds[u] - off \in Words
      <4>1. \A b \in Words, o, d \in Nat : o + d <= b => b - o \in Words
        BY WordAssumption DEF Words
      <4>2. QED
        BY <2>1, <3>3, <3>4, <4>1
    <3>8. QED
      BY <2>1, <2>3, <3>2, <3>3, <3>4, <3>5, <3>6, <3>7 DEF Sound, Addresses, Words
  <2>6. v \in inbounds => Sound(v, q)
    BY <1>6, <2>5
  <2>7. ASSUME v \in transitives
        PROVE  Exact(v, q)
    <3>1. bounds[v] = Wrap(bounds[u] - off)
      BY <1>2, <2>7 DEF RunInv, SweepInv, Justified, ExactBound
    <3>2. bounds[v] = bounds[u] - off
      BY <1>6, <2>5, <2>7, <3>1, WrapWord
    <3>3. QED
      BY <1>6, <2>5, <2>7, <3>2 DEF Exact
  <2>8. QED
    BY <2>3, <2>4, <2>6, <2>7 DEF Good
<1>9. QED
  BY <1>7, <1>8

LEMMA CastGood ==
    ASSUME RunInv, NEW v \in Positions(fn), RunCast(v)
    PROVE  Good(v)
<1>. DEFINE inst == Code[fn][v]
            u == inst.operands[1]
<1>1. fn \in Functions
  BY DEF RunInv, SweepInv, TypeOK
<1>2. inst \in Insts(Values(fn), {"other"}) /\ inst.op = "cast"
  BY <1>1, InstType DEF RunCast
<1>3. v \in inbounds \/ v \in transitives =>
         CastKeepsBound(inst, inbounds, transitives, bounds)
  BY <1>2 DEF RunInv, SweepInv, Justified, EarnsInbound, EarnsExact, HasExactSize,
     IsAllocation
<1>4. CASE inst.operands = <<>>
  <2>1. PICK p \in Pointers : Produce(v, p)
    BY <1>4 DEF RunCast
  <2>2. p \in RunPointers
    BY PointersAssumption DEF Pointers, RunPointers
  <2>3. v \notin inbounds /\ v \notin transitives
    BY <1>3, <1>4 DEF CastKeepsBound
  <2>4. QED
    BY <2>1, <2>2, <2>3 DEF Good
<1>5. CASE inst.operands # <<>>
  <2>1. PICK p \in OperandValues(u) : Produce(v, p)
    BY <1>5 DEF RunCast
  <2>2. u \in Values(fn) /\ inst.deref \in Nat
    BY <1>2, <1>5 DEF Insts, Words
  <2>3. /\ p \in RunPointers
        /\ u \in transitives => Exact(u, p)
        /\ u \in inbounds => Sound(u, p)
    BY <2>1, <2>2, OperandFacts
  <2>4. ASSUME CastKeepsBound(inst, inbounds, transitives, bounds)
        PROVE  Sound(v, p) /\ Exact(u, p)
    <3>1. p.off >= 0 /\ p.off + bounds[u] = p.size /\ inst.deref <= bounds[u]
      BY <2>3, <2>4 DEF CastKeepsBound, Sound, Exact, Addresses
    <3>2. p.off \in Int /\ p.size \in Nat /\ bounds[u] \in Nat
      BY <2>2, <2>3 DEF RunPointers, RunInv, SweepInv, TypeOK, Words
    <3>3. QED
      BY <2>2, <3>1, <3>2 DEF Sound, Exact, Addresses
  <2>5. v \in transitives => bounds[v] = bounds[u]
    BY <1>2 DEF RunInv, SweepInv, Justified, ExactBound
  <2>6. QED
    BY <1>3, <2>1, <2>3, <2>4, <2>5 DEF Good, Exact
<1>6. QED
  BY <1>4, <1>5

LEMMA OtherGood ==
    ASSUME RunInv, NEW v \in Positions(fn), RunOther(v)
    PROVE  Good(v)
<1>1. PICK p \in Pointers : Produce(v, p)
  BY DEF RunOther
<1>2. p \in RunPointers
  BY PointersAssumption DEF Pointers, RunPointers
<1>3. v \notin inbounds /\ v \notin transitives
  BY DEF RunOther, RunInv, SweepInv, Justified, EarnsInbound, EarnsExact, HasExactSize,
     IsAllocation
<1>4. QED
  BY <1>1, <1>2, <1>3 DEF Good

-----------------------------------------------------------------------------
LEMMA RunStep ==
    ASSUME RunInv, SweepInv', [RunNext]_runVars,
           \A f \in Functions : WellTyped(f) /\ StepsForward(f)
    PROVE  RunInv'
<1>1. CASE Next /\ UNCHANGED ptr
  BY <1>1, AnalysisStep
<1>2. ASSUME pc = "done", UNCHANGED vars, NEW v \in Positions(fn), Run(v)
      PROVE  RunInv'
  <2>1. WellTyped(fn) /\ StepsForward(fn)
    BY DEF RunInv, SweepInv, TypeOK
  <2>2. Good(v)
    BY <1>2, <2>1, AllocationGood, PhiGood, GepGood, CastGood,
       OtherGood DEF Run
  <2>3. PICK p \in RunPointers : /\ Produce(v, p)
                                 /\ v \in inbounds => Sound(v, p)
                                 /\ v \in transitives => Exact(v, p)
    BY <2>2 DEF Good
  <2>4. QED
    BY <1>2, <2>3, ProduceStep
<1>3. CASE UNCHANGED runVars
  BY <1>3 DEF runVars, vars, RunInv, Sound, Exact, Positions
<1>4. QED
  BY <1>1, <1>2, <1>3 DEF RunNext

(* contextFreeAnalysis is sound for modules that step forward: whatever    *)
(* the control flow, whatever values arguments, loads and calls have, a    *)
(* pointer in inbounds never leaves its object.                            *)
THEOREM ContextFreeSound ==
    ASSUME \A f \in Functions : WellTyped(f) /\ StepsForward(f)
    PROVE  RunSpec => []InboundsSound
<1>1. RunInit => Init
  BY DEF RunInit
<1>2. [RunNext]_runVars => [Next]_vars
  BY DEF RunNext, runVars
<1>3. RunInit /\ SweepInv => RunInv
  BY RunInit_RunInv
<1>4. RunInv /\ SweepInv' /\ [RunNext]_runVars => RunInv'
  BY RunStep
<1>5. RunInv => InboundsSound
  BY DEF RunInv, InboundsSound, Sound
<1>6. QED
  BY <1>1, <1>2, <1>3, <1>4, <1>5, SweepInvariant, PTL DEF RunSpec
=============================================================================
