----------------------------- MODULE FunctionRun -----------------------------
(***************************************************************************)
(* The meaning of contextFreeAnalysis: once it is done the function runs,  *)
(* and a pointer the analysis put into inbounds must, whenever it has a    *)
(* value, address a whole pointee inside one object.                       *)
(*                                                                         *)
(* The control flow of the function is left open: an instruction may       *)
(* execute whenever its operands have values, which includes every path    *)
(* through every control-flow graph.                                       *)
(***************************************************************************)
EXTENDS ContextFree, PointerValues

VARIABLE ptr        \* the current value of every instruction

runVars == <<vars, ptr>>

(* An operand that is no instruction may be any pointer.                   *)
OperandValues(v) == IF v = Outside THEN Pointers ELSE {ptr[v]} \ {NoPointer}

-----------------------------------------------------------------------------
RunInit == Init /\ ptr = [v \in Positions(fn) |-> NoPointer]

Produce(v, p) ==
    /\ p.off \in Offsets
    /\ ptr' = [ptr EXCEPT ![v] = p]

RunAllocation(v) ==
    /\ IsAllocation(Code[fn][v])
    /\ \E p \in Allocated(Code[fn][v]) : Produce(v, p)

RunPhi(v) ==
    /\ Code[fn][v].op = "phi"
    /\ \E k \in DOMAIN Code[fn][v].operands :
          \E p \in OperandValues(Code[fn][v].operands[k]) : Produce(v, p)

RunGep(v) ==
    /\ Code[fn][v].op = "gep"
    /\ \E p \in OperandValues(Code[fn][v].operands[1]) :
          \E q \in Stepped(Code[fn][v], p) : Produce(v, q)

RunCast(v) ==
    /\ Code[fn][v].op = "cast"
    /\ IF Code[fn][v].operands = <<>>
       THEN \E p \in Pointers : Produce(v, p)
       ELSE \E p \in OperandValues(Code[fn][v].operands[1]) : Produce(v, p)

RunOther(v) ==
    /\ Code[fn][v].op \in {"load", "store"} \/ (Code[fn][v].op = "call" /\ ~IsAllocation(Code[fn][v]))
    /\ \E p \in Pointers : Produce(v, p)

Run(v) ==
    /\ Code[fn][v].isPtr
    /\ \/ RunAllocation(v)
       \/ RunPhi(v)
       \/ RunGep(v)
       \/ RunCast(v)
       \/ RunOther(v)

RunNext ==
    \/ Next /\ UNCHANGED ptr
    \/ pc = "done" /\ UNCHANGED vars /\ \E v \in Positions(fn) : Run(v)

RunSpec == RunInit /\ [][RunNext]_runVars

-----------------------------------------------------------------------------
(***************************************************************************)
(* What the front end guarantees of a function. An allocation of constant  *)
(* size holds at least one pointee, and a phi joins pointers of one type.  *)
(***************************************************************************)
WellTyped(f) ==
    \A v \in Positions(f) :
        LET inst == Code[f][v]
        IN  /\ IsAllocation(inst) /\ HasConstSize(inst) => inst.deref <= RequestedSize(inst)
            /\ inst.op = "phi" =>
                 \A k \in DOMAIN inst.operands :
                     LET u == inst.operands[k]
                     IN  u # Outside => Code[f][u].deref = inst.deref

(***************************************************************************)
(* No getelementptr steps back, and no type is larger than half of the     *)
(* address space: then the uint64_t sum of the range test cannot wrap.     *)
(***************************************************************************)
StepsForward(f) ==
    \A v \in Positions(f) :
        LET inst == Code[f][v]
        IN  /\ 2 * inst.deref < Word
            /\ inst.op = "gep" /\ inst.consts[1] # NonConst => 2 * inst.consts[1] < Word

(***************************************************************************)
(* The promise of the analysis: a pointer in inbounds addresses a whole    *)
(* pointee of its type, whatever the run made of its operands.             *)
(***************************************************************************)
InboundsSound ==
    \A v \in inbounds : ptr[v] # NoPointer => Addresses(ptr[v], Code[fn][v].deref)
=============================================================================
