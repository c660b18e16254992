------------------------------ MODULE ModuleRun ------------------------------
(***************************************************************************)
(* The meaning of objectPass and annotateValue: once the analysis is over  *)
(* the module runs from main, and a value the analysis put into the local  *)
(* set of a function must address a whole pointee in every activation of   *)
(* that function. A memory access whose pointer is in the local set is     *)
(* the one annotateValue marks "in", so that its check is left out.        *)
(*                                                                         *)
(* Branches go either way, a phi takes any operand that has a value, and   *)
(* what loads and unknown functions return is arbitrary.                   *)
(***************************************************************************)
EXTENDS ObjectPass, PointerValues

CONSTANT MaxDepth   \* activations at a time

VARIABLE calls      \* the run-time stack, the running activation last

runVars == <<vars, calls>>

Running == calls[Len(calls)]
RunFun == Running.fun
RunBlock == Block(mod, RunFun, Running.node)
RunInst == Fun(mod, RunFun).insts[Running.k]

(* A fresh activation of f, whose arguments have these values.             *)
Activate(f, args) ==
    [fun  |-> f,
     node |-> 1,
     k    |-> Block(mod, f, 1).first,
     vals |-> [v \in ValuesOf(mod, f) |->
                 CASE v \in ArgsOf(mod, f) -> args[CHOOSE j \in DOMAIN args : Arg(j) = v]
                   [] v \in GlobalsOf(mod) ->
                        [size |-> Modules[mod].globals[CHOOSE j \in DOMAIN Modules[mod].globals :
                                                          Global(j) = v],
                         off |-> 0]
                   [] OTHER -> NoPointer]]

(* What has no name in the module may be any pointer.                      *)
ValuesAt(v) == IF v = Outside THEN Pointers ELSE {Running.vals[v]} \ {NoPointer}

-----------------------------------------------------------------------------
RunInit ==
    /\ Init
    /\ \E args \in [(IF "main" \in FunsOf(mod) THEN DOMAIN Fun(mod, "main").params ELSE {})
                       -> Pointers] :
          calls = IF "main" \in FunsOf(mod) THEN <<Activate("main", args)>> ELSE <<>>

AtRunInst ==
    /\ Done
    /\ calls # <<>>
    /\ Running.k <= RunBlock.last

SetRunning(a) == calls' = [calls EXCEPT ![Len(calls)] = a] /\ UNCHANGED vars

Produce(p) ==
    /\ p.off \in Offsets
    /\ SetRunning([Running EXCEPT !.vals[Running.k] = p, !.k = @ + 1])

RunAllocation ==
    /\ AtRunInst
    /\ IsAllocation(RunInst)
    /\ \E p \in Allocated(RunInst) : Produce(p)

RunPhi ==
    /\ AtRunInst
    /\ RunInst.op = "phi"
    /\ \E j \in DOMAIN RunInst.operands : \E p \in ValuesAt(RunInst.operands[j]) : Produce(p)

RunGep ==
    /\ AtRunInst
    /\ RunInst.op = "gep"
    /\ \E p \in ValuesAt(RunInst.operands[1]) : \E q \in Stepped(RunInst, p) : Produce(q)

RunCast ==
    /\ AtRunInst
    /\ RunInst.op = "cast"
    /\ \E p \in (IF RunInst.operands = <<>> THEN Pointers ELSE ValuesAt(RunInst.operands[1])) :
          Produce(p)

(* fgets, strcpy, signal, freopen, ...: the argument itself.               *)
RunReturnsArgument ==
    /\ AtRunInst
    /\ RunInst.op = "call"
    /\ RunInst.callee \in ReturnsArgument
    /\ \E p \in ValuesAt(ReturnedArg(RunInst)) : Produce(p)

(* Functions whose body is not known.                                      *)
Opaque(inst) ==
    /\ inst.op = "call"
    /\ \/ inst.callee \in {"indirect", "noop"}
       \/ (inst.callee \in FunsOf(mod) /\ Fun(mod, inst.callee).blocks = <<>>)

RunOther ==
    /\ AtRunInst
    /\ RunInst.op \in {"load", "store"} \/ Opaque(RunInst)
    /\ IF RunInst.isPtr
       THEN \E p \in Pointers : Produce(p)
       ELSE SetRunning([Running EXCEPT !.k = @ + 1])

RunCall ==
    /\ AtRunInst
    /\ RunInst.op = "call"
    /\ RunInst.callee \in FunsOf(mod)
    /\ Fun(mod, RunInst.callee).blocks # <<>>
    /\ Len(calls) < MaxDepth
    /\ LET ops == RunInst.operands
       IN  \E args \in [DOMAIN ops -> UNION {ValuesAt(ops[j]) : j \in DOMAIN ops}] :
              /\ \A j \in DOMAIN ops : args[j] \in ValuesAt(ops[j])
              /\ calls' = Append(calls, Activate(RunInst.callee, args))
    /\ UNCHANGED vars

RunBranch ==
    /\ Done
    /\ calls # <<>>
    /\ Running.k > RunBlock.last
    /\ \E n \in RunBlock.succs :
          SetRunning([Running EXCEPT !.node = n, !.k = Block(mod, RunFun, n).first])

RunReturn ==
    /\ Done
    /\ calls # <<>>
    /\ Running.k > RunBlock.last
    /\ RunBlock.ret # <<>>
    /\ UNCHANGED vars
    /\ IF Len(calls) = 1
       THEN calls' = <<>>
       ELSE LET rest   == SubSeq(calls, 1, Len(calls) - 1)
                caller == rest[Len(rest)]
                resume == [caller EXCEPT !.k = @ + 1]
            IN  IF Fun(mod, RunFun).retPtr
                THEN \E p \in ValuesAt(RunBlock.ret[1]) :
                       calls' = [rest EXCEPT ![Len(rest)] = [resume EXCEPT !.vals[caller.k] = p]]
                ELSE calls' = [rest EXCEPT ![Len(rest)] = resume]

RunStep ==
    \/ RunAllocation \/ RunPhi \/ RunGep \/ RunCast \/ RunReturnsArgument \/ RunOther
    \/ RunCall \/ RunBranch \/ RunReturn

RunNext == (Next /\ UNCHANGED calls) \/ RunStep

RunSpec == RunInit /\ [][RunNext]_runVars

-----------------------------------------------------------------------------
(* The pointee size of a value's type.                                     *)
PointeeSize(m, f, v) ==
    CASE v \in PositionsOf(m, f) -> Fun(m, f).insts[v].deref
      [] v \in ArgsOf(m, f)      -> Fun(m, f).params[CHOOSE j \in DOMAIN Fun(m, f).params :
                                                          Arg(j) = v]
      [] v \in GlobalsOf(m)      -> Modules[m].globals[CHOOSE j \in DOMAIN Modules[m].globals :
                                                          Global(j) = v]
      [] OTHER                   -> 0

(***************************************************************************)
(* Leaving out a check is safe: in every activation, a value of local      *)
(* addresses a whole pointee of its type, whoever called the function and  *)
(* with what arguments.                                                    *)
(***************************************************************************)
LocalSound ==
    Done => \A j \in DOMAIN calls :
        \A v \in local[calls[j].fun] :
            calls[j].vals[v] # NoPointer =>
                Addresses(calls[j].vals[v], PointeeSize(mod, calls[j].fun, v))

(***************************************************************************)
(* annotateValue: an access is marked "in" if its pointer is in local. The *)
(* other half of the test asks whether contextFree holds the access itself *)
(* instead of its pointer, and no access is ever in that set.              *)
(***************************************************************************)
InBound(f, inst) ==
    /\ inst.op \in {"load", "store"}
    /\ inst.operands[1] \in local[f] \ NotSeen

(***************************************************************************)
(* No access that is marked "in" leaves its object when it executes.       *)
(***************************************************************************)
AccessesInBounds ==
    AtRunInst /\ InBound(RunFun, RunInst) =>
        LET p == RunInst.operands[1]
        IN  Running.vals[p] # NoPointer =>
                Addresses(Running.vals[p], PointeeSize(mod, RunFun, p))
-----------------------------------------------------------------------------
(***************************************************************************)
(* The modules for which the analysis keeps its promise. What the front    *)
(* end guarantees: an allocation of constant size holds a pointee, and     *)
(* what stands for a value of some type (an incoming value of a phi, an    *)
(* argument, a result) points to no less than that type says.              *)
(***************************************************************************)
Suits(m, f, v, size) == v # Outside => size <= PointeeSize(m, f, v)

WellTyped(m) ==
    \A f \in FunsOf(m) : \A v \in PositionsOf(m, f) :
        LET inst == Fun(m, f).insts[v]
            callee == Fun(m, inst.callee)
        IN  /\ IsAllocation(inst) /\ HasConstSize(inst) => inst.deref <= RequestedSize(inst)
            /\ inst.op = "phi" =>
                 \A k \in DOMAIN inst.operands : Suits(m, f, inst.operands[k], inst.deref)
            /\ inst.op = "call" /\ inst.callee \in ReturnsArgument =>
                 /\ ReturnedArg(inst) \in ValuesOf(m, f)
                 /\ Suits(m, f, ReturnedArg(inst), inst.deref)
            /\ inst.op = "call" /\ inst.callee \in FunsOf(m) =>
                 /\ \A k \in DOMAIN callee.params :
                       Suits(m, f, inst.operands[k], callee.params[k])
                 /\ \A n \in BlocksOf(m, inst.callee) :
                       \A k \in DOMAIN Block(m, inst.callee, n).ret :
                          Suits(m, inst.callee, Block(m, inst.callee, n).ret[k], inst.deref)

(***************************************************************************)
(* No getelementptr steps back, no type is larger than half of the address *)
(* space, and no size a call allocates than half of the range of int: no   *)
(* sum of the range test wraps and no size changes on its way.             *)
(***************************************************************************)
StepsForward(m) ==
    \A f \in FunsOf(m) : \A v \in PositionsOf(m, f) :
        LET inst == Fun(m, f).insts[v]
        IN  /\ 2 * inst.deref < Word
            /\ inst.op = "gep" /\ inst.consts[1] # NonConst => 2 * inst.consts[1] < Word
            /\ inst.op = "call" /\ HasConstSize(inst) => 2 * RequestedSize(inst) < IntWord

(***************************************************************************)
(* The analysis follows every call it can meet: no function calls itself,  *)
(* not even indirectly, and none that has a body is variadic.              *)
(***************************************************************************)
Callees(m, f) ==
    {Fun(m, f).insts[v].callee : v \in {u \in PositionsOf(m, f) : Fun(m, f).insts[u].op = "call"}}
        \cap FunsOf(m)

FollowsCalls(m) ==
    /\ \E depth \in [FunsOf(m) -> 0 .. Cardinality(FunsOf(m))] :
          \A f \in FunsOf(m) : \A g \in Callees(m, f) : depth[g] < depth[f]
    /\ \A f \in FunsOf(m) : \A g \in Callees(m, f) :
          Fun(m, g).blocks # <<>> => ~Fun(m, g).varArg
=============================================================================
