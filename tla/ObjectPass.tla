----------------------------- MODULE ObjectPass ------------------------------
(***************************************************************************)
(* PointerAnalysis::objectAnalysis and objectPass: the interprocedural     *)
(* bound analysis. Starting from main, it analyses a function for the      *)
(* attributes its arguments have at a call, recursing at every call whose  *)
(* attributes are not those the call site had the last time. Within a      *)
(* function it is a worklist data flow analysis over basic blocks; its     *)
(* facts live in two sets of values,                                       *)
(*   bound   pointers that address a whole pointee in their object         *)
(*   exact   those whose distance to the end of the object is known        *)
(* and the distances in a map (bounds) that all blocks share.              *)
(*                                                                         *)
(* An activation of objectPass is a record on the stack; the pass descends *)
(* into a callee by pushing one.                                           *)
(***************************************************************************)
EXTENDS ModuleIR

VARIABLES
    mod,        \* the module under analysis
    stack,      \* the activations of objectPass, the running one last
    argsCall,   \* call site |-> the attributes of its last analysed call
    retCall,    \* call site |-> what that analysis returned
    local       \* function |-> the values in bounds in all its analyses

vars == <<mod, stack, argsCall, retCall, local>>

-----------------------------------------------------------------------------
(* ArgumentAttribute: a word of which two values are taken as marks.       *)
DYNBOUND_ATTR == 0
UNBOUND_ATTR == Word - 1

NotCalled == <<-1>>     \* an entry argsCall does not hold
NotSeen == {Outside}    \* an entry local does not hold
Idle == 0               \* no block is being visited

Sites == UNION {{f} \X {v \in PositionsOf(mod, f) : Fun(mod, f).insts[v].op = "call"} :
                f \in FunsOf(mod)}

Top == stack[Len(stack)]
Name == Top.fun
Cur == Block(mod, Name, Top.node)
Inst == Fun(mod, Name).insts[Top.k]
Site == <<Name, Top.k>>
AttrsOf(args, mark) == {k \in DOMAIN args : args[k] # mark}

(* The facts a block is visited with.                                      *)
Facts(t) == [bound |-> t.bound, exact |-> t.exact, bounds |-> t.bounds]

WithBound(t, v) == [t EXCEPT !.bound = @ \cup {v}]
(* Mutant: a value with an exact bound is not counted as in bounds.        *)
WithOnlyExact(t, v, n) == [t EXCEPT !.exact = @ \cup {v}, !.bounds[v] = n]
WithExact(t, v, n) ==
    [t EXCEPT !.bound = @ \cup {v}, !.exact = @ \cup {v}, !.bounds[v] = n]

(* The attribute of a value: exact facts win over bound ones.              *)
Attribute(t, v) ==
    CASE v \in t.exact                   -> t.bounds[v]
      [] v \in t.bound \ t.exact        -> DYNBOUND_ATTR
      [] OTHER                           -> UNBOUND_ATTR

(* A value learns the attribute a call returned.                           *)
WithAttribute(t, v, attr) ==
    CASE attr = DYNBOUND_ATTR -> WithBound(t, v)
      [] attr = UNBOUND_ATTR  -> t
      [] OTHER                -> WithExact(t, v, attr)

(* int allocaSize = uint64_t: truncation, and sign extension on the way    *)
(* back into the map.                                                      *)
IntSize(n) ==
    LET low == n % IntWord
    IN  IF 2 * low >= IntWord THEN Word - IntWord + low ELSE low

(* Activation of f: only arguments with an attribute are known.            *)
Activation(f, args) ==
    LET known == {Arg(k) : k \in AttrsOf(args, UNBOUND_ATTR)}
        exact == {Arg(k) : k \in {j \in AttrsOf(args, UNBOUND_ATTR) : args[j] # DYNBOUND_ATTR}}
    IN  [fun       |-> f,
         args      |-> args,
         worklist  |-> {1},
         visits    |-> {},
         boundOut  |-> [n \in BlocksOf(mod, f) |-> {}],
         exactOut  |-> [n \in BlocksOf(mod, f) |-> {}],
         boundArgs |-> known,
         exactArgs |-> exact,
         node      |-> Idle,
         seen      |-> FALSE,
         k         |-> 0,
         bound     |-> {},
         exact     |-> {},
         bounds    |-> [v \in ValuesOf(mod, f) |->
                           CASE v \in exact -> args[CHOOSE k \in DOMAIN args : Arg(k) = v]
                             [] v \in GlobalsOf(mod) ->
                                  Modules[mod].globals[CHOOSE k \in DOMAIN Modules[mod].globals :
                                                          Global(k) = v]
                             [] OTHER -> 0]]

SetTop(a) == stack' = [stack EXCEPT ![Len(stack)] = a]
SetFacts(t) ==
    SetTop([Top EXCEPT !.bound = t.bound, !.exact = t.exact, !.bounds = t.bounds, !.k = @ + 1])

-----------------------------------------------------------------------------
(* objectAnalysis: nothing is known of the arguments of main.              *)
Init ==
    /\ mod \in DOMAIN Modules
    /\ stack = IF "main" \in FunsOf(mod)
               THEN <<Activation("main", [k \in DOMAIN Fun(mod, "main").params |-> UNBOUND_ATTR])>>
               ELSE <<>>
    /\ argsCall = [s \in Sites |-> NotCalled]
    /\ retCall = [s \in Sites |-> UNBOUND_ATTR]
    /\ local = [f \in FunsOf(mod) |-> NotSeen]

(* Take any block off the worklist and start with what its predecessors    *)
(* know: the union, not the intersection.                                  *)
Dequeue(n) ==
    /\ stack # <<>>
    /\ Top.node = Idle
    /\ n \in Top.worklist
    /\ SetTop([Top EXCEPT
         !.worklist = @ \ {n},
         !.visits = @ \cup {n},
         !.seen = n \in Top.visits,
         !.node = n,
         !.k = Block(mod, Name, n).first,
         !.bound = IF n = 1 THEN Top.boundArgs \cup GlobalsOf(mod)
                   ELSE UNION {Top.boundOut[p] : p \in Preds(mod, Name, n)},
         !.exact = IF n = 1 THEN Top.exactArgs \cup GlobalsOf(mod)
                   ELSE UNION {Top.exactOut[p] : p \in Preds(mod, Name, n)}])
    /\ UNCHANGED <<mod, argsCall, retCall, local>>

AtInst ==
    /\ stack # <<>>
    /\ Top.node # Idle
    /\ Top.k <= Cur.last

Learn(t) == SetFacts(t) /\ UNCHANGED <<mod, argsCall, retCall, local>>

VisitAlloca ==
    /\ AtInst
    /\ Inst.op = "alloca"
    /\ IF Inst.consts[2] \notin {NonConst, 0}
       THEN Learn(WithExact(Facts(Top), Top.k, Wrap(Inst.consts[1] * Inst.consts[2])))
       ELSE Learn(WithBound(Facts(Top), Top.k))

VisitPhi ==
    /\ AtInst
    /\ Inst.op = "phi"
    /\ IF Inst.isPtr /\ AllInbounds(Inst, Top.bound)
       THEN Learn(WithBound(Facts(Top), Top.k))
       ELSE Learn(Facts(Top))

(* Mutant: the offset is not taken off the bound.                          *)
VisitGepWhole ==
    /\ AtInst
    /\ Inst.op = "gep"
    /\ IF Inst.isPtr /\ GepKeepsBound(Inst, Top.bound, Top.exact, Top.bounds)
       THEN Learn(WithExact(Facts(Top), Top.k, Top.bounds[Inst.operands[1]]))
       ELSE Learn(Facts(Top))

VisitGep ==
    /\ AtInst
    /\ Inst.op = "gep"
    /\ IF Inst.isPtr /\ GepKeepsBound(Inst, Top.bound, Top.exact, Top.bounds)
       THEN Learn(WithExact(Facts(Top), Top.k, ExactBound(Inst, Top.bounds)))
       ELSE Learn(Facts(Top))

VisitCast ==
    /\ AtInst
    /\ Inst.op = "cast"
    /\ IF Inst.isPtr /\ CastKeepsBound(Inst, Top.bound, Top.exact, Top.bounds)
       THEN Learn(WithExact(Facts(Top), Top.k, ExactBound(Inst, Top.bounds)))
       ELSE Learn(Facts(Top))

(* Allocators of the tables.                                               *)
VisitAllocator ==
    /\ AtInst
    /\ Inst.op = "call"
    /\ IsAllocation(Inst)
    /\ IF IntSize(ConstantAllocSize(Inst)) # 0
       THEN Learn(WithExact(Facts(Top), Top.k, IntSize(ConstantAllocSize(Inst))))
       ELSE Learn(WithBound(Facts(Top), Top.k))

(* Functions that return one of their arguments, as far as the table says. *)
ReturnedArg(inst) ==
    CASE inst.callee = "retArg0Funcs" -> inst.operands[1]
      [] inst.callee = "retArg1Funcs" -> inst.operands[2]
      [] inst.callee = "retArg2Funcs" -> inst.operands[3]

VisitReturnsArgument ==
    /\ AtInst
    /\ Inst.op = "call"
    /\ Inst.callee \in ReturnsArgument
    /\ LET u == ReturnedArg(Inst)
           t == Facts(Top)
           b == IF u \in t.bound THEN WithBound(t, Top.k) ELSE t
       IN  Learn(CASE ~Inst.isPtr     -> t
                   [] u \in t.exact   -> [b EXCEPT !.exact = @ \cup {Top.k},
                                                   !.bounds[Top.k] = t.bounds[u]]
                   [] OTHER           -> b)

IsAnalysedCall(inst) ==
    inst.op = "call" /\ inst.callee \in FunsOf(mod) /\ ~Fun(mod, inst.callee).varArg

(* Loads, stores, calls through pointers, variadic and known harmless ones *)
VisitOther ==
    /\ AtInst
    /\ \/ Inst.op \in {"load", "store"}
       \/ /\ Inst.op = "call"
          /\ \/ Inst.callee \in {"indirect", "noop"}
             \/ (Inst.callee \in FunsOf(mod) /\ Fun(mod, Inst.callee).varArg)
    /\ Learn(Facts(Top))

CallArgs == [j \in 1 .. Len(Inst.operands) |-> Attribute(Facts(Top), Inst.operands[j])]

(* Mutant: a call whose attributes have not changed is merely skipped.     *)
SkipCall ==
    /\ AtInst
    /\ IsAnalysedCall(Inst)
    /\ argsCall[Site] = CallArgs
    /\ Learn(Facts(Top))

(* The attributes are those of the last analysis of this call site: reuse  *)
(* its answer, or the placeholder while that analysis is still running.    *)
ReuseCall ==
    /\ AtInst
    /\ IsAnalysedCall(Inst)
    /\ argsCall[Site] = CallArgs
    /\ Learn(WithAttribute(Facts(Top), Top.k, retCall[Site]))

(* Otherwise analyse the callee; a declaration answers UNBOUND at once.    *)
CallDeclaration ==
    /\ AtInst
    /\ IsAnalysedCall(Inst)
    /\ argsCall[Site] # CallArgs
    /\ Fun(mod, Inst.callee).blocks = <<>>
    /\ argsCall' = [argsCall EXCEPT ![Site] = CallArgs]
    /\ retCall' = [retCall EXCEPT ![Site] = UNBOUND_ATTR]
    /\ SetFacts(Facts(Top))
    /\ UNCHANGED <<mod, local>>

(* The local variable the pass stores as the answer of a call it has just  *)
(* begun to analyse. Its declaration is followed by a second assignment to *)
(* ret[0] where UNBOUND[0] was meant, so it keeps the 0 it is created with. *)
UNBOUND == <<DYNBOUND_ATTR>>

EnterCall ==
    /\ AtInst
    /\ IsAnalysedCall(Inst)
    /\ argsCall[Site] # CallArgs
    /\ Fun(mod, Inst.callee).blocks # <<>>
    /\ argsCall' = [argsCall EXCEPT ![Site] = CallArgs]
    /\ retCall' = [retCall EXCEPT ![Site] = UNBOUND[1]]
    /\ stack' = Append(stack, Activation(Inst.callee, CallArgs))
    /\ UNCHANGED <<mod, local>>

(* Mutant: only the exact values are compared.                             *)
EndBlockExact ==
    /\ stack # <<>>
    /\ Top.node # Idle
    /\ Top.k > Cur.last
    /\ LET changed == ~Top.seen \/ Top.exact # Top.exactOut[Top.node]
       IN  SetTop([Top EXCEPT
             !.worklist = IF changed THEN @ \cup Cur.succs ELSE @,
             !.exactOut[Top.node] = Top.exact,
             !.boundOut[Top.node] = Top.bound,
             !.node = Idle])
    /\ UNCHANGED <<mod, argsCall, retCall, local>>

(* Mutant: the successors are visited again in any case.                   *)
EndBlockAlways ==
    /\ stack # <<>>
    /\ Top.node # Idle
    /\ Top.k > Cur.last
    /\ SetTop([Top EXCEPT
         !.worklist = @ \cup Cur.succs,
         !.exactOut[Top.node] = Top.exact,
         !.boundOut[Top.node] = Top.bound,
         !.node = Idle])
    /\ UNCHANGED <<mod, argsCall, retCall, local>>

(* The facts at the end of the block are compared with those of its last   *)
(* visit; the bounds are not.                                              *)
EndBlock ==
    /\ stack # <<>>
    /\ Top.node # Idle
    /\ Top.k > Cur.last
    /\ LET changed == \/ ~Top.seen
                      \/ Top.exact # Top.exactOut[Top.node]
                      \/ Top.bound # Top.boundOut[Top.node]
       IN  SetTop([Top EXCEPT
             !.worklist = IF changed THEN @ \cup Cur.succs ELSE @,
             !.exactOut[Top.node] = Top.exact,
             !.boundOut[Top.node] = Top.bound,
             !.node = Idle])
    /\ UNCHANGED <<mod, argsCall, retCall, local>>

-----------------------------------------------------------------------------
(* The value block n returns; none if it ends in unreachable.              *)
RetVals(n) == {Block(mod, Name, n).ret[j] : j \in DOMAIN Block(mod, Name, n).ret}

UnboundExits ==
    {n \in Exits(mod, Name) : \E v \in RetVals(n) : v \notin Top.exactOut[n] \cup Top.boundOut[n]}

(* The exits are taken from an unordered set, and the first that returns   *)
(* an unknown value ends the loop: which exits were joined before it is up *)
(* to the order of the set.                                                *)
JoinedExits ==
    IF UnboundExits = {}
    THEN {Exits(mod, Name)}
    ELSE {known \cup {n} : known \in SUBSET (Exits(mod, Name) \ UnboundExits), n \in UnboundExits}

(* The values in bounds at the end of all these blocks.                    *)
Common(exits) ==
    {v \in UNION {Top.boundOut[n] : n \in exits} : \A n \in exits : v \in Top.boundOut[n]}

(* Mutant: only the last context counts.                                   *)
JoinWithLast(old, exits) == Common(exits)

(* What holds in this context and in all the earlier ones.                 *)
JoinWith(old, exits) == IF old = NotSeen THEN Common(exits) ELSE old \cap Common(exits)

(* retSet: one entry per exit, 0 where the exit is no return.              *)
RetSet ==
    {IF RetVals(n) = {} THEN 0
     ELSE CHOOSE r \in Words : \E v \in RetVals(n) :
             r = IF v \in Top.exactOut[n] THEN Top.bounds[v] ELSE DYNBOUND_ATTR :
     n \in Exits(mod, Name)}

(* The attribute of the result. A function without exits has an empty      *)
(* retSet, whose first entry may read as anything.                         *)
Results ==
    CASE ~Fun(mod, Name).retPtr \/ UnboundExits # {} -> {UNBOUND_ATTR}
      [] Fun(mod, Name).retPtr /\ Exits(mod, Name) = {} -> Words
      [] OTHER -> IF Cardinality(RetSet) = 1 THEN RetSet ELSE {DYNBOUND_ATTR}

Return ==
    /\ stack # <<>>
    /\ Top.node = Idle
    /\ Top.worklist = {}
    /\ \E joined \in JoinedExits, r \in Results :
        /\ local' = [local EXCEPT ![Name] = IF joined = {} THEN @ ELSE JoinWith(@, joined)]
        /\ IF Len(stack) = 1
           THEN stack' = <<>> /\ UNCHANGED retCall
           ELSE LET rest   == SubSeq(stack, 1, Len(stack) - 1)
                    caller == stack[Len(stack) - 1]
                    t      == WithAttribute(Facts(caller), caller.k, r)
                IN  /\ stack' = [rest EXCEPT ![Len(rest)] =
                          [caller EXCEPT !.bound = t.bound, !.exact = t.exact,
                                         !.bounds = t.bounds, !.k = @ + 1]]
                    /\ retCall' = [retCall EXCEPT ![<<caller.fun, caller.k>>] = r]
    /\ UNCHANGED <<mod, argsCall>>

VisitInst ==
    \/ VisitAlloca \/ VisitPhi \/ VisitGep \/ VisitCast
    \/ VisitAllocator \/ VisitReturnsArgument \/ VisitOther
    \/ ReuseCall \/ CallDeclaration \/ EnterCall

Next ==
    \/ stack # <<>> /\ \E n \in Top.worklist : Dequeue(n)
    \/ VisitInst
    \/ EndBlock
    \/ Return

Spec == Init /\ [][Next]_vars /\ WF_vars(Next)

Done == stack = <<>>

-----------------------------------------------------------------------------
Attributes(n) == [1 .. n -> Words]

ActivationOK(a) ==
    /\ a.fun \in FunsOf(mod) /\ Fun(mod, a.fun).blocks # <<>>
    /\ a.args \in Attributes(Len(Fun(mod, a.fun).params))
    /\ a.worklist \subseteq BlocksOf(mod, a.fun)
    /\ a.visits \subseteq BlocksOf(mod, a.fun)
    /\ a.node \in BlocksOf(mod, a.fun) \cup {Idle}
    /\ a.node # Idle => a.k \in Block(mod, a.fun, a.node).first .. Block(mod, a.fun, a.node).last + 1
    /\ a.bounds \in [ValuesOf(mod, a.fun) -> Words]
    /\ a.exact \subseteq a.bound /\ a.bound \subseteq ValuesOf(mod, a.fun) \ {Outside}
    /\ \A n \in BlocksOf(mod, a.fun) :
          /\ a.exactOut[n] \subseteq a.boundOut[n]
          /\ a.boundOut[n] \subseteq ValuesOf(mod, a.fun) \ {Outside}

TypeOK ==
    /\ mod \in DOMAIN Modules
    /\ \A j \in DOMAIN stack : ActivationOK(stack[j])
    /\ \A j \in 1 .. Len(stack) - 1 : stack[j].node # Idle
    /\ \A s \in Sites : retCall[s] \in Words
    /\ \A f \in FunsOf(mod) : local[f] \subseteq ValuesOf(mod, f)

(***************************************************************************)
(* No change is lost: in every activation, what a finished block knows is  *)
(* known in its successors too, or they wait in the worklist. An empty     *)
(* worklist therefore means a fixpoint, in every order of its blocks.      *)
(***************************************************************************)
Propagated ==
    \A j \in DOMAIN stack : LET a == stack[j] IN
        \A p \in a.visits \ {a.node} : \A n \in Block(mod, a.fun, p).succs \ a.worklist :
            /\ n \in a.visits
            /\ a.boundOut[p] \subseteq (IF n = a.node THEN a.bound ELSE a.boundOut[n])
            /\ a.exactOut[p] \subseteq (IF n = a.node THEN a.exact ELSE a.exactOut[n])

(***************************************************************************)
(* The bounds never go stale. EndBlock does not compare them, so a bound   *)
(* that changed after others were computed from it would not be carried    *)
(* on; in every activation the bound of a derived pointer is the one its   *)
(* base now yields.                                                        *)
(***************************************************************************)
BoundsCurrent ==
    \A j \in DOMAIN stack : LET a == stack[j] IN
        \A v \in PositionsOf(mod, a.fun) :
            LET inst == Fun(mod, a.fun).insts[v] IN
            /\ inst.op \in {"gep", "cast"}
            /\ \/ v \in a.exact
               \/ \E n \in BlocksOf(mod, a.fun) : v \in a.exactOut[n]
            => a.bounds[v] = ExactBound(inst, a.bounds)

(***************************************************************************)
(* Within an activation knowledge only grows: no visit of a block, with    *)
(* whatever its calls answer this time, takes back what an earlier one     *)
(* found. That is why the worklist runs dry.                               *)
(***************************************************************************)
OutsGrow ==
    [][\A j \in (DOMAIN stack) \cap (DOMAIN stack') :
          \A n \in BlocksOf(mod, stack[j].fun) :
              /\ stack[j].boundOut[n] \subseteq stack'[j].boundOut[n]
              /\ stack[j].exactOut[n] \subseteq stack'[j].exactOut[n]]_vars

(* The analysis of the module comes to its end.                            *)
AnalysisTerminates == <>Done
=============================================================================
