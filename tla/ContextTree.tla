----------------------------- MODULE ContextTree -------------------------------
(***************************************************************************)
(* What the cloning pass promises: one copy of a function for each of its  *)
(* calling contexts.                                                       *)
(*                                                                         *)
(* A context is the sequence of the calls that lead from main to the       *)
(* function, without those inside a component of the call graph, so that   *)
(* recursion adds nothing to it. A call is named by the number of its      *)
(* function and its ordinal: the instructions before it, those calls not   *)
(* counted that are left alone.                                            *)
(***************************************************************************)
EXTENDS FunctionDB

CONSTANT Modules     \* the modules to clone, well formed as for FunctionClone

VARIABLES
    mod,        \* the module
    fullClone,  \* the option full_clone
    made,       \* the pairs <<function, context>> with a copy; main's own
                \* body counts as its copy for the context <<>>
    done        \* the pass has ended

(* External reads as vertex 0, as in CallGraphSCC.                         *)
Edges(v) == {IF n = External THEN 0 ELSE n : n \in CallGraph(mod)[v + 1]}
Reached(v) ==
    LET reach[k \in Nat] ==
            IF k = 0 THEN {v}
            ELSE reach[k - 1] \cup UNION {Edges(u) : u \in reach[k - 1]}
    IN  reach[Len(mod)]
SameComponent(u, v) == u \in Reached(v) /\ v \in Reached(u)

(* The calls in the copy p that are given a copy of their own, in order.   *)
Cloned(p, inst, context) ==
    /\ IsCall(inst)
    /\ IsDefined(mod, inst)
    /\ IF p[2] = <<>> THEN ~SkipInMain(fullClone, Fun(mod, inst))
                      ELSE ~Skip(fullClone, Fun(mod, inst), context)

(* The context of the callee if the call with that ordinal is made.        *)
Context(p, callee, ordinal) ==
    IF p[2] # <<>> /\ callee # External /\ SameComponent(p[1], callee)
    THEN p[2]
    ELSE p[2] \o <<p[1], ordinal>>

(* The length of a context does not depend on the ordinal.                 *)
LeftAlone(p, inst) == IsCall(inst) /\ ~Cloned(p, inst, Context(p, inst, 0))

Ordinal(p, k) ==
    Cardinality({j \in 1 .. k - 1 : ~LeftAlone(p, Fun(mod, p[1]).body[j])})

CopiesFor(p) ==
    LET body == Fun(mod, p[1]).body
    IN  {<<body[k], Context(p, body[k], Ordinal(p, k))>> :
            k \in {j \in CallsIn(body) : ~LeftAlone(p, body[j])}}

-----------------------------------------------------------------------------
Init ==
    /\ mod \in Modules
    /\ fullClone \in BOOLEAN
    /\ made = {<<v, <<>>>> : v \in MainOf(mod)}
    /\ done = FALSE

(* A copy that is there asks for the copy of one of its callees.           *)
Copy ==
    /\ ~done
    /\ \E p \in made : \E c \in CopiesFor(p) \ made : made' = made \cup {c}
    /\ UNCHANGED <<mod, fullClone, done>>

(* The pass may only end when no copy is missing.                          *)
Finish ==
    /\ ~done
    /\ \A p \in made : CopiesFor(p) \subseteq made
    /\ done' = TRUE
    /\ UNCHANGED <<mod, fullClone, made>>

Next == Copy \/ Finish

Spec == Init /\ [][Next]_<<mod, fullClone, made, done>>
=============================================================================
