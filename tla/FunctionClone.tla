----------------------------- MODULE FunctionClone -----------------------------
(***************************************************************************)
(* FunctionClonePass::runOnModule: buildSCC numbers the components of the  *)
(* call graph, then cloneMain walks through main and gives every call a    *)
(* copy of its callee, named after the calling context; getClonedFunction  *)
(* does the same in the copy.                                              *)
(*                                                                         *)
(* The activations of the two functions are a stack of walks, that of      *)
(* cloneMain first. A clone is appended to the module, so a number from V  *)
(* on is that of a clone.                                                  *)
(***************************************************************************)
EXTENDS FunctionDB

CONSTANT Modules

ASSUME ModulesAssumption == \A m \in Modules : WellFormedModule(m)
ASSUME NamesAssumption == \A m \in Modules : NamesApart(m)

VARIABLES
    cg, marked, low, id, pre, count, stack, frames,     \* buildSCC
    mod,        \* the module before the pass
    fullClone,  \* the option full_clone
    funs,       \* the module as it grows. of and context are what a clone
                \* was made for; an original is of itself
    walks,      \* function, instruction (k) and ic of each activation
    pc

sccVars == <<cg, marked, low, id, pre, count, stack, frames>>
cloneVars == <<mod, fullClone, funs, walks, pc>>
vars == <<sccVars, cloneVars>>

Graphs == {CallGraph(m) : m \in Modules}
SCC == INSTANCE CallGraphSCC WITH CallGraphs <- Graphs

V == Len(mod)
Originals == Numbers(mod)
Clones == Numbers(funs) \ Originals

-----------------------------------------------------------------------------
(* Names                                                                   *)

(* Mutant: only the position of the call is added.                         *)
StitchCount(parent, myId, myCnt) == Append(parent, myCnt)
Stitch(parent, myId, myCnt) == parent \o <<myId, myCnt>>

(* The callee's name and context2Str of the context: _1_2_ ends in an      *)
(* empty piece.                                                            *)
CloneName(name, context) ==
    [name EXCEPT !.pieces = @ \o context \o <<Empty>>]

-----------------------------------------------------------------------------
(* The running walk                                                        *)

Walk == walks[Len(walks)]
InMain == Len(walks) = 1
Self == Fun(funs, Walk.fun)
AtEnd == Walk.k > Len(Self.body)
Inst == Self.body[Walk.k]

SccId(callee) == id[SCC!Index(callee)]

(* Mutant: the components are not asked.                                   *)
ContextAlways(callee) ==
    IF InMain THEN Stitch(<<>>, Self.of, Walk.ic)
    ELSE Stitch(Self.context, Self.of, Walk.ic)

(* now: main's calls open a context; a call inside a component stays in    *)
(* that of its caller.                                                     *)
CalleeContext(callee) ==
    CASE InMain -> Stitch(<<>>, Self.of, Walk.ic)
      [] ~InMain /\ SccId(callee) # SccId(Self.of) ->
            Stitch(Self.context, Self.of, Walk.ic)
      [] OTHER -> Self.context

Skipped(callee) ==
    IF InMain THEN SkipInMain(fullClone, Fun(mod, callee))
    ELSE Skip(fullClone, Fun(mod, callee), CalleeContext(callee))

LeftAlone == IsDefined(funs, Inst) => Skipped(Inst)

(* Mutant: the position is not counted.                                    *)
StepUncounted(walk, counted) == [walk EXCEPT !.k = @ + 1]
Step(walk, counted) == [walk EXCEPT !.k = @ + 1, !.ic = @ + counted]
Advance(counted) == walks' = [walks EXCEPT ![Len(walks)] = Step(@, counted)]

(* Mutant: the call in the function that is cloned is redirected, too.     *)
SetInBoth(fs, fun, k, clone) ==
    [fs EXCEPT ![fun + 1].body[k] = clone, ![fs[fun + 1].of + 1].body[k] = clone]
SetCalledFunction(fs, fun, k, clone) == [fs EXCEPT ![fun + 1].body[k] = clone]

Walking == pc = "clone" /\ walks # <<>>
AtCall == Walking /\ ~AtEnd /\ IsCall(Inst)

(* The call graph has no node for a clone. cloneMain does not ask it.      *)
InCallGraph == InMain \/ Inst = External \/ Inst \in Originals

-----------------------------------------------------------------------------
Init ==
    /\ mod \in Modules
    /\ cg = CallGraph(mod)
    /\ SCC!Init
    /\ fullClone \in BOOLEAN
    /\ funs = [n \in DOMAIN mod |->
                  [name |-> mod[n].name, kind |-> mod[n].kind, body |-> mod[n].body,
                   of |-> n - 1, context |-> <<>>]]
    /\ walks = <<>>
    /\ pc = "scc"

BuildSCC ==
    /\ pc = "scc"
    /\ SCC!Next
    /\ UNCHANGED cloneVars

(* cloneMain begins, or there is no main.                                  *)
StartMain ==
    /\ pc = "scc"
    /\ SCC!Done
    /\ IF MainOf(mod) = {}
       THEN pc' = "done" /\ UNCHANGED walks
       ELSE /\ pc' = "clone"
            /\ \E m \in MainOf(mod) : walks' = <<[fun |-> m, k |-> 1, ic |-> 0]>>
    /\ UNCHANGED <<sccVars, mod, fullClone, funs>>

(* Mutant: the iterator stays where it is.                                 *)
VisitPlainAgain ==
    /\ Walking
    /\ ~AtEnd
    /\ ~IsCall(Inst)
    /\ UNCHANGED <<sccVars, cloneVars>>

VisitPlain ==
    /\ Walking
    /\ ~AtEnd
    /\ ~IsCall(Inst)
    /\ Advance(1)
    /\ UNCHANGED <<sccVars, mod, fullClone, funs, pc>>

(* Mutant: the call is counted.                                            *)
PassOverCounted ==
    /\ AtCall
    /\ InCallGraph
    /\ LeftAlone
    /\ Advance(1)
    /\ UNCHANGED <<sccVars, mod, fullClone, funs, pc>>

(* The continue also skips ic++.                                           *)
PassOver ==
    /\ AtCall
    /\ InCallGraph
    /\ LeftAlone
    /\ Advance(0)
    /\ UNCHANGED <<sccVars, mod, fullClone, funs, pc>>

(* cg[callee] of a function that is not in the call graph: LLVM's          *)
(* assertion stops the pass; without assertions nothing can be said.       *)
LookUpUnknown ==
    /\ AtCall
    /\ ~InCallGraph
    /\ pc' = "undefined"
    /\ UNCHANGED <<sccVars, mod, fullClone, funs, walks>>

NewName == CloneName(Fun(mod, Inst).name, CalleeContext(Inst))

(* Mutant: the call still leads to the original.                           *)
RedirectNot ==
    /\ AtCall
    /\ InCallGraph
    /\ ~LeftAlone
    /\ Named(funs, NewName) # {}
    /\ Advance(1)
    /\ UNCHANGED <<sccVars, mod, fullClone, funs, pc>>

(* A function of that name is there: it is taken for the clone.            *)
Redirect ==
    /\ AtCall
    /\ InCallGraph
    /\ ~LeftAlone
    /\ \E clone \in Named(funs, NewName) :
          funs' = SetCalledFunction(funs, Walk.fun, Walk.k, clone)
    /\ Advance(1)
    /\ UNCHANGED <<sccVars, mod, fullClone, pc>>

(* Mutant: the walk starts in front of the first instruction.              *)
CreateEarly ==
    /\ AtCall
    /\ InCallGraph
    /\ ~LeftAlone
    /\ Named(funs, NewName) = {}
    /\ funs' = Append(funs, [Fun(funs, Inst) EXCEPT
                    !.name = NewName, !.of = Inst, !.context = CalleeContext(Inst)])
    /\ walks' = Append(walks, [fun |-> Len(funs), k |-> 0, ic |-> 0])
    /\ UNCHANGED <<sccVars, mod, fullClone, pc>>

(* The head of getClonedFunction: the callee's body, as it is now, is      *)
(* copied, and the walk through the copy begins.                           *)
Create ==
    /\ AtCall
    /\ InCallGraph
    /\ ~LeftAlone
    /\ Named(funs, NewName) = {}
    /\ funs' = Append(funs, [Fun(funs, Inst) EXCEPT
                    !.name = NewName, !.of = Inst, !.context = CalleeContext(Inst)])
    /\ walks' = Append(walks, [fun |-> Len(funs), k |-> 1, ic |-> 0])
    /\ UNCHANGED <<sccVars, mod, fullClone, pc>>

(* getClonedFunction returns its clone, and the call that asked for it is  *)
(* redirected.                                                             *)
Return ==
    /\ Walking
    /\ AtEnd
    /\ ~InMain
    /\ LET n == Len(walks) - 1
       IN  /\ funs' = SetCalledFunction(funs, walks[n].fun, walks[n].k, Walk.fun)
           /\ walks' = Append(SubSeq(walks, 1, n - 1), Step(walks[n], 1))
    /\ UNCHANGED <<sccVars, mod, fullClone, pc>>

EndMain ==
    /\ Walking
    /\ AtEnd
    /\ InMain
    /\ walks' = <<>>
    /\ pc' = "done"
    /\ UNCHANGED <<sccVars, mod, fullClone, funs>>

Next ==
    \/ BuildSCC
    \/ StartMain
    \/ VisitPlain
    \/ PassOver
    \/ LookUpUnknown
    \/ Redirect
    \/ Create
    \/ Return
    \/ EndMain

Spec == Init /\ [][Next]_vars /\ WF_vars(Next)

-----------------------------------------------------------------------------
TypeOK ==
    /\ pc \in {"scc", "clone", "done", "undefined"}
    /\ \A v \in Numbers(funs) :
          /\ Fun(funs, v).of \in Originals
          /\ Fun(funs, v).context \in Seq(Nat)
          /\ Fun(funs, v).body \in Seq(Numbers(funs) \cup {External, Load, Plain})
    /\ \A n \in DOMAIN walks :
          /\ walks[n].fun \in Numbers(funs)
          /\ walks[n].k \in 1 .. Len(Fun(funs, walks[n].fun).body) + 1
          /\ walks[n].ic \in 0 .. walks[n].k - 1

(* The instruction an instruction stands for.                              *)
Original(fs, inst) ==
    IF IsCall(inst) /\ inst # External THEN Fun(fs, inst).of ELSE inst

(***************************************************************************)
(* The module stays the same program: whatever the names and contexts, an  *)
(* instruction of a copy does what it did in the function it is a copy of, *)
(* and a call leads to that function or to a copy of it.                   *)
(***************************************************************************)
SameProgram ==
    \A v \in Numbers(funs) :
        LET body == Fun(mod, Fun(funs, v).of).body
        IN  /\ Len(Fun(funs, v).body) = Len(body)
            /\ \A k \in DOMAIN body : Original(funs, Fun(funs, v).body[k]) = body[k]

(***************************************************************************)
(* Context sensitivity: a clone is entered from one call only, besides     *)
(* those inside its own component.                                         *)
(***************************************************************************)
CallsOf(clone) ==
    UNION {{<<v, k>> : k \in {j \in DOMAIN Fun(funs, v).body : Fun(funs, v).body[j] = clone}} :
           v \in {u \in Numbers(funs) : id[Fun(funs, u).of] # id[Fun(funs, clone).of]}}

ContextsApart ==
    ~MainIsCalled(mod) => \A c \in Clones : Cardinality(CallsOf(c)) <= 1

(***************************************************************************)
(* The reason why cloning ends: a context never comes back to a component  *)
(* it has left. (The calls in main open a context even if main is part of  *)
(* a component.)                                                           *)
(***************************************************************************)
Callers(context) == [n \in 1 .. Len(context) \div 2 |-> context[2 * n - 1]]

ContextsAcyclic ==
    \A c \in Clones :
        LET callers == Callers(Fun(funs, c).context)
        IN  \A i, j \in DOMAIN callers :
                1 < i /\ i < j => id[callers[i]] # id[callers[j]]

(***************************************************************************)
(* With full_clone no call in main or in a clone leads to an original      *)
(* function with a body.                                                   *)
(***************************************************************************)
AllRedirected ==
    pc = "done" /\ fullClone =>
        \A v \in MainOf(mod) \cup Clones : \A k \in CallsIn(Fun(funs, v).body) :
            IsDefined(funs, Fun(funs, v).body[k]) => Fun(funs, v).body[k] \in Clones

(***************************************************************************)
(* The call graph is asked for functions that were there when it was       *)
(* built, unless main is called: then a clone of main may be a copy of a   *)
(* body that was redirected in part.                                       *)
(***************************************************************************)
LookupsKnown == pc = "undefined" => MainIsCalled(mod)

(* The pass is an implementation of the tree of contexts.                  *)
Contexts == INSTANCE ContextTree WITH
    made <- {<<v, <<>>>> : v \in MainOf(mod)}
            \cup {<<Fun(funs, c).of, Fun(funs, c).context>> : c \in Clones},
    done <- pc = "done"

ImplementsContexts == Contexts!Spec

(* Cloning ends.                                                           *)
CloningEnds == <>(pc = "done") \/ MainIsCalled(mod)
=============================================================================
