----------------------------- MODULE Dominators ------------------------------
(***************************************************************************)
(* DominatorAnalysis: the dominators of every basic block of a function,   *)
(* computed by sweeping over the blocks in layout order until a sweep      *)
(* changes nothing. A flow graph is the tuple of its blocks' predecessor   *)
(* sets, and block 1 is the entry block.                                   *)
(***************************************************************************)
EXTENDS Naturals, Sequences

CONSTANT FlowGraphs      \* flow graphs by name

ASSUME FlowGraphsAssumption ==
    \A g \in DOMAIN FlowGraphs :
        /\ FlowGraphs[g] \in Seq(SUBSET (1 .. Len(FlowGraphs[g])))
        /\ Len(FlowGraphs[g]) > 0
        /\ FlowGraphs[g][1] = {}

VARIABLES
    graph,      \* the function, by the name of its flow graph
    pc,         \* "sweep" until a sweep changes nothing, then "done"
    next,       \* the next block of the sweep
    changed,    \* did this sweep change anything
    doms

vars == <<graph, pc, next, changed, doms>>

Blocks == 1 .. Len(FlowGraphs[graph])
Preds(n) == FlowGraphs[graph][n]
Entry == 1

-----------------------------------------------------------------------------
(* Mutant: nothing but itself dominates a block at first.                  *)
InitLeast ==
    /\ graph \in DOMAIN FlowGraphs
    /\ pc = "sweep"
    /\ next = 1
    /\ changed = FALSE
    /\ doms = [n \in Blocks |-> {n}]

(* Everything dominates every block but the entry block.                   *)
Init ==
    /\ graph \in DOMAIN FlowGraphs
    /\ pc = "sweep"
    /\ next = 1
    /\ changed = FALSE
    /\ doms = [n \in Blocks |-> IF n = Entry THEN {Entry} ELSE Blocks]

(* The block itself and what dominates all its predecessors.               *)
Refined(n, d) == {n} \cup {a \in Blocks : \A p \in Preds(n) : a \in d[p]}

VisitBlock ==
    /\ pc = "sweep"
    /\ next \in Blocks
    /\ IF next = Entry
       THEN UNCHANGED <<changed, doms>>
       ELSE /\ changed' = (changed \/ Refined(next, doms) # doms[next])
            /\ doms' = [doms EXCEPT ![next] = Refined(next, doms)]
    /\ next' = next + 1
    /\ UNCHANGED <<graph, pc>>

(* Mutant: changed is not reset.                                           *)
EndSweepChanged ==
    /\ pc = "sweep"
    /\ next \notin Blocks
    /\ IF changed
       THEN next' = 1 /\ UNCHANGED <<pc, changed>>
       ELSE pc' = "done" /\ UNCHANGED <<next, changed>>
    /\ UNCHANGED <<graph, doms>>

EndSweep ==
    /\ pc = "sweep"
    /\ next \notin Blocks
    /\ IF changed
       THEN next' = 1 /\ changed' = FALSE /\ UNCHANGED pc
       ELSE pc' = "done" /\ UNCHANGED <<next, changed>>
    /\ UNCHANGED <<graph, doms>>

Next == VisitBlock \/ EndSweep

Spec == Init /\ [][Next]_vars /\ WF_vars(Next)

(* Mutant: a block counts as its own dominator.                            *)
IsWeakDominatorOf(a, b) == b \in Blocks /\ a \in doms[b]

(* The answer to a client: strict dominance.                               *)
IsDominatorOf(a, b) == a # b /\ b \in Blocks /\ a \in doms[b]

-----------------------------------------------------------------------------
TypeOK ==
    /\ graph \in DOMAIN FlowGraphs
    /\ pc \in {"sweep", "done"}
    /\ next \in 1 .. Len(FlowGraphs[graph]) + 1
    /\ changed \in BOOLEAN
    /\ doms \in [Blocks -> SUBSET Blocks]

(* d satisfies the dominance equations.                                    *)
Solves(d) ==
    /\ d[Entry] = {Entry}
    /\ \A n \in Blocks \ {Entry} : d[n] = Refined(n, d)

(***************************************************************************)
(* When the sweeps are over, doms solves the dominance equations, and no   *)
(* solution has more in it: no sweep stops a step too early or goes below  *)
(* the solution that is wanted.                                            *)
(***************************************************************************)
GreatestSolution ==
    pc = "done" =>
        /\ Solves(doms)
        /\ \A d \in [Blocks -> SUBSET Blocks] :
              Solves(d) => \A n \in Blocks : d[n] \subseteq doms[n]

(* The blocks that the entry block reaches without going through a.        *)
Without(a) ==
    LET reach[k \in Nat] ==
            IF k = 0 THEN {Entry} \ {a}
            ELSE reach[k - 1] \cup {n \in Blocks \ {a} : Preds(n) \cap reach[k - 1] # {}}
    IN  reach[Len(FlowGraphs[graph])]

(***************************************************************************)
(* What a client is told is strict dominance, for every block that can be  *)
(* reached: a is on every path to b. Blocks that cannot be reached do not  *)
(* disturb it, even where they are predecessors of one that can.           *)
(***************************************************************************)
StrictDominance ==
    pc = "done" =>
        \A a \in Blocks, b \in Without(0) :
            IsDominatorOf(a, b) <=> a # b /\ b \notin Without(a)

(* The sweeps come to an end.                                              *)
Terminates == <>(pc = "done")
=============================================================================
