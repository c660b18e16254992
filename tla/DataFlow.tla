------------------------------ MODULE DataFlow -------------------------------
(***************************************************************************)
(* DataFlowAnalysis: the worklist solver that forward and backward data    *)
(* flow analyses are to inherit from. A client supplies meet, transfer,    *)
(* isBoundary and setup; unEqual is the inequality of its values.          *)
(*                                                                         *)
(* A flow problem is a record                                              *)
(*   direction  FORWARD or BACKWARD                                        *)
(*   preds, succs  for every node the sequence its iterator yields         *)
(*   boundary   the nodes isBoundary answers true for                      *)
(*   client     whatever the client's transfer function depends on         *)
(***************************************************************************)
EXTENDS Naturals, SequencesExt

CONSTANTS
    FlowProblems,
    Values,                 \* what the client's maps hold
    TOP, boundaryValue,
    Meet(_, _),
    Transfer(_, _, _)       \* of the client's data, a node and a value

FORWARD == FALSE
BACKWARD == TRUE

(* Nodes and edges are those of one graph, seen from both ends.            *)
WellFormed(f) ==
    /\ f.direction \in BOOLEAN
    /\ f.preds \in [DOMAIN f.succs -> Seq(DOMAIN f.succs)]
    /\ f.succs \in [DOMAIN f.succs -> Seq(DOMAIN f.succs)]
    /\ f.boundary \subseteq DOMAIN f.succs
    /\ \A n, m \in DOMAIN f.succs :
          m \in Range(f.succs[n]) <=> n \in Range(f.preds[m])

ASSUME FlowProblemsAssumption == \A f \in FlowProblems : WellFormed(f)

VARIABLES
    flow,       \* the problem being solved
    inSet, outSet,
    wlist,      \* the nodes to visit
    recSet      \* the nodes visited so far

vars == <<flow, inSet, outSet, wlist, recSet>>

Nodes == DOMAIN flow.succs

(* Where a node takes its facts from, and whom its facts concern.          *)
Sources(n) == IF flow.direction = FORWARD THEN flow.preds[n] ELSE flow.succs[n]
Targets(n) == Range(IF flow.direction = FORWARD THEN flow.succs[n] ELSE flow.preds[n])

-----------------------------------------------------------------------------
(* Mutant: the maps start with the boundary value.                         *)
InitBoundary ==
    /\ flow \in FlowProblems
    /\ wlist \in {flow.boundary, DOMAIN flow.succs}
    /\ inSet = [n \in Nodes |-> boundaryValue]
    /\ outSet = [n \in Nodes |-> boundaryValue]
    /\ recSet = {}

(* A client's setup enqueues the boundary nodes, or all nodes. A node the  *)
(* maps do not hold reads as TOP.                                          *)
Init ==
    /\ flow \in FlowProblems
    /\ wlist \in {flow.boundary, DOMAIN flow.succs}
    /\ inSet = [n \in Nodes |-> TOP]
    /\ outSet = [n \in Nodes |-> TOP]
    /\ recSet = {}

(* meetAllPred, meetAllSucc.                                               *)
MeetAll(n, facts) ==
    IF n \in flow.boundary
    THEN boundaryValue
    ELSE FoldLeft(Meet, TOP, [k \in DOMAIN Sources(n) |-> facts[Sources(n)[k]]])

(* Mutant: a first visit that changes nothing is not passed on.            *)
PropogateChange(n, changed) ==
    /\ wlist' = (wlist \ {n}) \cup (IF changed THEN Targets(n) ELSE {})
    /\ recSet' = recSet \cup {n}
    /\ UNCHANGED flow

(* Mutant: every visit is passed on.                                       *)
PropogateAlways(n, changed) ==
    /\ wlist' = (wlist \ {n}) \cup Targets(n)
    /\ recSet' = recSet \cup {n}
    /\ UNCHANGED flow

(* propogate, if the visit has changed anything or was the first one.      *)
Propogate(n, changed) ==
    /\ wlist' = (wlist \ {n}) \cup (IF changed \/ n \notin recSet THEN Targets(n) ELSE {})
    /\ recSet' = recSet \cup {n}
    /\ UNCHANGED flow

VisitForward(n) ==
    /\ flow.direction = FORWARD
    /\ LET newIn  == MeetAll(n, outSet)
           newOut == Transfer(flow.client, n, newIn)
       IN  /\ inSet' = [inSet EXCEPT ![n] = newIn]
           /\ outSet' = [outSet EXCEPT ![n] = newOut]
           /\ Propogate(n, newOut # outSet[n])

VisitBackward(n) ==
    /\ flow.direction = BACKWARD
    /\ LET newOut == MeetAll(n, inSet)
           newIn  == Transfer(flow.client, n, newOut)
       IN  /\ outSet' = [outSet EXCEPT ![n] = newOut]
           /\ inSet' = [inSet EXCEPT ![n] = newIn]
           /\ Propogate(n, newIn # inSet[n])

(* dataFlowWalking: visit nodes in any order until none is left.           *)
Next == \E n \in wlist : VisitForward(n) \/ VisitBackward(n)

Spec == Init /\ [][Next]_vars /\ WF_vars(Next)

-----------------------------------------------------------------------------
TypeOK ==
    /\ WellFormed(flow)
    /\ wlist \subseteq Nodes
    /\ recSet \subseteq Nodes
    /\ DOMAIN inSet = Nodes
    /\ DOMAIN outSet = Nodes

(* The data flow equations at one node.                                    *)
Consistent(n, in, out) ==
    IF flow.direction = FORWARD
    THEN in[n] = MeetAll(n, out) /\ out[n] = Transfer(flow.client, n, in[n])
    ELSE out[n] = MeetAll(n, in) /\ in[n] = Transfer(flow.client, n, out[n])

(***************************************************************************)
(* An empty worklist means a solution: the equations hold at every node    *)
(* that was visited, and the nodes that depend on one that was visited     *)
(* were visited too, whatever the order in which the set yields them.      *)
(***************************************************************************)
Solved ==
    wlist = {} =>
        /\ flow.boundary \subseteq recSet
        /\ \A n \in recSet : Consistent(n, inSet, outSet) /\ Targets(n) \subseteq recSet

-----------------------------------------------------------------------------
(* The order that a client's meet stands for.                              *)
Below(a, b) == Meet(a, b) = a

(* A client as the textbook wants it: meet is a meet, TOP is the greatest  *)
(* value, and transfer is monotone.                                        *)
MonotoneClient ==
    /\ TOP \in Values /\ boundaryValue \in Values
    /\ \A a, b \in Values :
          /\ Meet(a, b) \in Values
          /\ Meet(a, b) = Meet(b, a)
          /\ \A c \in Values : Meet(a, Meet(b, c)) = Meet(Meet(a, b), c)
    /\ \A a \in Values : Meet(a, a) = a /\ Below(a, TOP)
    /\ \A f \in FlowProblems : \A n \in DOMAIN f.succs : \A a, b \in Values :
          /\ Transfer(f.client, n, a) \in Values
          /\ Below(a, b) => Below(Transfer(f.client, n, a), Transfer(f.client, n, b))

(***************************************************************************)
(* No order loses precision: of all solutions at the nodes that were       *)
(* visited, the walk of a monotone client finds the greatest.              *)
(***************************************************************************)
BestSolution ==
    wlist = {} =>
        \A in, out \in [Nodes -> Values] :
            (\A n \in recSet : Consistent(n, in, out)) =>
                \A n \in Nodes : Below(in[n], inSet[n]) /\ Below(out[n], outSet[n])

(* The walk ends.                                                          *)
WalkEnds == <>(wlist = {})
=============================================================================
