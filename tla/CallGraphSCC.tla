---------------------------- MODULE CallGraphSCC -----------------------------
(***************************************************************************)
(* FunctionClonePass::buildSCC and dfs: the strongly connected components  *)
(* of the call graph, found by one depth-first search.                     *)
(*                                                                         *)
(* A call graph is the tuple of the callee sets of its functions, numbered *)
(* from 0 as buildSCC numbers them. A call of an unknown function leads to *)
(* External, the node of the graph that stands for no function: buildSCC   *)
(* gives it no index, and looking up an index that is not there creates 0. *)
(***************************************************************************)
EXTENDS Integers, Sequences, FiniteSets

CONSTANTS CallGraphs, External

ASSUME CallGraphsAssumption ==
    \A cg \in CallGraphs :
        /\ External \notin 0 .. Len(cg) - 1
        /\ cg \in Seq(SUBSET (0 .. Len(cg) - 1 \cup {External}))

VARIABLES
    cg,         \* the call graph
    marked, low, id, pre, count,
    stack,      \* the indexes dfs has pushed, the last on top
    frames      \* the activations of dfs, the running one last

vars == <<cg, marked, low, id, pre, count, stack, frames>>

V == Len(cg)
Vertices == 0 .. V - 1
Callees(v) == cg[v + 1]

(* The successors dfs walks to.                                            *)
Index(n) == IF n = External THEN 0 ELSE n
Adj(v) == {Index(n) : n \in Callees(v)}

Running == frames[Len(frames)]

Lower(a, b) == IF a < b THEN a ELSE b

-----------------------------------------------------------------------------
Init ==
    /\ cg \in CallGraphs
    /\ marked = [v \in Vertices |-> FALSE]
    /\ low = [v \in Vertices |-> 0]
    /\ id = [v \in Vertices |-> 0]
    /\ pre = 0
    /\ count = 0
    /\ stack = <<>>
    /\ frames = <<>>

(* Mutant: the vertex is not marked.                                       *)
EnterUnmarked(v) ==
    /\ ~marked[v]
    /\ low' = [low EXCEPT ![v] = pre]
    /\ pre' = pre + 1
    /\ stack' = Append(stack, v)
    /\ frames' = Append(frames, [v |-> v, min |-> pre, adj |-> Adj(v)])
    /\ UNCHANGED <<cg, marked, id, count>>

(* The head of dfs(v): number the vertex and collect its successors.       *)
Enter(v) ==
    /\ ~marked[v]
    /\ marked' = [marked EXCEPT ![v] = TRUE]
    /\ low' = [low EXCEPT ![v] = pre]
    /\ pre' = pre + 1
    /\ stack' = Append(stack, v)
    /\ frames' = Append(frames, [v |-> v, min |-> pre, adj |-> Adj(v)])
    /\ UNCHANGED <<cg, id, count>>

(* The loop of buildSCC.                                                   *)
Root(v) ==
    /\ frames = <<>>
    /\ \A u \in Vertices : u < v => marked[u]
    /\ Enter(v)

(* adj is an unordered set: any successor may be the next. One that is not *)
(* marked is searched first ...                                            *)
Descend(w) ==
    /\ frames # <<>>
    /\ w \in Running.adj
    /\ Enter(w)

(* Mutant: the loop over adj does not move on.                             *)
CompareAgain(w) ==
    /\ frames # <<>>
    /\ w \in Running.adj
    /\ marked[w]
    /\ frames' = [frames EXCEPT ![Len(frames)] =
                    [Running EXCEPT !.min = Lower(low[w], Running.min)]]
    /\ UNCHANGED <<cg, marked, low, id, pre, count, stack>>

(* ... and then its low counts.                                            *)
Compare(w) ==
    /\ frames # <<>>
    /\ w \in Running.adj
    /\ marked[w]
    /\ frames' = [frames EXCEPT ![Len(frames)] =
                    [Running EXCEPT !.adj = Running.adj \ {w},
                                    !.min = Lower(low[w], Running.min)]]
    /\ UNCHANGED <<cg, marked, low, id, pre, count, stack>>

PopFrame == frames' = SubSeq(frames, 1, Len(frames) - 1)

(* v belongs to a component that was entered earlier.                      *)
ReturnLower ==
    /\ frames # <<>>
    /\ Running.adj = {}
    /\ Running.min < low[Running.v]
    /\ low' = [low EXCEPT ![Running.v] = Running.min]
    /\ PopFrame
    /\ UNCHANGED <<cg, marked, id, pre, count, stack>>

(* Mutant: the low of a popped vertex still counts.                        *)
PopComponentOnly ==
    /\ frames # <<>>
    /\ Running.adj = {}
    /\ Running.min >= low[Running.v]
    /\ LET at    == CHOOSE k \in DOMAIN stack : stack[k] = Running.v
           popped == {stack[k] : k \in at .. Len(stack)}
       IN  /\ id' = [v \in Vertices |-> IF v \in popped THEN count ELSE id[v]]
           /\ stack' = SubSeq(stack, 1, at - 1)
    /\ count' = count + 1
    /\ PopFrame
    /\ UNCHANGED <<cg, low, marked, pre>>

(* v is the head of a component: everything above it on the stack.         *)
PopComponent ==
    /\ frames # <<>>
    /\ Running.adj = {}
    /\ Running.min >= low[Running.v]
    /\ LET at    == CHOOSE k \in DOMAIN stack : stack[k] = Running.v
           popped == {stack[k] : k \in at .. Len(stack)}
       IN  /\ id' = [v \in Vertices |-> IF v \in popped THEN count ELSE id[v]]
           /\ low' = [v \in Vertices |-> IF v \in popped THEN V ELSE low[v]]
           /\ stack' = SubSeq(stack, 1, at - 1)
    /\ count' = count + 1
    /\ PopFrame
    /\ UNCHANGED <<cg, marked, pre>>

Next ==
    \/ \E v \in Vertices : Root(v) \/ Descend(v) \/ Compare(v)
    \/ ReturnLower
    \/ PopComponent

Spec == Init /\ [][Next]_vars /\ WF_vars(Next)

Done == frames = <<>> /\ \A v \in Vertices : marked[v]

-----------------------------------------------------------------------------
TypeOK ==
    /\ marked \in [Vertices -> BOOLEAN]
    /\ low \in [Vertices -> 0 .. V]
    /\ id \in [Vertices -> 0 .. V]
    /\ pre \in 0 .. V
    /\ count \in 0 .. V
    /\ \A k \in DOMAIN stack : stack[k] \in Vertices
    /\ \A k \in DOMAIN frames :
          /\ frames[k].v \in Vertices
          /\ frames[k].min \in 0 .. V
          /\ frames[k].adj \subseteq Vertices

(* The vertices that v reaches over these edges, itself included.          *)
Reach(v, edges(_)) ==
    LET reach[k \in Nat] ==
            IF k = 0 THEN {v}
            ELSE reach[k - 1] \cup UNION {edges(u) : u \in reach[k - 1]}
    IN  reach[V]

SameComponent(u, v, edges(_)) == v \in Reach(u, edges) /\ u \in Reach(v, edges)

(***************************************************************************)
(* A component is final when it is popped: two vertices that have left the *)
(* stack carry the same id exactly if each reaches the other over the      *)
(* edges dfs walks, and no vertex of their component is still on the       *)
(* stack or yet to be found.                                               *)
(***************************************************************************)
Closed == {v \in Vertices : marked[v] /\ \A k \in DOMAIN stack : stack[k] # v}

ComponentsClosed ==
    \A u \in Closed, v \in Vertices :
        /\ SameComponent(u, v, Adj) => v \in Closed
        /\ v \in Closed => (id[u] = id[v] <=> SameComponent(u, v, Adj))

(* The functions a call is known to lead to.                               *)
Calls(v) == Callees(v) \ {External}

(***************************************************************************)
(* The ids are what the listing of buildSCC says they are: functions       *)
(* belong to the same SCC exactly if they call each other.                 *)
(***************************************************************************)
IdsAreSCCs ==
    Done => \A u, v \in Vertices : id[u] = id[v] <=> SameComponent(u, v, Calls)

(* The search ends.                                                        *)
SearchEnds == <>Done
=============================================================================
