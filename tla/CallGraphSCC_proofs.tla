------------------------- MODULE CallGraphSCC_proofs -------------------------
(***************************************************************************)
(* Proofs about CallGraphSCC, for call graphs of every size: the search    *)
(* finds the strongly connected components of the edges it walks.          *)
(*                                                                         *)
(* low is not the lowest number a vertex reaches, only a bound for it: it  *)
(* is lowered once, when dfs leaves the vertex, to the smallest low of the *)
(* successors at that moment. What makes this enough is that a low under   *)
(* that of an active vertex x means the same as a path below x, which the  *)
(* invariant says in two parts: EdgesSeen and MinCovers from the path to   *)
(* the low, LowReaches from the low to the path.                           *)
(***************************************************************************)
EXTENDS CallGraphSCC, Induction, SequenceTheorems

(* The vertices v reaches over the edges dfs walks.                        *)
Reached(v) == Reach(v, Adj)

(* The vertices are as many as the functions, and edges stay among them.   *)
LEMMA GraphFacts ==
    ASSUME cg \in CallGraphs
    PROVE  /\ V \in Nat
           /\ IsFiniteSet(Vertices) /\ Cardinality(Vertices) = V
           /\ \A v \in Vertices : Adj(v) \subseteq Vertices
<1>1. cg \in Seq(SUBSET (0 .. Len(cg) - 1 \cup {External})) BY CallGraphsAssumption
<1>2. V \in Nat BY <1>1 DEF V
<1>3. IsFiniteSet(Vertices) /\ Cardinality(Vertices) = V
  <2>1. 0 \in Int /\ V - 1 \in Int BY <1>2
  <2>2. IsFiniteSet(0 .. V - 1) /\ Cardinality(0 .. V - 1) = IF 0 > V - 1 THEN 0 ELSE (V - 1) - 0 + 1
    BY <2>1, FS_Interval
  <2> QED BY <1>2, <2>2 DEF Vertices
<1>4. ASSUME NEW v \in Vertices PROVE Adj(v) \subseteq Vertices
  <2>1. Callees(v) \subseteq Vertices \cup {External}
    <3>1. v + 1 \in 1 .. Len(cg) BY <1>2 DEF Vertices, V
    <3>2. cg[v + 1] \in SUBSET (0 .. Len(cg) - 1 \cup {External}) BY <1>1, <3>1
    <3> QED BY <3>2 DEF Callees, Vertices, V
  <2>2. 0 \in Vertices BY <1>2 DEF Vertices
  <2> QED BY <2>1, <2>2 DEF Adj, Index
<1> QED BY <1>2, <1>3, <1>4

(* The recursive definition of Reach has a solution, and its rounds are    *)
(* the sets it says.                                                       *)
LEMMA ReachUnfold ==
    ASSUME NEW v \in Vertices, cg \in CallGraphs
    PROVE  \E f \in [Nat -> SUBSET Vertices] :
              /\ f[0] = {v}
              /\ \A n \in Nat : f[n + 1] = f[n] \cup UNION {Adj(u) : u \in f[n]}
              /\ Reached(v) = f[V]
<1> DEFINE F(r) == [k \in Nat |-> IF k = 0 THEN {v} ELSE r[k - 1] \cup UNION {Adj(u) : u \in r[k - 1]}]
           r0 == CHOOSE r : r = F(r)
           step == [s \in SUBSET Vertices |-> s \cup UNION {Adj(u) : u \in s}]
<1>1. Reached(v) = r0[V] BY DEF Reached, Reach
<1>2. step \in [SUBSET Vertices -> SUBSET Vertices] BY GraphFacts
<1>3. PICK f \in [Nat -> SUBSET Vertices] : f[0] = {v} /\ \A n \in Nat : f[n + 1] = step[f[n]]
  <2> DEFINE D == SUBSET Vertices
  <2>1. {v} \in D /\ step \in [D -> D] BY <1>2
  <2> HIDE DEF step, D
  <2>2. PICK f : Iterates(f, D, step, {v}) BY <2>1, Iteration
  <2> QED BY <2>2 DEF D, Iterates
<1>4. f = F(f)
  <2>1. ASSUME NEW k \in Nat PROVE f[k] = IF k = 0 THEN {v} ELSE f[k - 1] \cup UNION {Adj(u) : u \in f[k - 1]}
    <3>1. CASE k = 0 BY <3>1, <1>3
    <3>2. CASE k # 0
      <4>1. k - 1 \in Nat /\ (k - 1) + 1 = k BY <3>2
      <4>2. f[k] = step[f[k - 1]] BY <1>3, <4>1
      <4> QED BY <3>2, <4>1, <4>2
    <3> QED BY <3>1, <3>2
  <2> QED BY <2>1
<1>5. r0 = F(r0)
  <2> HIDE DEF F
  <2> QED BY <1>4
<1>6. r0[0] = {v} /\ \A n \in Nat : r0[n + 1] = r0[n] \cup UNION {Adj(u) : u \in r0[n]}
  <2> HIDE DEF r0
  <2>1. r0[0] = {v} BY <1>5
  <2>2. ASSUME NEW n \in Nat PROVE r0[n + 1] = r0[n] \cup UNION {Adj(u) : u \in r0[n]}
    <3>1. n + 1 \in Nat /\ n + 1 # 0 /\ (n + 1) - 1 = n OBVIOUS
    <3>2. F(r0)[n + 1] = r0[n] \cup UNION {Adj(u) : u \in r0[n]} BY <3>1
    <3> QED BY <1>5, <3>2
  <2> QED BY <2>1, <2>2
<1>7. r0 \in [Nat -> SUBSET Vertices]
  <2> DEFINE S == {n \in Nat : r0[n] \subseteq Vertices}
  <2> HIDE DEF r0
  <2>1. 0 \in S BY <1>6
  <2>2. ASSUME NEW n \in Nat, n \in S PROVE n + 1 \in S
    <3>1. r0[n] \subseteq Vertices BY <2>2
    <3>2. r0[n + 1] \subseteq Vertices BY <1>6, <3>1, GraphFacts
    <3> QED BY <3>2
  <2>3. Nat \subseteq S
    <3> HIDE DEF S
    <3> QED BY <2>1, <2>2, NaturalsIn
  <2>4. \A n \in Nat : r0[n] \in SUBSET Vertices BY <2>3
  <2>5. r0 = [k \in Nat |-> r0[k]]
    <3>1. r0 = F(r0) BY <1>5
    <3> QED BY <3>1
  <2> QED BY <2>4, <2>5
<1> HIDE DEF r0
<1> QED BY <1>1, <1>6, <1>7

(* Reach is the least set that holds v and is closed under the edges.      *)
LEMMA ReachIsClosure ==
    ASSUME NEW v \in Vertices, cg \in CallGraphs
    PROVE  /\ v \in Reached(v) /\ Reached(v) \subseteq Vertices
           /\ \A u \in Reached(v) : Adj(u) \subseteq Reached(v)
           /\ \A S : v \in S /\ (\A u \in S \cap Vertices : Adj(u) \subseteq S) => Reached(v) \subseteq S
<1> DEFINE E == [u \in Vertices |-> Adj(u)]
<1>1. PICK f \in [Nat -> SUBSET Vertices] :
              /\ f[0] = {v}
              /\ \A n \in Nat : f[n + 1] = f[n] \cup UNION {Adj(u) : u \in f[n]}
              /\ Reached(v) = f[V]
  BY ReachUnfold
<1>2. E \in [Vertices -> SUBSET Vertices] BY GraphFacts
<1>3. \A n \in Nat : f[n + 1] = f[n] \cup UNION {E[u] : u \in f[n]}
  <2>1. ASSUME NEW n \in Nat PROVE {E[u] : u \in f[n]} = {Adj(u) : u \in f[n]}
    <3>1. f[n] \subseteq Vertices OBVIOUS
    <3> QED BY <3>1
  <2> QED BY <1>1, <2>1
<1>4. IsFiniteSet(Vertices) /\ V \in Nat /\ Cardinality(Vertices) <= V BY GraphFacts
<1>5. \A u \in Vertices : E[u] = Adj(u) OBVIOUS
<1> HIDE DEF E
<1>6. /\ v \in f[V] /\ f[V] \subseteq Vertices
      /\ \A u \in f[V] : E[u] \subseteq f[V]
      /\ \A S : v \in S /\ (\A u \in S \cap Vertices : E[u] \subseteq S) => f[V] \subseteq S
  <2>1. f[0] = {v} BY <1>1
  <2> HIDE DEF Vertices, V
  <2>2. /\ f[0] \subseteq f[V] /\ f[V] \subseteq Vertices
        /\ \A u \in f[V] : E[u] \subseteq f[V]
        /\ \A S : f[0] \subseteq S /\ (\A u \in S \cap Vertices : E[u] \subseteq S) => f[V] \subseteq S
    BY <1>2, <1>3, <1>4, Closure
  <2> QED BY <2>1, <2>2
<1>7. \A u \in Reached(v) : Adj(u) \subseteq Reached(v) BY <1>1, <1>5, <1>6
<1>8. ASSUME NEW S, v \in S, \A u \in S \cap Vertices : Adj(u) \subseteq S
      PROVE  Reached(v) \subseteq S
  <2>1. \A u \in S \cap Vertices : E[u] \subseteq S BY <1>5, <1>8
  <2> QED BY <1>1, <1>6, <1>8, <2>1
<1> QED BY <1>1, <1>6, <1>7, <1>8

(* What a reached vertex reaches is reached.                               *)
LEMMA ReachTransitive ==
    ASSUME cg \in CallGraphs, NEW u \in Vertices, NEW v \in Reached(u)
    PROVE  v \in Vertices /\ Reached(v) \subseteq Reached(u)
<1>1. v \in Vertices /\ \A x \in Reached(u) : Adj(x) \subseteq Reached(u) BY ReachIsClosure
<1> QED BY <1>1, ReachIsClosure

(* Successors and reachability as functions of the call graph, which no    *)
(* step changes.                                                           *)
SuccOf(g) == [v \in 0 .. Len(g) - 1 |-> {Index(n) : n \in g[v + 1]}]
ToOf(g) == [v \in 0 .. Len(g) - 1 |->
              {w \in 0 .. Len(g) - 1 :
                  \A S \in SUBSET (0 .. Len(g) - 1) :
                      v \in S /\ (\A u \in S : SuccOf(g)[u] \subseteq S) => w \in S}]
Succ == SuccOf(cg)
To == ToOf(cg)

LEMMA SuccIsAdj ==
    ASSUME cg \in CallGraphs
    PROVE  \A v \in Vertices : Succ[v] = Adj(v) /\ Succ[v] \subseteq Vertices
<1>1. \A v \in Vertices : Succ[v] = Adj(v)
  BY DEF Succ, SuccOf, Adj, Callees, Vertices, V
<1> QED BY <1>1, GraphFacts

LEMMA ToIsReach ==
    ASSUME cg \in CallGraphs
    PROVE  \A v \in Vertices : To[v] = Reached(v)
<1> SUFFICES ASSUME NEW v \in Vertices PROVE To[v] = Reached(v) OBVIOUS
<1>1. To[v] = {w \in Vertices : \A S \in SUBSET Vertices :
                  v \in S /\ (\A u \in S : Succ[u] \subseteq S) => w \in S}
  BY DEF To, ToOf, Succ, Vertices, V
<1>2. ASSUME NEW S \in SUBSET Vertices, v \in S, \A u \in S : Succ[u] \subseteq S
      PROVE  Reached(v) \subseteq S
  <2>1. \A u \in S \cap Vertices : Adj(u) \subseteq S BY <1>2, SuccIsAdj
  <2> QED BY <1>2, <2>1, ReachIsClosure
<1>3. Reached(v) \in SUBSET Vertices /\ v \in Reached(v) /\ \A u \in Reached(v) : Succ[u] \subseteq Reached(v)
  BY SuccIsAdj, ReachIsClosure
<1> QED BY <1>1, <1>2, <1>3

(* What the steps of the proof use of reachability.                        *)
LEMMA ToFacts ==
    ASSUME cg \in CallGraphs, NEW v \in Vertices
    PROVE  /\ v \in To[v] /\ To[v] \subseteq Vertices
           /\ \A u \in To[v] : u \in Vertices /\ Succ[u] \subseteq To[v] /\ To[u] \subseteq To[v]
           /\ \A S \in SUBSET Vertices : v \in S /\ (\A u \in S : Succ[u] \subseteq S) => To[v] \subseteq S
<1>1. v \in To[v] /\ To[v] \subseteq Vertices BY ToIsReach, ReachIsClosure
<1>2. \A u \in To[v] : u \in Vertices /\ Succ[u] \subseteq To[v] /\ To[u] \subseteq To[v]
  BY <1>1, ToIsReach, ReachIsClosure, ReachTransitive, SuccIsAdj
<1>3. \A S \in SUBSET Vertices : v \in S /\ (\A u \in S : Succ[u] \subseteq S) => To[v] \subseteq S
  <2> SUFFICES ASSUME NEW S \in SUBSET Vertices, v \in S, \A u \in S : Succ[u] \subseteq S
               PROVE  Reached(v) \subseteq S
    BY ToIsReach
  <2>1. \A u \in S \cap Vertices : Adj(u) \subseteq S BY SuccIsAdj
  <2> QED BY <2>1, ReachIsClosure
<1> QED BY <1>1, <1>2, <1>3

-----------------------------------------------------------------------------
(* The vertices dfs has entered.                                           *)
Marked == {v \in Vertices : marked[v]}
(* The vertex at position k has an activation.                             *)
Active(k) == \E j \in DOMAIN frames : frames[j].v = stack[k]

(* Position k is above the vertex of the j-th activation, and under that   *)
(* of the next one: dfs has left what is there.                            *)
Segment(j, k) ==
    \A m \in DOMAIN frames, q \in DOMAIN stack :
        stack[q] = frames[m].v => IF m <= j THEN q < k ELSE k < q

(* The stack holds entered vertices, each of them once.                    *)
Shape ==
    /\ stack \in Seq(Vertices)
    /\ frames \in Seq([v : Vertices, min : 0 .. V, adj : SUBSET Vertices])
    /\ \A i, k \in DOMAIN stack : stack[i] = stack[k] => i = k
    /\ \A k \in DOMAIN stack : stack[k] \in Marked

(* Every activation has its vertex on the stack, the caller's below, and   *)
(* the caller still has that vertex to compare.                            *)
Order ==
    /\ frames = <<>> => stack = <<>>
    /\ frames # <<>> => frames[1].v = stack[1]
    /\ \A j \in DOMAIN frames : \E k \in DOMAIN stack : stack[k] = frames[j].v
    /\ \A j, m \in DOMAIN frames, i, k \in DOMAIN stack :
          stack[i] = frames[j].v /\ stack[k] = frames[m].v /\ j < m => i < k
    /\ \A j \in DOMAIN frames : j + 1 \in DOMAIN frames => frames[j + 1].v \in frames[j].adj

(* pre counts the entered vertices; each component took one of them at     *)
(* least.                                                                  *)
Counters ==
    /\ pre = Cardinality(Marked)
    /\ count + Len(stack) <= pre
    /\ \A k \in DOMAIN stack : low[stack[k]] < pre

(* Successors that dfs is done with are entered; all of them, once a       *)
(* vertex is left.                                                         *)
Walked ==
    /\ \A j \in DOMAIN frames :
          /\ frames[j].adj \subseteq Succ[frames[j].v]
          /\ Succ[frames[j].v] \ frames[j].adj \subseteq Marked
    /\ \A u \in Marked : (\A j \in DOMAIN frames : frames[j].v # u) => Succ[u] \subseteq Marked

(* An active vertex has a larger low than everything under it.             *)
Below ==
    \A i, k \in DOMAIN stack : i < k /\ Active(k) => low[stack[i]] < low[stack[k]]

(* An edge that was walked to a vertex under an active one has lowered the *)
(* low of the vertex it starts from, or the min of its activation, under   *)
(* that of the active one.                                                 *)
EdgesSeen ==
    /\ \A k, p, i \in DOMAIN stack :
          /\ k < p /\ Active(p)
          /\ p < i /\ ~Active(i)
          /\ stack[k] \in Succ[stack[i]]
          => low[stack[i]] < low[stack[p]]
    /\ \A k, p, i \in DOMAIN stack, m \in DOMAIN frames :
          /\ k < p /\ Active(p)
          /\ p <= i /\ stack[i] = frames[m].v
          /\ stack[k] \in Succ[stack[i]] \ frames[m].adj
          => frames[m].min < low[stack[p]]

(* The min of an activation is as low as the lows of what it has left on   *)
(* the stack, or will be after comparing a vertex that is left there.      *)
MinCovers ==
    \A j \in DOMAIN frames, k \in DOMAIN stack :
        Segment(j, k) =>
            \/ frames[j].min <= low[stack[k]]
            \/ \E i \in DOMAIN stack :
                  /\ Segment(j, i)
                  /\ stack[i] \in frames[j].adj
                  /\ low[stack[i]] <= low[stack[k]]

(* An active vertex reaches everything above it.                           *)
ReachUp ==
    \A p, k \in DOMAIN stack : p < k /\ Active(p) => stack[k] \in To[stack[p]]

(* A vertex dfs has left on the stack reaches one under it.                *)
ReachDown ==
    \A i \in DOMAIN stack :
        ~Active(i) => \E q \in DOMAIN stack : q < i /\ stack[q] \in To[stack[i]]

(* A low or a min under the low of an active vertex comes from a path to a *)
(* vertex under it.                                                        *)
LowReaches ==
    /\ \A p, i \in DOMAIN stack :
          Active(p) /\ low[stack[i]] < low[stack[p]] =>
              \E q \in DOMAIN stack : q < p /\ stack[q] \in To[stack[i]]
    /\ \A p \in DOMAIN stack, m \in DOMAIN frames :
          Active(p) /\ frames[m].min < low[stack[p]] =>
              \E q \in DOMAIN stack : q < p /\ stack[q] \in To[frames[m].v]

(* Components that are closed only lead to components closed before, and   *)
(* two of their vertices with one id reach each other.                     *)
ClosedIds ==
    /\ \A u \in Closed :
          /\ low[u] = V
          /\ id[u] < count
          /\ \A w \in Succ[u] : w \in Closed /\ id[w] <= id[u]
    /\ \A u, v \in Closed : id[u] = id[v] => v \in To[u]

(* All of it.                                                              *)
SearchInv ==
    /\ cg \in CallGraphs
    /\ TypeOK /\ Shape /\ Order /\ Counters /\ Walked
    /\ Below /\ EdgesSeen /\ MinCovers
    /\ ReachUp /\ ReachDown /\ LowReaches /\ ClosedIds

-----------------------------------------------------------------------------
LEMMA StateFacts ==
    ASSUME SearchInv
    PROVE  /\ Len(stack) \in Nat /\ DOMAIN stack = 1 .. Len(stack)
           /\ Len(frames) \in Nat /\ DOMAIN frames = 1 .. Len(frames)
           /\ V \in Nat /\ pre \in Nat /\ count \in Nat /\ pre <= V
           /\ \A k \in DOMAIN stack : stack[k] \in Vertices /\ stack[k] \in Marked
           /\ \A j \in DOMAIN frames :
                 /\ frames[j] \in [v : Vertices, min : 0 .. V, adj : SUBSET Vertices]
                 /\ frames[j].v \in Vertices /\ frames[j].min \in Int /\ frames[j].min <= V
                 /\ frames[j].adj \subseteq Vertices
           /\ \A u \in Vertices : low[u] \in Int /\ low[u] <= V /\ id[u] \in Int
           /\ Marked \subseteq Vertices
           /\ stack = <<>> <=> Len(stack) = 0
           /\ frames = <<>> <=> Len(frames) = 0
<1>1. V \in Nat BY GraphFacts DEF SearchInv
<1>2. stack \in Seq(Vertices) /\ frames \in Seq([v : Vertices, min : 0 .. V, adj : SUBSET Vertices])
  BY DEF SearchInv, Shape
<1>3. /\ Len(stack) \in Nat /\ DOMAIN stack = 1 .. Len(stack)
      /\ Len(frames) \in Nat /\ DOMAIN frames = 1 .. Len(frames)
  BY <1>2, LenProperties
<1>4. pre \in Nat /\ count \in Nat /\ pre <= V BY <1>1 DEF SearchInv, TypeOK
<1>5. \A k \in DOMAIN stack : stack[k] \in Vertices /\ stack[k] \in Marked
  BY <1>2, <1>3, ElementOfSeq DEF SearchInv, Shape
<1>6. \A j \in DOMAIN frames :
         /\ frames[j] \in [v : Vertices, min : 0 .. V, adj : SUBSET Vertices]
         /\ frames[j].v \in Vertices /\ frames[j].min \in Int /\ frames[j].min <= V
         /\ frames[j].adj \subseteq Vertices
  <2>1. \A j \in DOMAIN frames : frames[j] \in [v : Vertices, min : 0 .. V, adj : SUBSET Vertices]
    BY <1>2, <1>3, ElementOfSeq
  <2> QED BY <1>1, <2>1
<1>7. \A u \in Vertices : low[u] \in Int /\ low[u] <= V /\ id[u] \in Int
  BY <1>1 DEF SearchInv, TypeOK
<1>8. Marked \subseteq Vertices BY DEF Marked
<1>9. stack = <<>> <=> Len(stack) = 0 BY <1>2, EmptySeq
<1>10. frames = <<>> <=> Len(frames) = 0 BY <1>2, EmptySeq
<1> QED BY <1>1, <1>3, <1>4, <1>5, <1>6, <1>7, <1>8, <1>9, <1>10

(* Enter(w) pushes w and its activation.                                   *)
LEMMA EnterFacts ==
    ASSUME SearchInv, NEW w \in Vertices, Enter(w)
    PROVE  /\ stack' = Append(stack, w) /\ stack' \in Seq(Vertices)
           /\ frames' \in Seq([v : Vertices, min : 0 .. V, adj : SUBSET Vertices])
           /\ Len(stack') = Len(stack) + 1 /\ DOMAIN stack' = 1 .. Len(stack) + 1
           /\ Len(frames') = Len(frames) + 1 /\ DOMAIN frames' = 1 .. Len(frames) + 1
           /\ \A k \in 1 .. Len(stack) : stack'[k] = stack[k]
           /\ stack'[Len(stack) + 1] = w
           /\ \A j \in 1 .. Len(frames) : frames'[j] = frames[j]
           /\ frames'[Len(frames) + 1].v = w
           /\ frames'[Len(frames) + 1].min = pre
           /\ frames'[Len(frames) + 1].adj = Succ[w]
           /\ \A u \in Vertices : low'[u] = IF u = w THEN pre ELSE low[u]
           /\ Marked' = Marked \cup {w} /\ w \notin Marked
           /\ pre' = pre + 1 /\ cg' = cg /\ id' = id /\ count' = count
           /\ Succ' = Succ /\ To' = To /\ Vertices' = Vertices /\ V' = V
           /\ \A k \in DOMAIN stack : stack[k] # w
           /\ \A j \in DOMAIN frames : frames[j].v # w
<1> DEFINE rec == [v |-> w, min |-> pre, adj |-> Adj(w)]
<1>1. stack \in Seq(Vertices) /\ frames \in Seq([v : Vertices, min : 0 .. V, adj : SUBSET Vertices])
  BY DEF SearchInv, Shape
<1>2. Adj(w) = Succ[w] /\ Succ[w] \subseteq Vertices BY SuccIsAdj DEF SearchInv
<1>3. rec \in [v : Vertices, min : 0 .. V, adj : SUBSET Vertices]
  BY <1>2, StateFacts
<1>4. frames' = Append(frames, rec) /\ stack' = Append(stack, w)
  BY DEF Enter
<1>5. rec.v = w /\ rec.min = pre /\ rec.adj = Succ[w] BY <1>2
<1> HIDE DEF rec
<1>6. /\ stack' \in Seq(Vertices) /\ Len(stack') = Len(stack) + 1 /\ DOMAIN stack' = 1 .. Len(stack) + 1
      /\ \A k \in 1 .. Len(stack) : stack'[k] = stack[k]
      /\ stack'[Len(stack) + 1] = w
  BY <1>1, <1>4, AppendProperties
<1>7. /\ frames' \in Seq([v : Vertices, min : 0 .. V, adj : SUBSET Vertices])
      /\ Len(frames') = Len(frames) + 1 /\ DOMAIN frames' = 1 .. Len(frames) + 1
      /\ \A j \in 1 .. Len(frames) : frames'[j] = frames[j]
      /\ frames'[Len(frames) + 1] = rec
  BY <1>1, <1>3, <1>4, AppendProperties
<1>8. \A u \in Vertices : low'[u] = IF u = w THEN pre ELSE low[u]
  BY DEF Enter, SearchInv, TypeOK
<1>9. Marked' = Marked \cup {w} /\ w \notin Marked
  <2>1. marked \in [Vertices -> BOOLEAN] BY DEF SearchInv, TypeOK
  <2>2. marked' = [marked EXCEPT ![w] = TRUE] /\ ~marked[w] /\ Vertices' = Vertices
    BY DEF Enter, Vertices, V
  <2> QED BY <2>1, <2>2 DEF Marked
<1>10. pre' = pre + 1 /\ cg' = cg /\ id' = id /\ count' = count BY DEF Enter
<1>11. Succ' = Succ /\ To' = To /\ Vertices' = Vertices /\ V' = V
  BY <1>10 DEF Succ, To, Vertices, V
<1>12. \A k \in DOMAIN stack : stack[k] # w BY <1>9, StateFacts
<1>13. \A j \in DOMAIN frames : frames[j].v # w BY <1>12 DEF SearchInv, Order
<1> QED BY <1>4, <1>5, <1>6, <1>7, <1>8, <1>9, <1>10, <1>11, <1>12, <1>13

LEMMA EnterParts ==
    ASSUME SearchInv, NEW w \in Vertices, Enter(w)
    PROVE  /\ \A k \in 1 .. Len(stack) : Active(k)' <=> Active(k)
           /\ \A k : k = Len(stack) + 1 => Active(k)'
           /\ \A j \in DOMAIN frames, k \in DOMAIN stack : Segment(j, k)' <=> Segment(j, k)
           /\ \A j \in DOMAIN frames', k \in DOMAIN stack' :
                 Segment(j, k)' => j \in DOMAIN frames /\ k \in DOMAIN stack
           /\ Closed' = Closed
<1> DEFINE n == Len(frames)
           l == Len(stack)
<1>1. n \in Nat /\ l \in Nat /\ DOMAIN frames = 1 .. n /\ DOMAIN stack = 1 .. l BY StateFacts
<1>2. /\ DOMAIN frames' = 1 .. n + 1 /\ DOMAIN stack' = 1 .. l + 1
      /\ \A k \in 1 .. l : stack'[k] = stack[k] /\ stack[k] # w
      /\ stack'[l + 1] = w
      /\ \A j \in 1 .. n : frames'[j] = frames[j] /\ frames[j].v # w
      /\ frames'[n + 1].v = w
  BY <1>1, EnterFacts
<1> HIDE DEF n, l
<1>3. \A k \in 1 .. l : Active(k)' <=> Active(k) BY <1>1, <1>2 DEF Active
<1>4. ASSUME NEW k, k = l + 1 PROVE Active(k)'
  <2>1. n + 1 \in DOMAIN frames' /\ frames'[n + 1].v = stack'[k] BY <1>1, <1>2, <1>4
  <2> QED BY <2>1 DEF Active
<1>5. ASSUME NEW j \in 1 .. n, NEW k \in 1 .. l PROVE Segment(j, k)' <=> Segment(j, k)
  <2>1. ASSUME Segment(j, k), NEW m \in 1 .. n + 1, NEW q \in 1 .. l + 1, stack'[q] = frames'[m].v
        PROVE  IF m <= j THEN q < k ELSE k < q
    <3>1. CASE m \in 1 .. n
      <4>1. q # l + 1
        <5>1. stack'[q] # w BY <1>2, <2>1, <3>1
        <5> QED BY <1>2, <5>1
      <4>2. q \in 1 .. l BY <1>1, <2>1, <4>1
      <4>3. stack[q] = frames[m].v BY <1>2, <2>1, <3>1, <4>2
      <4> QED BY <1>1, <2>1, <3>1, <4>3, <4>2 DEF Segment
    <3>2. CASE m = n + 1
      <4>1. q = l + 1 BY <1>1, <1>2, <2>1, <3>2
      <4> QED BY <1>1, <3>2, <4>1
    <3> QED BY <1>1, <3>1, <3>2
  <2>2. ASSUME Segment(j, k)', NEW m \in 1 .. n, NEW q \in 1 .. l, stack[q] = frames[m].v
        PROVE  IF m <= j THEN q < k ELSE k < q
    <3>1. m \in DOMAIN frames' /\ q \in DOMAIN stack' /\ stack'[q] = frames'[m].v
      BY <1>1, <1>2, <2>2
    <3> QED BY <2>2, <3>1 DEF Segment
  <2> QED BY <1>1, <1>2, <2>1, <2>2 DEF Segment
<1>6. ASSUME NEW j \in 1 .. n + 1, NEW k \in 1 .. l + 1, Segment(j, k)'
      PROVE  j \in 1 .. n /\ k \in 1 .. l
  <2>1. n + 1 \in DOMAIN frames' /\ l + 1 \in DOMAIN stack' /\ stack'[l + 1] = frames'[n + 1].v
    BY <1>1, <1>2
  <2>2. IF n + 1 <= j THEN l + 1 < k ELSE k < l + 1 BY <1>6, <2>1 DEF Segment
  <2> QED BY <1>1, <2>2
<1>7. Closed' = Closed
  <2>1. Closed = {v \in Marked : \A k \in 1 .. l : stack[k] # v} BY <1>1 DEF Closed, Marked
  <2>2. Closed' = {v \in Marked' : \A k \in 1 .. l + 1 : stack'[k] # v} BY <1>2 DEF Closed, Marked
  <2>3. Marked' = Marked \cup {w} /\ w \notin Marked BY EnterFacts
  <2>4. ASSUME NEW v \in Marked PROVE (\A k \in 1 .. l : stack[k] # v) <=> (\A k \in 1 .. l + 1 : stack'[k] # v)
    <3>1. v # w BY <2>3
    <3> QED BY <1>1, <1>2, <3>1
  <2>5. \E k \in 1 .. l + 1 : stack'[k] = w BY <1>1, <1>2
  <2> HIDE DEF Closed
  <2> QED BY <2>1, <2>2, <2>3, <2>4, <2>5
<1> QED BY <1>1, <1>2, <1>3, <1>4, <1>5, <1>6, <1>7 DEF n, l

LEMMA EnterTyped ==
    ASSUME SearchInv, NEW w \in Vertices, Enter(w)
    PROVE  cg' \in CallGraphs /\ TypeOK' /\ Shape' /\ Counters'
<1> DEFINE n == Len(frames)
           l == Len(stack)
<1>1. n \in Nat /\ l \in Nat /\ DOMAIN frames = 1 .. n /\ DOMAIN stack = 1 .. l BY StateFacts
<1>2. /\ DOMAIN frames' = 1 .. n + 1 /\ DOMAIN stack' = 1 .. l + 1 /\ Len(stack') = l + 1
      /\ \A k \in 1 .. l : stack'[k] = stack[k] /\ stack[k] # w
      /\ stack'[l + 1] = w
  BY <1>1, EnterFacts
<1>3. cg' \in CallGraphs BY EnterFacts DEF SearchInv
<1>4. pre = Cardinality(Marked) /\ pre' = Cardinality(Marked') /\ pre' = pre + 1 /\ pre' <= V
  <2>1. IsFiniteSet(Vertices) /\ Cardinality(Vertices) = V /\ V \in Nat BY GraphFacts DEF SearchInv
  <2>2. IsFiniteSet(Marked) /\ Marked' \subseteq Vertices
    BY <2>1, EnterFacts, StateFacts, FS_Subset
  <2>3. Cardinality(Marked') = Cardinality(Marked) + 1
    BY <2>2, EnterFacts, FS_AddElement
  <2>4. Cardinality(Marked') <= V BY <2>1, <2>2, FS_Subset
  <2> QED BY <2>3, <2>4, EnterFacts DEF SearchInv, Counters
<1>5. Shape'
  <2>1. stack' \in Seq(Vertices') /\ frames' \in Seq([v : Vertices', min : 0 .. V', adj : SUBSET Vertices'])
    BY EnterFacts
  <2>2. ASSUME NEW i \in 1 .. l + 1, NEW k \in 1 .. l + 1, stack'[i] = stack'[k] PROVE i = k
    <3>1. CASE i \in 1 .. l /\ k \in 1 .. l BY <1>1, <1>2, <2>2, <3>1 DEF SearchInv, Shape
    <3>2. CASE ~(i \in 1 .. l /\ k \in 1 .. l) BY <1>1, <1>2, <2>2, <3>2
    <3> QED BY <3>1, <3>2
  <2>3. ASSUME NEW k \in 1 .. l + 1 PROVE stack'[k] \in Marked'
    <3>1. CASE k \in 1 .. l
      <4>1. stack'[k] = stack[k] /\ stack[k] \in Marked BY <1>1, <1>2, <3>1, StateFacts
      <4> QED BY <4>1, EnterFacts
    <3>2. CASE k = l + 1 BY <1>2, <3>2, EnterFacts
    <3> QED BY <1>1, <3>1, <3>2
  <2> QED BY <1>2, <2>1, <2>2, <2>3 DEF Shape
<1>6. TypeOK'
  <2>1. marked' \in [Vertices' -> BOOLEAN]
    BY EnterFacts DEF Enter, SearchInv, TypeOK
  <2>2. low' \in [Vertices' -> 0 .. V'] /\ id' \in [Vertices' -> 0 .. V']
    <3>1. pre \in 0 .. V BY StateFacts
    <3> QED BY <3>1, EnterFacts DEF Enter, SearchInv, TypeOK
  <2>3. pre' \in 0 .. V' /\ count' \in 0 .. V'
    <3>1. pre' \in Nat /\ pre' <= V BY <1>4, StateFacts
    <3>2. count \in 0 .. V BY DEF SearchInv, TypeOK
    <3>3. V \in Nat /\ V' = V /\ count' = count BY StateFacts, EnterFacts
    <3> QED BY <3>1, <3>2, <3>3
  <2>4. \A k \in DOMAIN stack' : stack'[k] \in Vertices'
    BY <1>2, EnterFacts, ElementOfSeq
  <2>5. \A k \in DOMAIN frames' : frames'[k] \in [v : Vertices', min : 0 .. V', adj : SUBSET Vertices']
    BY EnterFacts, ElementOfSeq
  <2>6. \A k \in DOMAIN frames' : frames'[k].v \in Vertices' /\ frames'[k].min \in 0 .. V' /\ frames'[k].adj \subseteq Vertices'
    BY <2>5
  <2> QED BY <2>1, <2>2, <2>3, <2>4, <2>6 DEF TypeOK
<1>7. Counters'
  <2>1. count' + Len(stack') <= pre'
    BY <1>1, <1>2, <1>4, StateFacts, EnterFacts DEF SearchInv, Counters
  <2>2. ASSUME NEW k \in 1 .. l + 1 PROVE low'[stack'[k]] < pre'
    <3>1. CASE k \in 1 .. l
      <4>1. stack'[k] = stack[k] /\ stack[k] # w /\ stack[k] \in Vertices /\ low[stack[k]] \in Int
        BY <1>1, <1>2, <3>1, StateFacts
      <4>2. low[stack[k]] < pre BY <1>1, <3>1 DEF SearchInv, Counters
      <4>3. low'[stack'[k]] = low[stack[k]] BY <4>1, EnterFacts
      <4> QED BY <1>4, <4>1, <4>2, <4>3, StateFacts
    <3>2. CASE k = l + 1
      <4>1. low'[stack'[k]] = pre BY <1>2, <3>2, EnterFacts
      <4> QED BY <1>4, <4>1, StateFacts
    <3> QED BY <1>1, <3>1, <3>2
  <2> QED BY <1>2, <1>4, <2>1, <2>2 DEF Counters
<1> QED BY <1>3, <1>5, <1>6, <1>7

LEMMA EnterOrder ==
    ASSUME SearchInv, NEW w \in Vertices, Enter(w), frames # <<>> => w \in Running.adj
    PROVE  Order' /\ Walked'
<1> DEFINE n == Len(frames)
           l == Len(stack)
<1>1. n \in Nat /\ l \in Nat /\ DOMAIN frames = 1 .. n /\ DOMAIN stack = 1 .. l BY StateFacts
<1>2. /\ DOMAIN frames' = 1 .. n + 1 /\ DOMAIN stack' = 1 .. l + 1
      /\ \A k \in 1 .. l : stack'[k] = stack[k] /\ stack[k] # w
      /\ stack'[l + 1] = w
      /\ \A j \in 1 .. n : frames'[j] = frames[j] /\ frames[j].v # w
      /\ frames'[n + 1].v = w /\ frames'[n + 1].adj = Succ[w]
      /\ Len(stack') = l + 1 /\ Len(frames') = n + 1
  BY <1>1, EnterFacts
<1>3. (frames = <<>> <=> n = 0) /\ (stack = <<>> <=> l = 0) BY StateFacts
<1> HIDE DEF n, l
<1>4. frames' # <<>> /\ stack' # <<>>
  <2>1. 1 \in DOMAIN frames' /\ 1 \in DOMAIN stack' BY <1>1, <1>2
  <2> QED BY <2>1
<1>5. frames'[1].v = stack'[1]
  <2>1. CASE n = 0 BY <1>2, <1>3, <2>1 DEF SearchInv, Order
  <2>2. CASE n # 0
    <3>1. l # 0 /\ frames[1].v = stack[1]
      <4>1. 1 \in DOMAIN frames BY <1>1, <2>2
      <4>2. \E k \in DOMAIN stack : stack[k] = frames[1].v BY <4>1 DEF SearchInv, Order
      <4> QED BY <1>1, <1>3, <2>2, <4>2 DEF SearchInv, Order
    <3>2. 1 \in 1 .. n /\ 1 \in 1 .. l BY <1>1, <2>2, <3>1
    <3> QED BY <1>2, <3>1, <3>2
  <2> QED BY <2>1, <2>2
<1>6. ASSUME NEW j \in 1 .. n + 1 PROVE \E k \in DOMAIN stack' : stack'[k] = frames'[j].v
  <2>1. CASE j \in 1 .. n
    <3>1. PICK k \in 1 .. l : stack[k] = frames[j].v BY <1>1, <2>1 DEF SearchInv, Order
    <3>2. k \in 1 .. l + 1 BY <1>1
    <3> QED BY <1>2, <2>1, <3>1, <3>2
  <2>2. CASE j = n + 1
    <3>1. l + 1 \in 1 .. l + 1 BY <1>1
    <3> QED BY <1>2, <2>2, <3>1
  <2> QED BY <1>1, <2>1, <2>2
<1>7. ASSUME NEW j \in 1 .. n + 1, NEW m \in 1 .. n + 1, NEW i \in 1 .. l + 1, NEW k \in 1 .. l + 1,
             stack'[i] = frames'[j].v, stack'[k] = frames'[m].v, j < m
      PROVE  i < k
  <2>1. j \in 1 .. n BY <1>1, <1>7
  <2>2. i \in 1 .. l
    <3>1. stack'[i] # w BY <1>2, <1>7, <2>1
    <3>2. i # l + 1 BY <1>2, <3>1
    <3> QED BY <1>1, <3>2
  <2>3. CASE k = l + 1 BY <1>1, <2>2, <2>3
  <2>4. CASE k # l + 1
    <3>1. k \in 1 .. l BY <1>1, <2>4
    <3>2. m # n + 1 BY <1>2, <1>7, <3>1
    <3>3. m \in 1 .. n BY <1>1, <3>2
    <3>4. stack[i] = frames[j].v /\ stack[k] = frames[m].v
      BY <1>2, <1>7, <2>1, <2>2, <3>1, <3>3
    <3> QED BY <1>1, <1>7, <2>1, <2>2, <3>1, <3>3, <3>4 DEF SearchInv, Order
  <2> QED BY <2>3, <2>4
<1>8. ASSUME NEW j \in 1 .. n + 1, j + 1 \in 1 .. n + 1 PROVE frames'[j + 1].v \in frames'[j].adj
  <2>1. j \in 1 .. n BY <1>1, <1>8
  <2>2. CASE j = n
    <3>1. w \in frames[n].adj BY <1>1, <1>3, <2>1 DEF Running
    <3> QED BY <1>2, <2>1, <2>2, <3>1
  <2>3. CASE j # n
    <3>1. j + 1 \in 1 .. n BY <1>1, <2>1, <2>3
    <3>2. frames[j + 1].v \in frames[j].adj BY <1>1, <2>1, <3>1 DEF SearchInv, Order
    <3> QED BY <1>2, <2>1, <3>1, <3>2
  <2> QED BY <2>2, <2>3
<1>9. Order'
  <2>1. \A j \in DOMAIN frames' : \E k \in DOMAIN stack' : stack'[k] = frames'[j].v BY <1>2, <1>6
  <2>2. \A j, m \in DOMAIN frames', i, k \in DOMAIN stack' :
           stack'[i] = frames'[j].v /\ stack'[k] = frames'[m].v /\ j < m => i < k
    BY <1>2, <1>7
  <2>3. \A j \in DOMAIN frames' : j + 1 \in DOMAIN frames' => frames'[j + 1].v \in frames'[j].adj
    BY <1>2, <1>8
  <2> QED BY <1>4, <1>5, <2>1, <2>2, <2>3 DEF Order
<1>10. Marked' = Marked \cup {w} /\ Succ' = Succ BY EnterFacts
<1>11. ASSUME NEW j \in 1 .. n + 1
       PROVE  frames'[j].adj \subseteq Succ[frames'[j].v] /\ Succ[frames'[j].v] \ frames'[j].adj \subseteq Marked'
  <2>1. CASE j \in 1 .. n BY <1>1, <1>2, <1>10, <2>1 DEF SearchInv, Walked
  <2>2. CASE j = n + 1 BY <1>2, <2>2
  <2> QED BY <1>1, <2>1, <2>2
<1>12. ASSUME NEW u \in Marked', \A j \in 1 .. n + 1 : frames'[j].v # u PROVE Succ[u] \subseteq Marked'
  <2>1. u # w
    <3>1. n + 1 \in 1 .. n + 1 BY <1>1
    <3> QED BY <1>2, <1>12, <3>1
  <2>2. u \in Marked BY <1>10, <2>1
  <2>3. \A j \in DOMAIN frames : frames[j].v # u
    <3>1. \A j \in 1 .. n : j \in 1 .. n + 1 BY <1>1
    <3> QED BY <1>1, <1>2, <1>12, <3>1
  <2> QED BY <1>10, <2>2, <2>3 DEF SearchInv, Walked
<1>13. Walked' BY <1>2, <1>10, <1>11, <1>12 DEF Walked
<1> QED BY <1>9, <1>13

LEMMA EnterLows ==
    ASSUME SearchInv, NEW w \in Vertices, Enter(w)
    PROVE  Below' /\ EdgesSeen' /\ MinCovers'
<1> DEFINE n == Len(frames)
           l == Len(stack)
<1>1. n \in Nat /\ l \in Nat /\ DOMAIN frames = 1 .. n /\ DOMAIN stack = 1 .. l /\ pre \in Nat
  BY StateFacts
<1>2. /\ DOMAIN frames' = 1 .. n + 1 /\ DOMAIN stack' = 1 .. l + 1
      /\ \A k \in 1 .. l : stack'[k] = stack[k] /\ stack[k] # w
      /\ stack'[l + 1] = w
      /\ \A j \in 1 .. n : frames'[j] = frames[j] /\ frames[j].v # w
      /\ frames'[n + 1].v = w /\ frames'[n + 1].adj = Succ[w]
      /\ Succ' = Succ
  BY <1>1, EnterFacts
<1>3. \A k \in 1 .. l : low'[stack'[k]] = low[stack[k]] /\ low[stack[k]] \in Int /\ low[stack[k]] < pre
  <2>1. \A k \in 1 .. l : stack[k] \in Vertices /\ low[stack[k]] \in Int BY <1>1, StateFacts
  <2>2. \A k \in 1 .. l : low[stack[k]] < pre BY <1>1 DEF SearchInv, Counters
  <2>3. \A k \in 1 .. l : low'[stack'[k]] = low[stack[k]] BY <1>2, <2>1, EnterFacts
  <2> QED BY <2>1, <2>2, <2>3
<1>4. low'[stack'[l + 1]] = pre BY <1>2, EnterFacts
<1>5. (\A k \in 1 .. l : Active(k)' <=> Active(k)) /\ (\A k : k = l + 1 => Active(k)')
  BY EnterParts
<1>6. \A k \in 1 .. l + 1 : k \in 1 .. l \/ k = l + 1 BY <1>1
<1>7. \A i, k \in 1 .. l : i < k /\ Active(k) => low[stack[i]] < low[stack[k]]
  BY <1>1 DEF SearchInv, Below
<1> HIDE DEF n, l
<1>8. Below'
  <2> SUFFICES ASSUME NEW i \in 1 .. l + 1, NEW k \in 1 .. l + 1, i < k, Active(k)'
               PROVE  low'[stack'[i]] < low'[stack'[k]]
    BY <1>2 DEF Below
  <2>1. i \in 1 .. l BY <1>1
  <2>2. CASE k \in 1 .. l BY <1>3, <1>5, <1>7, <2>1, <2>2
  <2>3. CASE k = l + 1 BY <1>3, <1>4, <2>1, <2>3
  <2> QED BY <1>6, <2>2, <2>3
<1>9. EdgesSeen'
  <2>1. ASSUME NEW k \in 1 .. l + 1, NEW p \in 1 .. l + 1, NEW i \in 1 .. l + 1,
               k < p, Active(p)', p < i, ~Active(i)', stack'[k] \in Succ'[stack'[i]]
        PROVE  low'[stack'[i]] < low'[stack'[p]]
    <3>1. i \in 1 .. l BY <1>5, <1>6, <2>1
    <3>2. p \in 1 .. l /\ k \in 1 .. l BY <1>1, <2>1, <3>1
    <3>3. Active(p) /\ ~Active(i) /\ stack[k] \in Succ[stack[i]] BY <1>2, <1>5, <2>1, <3>1, <3>2
    <3>4. low[stack[i]] < low[stack[p]]
      BY <1>1, <2>1, <3>1, <3>2, <3>3 DEF SearchInv, EdgesSeen
    <3> QED BY <1>3, <3>1, <3>2, <3>4
  <2>2. ASSUME NEW k \in 1 .. l + 1, NEW p \in 1 .. l + 1, NEW i \in 1 .. l + 1, NEW m \in 1 .. n + 1,
               k < p, Active(p)', p <= i, stack'[i] = frames'[m].v,
               stack'[k] \in Succ'[stack'[i]] \ frames'[m].adj
        PROVE  frames'[m].min < low'[stack'[p]]
    <3>1. m # n + 1
      <4>1. ASSUME m = n + 1 PROVE FALSE BY <1>2, <2>2, <4>1
      <4> QED BY <4>1
    <3>2. m \in 1 .. n BY <1>1, <3>1
    <3>3. i # l + 1 BY <1>2, <2>2, <3>2
    <3>4. i \in 1 .. l /\ p \in 1 .. l /\ k \in 1 .. l BY <1>1, <2>2, <3>3
    <3>5. Active(p) /\ stack[i] = frames[m].v /\ stack[k] \in Succ[stack[i]] \ frames[m].adj
      BY <1>2, <1>5, <2>2, <3>2, <3>4
    <3>6. frames[m].min < low[stack[p]]
      BY <1>1, <2>2, <3>2, <3>4, <3>5 DEF SearchInv, EdgesSeen
    <3> QED BY <1>2, <1>3, <3>2, <3>4, <3>6
  <2> QED BY <1>2, <2>1, <2>2 DEF EdgesSeen
<1>10. MinCovers'
  <2> SUFFICES ASSUME NEW j \in DOMAIN frames', NEW k \in DOMAIN stack', Segment(j, k)'
               PROVE  \/ frames'[j].min <= low'[stack'[k]]
                      \/ \E i \in DOMAIN stack' :
                            /\ Segment(j, i)'
                            /\ stack'[i] \in frames'[j].adj
                            /\ low'[stack'[i]] <= low'[stack'[k]]
    BY DEF MinCovers
  <2>1. j \in 1 .. n /\ k \in 1 .. l /\ Segment(j, k) BY <1>1, EnterParts
  <2>2. CASE frames[j].min <= low[stack[k]] BY <1>2, <1>3, <2>1, <2>2
  <2>3. CASE \E i \in 1 .. l : Segment(j, i) /\ stack[i] \in frames[j].adj /\ low[stack[i]] <= low[stack[k]]
    <3>1. PICK i \in 1 .. l : Segment(j, i) /\ stack[i] \in frames[j].adj /\ low[stack[i]] <= low[stack[k]]
      BY <2>3
    <3>2. Segment(j, i)' BY <1>1, <2>1, <3>1, EnterParts
    <3>3. i \in 1 .. l + 1 BY <1>1
    <3> QED BY <1>2, <1>3, <2>1, <3>1, <3>2, <3>3
  <2> QED BY <1>1, <2>1, <2>2, <2>3 DEF SearchInv, MinCovers
<1> QED BY <1>8, <1>9, <1>10

LEMMA EnterReach ==
    ASSUME SearchInv, NEW w \in Vertices, Enter(w), frames # <<>> => w \in Running.adj
    PROVE  ReachUp' /\ ReachDown' /\ LowReaches' /\ ClosedIds'
<1> DEFINE n == Len(frames)
           l == Len(stack)
<1>1. n \in Nat /\ l \in Nat /\ DOMAIN frames = 1 .. n /\ DOMAIN stack = 1 .. l /\ pre \in Nat
  BY StateFacts
<1>2. /\ DOMAIN frames' = 1 .. n + 1 /\ DOMAIN stack' = 1 .. l + 1
      /\ \A k \in 1 .. l : stack'[k] = stack[k] /\ stack[k] # w
      /\ stack'[l + 1] = w
      /\ \A j \in 1 .. n : frames'[j] = frames[j] /\ frames[j].v # w
      /\ frames'[n + 1].v = w /\ frames'[n + 1].min = pre
      /\ To' = To
  BY <1>1, EnterFacts
<1>3. \A k \in 1 .. l : low'[stack'[k]] = low[stack[k]] /\ low[stack[k]] \in Int /\ low[stack[k]] < pre
  <2>1. \A k \in 1 .. l : stack[k] \in Vertices /\ low[stack[k]] \in Int BY <1>1, StateFacts
  <2>2. \A k \in 1 .. l : low[stack[k]] < pre BY <1>1 DEF SearchInv, Counters
  <2>3. \A k \in 1 .. l : low'[stack'[k]] = low[stack[k]] BY <1>2, <2>1, EnterFacts
  <2> QED BY <2>1, <2>2, <2>3
<1>4. low'[stack'[l + 1]] = pre BY <1>2, EnterFacts
<1>5. (\A k \in 1 .. l : Active(k)' <=> Active(k)) /\ (\A k : k = l + 1 => Active(k)')
  BY EnterParts
<1>6. \A k \in 1 .. l + 1 : k \in 1 .. l \/ k = l + 1 BY <1>1
<1>7. \A k \in 1 .. l : stack[k] \in Vertices /\ stack[k] \in To[stack[k]]
  BY <1>1, StateFacts, ToFacts DEF SearchInv
<1>8. \A j \in 1 .. n : frames[j].v \in Vertices /\ frames[j].v \in To[frames[j].v]
  BY <1>1, StateFacts, ToFacts DEF SearchInv
<1> HIDE DEF n, l
<1>9. \A p \in 1 .. l : Active(p) => w \in To[stack[p]]
  <2> SUFFICES ASSUME NEW p \in 1 .. l, Active(p) PROVE w \in To[stack[p]] OBVIOUS
  <2>1. PICK j \in 1 .. n : frames[j].v = stack[p] BY <1>1 DEF Active
  <2>2. n \in 1 .. n /\ frames # <<>> BY <1>1, <2>1, StateFacts DEF n
  <2>3. w \in frames[n].adj BY <2>2 DEF Running, n
  <2>4. PICK i \in 1 .. l : stack[i] = frames[n].v BY <1>1, <2>2 DEF SearchInv, Order
  <2>5. w \in Succ[stack[i]] BY <1>1, <2>2, <2>3, <2>4 DEF SearchInv, Walked
  <2>6. stack[i] \in To[stack[p]]
    <3>1. CASE j = n
      <4>1. stack[i] = stack[p] BY <2>1, <2>4, <3>1
      <4> QED BY <1>7, <4>1
    <3>2. CASE j # n
      <4>1. j < n BY <1>1, <2>1, <3>2
      <4>2. p < i BY <1>1, <2>1, <2>2, <2>4, <4>1 DEF SearchInv, Order
      <4> QED BY <1>1, <4>2 DEF SearchInv, ReachUp
    <3> QED BY <3>1, <3>2
  <2> QED BY <1>7, <2>5, <2>6, ToFacts DEF SearchInv
<1>10. ReachUp'
  <2> SUFFICES ASSUME NEW p \in 1 .. l + 1, NEW k \in 1 .. l + 1, p < k, Active(p)'
               PROVE  stack'[k] \in To'[stack'[p]]
    BY <1>2 DEF ReachUp
  <2>1. p \in 1 .. l BY <1>1
  <2>2. Active(p) BY <1>5, <2>1
  <2>3. CASE k \in 1 .. l
    <3>1. stack[k] \in To[stack[p]] BY <1>1, <2>1, <2>2, <2>3 DEF SearchInv, ReachUp
    <3> QED BY <1>2, <2>1, <2>3, <3>1
  <2>4. CASE k = l + 1 BY <1>2, <1>9, <2>1, <2>2, <2>4
  <2> QED BY <1>6, <2>3, <2>4
<1>11. ReachDown'
  <2> SUFFICES ASSUME NEW i \in 1 .. l + 1, ~Active(i)'
               PROVE  \E q \in 1 .. l + 1 : q < i /\ stack'[q] \in To'[stack'[i]]
    BY <1>2 DEF ReachDown
  <2>1. i \in 1 .. l /\ ~Active(i) BY <1>5, <1>6
  <2>2. PICK q \in 1 .. l : q < i /\ stack[q] \in To[stack[i]] BY <1>1, <2>1 DEF SearchInv, ReachDown
  <2>3. q \in 1 .. l + 1 BY <1>1
  <2> QED BY <1>2, <2>1, <2>2, <2>3
<1>12. LowReaches'
  <2>1. ASSUME NEW p \in 1 .. l + 1, NEW i \in 1 .. l + 1, Active(p)', low'[stack'[i]] < low'[stack'[p]]
        PROVE  \E q \in 1 .. l + 1 : q < p /\ stack'[q] \in To'[stack'[i]]
    <3>1. CASE p = l + 1
      <4>1. i # l + 1 BY <1>1, <1>4, <2>1, <3>1
      <4>2. i \in 1 .. l BY <1>6, <4>1
      <4>3. i < p BY <1>1, <3>1, <4>2
      <4> QED BY <1>2, <1>7, <4>2, <4>3
    <3>2. CASE p \in 1 .. l
      <4>1. i # l + 1
        <5>1. low'[stack'[p]] < pre BY <1>3, <3>2
        <5> QED BY <1>1, <1>3, <1>4, <2>1, <3>2, <5>1
      <4>2. i \in 1 .. l BY <1>6, <4>1
      <4>3. Active(p) /\ low[stack[i]] < low[stack[p]] BY <1>3, <1>5, <2>1, <3>2, <4>2
      <4>4. PICK q \in 1 .. l : q < p /\ stack[q] \in To[stack[i]]
        BY <1>1, <3>2, <4>2, <4>3 DEF SearchInv, LowReaches
      <4>5. q \in 1 .. l + 1 BY <1>1
      <4> QED BY <1>2, <4>2, <4>4, <4>5
    <3> QED BY <1>6, <3>1, <3>2
  <2>2. ASSUME NEW p \in 1 .. l + 1, NEW m \in 1 .. n + 1, Active(p)', frames'[m].min < low'[stack'[p]]
        PROVE  \E q \in 1 .. l + 1 : q < p /\ stack'[q] \in To'[frames'[m].v]
    <3>1. m # n + 1
      <4>1. low'[stack'[p]] <= pre BY <1>1, <1>3, <1>4, <1>6
      <4>2. low'[stack'[p]] \in Int BY <1>1, <1>3, <1>4, <1>6
      <4>3. ASSUME m = n + 1 PROVE FALSE BY <1>1, <1>2, <2>2, <4>1, <4>2, <4>3
      <4> QED BY <4>3
    <3>2. m \in 1 .. n BY <1>1, <3>1
    <3>3. CASE p = l + 1
      <4>1. PICK i \in 1 .. l : stack[i] = frames[m].v BY <1>1, <3>2 DEF SearchInv, Order
      <4>2. i \in 1 .. l + 1 /\ i < p BY <1>1, <3>3, <4>1
      <4> QED BY <1>2, <1>7, <3>2, <4>1, <4>2
    <3>4. CASE p \in 1 .. l
      <4>1. Active(p) /\ frames[m].min < low[stack[p]] BY <1>2, <1>3, <1>5, <2>2, <3>2, <3>4
      <4>2. PICK q \in 1 .. l : q < p /\ stack[q] \in To[frames[m].v]
        BY <1>1, <3>2, <3>4, <4>1 DEF SearchInv, LowReaches
      <4>3. q \in 1 .. l + 1 BY <1>1
      <4> QED BY <1>2, <3>2, <3>4, <4>2, <4>3
    <3> QED BY <1>6, <3>3, <3>4
  <2> QED BY <1>2, <2>1, <2>2 DEF LowReaches
<1>13. ClosedIds'
  <2>1. Closed' = Closed /\ Succ' = Succ /\ To' = To /\ id' = id /\ count' = count /\ V' = V
    BY EnterParts, EnterFacts
  <2>2. \A u \in Closed : u \in Vertices /\ u # w
    <3>1. Closed \subseteq Marked BY DEF Closed, Marked
    <3> QED BY <3>1, EnterFacts, StateFacts
  <2>3. \A u \in Closed : low'[u] = low[u] BY <2>2, EnterFacts
  <2> HIDE DEF Closed
  <2> QED BY <2>1, <2>3 DEF SearchInv, ClosedIds
<1> QED BY <1>10, <1>11, <1>12, <1>13

-----------------------------------------------------------------------------
(* Compare(w) takes w from the successors of the running activation.       *)
LEMMA CompareFacts ==
    ASSUME SearchInv, NEW w \in Vertices, Compare(w)
    PROVE  /\ Len(frames) \in 1 .. Len(frames)
           /\ frames' \in Seq([v : Vertices, min : 0 .. V, adj : SUBSET Vertices])
           /\ Len(frames') = Len(frames) /\ DOMAIN frames' = DOMAIN frames
           /\ \A j \in DOMAIN frames : j # Len(frames) => frames'[j] = frames[j]
           /\ \A j \in DOMAIN frames : frames'[j].v = frames[j].v
           /\ frames'[Len(frames)].adj = frames[Len(frames)].adj \ {w}
           /\ frames'[Len(frames)].min =
                 IF low[w] < frames[Len(frames)].min THEN low[w] ELSE frames[Len(frames)].min
           /\ w \in frames[Len(frames)].adj /\ w \in Marked
           /\ cg' = cg /\ marked' = marked /\ low' = low /\ id' = id /\ pre' = pre /\ count' = count
           /\ stack' = stack
           /\ Succ' = Succ /\ To' = To /\ Vertices' = Vertices /\ V' = V /\ Marked' = Marked
           /\ Closed' = Closed
<1> DEFINE n == Len(frames)
           Frame == [v : Vertices, min : 0 .. V, adj : SUBSET Vertices]
           old == frames[n]
           min == Lower(low[w], old.min)
           new == [old EXCEPT !.adj = old.adj \ {w}, !.min = min]
<1>1. frames \in Seq(Frame) BY DEF SearchInv, Shape
<1>2. n \in 1 .. n /\ DOMAIN frames = 1 .. n /\ n \in Nat
  <2>1. n # 0 BY StateFacts DEF Compare
  <2> QED BY <2>1, StateFacts
<1>3. old \in Frame BY <1>2, StateFacts
<1>4. low[w] \in 0 .. V /\ V \in Nat BY StateFacts DEF SearchInv, TypeOK
<1>5. min \in 0 .. V BY <1>3, <1>4 DEF Lower
<1>6. new \in Frame /\ new.v = old.v /\ new.adj = old.adj \ {w} /\ new.min = min
  BY <1>3, <1>5
<1>7. frames' = [frames EXCEPT ![n] = new]
  BY DEF Compare, Running
<1> HIDE DEF new, min
<1>8. frames' \in Seq(Frame) /\ Len(frames') = n BY <1>1, <1>2, <1>6, <1>7, ExceptSeq
<1> HIDE DEF Frame, n
<1>9. DOMAIN frames' = 1 .. n BY <1>8, LenProperties
<1>10. \A j \in 1 .. n : j # n => frames'[j] = frames[j] BY <1>2, <1>7
<1>11. frames'[n] = new BY <1>2, <1>7
<1>12. \A j \in 1 .. n : frames'[j].v = frames[j].v
  <2> SUFFICES ASSUME NEW j \in 1 .. n PROVE frames'[j].v = frames[j].v OBVIOUS
  <2>1. CASE j = n BY <1>6, <1>11, <2>1
  <2>2. CASE j # n BY <1>10, <2>2
  <2> QED BY <2>1, <2>2
<1>13. w \in frames[n].adj /\ w \in Marked
  BY DEF Compare, Running, Marked, n
<1>14. /\ cg' = cg /\ marked' = marked /\ low' = low /\ id' = id /\ pre' = pre /\ count' = count
       /\ stack' = stack
  BY DEF Compare
<1>15. /\ Succ' = Succ /\ To' = To /\ Vertices' = Vertices /\ V' = V /\ Marked' = Marked
       /\ Closed' = Closed
  BY <1>14 DEF Succ, To, Vertices, V, Marked, Closed
<1> QED BY <1>2, <1>6, <1>8, <1>9, <1>10, <1>11, <1>12, <1>13, <1>14, <1>15 DEF n, Frame, min, Lower

LEMMA CompareParts ==
    ASSUME SearchInv, NEW w \in Vertices, Compare(w)
    PROVE  /\ \A k \in DOMAIN stack : Active(k)' <=> Active(k)
           /\ \A j \in DOMAIN frames, k \in DOMAIN stack : Segment(j, k)' <=> Segment(j, k)
<1>1. /\ DOMAIN frames' = DOMAIN frames /\ stack' = stack
      /\ \A j \in DOMAIN frames : frames'[j].v = frames[j].v
  BY CompareFacts
<1>2. \A k \in DOMAIN stack : Active(k)' <=> Active(k) BY <1>1 DEF Active
<1>3. \A j \in DOMAIN frames, k \in DOMAIN stack : Segment(j, k)' <=> Segment(j, k)
  BY <1>1 DEF Segment
<1> QED BY <1>2, <1>3

LEMMA CompareTyped ==
    ASSUME SearchInv, NEW w \in Vertices, Compare(w)
    PROVE  /\ cg' \in CallGraphs /\ TypeOK' /\ Shape' /\ Counters' /\ Order' /\ Walked'
           /\ Below' /\ ReachUp' /\ ReachDown' /\ ClosedIds'
<1> DEFINE n == Len(frames)
<1>1. n \in 1 .. n /\ DOMAIN frames = 1 .. n /\ n \in Nat
  BY StateFacts, CompareFacts
<1>2. /\ DOMAIN frames' = 1 .. n
      /\ \A j \in 1 .. n : j # n => frames'[j] = frames[j]
      /\ \A j \in 1 .. n : frames'[j].v = frames[j].v
      /\ frames'[n].adj = frames[n].adj \ {w}
      /\ w \in frames[n].adj /\ w \in Marked
  BY <1>1, CompareFacts
<1>3. /\ cg' = cg /\ marked' = marked /\ low' = low /\ id' = id /\ pre' = pre /\ count' = count
      /\ stack' = stack
      /\ Succ' = Succ /\ To' = To /\ Vertices' = Vertices /\ V' = V /\ Marked' = Marked
      /\ Closed' = Closed
  BY CompareFacts
<1>4. (frames = <<>> <=> n = 0) BY StateFacts
<1> HIDE DEF n
<1>5. cg' \in CallGraphs BY <1>3 DEF SearchInv
<1>6. frames' \in Seq([v : Vertices, min : 0 .. V, adj : SUBSET Vertices]) BY CompareFacts
<1>7. Shape' BY <1>3, <1>6 DEF SearchInv, Shape
<1>8. TypeOK'
  <2>1. \A k \in DOMAIN frames' : frames'[k] \in [v : Vertices, min : 0 .. V, adj : SUBSET Vertices]
    BY <1>6, ElementOfSeq, LenProperties
  <2>2. \A k \in DOMAIN frames' : frames'[k].v \in Vertices /\ frames'[k].min \in 0 .. V /\ frames'[k].adj \subseteq Vertices
    BY <2>1
  <2> QED BY <1>3, <2>2 DEF SearchInv, TypeOK
<1>9. Counters' BY <1>3 DEF SearchInv, Counters
<1>10. Order'
  <2>1. frames' # <<>>
    <3>1. n \in DOMAIN frames' BY <1>1, <1>2
    <3> QED BY <3>1
  <2>2. frames # <<>> BY <1>1, <1>4
  <2>3. frames'[1].v = stack'[1]
    <3>1. 1 \in 1 .. n BY <1>1
    <3> QED BY <1>2, <1>3, <2>2, <3>1 DEF SearchInv, Order
  <2>4. \A j \in DOMAIN frames' : \E k \in DOMAIN stack' : stack'[k] = frames'[j].v
    BY <1>1, <1>2, <1>3 DEF SearchInv, Order
  <2>5. \A j, m \in DOMAIN frames', i, k \in DOMAIN stack' :
           stack'[i] = frames'[j].v /\ stack'[k] = frames'[m].v /\ j < m => i < k
    BY <1>1, <1>2, <1>3 DEF SearchInv, Order
  <2>6. ASSUME NEW j \in DOMAIN frames', j + 1 \in DOMAIN frames' PROVE frames'[j + 1].v \in frames'[j].adj
    <3>1. j \in 1 .. n /\ j + 1 \in 1 .. n /\ j # n BY <1>1, <1>2, <2>6
    <3>2. frames[j + 1].v \in frames[j].adj BY <1>1, <3>1 DEF SearchInv, Order
    <3> QED BY <1>2, <3>1, <3>2
  <2> QED BY <2>1, <2>3, <2>4, <2>5, <2>6 DEF Order
<1>11. Walked'
  <2>1. ASSUME NEW j \in 1 .. n
        PROVE  frames'[j].adj \subseteq Succ[frames'[j].v] /\ Succ[frames'[j].v] \ frames'[j].adj \subseteq Marked
    <3>1. frames[j].adj \subseteq Succ[frames[j].v] /\ Succ[frames[j].v] \ frames[j].adj \subseteq Marked
      BY <1>1 DEF SearchInv, Walked
    <3>2. CASE j = n BY <1>2, <3>1, <3>2
    <3>3. CASE j # n BY <1>2, <3>1, <3>3
    <3> QED BY <3>2, <3>3
  <2>2. \A u \in Marked : (\A j \in DOMAIN frames' : frames'[j].v # u) => Succ[u] \subseteq Marked
    BY <1>1, <1>2 DEF SearchInv, Walked
  <2> QED BY <1>2, <1>3, <2>1, <2>2 DEF Walked
<1>12. \A k \in DOMAIN stack : Active(k)' <=> Active(k) BY CompareParts
<1>13. Below' BY <1>3, <1>12 DEF SearchInv, Below
<1>14. ReachUp' BY <1>3, <1>12 DEF SearchInv, ReachUp
<1>15. ReachDown' BY <1>3, <1>12 DEF SearchInv, ReachDown
<1>16. ClosedIds'
  <2> HIDE DEF Closed
  <2> QED BY <1>3 DEF SearchInv, ClosedIds
<1> QED BY <1>5, <1>7, <1>8, <1>9, <1>10, <1>11, <1>13, <1>14, <1>15, <1>16

LEMMA CompareLows ==
    ASSUME SearchInv, NEW w \in Vertices, Compare(w)
    PROVE  EdgesSeen' /\ MinCovers' /\ LowReaches'
<1> DEFINE n == Len(frames)
           l == Len(stack)
<1>1. n \in 1 .. n /\ DOMAIN frames = 1 .. n /\ n \in Nat /\ l \in Nat /\ DOMAIN stack = 1 .. l
  BY StateFacts, CompareFacts
<1>2. /\ DOMAIN frames' = 1 .. n
      /\ \A j \in 1 .. n : j # n => frames'[j] = frames[j]
      /\ \A j \in 1 .. n : frames'[j].v = frames[j].v
      /\ frames'[n].adj = frames[n].adj \ {w}
      /\ frames'[n].min = IF low[w] < frames[n].min THEN low[w] ELSE frames[n].min
      /\ w \in frames[n].adj /\ w \in Marked
      /\ low' = low /\ stack' = stack /\ Succ' = Succ /\ To' = To
  BY <1>1, CompareFacts
<1>3. \A j \in 1 .. n : frames[j].min \in Int /\ frames[j].min <= V /\ frames[j].v \in Vertices
  BY <1>1, StateFacts
<1>4. \A k \in 1 .. l : stack[k] \in Vertices /\ low[stack[k]] \in Int /\ low[stack[k]] <= V
  BY <1>1, StateFacts
<1>5. low[w] \in Int /\ low[w] <= V /\ V \in Nat BY StateFacts
<1>6. \A k \in 1 .. l : Active(k)' <=> Active(k) BY <1>1, CompareParts
<1>7. \A j \in 1 .. n, k \in 1 .. l : Segment(j, k)' <=> Segment(j, k) BY <1>1, CompareParts
<1> HIDE DEF n, l
<1>8. frames'[n].min \in Int /\ frames'[n].min <= frames[n].min /\ frames'[n].min <= low[w]
  BY <1>1, <1>2, <1>3, <1>5
<1>9. EdgesSeen'
  <2>1. ASSUME NEW k \in 1 .. l, NEW p \in 1 .. l, NEW i \in 1 .. l,
               k < p, Active(p)', p < i, ~Active(i)', stack'[k] \in Succ'[stack'[i]]
        PROVE  low'[stack'[i]] < low'[stack'[p]]
    BY <1>1, <1>2, <1>6, <2>1 DEF SearchInv, EdgesSeen
  <2>2. ASSUME NEW k \in 1 .. l, NEW p \in 1 .. l, NEW i \in 1 .. l, NEW m \in 1 .. n,
               k < p, Active(p)', p <= i, stack'[i] = frames'[m].v,
               stack'[k] \in Succ'[stack'[i]] \ frames'[m].adj
        PROVE  frames'[m].min < low'[stack'[p]]
    <3>1. Active(p) /\ stack[i] = frames[m].v /\ stack[k] \in Succ[stack[i]] \ frames'[m].adj
      BY <1>2, <1>6, <2>2
    <3>2. stack[k] \notin frames[m].adj => frames[m].min < low[stack[p]]
      BY <1>1, <2>2, <3>1 DEF SearchInv, EdgesSeen
    <3>3. CASE m # n
      <4>1. frames'[m] = frames[m] BY <1>2, <3>3
      <4> QED BY <1>2, <3>1, <3>2, <4>1
    <3>4. CASE m = n /\ stack[k] # w
      <4>1. stack[k] \notin frames[n].adj BY <1>2, <3>1, <3>4
      <4> QED BY <1>1, <1>2, <1>3, <1>4, <1>8, <3>2, <3>4, <4>1
    <3>5. CASE m = n /\ stack[k] = w
      <4>1. low[stack[k]] < low[stack[p]] BY <1>1, <2>2, <3>1 DEF SearchInv, Below
      <4> QED BY <1>1, <1>2, <1>4, <1>8, <3>5, <4>1
    <3> QED BY <3>3, <3>4, <3>5
  <2> QED BY <1>1, <1>2, <2>1, <2>2 DEF EdgesSeen
<1>10. MinCovers'
  <2> SUFFICES ASSUME NEW j \in 1 .. n, NEW k \in 1 .. l, Segment(j, k)'
               PROVE  \/ frames'[j].min <= low'[stack'[k]]
                      \/ \E i \in 1 .. l :
                            /\ Segment(j, i)'
                            /\ stack'[i] \in frames'[j].adj
                            /\ low'[stack'[i]] <= low'[stack'[k]]
    BY <1>1, <1>2 DEF MinCovers
  <2>1. Segment(j, k) BY <1>7
  <2>2. frames'[j].min <= frames[j].min /\ frames'[j].min \in Int
    <3>1. CASE j = n BY <1>8, <3>1
    <3>2. CASE j # n BY <1>2, <1>3, <3>2
    <3> QED BY <3>1, <3>2
  <2>3. CASE frames[j].min <= low[stack[k]] BY <1>2, <1>3, <1>4, <2>2, <2>3
  <2>4. CASE \E i \in 1 .. l : Segment(j, i) /\ stack[i] \in frames[j].adj /\ low[stack[i]] <= low[stack[k]]
    <3>1. PICK i \in 1 .. l : Segment(j, i) /\ stack[i] \in frames[j].adj /\ low[stack[i]] <= low[stack[k]]
      BY <2>4
    <3>2. CASE j = n /\ stack[i] = w BY <1>2, <1>4, <1>8, <3>1, <3>2
    <3>3. CASE ~(j = n /\ stack[i] = w)
      <4>1. stack[i] \in frames'[j].adj
        <5>1. CASE j = n BY <1>2, <3>1, <3>3, <5>1
        <5>2. CASE j # n BY <1>2, <3>1, <5>2
        <5> QED BY <5>1, <5>2
      <4>2. Segment(j, i)' BY <1>7, <3>1
      <4> QED BY <1>2, <3>1, <4>1, <4>2
    <3> QED BY <3>2, <3>3
  <2> QED BY <1>1, <2>1, <2>3, <2>4 DEF SearchInv, MinCovers
<1>11. LowReaches'
  <2>1. ASSUME NEW p \in 1 .. l, NEW i \in 1 .. l, Active(p)', low'[stack'[i]] < low'[stack'[p]]
        PROVE  \E q \in 1 .. l : q < p /\ stack'[q] \in To'[stack'[i]]
    BY <1>1, <1>2, <1>6, <2>1 DEF SearchInv, LowReaches
  <2>2. ASSUME NEW p \in 1 .. l, NEW m \in 1 .. n, Active(p)', frames'[m].min < low'[stack'[p]]
        PROVE  \E q \in 1 .. l : q < p /\ stack'[q] \in To'[frames'[m].v]
    <3>1. Active(p) /\ frames'[m].min < low[stack[p]] BY <1>2, <1>6, <2>2
    <3>2. CASE frames[m].min < low[stack[p]]
      BY <1>1, <1>2, <3>1, <3>2 DEF SearchInv, LowReaches
    <3>3. CASE ~(frames[m].min < low[stack[p]])
      <4>1. m = n /\ frames'[n].min = low[w]
        <5>1. m = n BY <1>2, <3>1, <3>3
        <5> QED BY <1>2, <3>1, <3>3, <5>1
      <4>2. low[w] < low[stack[p]] BY <3>1, <4>1
      <4>3. low[w] # V BY <1>4, <1>5, <4>2
      <4>4. w \notin Closed BY <4>3 DEF SearchInv, ClosedIds
      <4>5. PICK i \in 1 .. l : stack[i] = w BY <1>1, <1>2, <4>4 DEF Closed, Marked
      <4>6. PICK q \in 1 .. l : q < p /\ stack[q] \in To[w]
        BY <1>1, <3>1, <4>2, <4>5 DEF SearchInv, LowReaches
      <4>7. w \in Succ[frames[n].v] BY <1>1, <1>2 DEF SearchInv, Walked
      <4>8. frames[n].v \in Vertices BY <1>1, <1>3
      <4>9. stack[q] \in To[frames[n].v] BY <4>6, <4>7, <4>8, ToFacts DEF SearchInv
      <4> QED BY <1>1, <1>2, <4>1, <4>6, <4>9
    <3> QED BY <3>2, <3>3
  <2> QED BY <1>1, <1>2, <2>1, <2>2 DEF LowReaches
<1> QED BY <1>9, <1>10, <1>11

-----------------------------------------------------------------------------
(* The running activation is the top one on the stack.                     *)
LEMMA TopFrame ==
    ASSUME SearchInv, frames # <<>>
    PROVE  /\ Len(frames) \in 1 .. Len(frames)
           /\ \E p \in 1 .. Len(stack) :
                 /\ stack[p] = frames[Len(frames)].v
                 /\ Active(p)
                 /\ \A j \in 1 .. Len(frames), i \in 1 .. Len(stack) :
                       j # Len(frames) /\ stack[i] = frames[j].v => i < p
                 /\ \A j \in 1 .. Len(frames) : j # Len(frames) => frames[j].v # stack[p]
                 /\ \A k \in 1 .. Len(stack) : Active(k) => k <= p
                 /\ Len(frames) = 1 => p = 1
<1> DEFINE n == Len(frames)
           l == Len(stack)
<1>1. n \in Nat /\ l \in Nat /\ DOMAIN frames = 1 .. n /\ DOMAIN stack = 1 .. l /\ n # 0
  BY StateFacts
<1> HIDE DEF n, l
<1>2. n \in 1 .. n BY <1>1
<1>3. PICK p \in 1 .. l : stack[p] = frames[n].v BY <1>1, <1>2 DEF SearchInv, Order
<1>4. ASSUME NEW j \in 1 .. n, NEW i \in 1 .. l, j # n, stack[i] = frames[j].v PROVE i < p
  <2>1. j < n BY <1>1, <1>4
  <2> QED BY <1>1, <1>2, <1>3, <1>4, <2>1 DEF SearchInv, Order
<1>5. \A j \in 1 .. n : j # n => frames[j].v # stack[p]
  <2> SUFFICES ASSUME NEW j \in 1 .. n, j # n, frames[j].v = stack[p] PROVE FALSE OBVIOUS
  <2>1. p < p BY <1>4
  <2> QED BY <1>1, <2>1
<1>6. ASSUME NEW k \in 1 .. l, Active(k) PROVE k <= p
  <2>1. PICK j \in 1 .. n : frames[j].v = stack[k] BY <1>1, <1>6 DEF Active
  <2>2. CASE j = n
    <3>1. stack[k] = stack[p] BY <1>3, <2>1, <2>2
    <3>2. k = p BY <1>1, <3>1 DEF SearchInv, Shape
    <3> QED BY <1>1, <3>2
  <2>3. CASE j # n
    <3>1. k < p BY <1>4, <2>1, <2>3
    <3> QED BY <1>1, <3>1
  <2> QED BY <2>2, <2>3
<1>7. n = 1 => p = 1
  <2> SUFFICES ASSUME n = 1 PROVE p = 1 OBVIOUS
  <2>1. stack[p] = stack[1] BY <1>3 DEF SearchInv, Order
  <2>2. 1 \in 1 .. l BY <1>1
  <2> QED BY <1>1, <2>1, <2>2 DEF SearchInv, Shape
<1>8. Active(p) BY <1>1, <1>2, <1>3 DEF Active
<1> QED BY <1>2, <1>3, <1>4, <1>5, <1>6, <1>7, <1>8 DEF n, l

(* PopFrame leaves the activations but the last one.                       *)
LEMMA PopFrameFacts ==
    ASSUME SearchInv, frames # <<>>, PopFrame
    PROVE  /\ frames' \in Seq([v : Vertices, min : 0 .. V, adj : SUBSET Vertices])
           /\ Len(frames') = Len(frames) - 1
           /\ DOMAIN frames' = 1 .. Len(frames) - 1
           /\ \A j \in 1 .. Len(frames) - 1 : frames'[j] = frames[j] /\ j \in DOMAIN frames /\ j # Len(frames)
<1> DEFINE Frame == [v : Vertices, min : 0 .. V, adj : SUBSET Vertices]
<1>1. frames \in Seq(Frame) BY DEF SearchInv, Shape
<1>2. Len(frames) \in Nat /\ Len(frames) # 0 /\ DOMAIN frames = 1 .. Len(frames) BY StateFacts
<1> HIDE DEF Frame
<1>3. frames' = SubSeq(frames, 1, Len(frames) - 1) BY DEF PopFrame
<1>4. 1 \in 1 .. Len(frames) + 1 /\ Len(frames) - 1 \in 1 - 1 .. Len(frames) BY <1>2
<1>5. /\ frames' \in Seq(Frame)
      /\ Len(frames') = Len(frames) - 1
      /\ \A j \in 1 .. Len(frames) - 1 : frames'[j] = frames[j]
  <2>1. SubSeq(frames, 1, Len(frames) - 1) \in Seq(Frame)
    BY <1>1, <1>4, SubSeqProperties
  <2>2. Len(SubSeq(frames, 1, Len(frames) - 1)) = Len(frames) - 1
    BY <1>1, <1>2, <1>4, SubSeqProperties
  <2>3. \A j \in 1 .. Len(frames) - 1 : SubSeq(frames, 1, Len(frames) - 1)[j] = frames[j]
    BY <1>1, <1>2, <1>4, SubSeqProperties
  <2> QED BY <1>3, <2>1, <2>2, <2>3
<1>6. DOMAIN frames' = 1 .. Len(frames) - 1 BY <1>5, LenProperties
<1>7. \A n \in Nat : \A j \in 1 .. n - 1 : j \in 1 .. n /\ j # n OBVIOUS
<1> QED BY <1>2, <1>5, <1>6, <1>7 DEF Frame

(* dfs returns to a caller after lowering its vertex v: v stays on the     *)
(* stack, at position p of l. The running activation was the n-th.         *)
LoweredAt(n, l, p, v) ==
    /\ n \in Nat /\ l \in Nat /\ n \in 1 .. n /\ n - 1 \in 1 .. n - 1 /\ p \in 1 .. l
    /\ n = Len(frames)
    /\ v = frames[n].v /\ v \in Vertices /\ stack[p] = v /\ Active(p)
    /\ DOMAIN frames = 1 .. n /\ DOMAIN frames' = 1 .. n - 1
    /\ DOMAIN stack = 1 .. l /\ stack' = stack
    /\ \A j \in 1 .. n - 1 :
          j \in 1 .. n /\ j # n /\ frames'[j] = frames[j] /\ frames[j].v # v
    /\ \A j \in 1 .. n - 1, i \in 1 .. l : stack[i] = frames[j].v => i < p
    /\ \A k \in 1 .. l : Active(k) => k <= p
    /\ frames' \in Seq([v : Vertices, min : 0 .. V, adj : SUBSET Vertices])
    /\ frames[n].adj = {} /\ frames[n].min < low[v] /\ frames[n].min \in 0 .. V
    /\ \A u \in Vertices : low'[u] = IF u = v THEN frames[n].min ELSE low[u]
    /\ \A k \in 1 .. l : (stack[k] = v <=> k = p) /\ stack[k] \in Vertices
    /\ \E q \in 1 .. l : q < p /\ stack[q] \in To[v]
    /\ low' \in [Vertices -> 0 .. V]

LEMMA LowerFacts ==
    ASSUME SearchInv, ReturnLower
    PROVE  \E n, l, p, v : LoweredAt(n, l, p, v)
<1> DEFINE n == Len(frames)
           l == Len(stack)
           v == frames[n].v
<1>1. n \in Nat /\ l \in Nat /\ DOMAIN frames = 1 .. n /\ DOMAIN stack = 1 .. l BY StateFacts
<1>2. frames # <<>> /\ PopFrame BY DEF ReturnLower
<1>3. /\ n \in 1 .. n
      /\ \E p \in 1 .. l :
            /\ stack[p] = v
            /\ Active(p)
            /\ \A j \in 1 .. n, i \in 1 .. l : j # n /\ stack[i] = frames[j].v => i < p
            /\ \A j \in 1 .. n : j # n => frames[j].v # stack[p]
            /\ \A k \in 1 .. l : Active(k) => k <= p
            /\ n = 1 => p = 1
  BY <1>2, TopFrame
<1>4. /\ frames' \in Seq([v : Vertices, min : 0 .. V, adj : SUBSET Vertices])
      /\ DOMAIN frames' = 1 .. n - 1
      /\ \A j \in 1 .. n - 1 : frames'[j] = frames[j]
  BY <1>2, PopFrameFacts
<1>5. \A m \in Nat : \A j \in 1 .. m - 1 : j \in 1 .. m /\ j # m OBVIOUS
<1>6. /\ frames[n].adj = {} /\ frames[n].min < low[v]
      /\ low' = [low EXCEPT ![v] = frames[n].min] /\ stack' = stack
  BY DEF ReturnLower, Running
<1>7. frames[n] \in [v : Vertices, min : 0 .. V, adj : SUBSET Vertices] BY <1>1, <1>3, StateFacts
<1>8. v \in Vertices /\ frames[n].min \in 0 .. V BY <1>7
<1>9. low' \in [Vertices -> 0 .. V] /\ \A u \in Vertices : low'[u] = IF u = v THEN frames[n].min ELSE low[u]
  <2>1. low \in [Vertices -> 0 .. V] BY DEF SearchInv, TypeOK
  <2> HIDE DEF v, n
  <2> QED BY <1>6, <1>8, <2>1
<1> HIDE DEF n, l, v
<1>10. PICK p \in 1 .. l :
            /\ stack[p] = v
            /\ Active(p)
            /\ \A j \in 1 .. n, i \in 1 .. l : j # n /\ stack[i] = frames[j].v => i < p
            /\ \A j \in 1 .. n : j # n => frames[j].v # stack[p]
            /\ \A k \in 1 .. l : Active(k) => k <= p
            /\ n = 1 => p = 1
  BY <1>3
<1>11. \A k \in 1 .. l : (stack[k] = v <=> k = p) /\ stack[k] \in Vertices
  <2>1. \A k \in 1 .. l : stack[k] \in Vertices BY <1>1, StateFacts
  <2>2. \A k \in 1 .. l : stack[k] = stack[p] => k = p BY <1>1, <1>10 DEF SearchInv, Shape
  <2> QED BY <1>10, <2>1, <2>2
<1>12. \E q \in 1 .. l : q < p /\ stack[q] \in To[v]
  <2>1. frames[n].min < low[stack[p]] BY <1>6, <1>10
  <2>2. \E q \in DOMAIN stack : q < p /\ stack[q] \in To[frames[n].v]
    BY <1>1, <1>3, <1>10, <2>1 DEF SearchInv, LowReaches
  <2> QED BY <1>1, <2>2 DEF v
<1>13. n - 1 \in 1 .. n - 1
  <2>1. p # 1 BY <1>1, <1>12
  <2>2. n # 1 BY <1>10, <2>1
  <2> QED BY <1>1, <1>3, <2>2
<1>14. /\ \A j \in 1 .. n - 1 :
             j \in 1 .. n /\ j # n /\ frames'[j] = frames[j] /\ frames[j].v # v
       /\ \A j \in 1 .. n - 1, i \in 1 .. l : stack[i] = frames[j].v => i < p
  BY <1>1, <1>4, <1>5, <1>10
<1>15. v = frames[n].v /\ n = Len(frames) /\ l = Len(stack) BY DEF v, n, l
<1>16. LoweredAt(n, l, p, v)
  <2>1. /\ n \in Nat /\ l \in Nat /\ n \in 1 .. n /\ n - 1 \in 1 .. n - 1 /\ p \in 1 .. l
        /\ n = Len(frames)
        /\ v = frames[n].v /\ v \in Vertices /\ stack[p] = v /\ Active(p)
        /\ DOMAIN frames = 1 .. n /\ DOMAIN frames' = 1 .. n - 1
        /\ DOMAIN stack = 1 .. l /\ stack' = stack
    BY <1>1, <1>3, <1>4, <1>6, <1>8, <1>10, <1>13, <1>15
  <2>2. \A k \in 1 .. l : Active(k) => k <= p BY <1>10
  <2> QED BY <2>1, <2>2, <1>4, <1>6, <1>8, <1>9, <1>11, <1>12, <1>14 DEF LoweredAt
<1> QED BY <1>16


LEMMA LowerParts ==
    ASSUME SearchInv, ReturnLower, NEW n, NEW l, NEW p, NEW v, LoweredAt(n, l, p, v)
    PROVE  /\ \A k \in 1 .. l : Active(k)' <=> Active(k) /\ k # p
           /\ \A j \in 1 .. n - 1, k \in 1 .. l : Segment(j, k) => Segment(j, k)' /\ k < p
           /\ \A j \in 1 .. n - 1, k \in 1 .. l : Segment(j, k)' /\ k < p => Segment(j, k)
           /\ \A j \in 1 .. n - 1, k \in 1 .. l : Segment(j, k)' /\ k > p => j = n - 1 /\ Segment(n, k)
           /\ \A j \in 1 .. n - 1 : Segment(j, p)' => j = n - 1
           /\ \A j : j = n - 1 => Segment(j, p)'
           /\ cg' = cg /\ marked' = marked /\ id' = id /\ pre' = pre /\ count' = count
           /\ Succ' = Succ /\ To' = To /\ Vertices' = Vertices /\ V' = V /\ Marked' = Marked
           /\ Closed' = Closed
           /\ \A k \in 1 .. l : k # p => low'[stack[k]] = low[stack[k]]
           /\ low'[v] = frames[n].min
<1>1. /\ n \in Nat /\ l \in Nat /\ n \in 1 .. n /\ n - 1 \in 1 .. n - 1 /\ p \in 1 .. l
      /\ v = frames[n].v /\ v \in Vertices /\ stack[p] = v
      /\ DOMAIN frames = 1 .. n /\ DOMAIN frames' = 1 .. n - 1
      /\ DOMAIN stack = 1 .. l /\ stack' = stack
      /\ \A j \in 1 .. n - 1 :
            j \in 1 .. n /\ j # n /\ frames'[j] = frames[j] /\ frames[j].v # v
      /\ \A j \in 1 .. n - 1, i \in 1 .. l : stack[i] = frames[j].v => i < p
      /\ \A k \in 1 .. l : stack[k] = v <=> k = p
  BY DEF LoweredAt
<1>2. \A j \in 1 .. n : j \in 1 .. n - 1 \/ j = n BY <1>1
<1>3. \A k \in 1 .. l : Active(k)' <=> Active(k) /\ k # p
  <2> SUFFICES ASSUME NEW k \in 1 .. l PROVE Active(k)' <=> Active(k) /\ k # p OBVIOUS
  <2>1. Active(k)' <=> \E j \in 1 .. n - 1 : frames[j].v = stack[k] BY <1>1 DEF Active
  <2>2. Active(k) <=> \E j \in 1 .. n : frames[j].v = stack[k] BY <1>1 DEF Active
  <2> HIDE DEF Active
  <2> QED BY <1>1, <1>2, <2>1, <2>2
<1>4. \A j, k : Segment(j, k)' <=>
                  \A m \in 1 .. n - 1, q \in 1 .. l :
                      stack[q] = frames[m].v => IF m <= j THEN q < k ELSE k < q
  BY <1>1 DEF Segment
<1>5. \A j, k : Segment(j, k) <=>
                  \A m \in 1 .. n, q \in 1 .. l :
                      stack[q] = frames[m].v => IF m <= j THEN q < k ELSE k < q
  BY <1>1 DEF Segment
<1>6. ASSUME NEW j \in 1 .. n - 1, NEW k \in 1 .. l, Segment(j, k) PROVE Segment(j, k)' /\ k < p
  <2>1. Segment(j, k)' BY <1>1, <1>4, <1>5, <1>6
  <2>2. IF n <= j THEN p < k ELSE k < p BY <1>1, <1>5, <1>6
  <2> QED BY <1>1, <2>1, <2>2
<1>7. ASSUME NEW j \in 1 .. n - 1, NEW k \in 1 .. l, Segment(j, k)', k < p PROVE Segment(j, k)
  <2>1. ASSUME NEW m \in 1 .. n, NEW q \in 1 .. l, stack[q] = frames[m].v
        PROVE  IF m <= j THEN q < k ELSE k < q
    <3>1. CASE m = n
      <4>1. q = p BY <1>1, <2>1, <3>1
      <4> QED BY <1>1, <1>7, <3>1, <4>1
    <3>2. CASE m \in 1 .. n - 1 BY <1>4, <1>7, <2>1, <3>2
    <3> QED BY <1>2, <3>1, <3>2
  <2> QED BY <1>5, <2>1
<1>8. \A j \in 1 .. n - 1, k \in 1 .. l : Segment(j, k)' /\ k >= p => j = n - 1
  <2> SUFFICES ASSUME NEW j \in 1 .. n - 1, NEW k \in 1 .. l, Segment(j, k)', k >= p, j # n - 1
               PROVE  FALSE
    OBVIOUS
  <2>1. n - 1 \in DOMAIN frames BY <1>1
  <2>2. PICK q \in 1 .. l : stack[q] = frames[n - 1].v BY <1>1, <2>1 DEF SearchInv, Order
  <2>3. q < p BY <1>1, <2>2
  <2>4. IF n - 1 <= j THEN q < k ELSE k < q BY <1>1, <1>4, <2>2
  <2> QED BY <1>1, <2>3, <2>4
<1>9. ASSUME NEW j \in 1 .. n - 1, NEW k \in 1 .. l, Segment(j, k)', k > p
      PROVE  j = n - 1 /\ Segment(n, k)
  <2>1. j = n - 1 BY <1>1, <1>8, <1>9
  <2>2. ASSUME NEW m \in 1 .. n, NEW q \in 1 .. l, stack[q] = frames[m].v
        PROVE  IF m <= n THEN q < k ELSE k < q
    <3>1. q <= p
      <4>1. CASE m = n BY <1>1, <2>2, <4>1
      <4>2. CASE m \in 1 .. n - 1 BY <1>1, <2>2, <4>2
      <4> QED BY <1>2, <4>1, <4>2
    <3> QED BY <1>1, <1>9, <3>1
  <2> QED BY <1>5, <2>1, <2>2
<1>10. \A j \in 1 .. n - 1 : Segment(j, p)' => j = n - 1
  <2>1. p >= p BY <1>1
  <2> QED BY <1>1, <1>8, <2>1
<1>11. ASSUME NEW j, j = n - 1 PROVE Segment(j, p)'
  <2>1. ASSUME NEW m \in 1 .. n - 1, NEW q \in 1 .. l, stack[q] = frames[m].v
        PROVE  IF m <= j THEN q < p ELSE p < q
    <3>1. q < p /\ m <= j BY <1>1, <1>11, <2>1
    <3> QED BY <3>1
  <2> QED BY <1>4, <2>1
<1>12. cg' = cg /\ marked' = marked /\ id' = id /\ pre' = pre /\ count' = count
  BY DEF ReturnLower
<1>13. /\ Succ' = Succ /\ To' = To /\ Vertices' = Vertices /\ V' = V /\ Marked' = Marked
       /\ Closed' = Closed
  BY <1>1, <1>12 DEF Succ, To, Vertices, V, Marked, Closed
<1>14. low'[v] = frames[n].min /\ \A k \in 1 .. l : k # p => low'[stack[k]] = low[stack[k]]
  BY DEF LoweredAt
<1>15. \A j \in 1 .. n - 1, k \in 1 .. l : Segment(j, k)' /\ k > p => j = n - 1 /\ Segment(n, k)
  BY <1>9
<1> QED BY <1>3, <1>6, <1>7, <1>10, <1>11, <1>12, <1>13, <1>14, <1>15

LEMMA LowerTyped ==
    ASSUME SearchInv, ReturnLower
    PROVE  cg' \in CallGraphs /\ TypeOK' /\ Shape' /\ Counters' /\ Order' /\ Walked' /\ ClosedIds'
<1>1. PICK n, l, p, v : LoweredAt(n, l, p, v) BY LowerFacts
<1>2. /\ n \in Nat /\ l \in Nat /\ n \in 1 .. n /\ n - 1 \in 1 .. n - 1 /\ p \in 1 .. l
      /\ v = frames[n].v /\ v \in Vertices /\ stack[p] = v
      /\ DOMAIN frames = 1 .. n /\ DOMAIN frames' = 1 .. n - 1
      /\ DOMAIN stack = 1 .. l /\ stack' = stack
      /\ \A j \in 1 .. n - 1 :
            j \in 1 .. n /\ j # n /\ frames'[j] = frames[j] /\ frames[j].v # v
      /\ frames[n].adj = {} /\ frames[n].min < low[v] /\ frames[n].min \in 0 .. V
      /\ \A u \in Vertices : low'[u] = IF u = v THEN frames[n].min ELSE low[u]
      /\ \A k \in 1 .. l : (stack[k] = v <=> k = p) /\ stack[k] \in Vertices
      /\ low' \in [Vertices -> 0 .. V]
  BY <1>1 DEF LoweredAt
<1>3. /\ cg' = cg /\ marked' = marked /\ id' = id /\ pre' = pre /\ count' = count
      /\ Succ' = Succ /\ To' = To /\ Vertices' = Vertices /\ V' = V /\ Marked' = Marked
      /\ Closed' = Closed
  BY <1>1, LowerParts
<1>4. frames' \in Seq([v : Vertices, min : 0 .. V, adj : SUBSET Vertices]) BY <1>1 DEF LoweredAt
<1>5. cg' \in CallGraphs BY <1>3 DEF SearchInv
<1>6. Shape' BY <1>2, <1>3, <1>4 DEF SearchInv, Shape
<1>7. TypeOK'
  <2>1. \A k \in DOMAIN frames' : frames'[k] \in [v : Vertices, min : 0 .. V, adj : SUBSET Vertices]
    BY <1>4, ElementOfSeq, LenProperties
  <2>2. \A k \in DOMAIN frames' : frames'[k].v \in Vertices /\ frames'[k].min \in 0 .. V /\ frames'[k].adj \subseteq Vertices
    BY <2>1
  <2> QED BY <1>2, <1>3, <2>2 DEF SearchInv, TypeOK
<1>8. Counters'
  <2>1. ASSUME NEW k \in 1 .. l PROVE low'[stack[k]] < pre
    <3>1. low[stack[k]] < pre /\ low[stack[k]] \in Int BY <1>2, StateFacts DEF SearchInv, Counters
    <3>2. CASE k = p
      <4>1. frames[n].min \in Int /\ pre \in Nat BY <1>2, StateFacts
      <4> QED BY <1>2, <3>1, <3>2, <4>1
    <3>3. CASE k # p BY <1>2, <3>1, <3>3
    <3> QED BY <3>2, <3>3
  <2> QED BY <1>2, <1>3, <2>1 DEF SearchInv, Counters
<1>9. Order'
  <2>1. n - 1 \in DOMAIN frames' /\ 1 \in 1 .. n - 1 BY <1>2
  <2>2. frames' # <<>> /\ frames # <<>> BY <1>2, <2>1
  <2>3. frames'[1].v = stack'[1] BY <1>2, <2>1, <2>2 DEF SearchInv, Order
  <2>4. \A j \in DOMAIN frames' : \E k \in DOMAIN stack' : stack'[k] = frames'[j].v
    BY <1>2 DEF SearchInv, Order
  <2>5. \A j, m \in DOMAIN frames', i, k \in DOMAIN stack' :
           stack'[i] = frames'[j].v /\ stack'[k] = frames'[m].v /\ j < m => i < k
    <3>1. \A j, m \in 1 .. n, i, k \in 1 .. l :
             stack[i] = frames[j].v /\ stack[k] = frames[m].v /\ j < m => i < k
      <4>1. DOMAIN frames = 1 .. n /\ DOMAIN stack = 1 .. l BY <1>2
      <4> QED BY <4>1 DEF SearchInv, Order
    <3>2. /\ DOMAIN frames' = 1 .. n - 1 /\ DOMAIN stack' = 1 .. l /\ stack' = stack
          /\ \A j \in 1 .. n - 1 : j \in 1 .. n /\ frames'[j] = frames[j]
      BY <1>2
    <3> QED BY <3>1, <3>2
  <2>6. \A j \in DOMAIN frames' : j + 1 \in DOMAIN frames' => frames'[j + 1].v \in frames'[j].adj
    BY <1>2 DEF SearchInv, Order
  <2> QED BY <2>2, <2>3, <2>4, <2>5, <2>6 DEF Order
<1>10. Walked'
  <2>1. \A j \in DOMAIN frames' :
          /\ frames'[j].adj \subseteq Succ[frames'[j].v]
          /\ Succ[frames'[j].v] \ frames'[j].adj \subseteq Marked
    BY <1>2 DEF SearchInv, Walked
  <2>2. ASSUME NEW u \in Marked, \A j \in DOMAIN frames' : frames'[j].v # u PROVE Succ[u] \subseteq Marked
    <3>1. CASE u = v
      <4>1. Succ[frames[n].v] \ frames[n].adj \subseteq Marked BY <1>2 DEF SearchInv, Walked
      <4> QED BY <1>2, <3>1, <4>1
    <3>2. CASE u # v
      <4>1. \A j \in 1 .. n : j \in 1 .. n - 1 \/ j = n BY <1>2
      <4>2. \A j \in DOMAIN frames : frames[j].v # u BY <1>2, <2>2, <3>2, <4>1
      <4> QED BY <4>2 DEF SearchInv, Walked
    <3> QED BY <3>1, <3>2
  <2> QED BY <1>3, <2>1, <2>2 DEF Walked
<1>11. ClosedIds'
  <2>1. \A u \in Closed : u \in Vertices /\ u # v BY <1>2 DEF Closed
  <2>2. \A u \in Closed : low'[u] = low[u] BY <1>2, <2>1
  <2> HIDE DEF Closed
  <2> QED BY <1>3, <2>2 DEF SearchInv, ClosedIds
<1> QED BY <1>5, <1>6, <1>7, <1>8, <1>9, <1>10, <1>11

LEMMA LowerLows ==
    ASSUME SearchInv, ReturnLower
    PROVE  Below' /\ EdgesSeen' /\ MinCovers'
<1>1. PICK n, l, p, v : LoweredAt(n, l, p, v) BY LowerFacts
<1>2. /\ n \in Nat /\ l \in Nat /\ n \in 1 .. n /\ n - 1 \in 1 .. n - 1 /\ p \in 1 .. l
      /\ v = frames[n].v /\ v \in Vertices /\ stack[p] = v /\ Active(p)
      /\ DOMAIN frames = 1 .. n /\ DOMAIN frames' = 1 .. n - 1
      /\ DOMAIN stack = 1 .. l /\ stack' = stack
      /\ \A j \in 1 .. n - 1 : j \in 1 .. n /\ j # n /\ frames'[j] = frames[j]
      /\ \A k \in 1 .. l : Active(k) => k <= p
      /\ frames[n].adj = {} /\ frames[n].min < low[v] /\ frames[n].min \in Int
  BY <1>1, StateFacts DEF LoweredAt
<1>3. \A k \in 1 .. l : low[stack[k]] \in Int BY <1>2, StateFacts
<1>4. /\ \A k \in 1 .. l : Active(k)' <=> Active(k) /\ k # p
      /\ \A k \in 1 .. l : k # p => low'[stack[k]] = low[stack[k]]
      /\ low'[v] = frames[n].min
      /\ Succ' = Succ
  BY <1>1, LowerParts
<1>5. \A k \in 1 .. l : low'[stack[k]] \in Int /\ low'[stack[k]] <= low[stack[k]]
  <2> SUFFICES ASSUME NEW k \in 1 .. l PROVE low'[stack[k]] \in Int /\ low'[stack[k]] <= low[stack[k]]
    OBVIOUS
  <2>1. CASE k = p BY <1>2, <1>3, <1>4, <2>1
  <2>2. CASE k # p BY <1>3, <1>4, <2>2
  <2> QED BY <2>1, <2>2
<1>6. Below'
  <2> SUFFICES ASSUME NEW i \in 1 .. l, NEW k \in 1 .. l, i < k, Active(k)'
               PROVE  low'[stack[i]] < low'[stack[k]]
    BY <1>2 DEF Below
  <2>1. Active(k) /\ k # p BY <1>4
  <2>2. low[stack[i]] < low[stack[k]] BY <1>2, <2>1 DEF SearchInv, Below
  <2> QED BY <1>3, <1>4, <1>5, <2>1, <2>2
<1>7. EdgesSeen'
  <2>1. ASSUME NEW k \in 1 .. l, NEW r \in 1 .. l, NEW i \in 1 .. l,
               k < r, Active(r)', r < i, ~Active(i)', stack[k] \in Succ[stack[i]]
        PROVE  low'[stack[i]] < low'[stack[r]]
    <3>1. Active(r) /\ low'[stack[r]] = low[stack[r]] BY <1>4, <2>1
    <3>2. CASE i = p
      <4>1. stack[k] \in Succ[stack[i]] \ frames[n].adj /\ stack[i] = frames[n].v /\ r <= i
        BY <1>2, <2>1, <3>2
      <4>2. frames[n].min < low[stack[r]]
        BY <1>2, <2>1, <3>1, <4>1 DEF SearchInv, EdgesSeen
      <4> QED BY <1>2, <1>4, <3>1, <3>2, <4>2
    <3>3. CASE i # p
      <4>1. ~Active(i) BY <1>4, <2>1, <3>3
      <4>2. low[stack[i]] < low[stack[r]] BY <1>2, <2>1, <3>1, <4>1 DEF SearchInv, EdgesSeen
      <4> QED BY <1>4, <3>1, <3>3, <4>2
    <3> QED BY <3>2, <3>3
  <2>2. ASSUME NEW k \in 1 .. l, NEW r \in 1 .. l, NEW i \in 1 .. l, NEW m \in 1 .. n - 1,
               k < r, Active(r)', r <= i, stack[i] = frames'[m].v,
               stack[k] \in Succ[stack[i]] \ frames'[m].adj
        PROVE  frames'[m].min < low'[stack[r]]
    <3>1. Active(r) /\ low'[stack[r]] = low[stack[r]] BY <1>4, <2>2
    <3>2. m \in 1 .. n /\ frames'[m] = frames[m] BY <1>2
    <3>3. frames[m].min < low[stack[r]]
      BY <1>2, <2>2, <3>1, <3>2 DEF SearchInv, EdgesSeen
    <3> QED BY <3>1, <3>2, <3>3
  <2>3. DOMAIN stack' = 1 .. l /\ stack' = stack /\ DOMAIN frames' = 1 .. n - 1 /\ Succ' = Succ
    BY <1>2, <1>4
  <2> QED BY <2>1, <2>2, <2>3 DEF EdgesSeen
<1>8. MinCovers'
  <2> SUFFICES ASSUME NEW j \in 1 .. n - 1, NEW k \in 1 .. l, Segment(j, k)'
               PROVE  \/ frames'[j].min <= low'[stack[k]]
                      \/ \E i \in 1 .. l :
                            /\ Segment(j, i)'
                            /\ stack[i] \in frames'[j].adj
                            /\ low'[stack[i]] <= low'[stack[k]]
    BY <1>2 DEF MinCovers
  <2>1. CASE k < p
    <3>1. Segment(j, k) BY <1>1, <2>1, LowerParts
    <3>2. j \in 1 .. n /\ frames'[j] = frames[j] /\ low'[stack[k]] = low[stack[k]]
      BY <1>2, <1>4, <2>1
    <3>3. CASE \E i \in 1 .. l : Segment(j, i) /\ stack[i] \in frames[j].adj /\ low[stack[i]] <= low[stack[k]]
      <4>1. PICK i \in 1 .. l : Segment(j, i) /\ stack[i] \in frames[j].adj /\ low[stack[i]] <= low[stack[k]]
        BY <3>3
      <4>2. Segment(j, i)' /\ i < p BY <1>1, <4>1, LowerParts
      <4>3. low'[stack[i]] = low[stack[i]] BY <1>2, <1>4, <4>2
      <4> QED BY <3>2, <4>1, <4>2, <4>3
    <3>4. CASE frames[j].min <= low[stack[k]] BY <3>2, <3>4
    <3> QED BY <1>2, <3>1, <3>2, <3>3, <3>4 DEF SearchInv, MinCovers
  <2>2. CASE k >= p
    <3>1. j = n - 1
      <4>1. CASE k = p BY <1>1, <2>2, <4>1, LowerParts
      <4>2. CASE k # p
        <5>1. k > p BY <1>2, <2>2, <4>2
        <5> QED BY <1>1, <5>1, LowerParts
      <4> QED BY <4>1, <4>2
    <3>2. v \in frames'[j].adj
      <4>1. j \in DOMAIN frames /\ j + 1 = n /\ j + 1 \in DOMAIN frames BY <1>2, <3>1
      <4>2. frames[j + 1].v \in frames[j].adj BY <4>1 DEF SearchInv, Order
      <4> QED BY <1>2, <4>1, <4>2
    <3>3. low'[v] <= low'[stack[k]]
      <4>1. CASE k = p BY <1>2, <1>5, <4>1
      <4>2. CASE k # p
        <5>1. k > p BY <1>2, <2>2, <4>2
        <5>2. Segment(n, k) BY <1>1, <5>1, LowerParts
        <5>3. frames[n].min <= low[stack[k]] BY <1>2, <5>2 DEF SearchInv, MinCovers
        <5> QED BY <1>4, <4>2, <5>3
      <4> QED BY <4>1, <4>2
    <3>4. Segment(j, p)' BY <1>1, <3>1, LowerParts
    <3> QED BY <1>2, <3>2, <3>3, <3>4
  <2> QED BY <1>2, <2>1, <2>2
<1> QED BY <1>6, <1>7, <1>8

LEMMA LowerReach ==
    ASSUME SearchInv, ReturnLower
    PROVE  ReachUp' /\ ReachDown' /\ LowReaches'
<1>1. PICK n, l, p, v : LoweredAt(n, l, p, v) BY LowerFacts
<1>2. /\ n \in Nat /\ l \in Nat /\ n \in 1 .. n /\ p \in 1 .. l
      /\ v = frames[n].v /\ stack[p] = v
      /\ DOMAIN frames = 1 .. n /\ DOMAIN frames' = 1 .. n - 1
      /\ DOMAIN stack = 1 .. l /\ stack' = stack
      /\ \A j \in 1 .. n - 1 : j \in 1 .. n /\ j # n /\ frames'[j] = frames[j]
      /\ \E q \in 1 .. l : q < p /\ stack[q] \in To[v]
  BY <1>1 DEF LoweredAt
<1>3. /\ \A k \in 1 .. l : Active(k)' <=> Active(k) /\ k # p
      /\ \A k \in 1 .. l : k # p => low'[stack[k]] = low[stack[k]]
      /\ low'[v] = frames[n].min
      /\ To' = To
  BY <1>1, LowerParts
<1>4. ReachUp' BY <1>2, <1>3 DEF SearchInv, ReachUp
<1>5. ReachDown'
  <2> SUFFICES ASSUME NEW i \in 1 .. l, ~Active(i)'
               PROVE  \E q \in 1 .. l : q < i /\ stack[q] \in To[stack[i]]
    BY <1>2, <1>3 DEF ReachDown
  <2>1. CASE i = p BY <1>2, <2>1
  <2>2. CASE i # p
    <3>1. ~Active(i) BY <1>3, <2>2
    <3> QED BY <1>2, <3>1 DEF SearchInv, ReachDown
  <2> QED BY <2>1, <2>2
<1>6. LowReaches'
  <2>1. ASSUME NEW r \in 1 .. l, NEW i \in 1 .. l, Active(r)', low'[stack[i]] < low'[stack[r]]
        PROVE  \E q \in 1 .. l : q < r /\ stack[q] \in To[stack[i]]
    <3>1. Active(r) /\ low'[stack[r]] = low[stack[r]] BY <1>3, <2>1
    <3>2. CASE i = p
      <4>1. frames[n].min < low[stack[r]] /\ stack[i] = frames[n].v BY <1>2, <1>3, <2>1, <3>1, <3>2
      <4> QED BY <1>2, <3>1, <4>1 DEF SearchInv, LowReaches
    <3>3. CASE i # p
      <4>1. low[stack[i]] < low[stack[r]] BY <1>3, <2>1, <3>1, <3>3
      <4> QED BY <1>2, <3>1, <4>1 DEF SearchInv, LowReaches
    <3> QED BY <3>2, <3>3
  <2>2. ASSUME NEW r \in 1 .. l, NEW m \in 1 .. n - 1, Active(r)', frames'[m].min < low'[stack[r]]
        PROVE  \E q \in 1 .. l : q < r /\ stack[q] \in To[frames'[m].v]
    <3>1. Active(r) /\ low'[stack[r]] = low[stack[r]] BY <1>3, <2>2
    <3>2. m \in 1 .. n /\ frames'[m] = frames[m] BY <1>2
    <3>3. frames[m].min < low[stack[r]] BY <2>2, <3>1, <3>2
    <3> QED BY <1>2, <3>1, <3>2, <3>3 DEF SearchInv, LowReaches
  <2> QED BY <1>2, <1>3, <2>1, <2>2 DEF LowReaches
<1> QED BY <1>4, <1>5, <1>6

-----------------------------------------------------------------------------
(* dfs pops the component of its vertex v, which was at position p of l.   *)
(* The running activation was the n-th.                                    *)
PoppedAt(n, l, p, v) ==
    /\ n \in Nat /\ l \in Nat /\ n \in 1 .. n /\ p \in 1 .. l
    /\ n = Len(frames) /\ l = Len(stack)
    /\ v = frames[n].v /\ v \in Vertices /\ stack[p] = v /\ Active(p) /\ (n = 1 => p = 1)
    /\ DOMAIN frames = 1 .. n /\ DOMAIN frames' = 1 .. n - 1
    /\ DOMAIN stack = 1 .. l /\ DOMAIN stack' = 1 .. p - 1 /\ Len(stack') = p - 1
    /\ \A j \in 1 .. n - 1 :
          j \in 1 .. n /\ j # n /\ frames'[j] = frames[j] /\ frames[j].v # v
    /\ \A k \in 1 .. p - 1 : k \in 1 .. l /\ stack'[k] = stack[k]
    /\ \A j \in 1 .. n - 1, i \in 1 .. l : stack[i] = frames[j].v => i < p
    /\ \A k \in 1 .. l : Active(k) => k <= p
    /\ frames' \in Seq([v : Vertices, min : 0 .. V, adj : SUBSET Vertices])
    /\ stack' \in Seq(Vertices)
    /\ frames[n].adj = {} /\ frames[n].min >= low[v]
    /\ \A k \in 1 .. l : stack[k] \in Vertices
    /\ \A i, k \in 1 .. l : stack[i] = stack[k] => i = k
    /\ low' \in [Vertices -> 0 .. V]
    /\ id' \in [Vertices -> 0 .. V]
    /\ \A u \in Vertices :
          IF \E k \in p .. l : stack[k] = u
          THEN low'[u] = V /\ id'[u] = count
          ELSE low'[u] = low[u] /\ id'[u] = id[u]

LEMMA PopFacts ==
    ASSUME SearchInv, PopComponent
    PROVE  \E n, l, p, v : PoppedAt(n, l, p, v)
<1> DEFINE n == Len(frames)
           l == Len(stack)
           v == frames[n].v
           at == CHOOSE k \in DOMAIN stack : stack[k] = v
           popped == {stack[k] : k \in at .. l}
<1>1. n \in Nat /\ l \in Nat /\ DOMAIN frames = 1 .. n /\ DOMAIN stack = 1 .. l BY StateFacts
<1>2. frames # <<>> /\ PopFrame BY DEF PopComponent
<1>3. /\ n \in 1 .. n
      /\ \E p \in 1 .. l :
            /\ stack[p] = v
            /\ Active(p)
            /\ \A j \in 1 .. n, i \in 1 .. l : j # n /\ stack[i] = frames[j].v => i < p
            /\ \A j \in 1 .. n : j # n => frames[j].v # stack[p]
            /\ \A k \in 1 .. l : Active(k) => k <= p
            /\ n = 1 => p = 1
  BY <1>2, TopFrame
<1>4. /\ frames' \in Seq([v : Vertices, min : 0 .. V, adj : SUBSET Vertices])
      /\ DOMAIN frames' = 1 .. n - 1
      /\ \A j \in 1 .. n - 1 : frames'[j] = frames[j]
  BY <1>2, PopFrameFacts
<1>5. \A m \in Nat : \A j \in 1 .. m - 1 : j \in 1 .. m /\ j # m OBVIOUS
<1>6. /\ frames[n].adj = {} /\ frames[n].min >= low[v]
      /\ id' = [u \in Vertices |-> IF u \in popped THEN count ELSE id[u]]
      /\ low' = [u \in Vertices |-> IF u \in popped THEN V ELSE low[u]]
      /\ stack' = SubSeq(stack, 1, at - 1)
  BY DEF PopComponent, Running
<1>7. frames[n] \in [v : Vertices, min : 0 .. V, adj : SUBSET Vertices] BY <1>1, <1>3, StateFacts
<1>8. v \in Vertices BY <1>7
<1>9. v = frames[n].v /\ n = Len(frames) /\ l = Len(stack) OBVIOUS
<1> HIDE DEF n, l, v, at
<1>10. PICK p \in 1 .. l :
            /\ stack[p] = v
            /\ Active(p)
            /\ \A j \in 1 .. n, i \in 1 .. l : j # n /\ stack[i] = frames[j].v => i < p
            /\ \A j \in 1 .. n : j # n => frames[j].v # stack[p]
            /\ \A k \in 1 .. l : Active(k) => k <= p
            /\ n = 1 => p = 1
  BY <1>3
<1>11. \A k \in 1 .. l : stack[k] \in Vertices BY <1>1, StateFacts
<1>12. \A i, k \in 1 .. l : stack[i] = stack[k] => i = k BY <1>1 DEF SearchInv, Shape
<1>13. at = p
  <2>1. at \in DOMAIN stack /\ stack[at] = v BY <1>1, <1>10 DEF at
  <2> QED BY <1>1, <1>10, <1>12, <2>1
<1>14. /\ low' \in [Vertices -> 0 .. V] /\ id' \in [Vertices -> 0 .. V]
       /\ \A u \in Vertices :
             IF \E k \in p .. l : stack[k] = u
             THEN low'[u] = V /\ id'[u] = count
             ELSE low'[u] = low[u] /\ id'[u] = id[u]
  <2>1. /\ low \in [Vertices -> 0 .. V] /\ id \in [Vertices -> 0 .. V] /\ count \in 0 .. V
        /\ V \in 0 .. V
    BY StateFacts DEF SearchInv, TypeOK
  <2>2. \A u : u \in popped <=> \E k \in p .. l : stack[k] = u BY <1>13
  <2> HIDE DEF popped
  <2> QED BY <1>6, <2>1, <2>2
<1>15. /\ stack' \in Seq(Vertices) /\ Len(stack') = p - 1 /\ DOMAIN stack' = 1 .. p - 1
       /\ \A k \in 1 .. p - 1 : k \in 1 .. l /\ stack'[k] = stack[k]
  <2>1. \A k \in 1 .. p - 1 : k \in 1 .. l BY <1>1
  <2>2. p - 1 \in Int /\ 1 \in Int /\ p - 1 >= 0 BY <1>1
  <2>3. \A k \in 1 .. p - 1 : stack[k] \in Vertices BY <1>11, <2>1
  <2> DEFINE s == SubSeq(stack, 1, p - 1)
  <2>4. s \in Seq(Vertices) BY <2>2, <2>3, SubSeqProperties
  <2>5. Len(s) = IF 1 <= p - 1 THEN (p - 1) - 1 + 1 ELSE 0
    BY <2>2, <2>3, SubSeqProperties
  <2>6. \A k \in 1 .. (p - 1) - 1 + 1 : s[k] = stack[1 + k - 1]
    BY <2>2, <2>3, SubSeqProperties
  <2>7. stack' = s BY <1>6, <1>13
  <2> HIDE DEF s
  <2>8. Len(s) = p - 1 BY <2>2, <2>5
  <2>9. \A k \in 1 .. p - 1 : s[k] = stack[k]
    <3>1. \A k \in 1 .. p - 1 : k \in 1 .. (p - 1) - 1 + 1 /\ 1 + k - 1 = k BY <2>2
    <3> QED BY <2>6, <3>1
  <2>10. DOMAIN s = 1 .. p - 1 BY <2>4, <2>8, LenProperties
  <2> QED BY <2>1, <2>4, <2>7, <2>8, <2>9, <2>10
<1>16. /\ \A j \in 1 .. n - 1 :
             j \in 1 .. n /\ j # n /\ frames'[j] = frames[j] /\ frames[j].v # v
       /\ \A j \in 1 .. n - 1, i \in 1 .. l : stack[i] = frames[j].v => i < p
  BY <1>1, <1>4, <1>5, <1>10
<1>17. PoppedAt(n, l, p, v)
  <2>1. /\ n \in Nat /\ l \in Nat /\ n \in 1 .. n /\ p \in 1 .. l
        /\ n = Len(frames) /\ l = Len(stack)
        /\ v = frames[n].v /\ v \in Vertices /\ stack[p] = v /\ Active(p) /\ (n = 1 => p = 1)
        /\ DOMAIN frames = 1 .. n /\ DOMAIN frames' = 1 .. n - 1
        /\ DOMAIN stack = 1 .. l
        /\ frames[n].adj = {} /\ frames[n].min >= low[v]
    BY <1>1, <1>3, <1>4, <1>6, <1>8, <1>9, <1>10
  <2>2. \A k \in 1 .. l : Active(k) => k <= p BY <1>10
  <2> QED BY <2>1, <2>2, <1>4, <1>11, <1>12, <1>14, <1>15, <1>16 DEF PoppedAt
<1> QED BY <1>17

LEMMA PopParts ==
    ASSUME SearchInv, PopComponent, NEW n, NEW l, NEW p, NEW v, PoppedAt(n, l, p, v)
    PROVE  /\ \A k \in 1 .. p - 1 : Active(k)' <=> Active(k)
           /\ \A j \in 1 .. n - 1, k \in 1 .. p - 1 : Segment(j, k)' <=> Segment(j, k)
           /\ \A j \in 1 .. n - 1, k \in 1 .. l : Segment(j, k) => k \in 1 .. p - 1
           /\ cg' = cg /\ marked' = marked /\ pre' = pre /\ count' = count + 1
           /\ Succ' = Succ /\ To' = To /\ Vertices' = Vertices /\ V' = V /\ Marked' = Marked
           /\ \A k \in 1 .. p - 1 : low'[stack'[k]] = low[stack[k]]
           /\ Closed' = Closed \cup {stack[k] : k \in p .. l}
           /\ \A u \in Closed : low'[u] = low[u] /\ id'[u] = id[u]
<1>1. /\ n \in Nat /\ l \in Nat /\ n \in 1 .. n /\ p \in 1 .. l
      /\ v = frames[n].v /\ stack[p] = v
      /\ DOMAIN frames = 1 .. n /\ DOMAIN frames' = 1 .. n - 1
      /\ DOMAIN stack = 1 .. l /\ DOMAIN stack' = 1 .. p - 1
      /\ \A j \in 1 .. n - 1 :
            j \in 1 .. n /\ j # n /\ frames'[j] = frames[j] /\ frames[j].v # v
      /\ \A k \in 1 .. p - 1 : k \in 1 .. l /\ stack'[k] = stack[k]
      /\ \A j \in 1 .. n - 1, i \in 1 .. l : stack[i] = frames[j].v => i < p
      /\ \A k \in 1 .. l : stack[k] \in Vertices
      /\ \A i, k \in 1 .. l : stack[i] = stack[k] => i = k
  BY DEF PoppedAt
<1>2. \A j \in 1 .. n : j \in 1 .. n - 1 \/ j = n BY <1>1
<1>3. \A k \in 1 .. p - 1 : Active(k)' <=> Active(k)
  <2> SUFFICES ASSUME NEW k \in 1 .. p - 1 PROVE Active(k)' <=> Active(k) OBVIOUS
  <2>1. Active(k)' <=> \E j \in 1 .. n - 1 : frames[j].v = stack[k] BY <1>1 DEF Active
  <2>2. Active(k) <=> \E j \in 1 .. n : frames[j].v = stack[k] BY <1>1 DEF Active
  <2>3. k # p /\ k \in 1 .. l BY <1>1
  <2>4. stack[k] # v BY <1>1, <2>3
  <2> HIDE DEF Active
  <2> QED BY <1>1, <1>2, <2>1, <2>2, <2>4
<1>4. \A j, k : Segment(j, k)' <=>
                  \A m \in 1 .. n - 1, q \in 1 .. p - 1 :
                      stack[q] = frames[m].v => IF m <= j THEN q < k ELSE k < q
  BY <1>1 DEF Segment
<1>5. \A j, k : Segment(j, k) <=>
                  \A m \in 1 .. n, q \in 1 .. l :
                      stack[q] = frames[m].v => IF m <= j THEN q < k ELSE k < q
  BY <1>1 DEF Segment
<1>6. \A j \in 1 .. n - 1, k \in 1 .. p - 1 : Segment(j, k)' <=> Segment(j, k)
  <2> SUFFICES ASSUME NEW j \in 1 .. n - 1, NEW k \in 1 .. p - 1 PROVE Segment(j, k)' <=> Segment(j, k)
    OBVIOUS
  <2>1. ASSUME Segment(j, k)', NEW m \in 1 .. n, NEW q \in 1 .. l, stack[q] = frames[m].v
        PROVE  IF m <= j THEN q < k ELSE k < q
    <3>1. CASE m = n
      <4>1. q = p BY <1>1, <2>1, <3>1
      <4> QED BY <1>1, <3>1, <4>1
    <3>2. CASE m \in 1 .. n - 1
      <4>1. q \in 1 .. p - 1
        <5>1. q < p BY <1>1, <2>1, <3>2
        <5> QED BY <1>1, <5>1
      <4> QED BY <1>4, <2>1, <3>2, <4>1
    <3> QED BY <1>2, <3>1, <3>2
  <2>2. Segment(j, k) => Segment(j, k)' BY <1>1, <1>4, <1>5
  <2> QED BY <1>5, <2>1, <2>2
<1>7. \A j \in 1 .. n - 1, k \in 1 .. l : Segment(j, k) => k \in 1 .. p - 1
  <2> SUFFICES ASSUME NEW j \in 1 .. n - 1, NEW k \in 1 .. l, Segment(j, k) PROVE k \in 1 .. p - 1
    OBVIOUS
  <2>1. IF n <= j THEN p < k ELSE k < p BY <1>1, <1>5
  <2> QED BY <1>1, <2>1
<1>8. cg' = cg /\ marked' = marked /\ pre' = pre /\ count' = count + 1 BY DEF PopComponent
<1>9. Succ' = Succ /\ To' = To /\ Vertices' = Vertices /\ V' = V /\ Marked' = Marked
  BY <1>8 DEF Succ, To, Vertices, V, Marked
<1>10. \A u \in Vertices :
          IF \E k \in p .. l : stack[k] = u
          THEN low'[u] = V /\ id'[u] = count
          ELSE low'[u] = low[u] /\ id'[u] = id[u]
  BY DEF PoppedAt
<1>11. \A k \in p .. l : k \in 1 .. l /\ k \notin 1 .. p - 1 BY <1>1
<1>12. \A k \in 1 .. p - 1 : low'[stack'[k]] = low[stack[k]]
  <2> SUFFICES ASSUME NEW k \in 1 .. p - 1 PROVE low'[stack'[k]] = low[stack[k]] OBVIOUS
  <2>1. stack[k] \in Vertices /\ ~\E i \in p .. l : stack[i] = stack[k] BY <1>1, <1>11
  <2> QED BY <1>1, <1>10, <2>1
<1>13. Closed = {u \in Marked : \A k \in 1 .. l : stack[k] # u} BY <1>1 DEF Closed, Marked
<1>14. Closed' = {u \in Marked : \A k \in 1 .. p - 1 : stack[k] # u}
  <2>1. Closed' = {u \in Marked' : \A k \in 1 .. p - 1 : stack'[k] # u} BY <1>1 DEF Closed, Marked
  <2> HIDE DEF Closed
  <2> QED BY <1>1, <1>9, <2>1
<1>15. Closed' = Closed \cup {stack[k] : k \in p .. l}
  <2>1. ASSUME NEW u \in Closed' PROVE u \in Closed \/ \E k \in p .. l : stack[k] = u
    <3>1. \A k \in 1 .. l : k \in 1 .. p - 1 \/ k \in p .. l BY <1>1
    <3> QED BY <1>13, <1>14, <2>1, <3>1
  <2>2. Closed \subseteq Closed' BY <1>1, <1>13, <1>14
  <2>3. ASSUME NEW k \in p .. l PROVE stack[k] \in Closed'
    <3>1. stack[k] \in Marked BY <1>1, <1>11, StateFacts
    <3>2. \A i \in 1 .. p - 1 : stack[i] # stack[k] BY <1>1, <1>11
    <3> QED BY <1>14, <3>1, <3>2
  <2> HIDE DEF Closed
  <2> QED BY <2>1, <2>2, <2>3
<1>16. \A u \in Closed : low'[u] = low[u] /\ id'[u] = id[u]
  <2> SUFFICES ASSUME NEW u \in Closed PROVE low'[u] = low[u] /\ id'[u] = id[u] OBVIOUS
  <2>1. u \in Vertices BY <1>13, StateFacts
  <2>2. ~\E k \in p .. l : stack[k] = u BY <1>11, <1>13
  <2> QED BY <1>10, <2>1, <2>2
<1> HIDE DEF Closed
<1> QED BY <1>3, <1>6, <1>7, <1>8, <1>9, <1>12, <1>15, <1>16

LEMMA PopTyped ==
    ASSUME SearchInv, PopComponent
    PROVE  cg' \in CallGraphs /\ TypeOK' /\ Shape' /\ Counters' /\ Order' /\ Walked'
<1>1. PICK n, l, p, v : PoppedAt(n, l, p, v) BY PopFacts
<1>2. /\ n \in Nat /\ l \in Nat /\ n \in 1 .. n /\ p \in 1 .. l
      /\ n = Len(frames) /\ l = Len(stack)
      /\ v = frames[n].v /\ stack[p] = v /\ (n = 1 => p = 1)
      /\ DOMAIN frames = 1 .. n /\ DOMAIN frames' = 1 .. n - 1
      /\ DOMAIN stack = 1 .. l /\ DOMAIN stack' = 1 .. p - 1 /\ Len(stack') = p - 1
      /\ \A j \in 1 .. n - 1 :
            j \in 1 .. n /\ j # n /\ frames'[j] = frames[j] /\ frames[j].v # v
      /\ \A k \in 1 .. p - 1 : k \in 1 .. l /\ stack'[k] = stack[k]
      /\ \A j \in 1 .. n - 1, i \in 1 .. l : stack[i] = frames[j].v => i < p
      /\ frames[n].adj = {}
      /\ low' \in [Vertices -> 0 .. V] /\ id' \in [Vertices -> 0 .. V]
  BY <1>1 DEF PoppedAt
<1>3. /\ frames' \in Seq([v : Vertices, min : 0 .. V, adj : SUBSET Vertices])
      /\ stack' \in Seq(Vertices)
  BY <1>1 DEF PoppedAt
<1>4. /\ cg' = cg /\ marked' = marked /\ pre' = pre /\ count' = count + 1
      /\ Succ' = Succ /\ To' = To /\ Vertices' = Vertices /\ V' = V /\ Marked' = Marked
      /\ \A k \in 1 .. p - 1 : low'[stack'[k]] = low[stack[k]]
  BY <1>1, PopParts
<1>5. cg' \in CallGraphs BY <1>4 DEF SearchInv
<1>6. Shape'
  <2>1. \A i, k \in 1 .. l : stack[i] = stack[k] => i = k BY <1>2 DEF SearchInv, Shape
  <2>2. \A k \in 1 .. l : stack[k] \in Marked BY <1>2, StateFacts
  <2>3. \A i, k \in DOMAIN stack' : stack'[i] = stack'[k] => i = k BY <1>2, <2>1
  <2>4. \A k \in DOMAIN stack' : stack'[k] \in Marked BY <1>2, <2>2
  <2> QED BY <1>3, <1>4, <2>3, <2>4 DEF Shape
<1>7. count' + Len(stack') <= pre'
  <2>1. count + l <= pre BY <1>2 DEF SearchInv, Counters
  <2>2. Len(stack') = p - 1 /\ p \in Int /\ l \in Int /\ p <= l BY <1>2
  <2>3. count \in Int /\ pre \in Int BY StateFacts
  <2>4. count' = count + 1 /\ pre' = pre BY <1>4
  <2> QED BY <2>1, <2>2, <2>3, <2>4
<1>8. Counters'
  <2>1. \A k \in 1 .. l : low[stack[k]] < pre BY <1>2 DEF SearchInv, Counters
  <2> QED BY <1>2, <1>4, <1>7, <2>1 DEF SearchInv, Counters
<1>9. TypeOK'
  <2>1. \A k \in DOMAIN frames' : frames'[k] \in [v : Vertices, min : 0 .. V, adj : SUBSET Vertices]
    BY <1>3, ElementOfSeq, LenProperties
  <2>2. \A k \in DOMAIN frames' : frames'[k].v \in Vertices /\ frames'[k].min \in 0 .. V /\ frames'[k].adj \subseteq Vertices
    BY <2>1
  <2>3. \A k \in DOMAIN stack' : stack'[k] \in Vertices BY <1>3, ElementOfSeq, LenProperties
  <2>4. count' \in 0 .. V /\ pre' \in 0 .. V
    <3>1. Len(stack') \in Nat BY <1>2
    <3>2. count \in Nat /\ pre \in Nat /\ pre <= V /\ V \in Nat BY StateFacts
    <3> QED BY <1>4, <1>7, <3>1, <3>2
  <2> QED BY <1>2, <1>4, <2>2, <2>3, <2>4 DEF SearchInv, TypeOK
<1>10. Order'
  <2>1. frames' = <<>> => stack' = <<>>
    <3> SUFFICES ASSUME frames' = <<>> PROVE stack' = <<>> OBVIOUS
    <3>1. n = 1
      <4>1. DOMAIN frames' = {} OBVIOUS
      <4>2. 1 \notin 1 .. n - 1 BY <1>2, <4>1
      <4> QED BY <1>2, <4>2
    <3>2. Len(stack') = 0 BY <1>2, <3>1
    <3> QED BY <1>3, <3>2, EmptySeq
  <2>2. frames' # <<>> => frames'[1].v = stack'[1]
    <3> SUFFICES ASSUME frames' # <<>> PROVE frames'[1].v = stack'[1] OBVIOUS
    <3>1. n # 1
      <4> SUFFICES ASSUME n = 1 PROVE FALSE OBVIOUS
      <4>1. Len(frames') = 0
        <5>1. Len(frames') \in Nat /\ DOMAIN frames' = 1 .. Len(frames') BY <1>3, LenProperties
        <5>2. 1 \notin 1 .. Len(frames') BY <1>2, <5>1
        <5> QED BY <5>1, <5>2
      <4> QED BY <1>3, <4>1, EmptySeq
    <3>2. 1 \in 1 .. n - 1 /\ 1 \in DOMAIN frames BY <1>2, <3>1
    <3>3. frames # <<>> BY <3>2
    <3>4. frames[1].v = stack[1] BY <3>3 DEF SearchInv, Order
    <3>5. 1 \in 1 .. l /\ 1 < p BY <1>2, <3>2, <3>4
    <3>6. 1 \in 1 .. p - 1 BY <1>2, <3>5
    <3> QED BY <1>2, <3>2, <3>4, <3>6
  <2>3. ASSUME NEW j \in 1 .. n - 1 PROVE \E k \in 1 .. p - 1 : stack'[k] = frames'[j].v
    <3>1. j \in DOMAIN frames BY <1>2
    <3>2. PICK k \in 1 .. l : stack[k] = frames[j].v BY <1>2, <3>1 DEF SearchInv, Order
    <3>3. k < p BY <1>2, <3>2
    <3>4. k \in 1 .. p - 1 BY <1>2, <3>3
    <3> QED BY <1>2, <3>2, <3>4
  <2>4. \A j, m \in DOMAIN frames', i, k \in DOMAIN stack' :
           stack'[i] = frames'[j].v /\ stack'[k] = frames'[m].v /\ j < m => i < k
    <3>1. \A j, m \in 1 .. n, i, k \in 1 .. l :
             stack[i] = frames[j].v /\ stack[k] = frames[m].v /\ j < m => i < k
      <4>1. DOMAIN frames = 1 .. n /\ DOMAIN stack = 1 .. l BY <1>2
      <4> QED BY <4>1 DEF SearchInv, Order
    <3>2. /\ DOMAIN frames' = 1 .. n - 1 /\ DOMAIN stack' = 1 .. p - 1
          /\ \A j \in 1 .. n - 1 : j \in 1 .. n /\ frames'[j] = frames[j]
          /\ \A k \in 1 .. p - 1 : k \in 1 .. l /\ stack'[k] = stack[k]
      BY <1>2
    <3> QED BY <3>1, <3>2
  <2>5. \A j \in DOMAIN frames' : j + 1 \in DOMAIN frames' => frames'[j + 1].v \in frames'[j].adj
    BY <1>2 DEF SearchInv, Order
  <2> QED BY <1>2, <2>1, <2>2, <2>3, <2>4, <2>5 DEF Order
<1>11. Walked'
  <2>1. \A j \in DOMAIN frames' :
          /\ frames'[j].adj \subseteq Succ[frames'[j].v]
          /\ Succ[frames'[j].v] \ frames'[j].adj \subseteq Marked
    BY <1>2 DEF SearchInv, Walked
  <2>2. ASSUME NEW u \in Marked, \A j \in DOMAIN frames' : frames'[j].v # u PROVE Succ[u] \subseteq Marked
    <3>1. CASE u = v
      <4>1. Succ[frames[n].v] \ frames[n].adj \subseteq Marked BY <1>2 DEF SearchInv, Walked
      <4> QED BY <1>2, <3>1, <4>1
    <3>2. CASE u # v
      <4>1. \A j \in 1 .. n : j \in 1 .. n - 1 \/ j = n BY <1>2
      <4>2. \A j \in DOMAIN frames : frames[j].v # u BY <1>2, <2>2, <3>2, <4>1
      <4> QED BY <4>2 DEF SearchInv, Walked
    <3> QED BY <3>1, <3>2
  <2> QED BY <1>4, <2>1, <2>2 DEF Walked
<1> QED BY <1>5, <1>6, <1>8, <1>9, <1>10, <1>11

LEMMA PopLows ==
    ASSUME SearchInv, PopComponent
    PROVE  Below' /\ EdgesSeen' /\ MinCovers' /\ ReachUp' /\ ReachDown' /\ LowReaches'
<1>1. PICK n, l, p, v : PoppedAt(n, l, p, v) BY PopFacts
<1>2. /\ n \in Nat /\ l \in Nat /\ n \in 1 .. n /\ p \in 1 .. l
      /\ DOMAIN frames = 1 .. n /\ DOMAIN frames' = 1 .. n - 1
      /\ DOMAIN stack = 1 .. l /\ DOMAIN stack' = 1 .. p - 1
      /\ \A j \in 1 .. n - 1 : j \in 1 .. n /\ frames'[j] = frames[j]
      /\ \A k \in 1 .. p - 1 : k \in 1 .. l /\ stack'[k] = stack[k]
  BY <1>1 DEF PoppedAt
<1>3. /\ \A k \in 1 .. p - 1 : Active(k)' <=> Active(k)
      /\ \A j \in 1 .. n - 1, k \in 1 .. p - 1 : Segment(j, k)' <=> Segment(j, k)
      /\ \A j \in 1 .. n - 1, k \in 1 .. l : Segment(j, k) => k \in 1 .. p - 1
      /\ Succ' = Succ /\ To' = To
      /\ \A k \in 1 .. p - 1 : low'[stack'[k]] = low[stack[k]]
  BY <1>1, PopParts
<1>4. \A i \in 1 .. l : \A k \in 1 .. p - 1 : i < k => i \in 1 .. p - 1 BY <1>2
<1>5. Below' BY <1>2, <1>3 DEF SearchInv, Below
<1>6. EdgesSeen'
  <2>1. ASSUME NEW k \in 1 .. p - 1, NEW r \in 1 .. p - 1, NEW i \in 1 .. p - 1,
               k < r, Active(r)', r < i, ~Active(i)', stack'[k] \in Succ[stack'[i]]
        PROVE  low'[stack'[i]] < low'[stack'[r]]
    <3>1. Active(r) /\ ~Active(i) /\ stack[k] \in Succ[stack[i]] BY <1>2, <1>3, <2>1
    <3>2. k \in DOMAIN stack /\ r \in DOMAIN stack /\ i \in DOMAIN stack BY <1>2
    <3>3. low[stack[i]] < low[stack[r]] BY <2>1, <3>1, <3>2 DEF SearchInv, EdgesSeen
    <3> QED BY <1>3, <3>3
  <2>2. ASSUME NEW k \in 1 .. p - 1, NEW r \in 1 .. p - 1, NEW i \in 1 .. p - 1, NEW m \in 1 .. n - 1,
               k < r, Active(r)', r <= i, stack'[i] = frames'[m].v,
               stack'[k] \in Succ[stack'[i]] \ frames'[m].adj
        PROVE  frames'[m].min < low'[stack'[r]]
    <3>1. Active(r) /\ stack[i] = frames[m].v /\ stack[k] \in Succ[stack[i]] \ frames[m].adj
      BY <1>2, <1>3, <2>2
    <3>2. k \in DOMAIN stack /\ r \in DOMAIN stack /\ i \in DOMAIN stack /\ m \in DOMAIN frames BY <1>2
    <3>3. frames[m].min < low[stack[r]] BY <2>2, <3>1, <3>2 DEF SearchInv, EdgesSeen
    <3> QED BY <1>2, <1>3, <3>3
  <2> QED BY <1>2, <1>3, <2>1, <2>2 DEF EdgesSeen
<1>7. MinCovers'
  <2> SUFFICES ASSUME NEW j \in 1 .. n - 1, NEW k \in 1 .. p - 1, Segment(j, k)'
               PROVE  \/ frames'[j].min <= low'[stack'[k]]
                      \/ \E i \in 1 .. p - 1 :
                            /\ Segment(j, i)'
                            /\ stack'[i] \in frames'[j].adj
                            /\ low'[stack'[i]] <= low'[stack'[k]]
    BY <1>2 DEF MinCovers
  <2>1. Segment(j, k) /\ j \in DOMAIN frames /\ k \in DOMAIN stack BY <1>2, <1>3
  <2>2. CASE frames[j].min <= low[stack[k]] BY <1>2, <1>3, <2>2
  <2>3. CASE \E i \in DOMAIN stack : Segment(j, i) /\ stack[i] \in frames[j].adj /\ low[stack[i]] <= low[stack[k]]
    <3>1. PICK i \in 1 .. l : Segment(j, i) /\ stack[i] \in frames[j].adj /\ low[stack[i]] <= low[stack[k]]
      BY <1>2, <2>3
    <3>2. i \in 1 .. p - 1 BY <1>3, <3>1
    <3>3. Segment(j, i)' BY <1>3, <3>1, <3>2
    <3> QED BY <1>2, <1>3, <3>1, <3>2, <3>3
  <2> QED BY <2>1, <2>2, <2>3 DEF SearchInv, MinCovers
<1>8. ReachUp' BY <1>2, <1>3 DEF SearchInv, ReachUp
<1>9. ReachDown'
  <2> SUFFICES ASSUME NEW i \in 1 .. p - 1, ~Active(i)'
               PROVE  \E q \in 1 .. p - 1 : q < i /\ stack'[q] \in To[stack'[i]]
    BY <1>2, <1>3 DEF ReachDown
  <2>1. ~Active(i) /\ i \in DOMAIN stack BY <1>2, <1>3
  <2>2. PICK q \in 1 .. l : q < i /\ stack[q] \in To[stack[i]] BY <1>2, <2>1 DEF SearchInv, ReachDown
  <2>3. q \in 1 .. p - 1 BY <1>4, <2>2
  <2> QED BY <1>2, <2>2, <2>3
<1>10. LowReaches'
  <2>1. ASSUME NEW r \in 1 .. p - 1, NEW i \in 1 .. p - 1, Active(r)', low'[stack'[i]] < low'[stack'[r]]
        PROVE  \E q \in 1 .. p - 1 : q < r /\ stack'[q] \in To[stack'[i]]
    <3>1. Active(r) /\ low[stack[i]] < low[stack[r]] BY <1>3, <2>1
    <3>2. r \in DOMAIN stack /\ i \in DOMAIN stack BY <1>2
    <3>3. PICK q \in 1 .. l : q < r /\ stack[q] \in To[stack[i]]
      BY <1>2, <3>1, <3>2 DEF SearchInv, LowReaches
    <3>4. q \in 1 .. p - 1 BY <1>4, <3>3
    <3> QED BY <1>2, <3>3, <3>4
  <2>2. ASSUME NEW r \in 1 .. p - 1, NEW m \in 1 .. n - 1, Active(r)', frames'[m].min < low'[stack'[r]]
        PROVE  \E q \in 1 .. p - 1 : q < r /\ stack'[q] \in To[frames'[m].v]
    <3>1. Active(r) /\ frames[m].min < low[stack[r]] BY <1>2, <1>3, <2>2
    <3>2. r \in DOMAIN stack /\ m \in DOMAIN frames BY <1>2
    <3>3. PICK q \in 1 .. l : q < r /\ stack[q] \in To[frames[m].v]
      BY <1>2, <3>1, <3>2 DEF SearchInv, LowReaches
    <3>4. q \in 1 .. p - 1 BY <1>4, <3>3
    <3> QED BY <1>2, <3>3, <3>4
  <2> QED BY <1>2, <1>3, <2>1, <2>2 DEF LowReaches
<1> QED BY <1>5, <1>6, <1>7, <1>8, <1>9, <1>10

(* What dfs pops is a strongly connected component that only leads to      *)
(* itself and to components it has closed before.                          *)
LEMMA PoppedIsComponent ==
    ASSUME SearchInv, PopComponent, NEW n, NEW l, NEW p, NEW v, PoppedAt(n, l, p, v)
    PROVE  LET P == {stack[k] : k \in p .. l}
           IN  /\ P \subseteq Vertices /\ P \cap Closed = {}
               /\ \A u \in P : Succ[u] \subseteq P \cup Closed
               /\ \A u \in P : v \in To[u] /\ u \in To[v]
<1> DEFINE P == {stack[k] : k \in p .. l}
<1>1. /\ n \in Nat /\ l \in Nat /\ n \in 1 .. n /\ p \in 1 .. l
      /\ v = frames[n].v /\ v \in Vertices /\ stack[p] = v /\ Active(p)
      /\ DOMAIN frames = 1 .. n /\ DOMAIN stack = 1 .. l
      /\ \A j \in 1 .. n - 1 : j \in 1 .. n /\ j # n
      /\ \A j \in 1 .. n - 1, i \in 1 .. l : stack[i] = frames[j].v => i < p
      /\ \A k \in 1 .. l : Active(k) => k <= p
      /\ frames[n].adj = {} /\ frames[n].min >= low[v]
      /\ \A k \in 1 .. l : stack[k] \in Vertices
      /\ \A i, k \in 1 .. l : stack[i] = stack[k] => i = k
  BY DEF PoppedAt
<1>2. \A k \in p .. l : k \in 1 .. l /\ (k = p \/ (k > p /\ ~Active(k))) BY <1>1
<1>3. P \subseteq Vertices BY <1>1, <1>2
<1>4. P \cap Closed = {} BY <1>1, <1>2 DEF Closed
<1>5. \A j \in 1 .. n : j \in 1 .. n - 1 \/ j = n BY <1>1
<1>6. \A i \in 1 .. l : low[stack[i]] \in Int BY <1>1, StateFacts
<1>7. frames[n].min \in Int /\ n \in DOMAIN frames BY <1>1, StateFacts
<1>8. cg \in CallGraphs BY DEF SearchInv
(* No vertex above p has an edge to one below p: its low would be smaller. *)
<1>9. ASSUME NEW i \in p .. l, NEW k \in 1 .. l, k < p, stack[k] \in Succ[stack[i]] PROVE FALSE
  <2>1. i \in 1 .. l BY <1>2
  <2>2. CASE i = p
    <3>1. stack[k] \in Succ[stack[i]] \ frames[n].adj /\ stack[i] = frames[n].v /\ p <= i
      BY <1>1, <1>9, <2>2
    <3>2. frames[n].min < low[stack[p]]
      BY <1>1, <1>7, <1>9, <2>1, <3>1 DEF SearchInv, EdgesSeen
    <3> QED BY <1>1, <1>6, <1>7, <3>2
  <2>3. CASE i # p
    <3>1. p < i /\ ~Active(i) BY <1>2, <2>3
    <3>2. low[stack[i]] < low[stack[p]]
      BY <1>1, <1>9, <2>1, <3>1 DEF SearchInv, EdgesSeen
    <3>3. Segment(n, i)
      <4> SUFFICES ASSUME NEW m \in 1 .. n, NEW q \in 1 .. l, stack[q] = frames[m].v
                   PROVE  IF m <= n THEN q < i ELSE i < q
        BY <1>1 DEF Segment
      <4>1. q <= p
        <5>1. CASE m = n
          <6>1. q = p BY <1>1, <5>1
          <6> QED BY <1>1, <6>1
        <5>2. CASE m \in 1 .. n - 1 BY <1>1, <5>2
        <5> QED BY <1>5, <5>1, <5>2
      <4> QED BY <1>1, <3>1, <4>1
    <3>4. frames[n].min <= low[stack[i]]
      BY <1>1, <1>7, <2>1, <3>3 DEF SearchInv, MinCovers
    <3> QED BY <1>1, <1>6, <1>7, <2>1, <3>2, <3>4
  <2> QED BY <2>2, <2>3
<1>10. ASSUME NEW u \in P PROVE Succ[u] \subseteq P \cup Closed
  <2> SUFFICES ASSUME NEW w \in Succ[u], w \notin Closed PROVE w \in P OBVIOUS
  <2>1. PICK i \in p .. l : u = stack[i] OBVIOUS
  <2>2. u \in Marked BY <1>1, <1>2, <2>1, StateFacts
  <2>3. w \in Marked
    <3>1. CASE i = p
      <4>1. Succ[frames[n].v] \ frames[n].adj \subseteq Marked BY <1>7 DEF SearchInv, Walked
      <4> QED BY <1>1, <2>1, <3>1, <4>1
    <3>2. CASE i # p
      <4>1. ~Active(i) BY <1>2, <3>2
      <4>2. \A j \in DOMAIN frames : frames[j].v # u BY <2>1, <4>1 DEF Active
      <4> QED BY <2>2, <4>2 DEF SearchInv, Walked
    <3> QED BY <3>1, <3>2
  <2>4. PICK k \in 1 .. l : stack[k] = w BY <1>1, <2>3 DEF Closed, Marked
  <2>5. ~(k < p) BY <1>9, <2>1, <2>4
  <2>6. k \in p .. l BY <1>1, <2>5
  <2> QED BY <2>4, <2>6
<1>11. ASSUME NEW u \in P PROVE u \in To[v]
  <2>1. PICK i \in p .. l : u = stack[i] OBVIOUS
  <2>2. CASE i = p BY <1>1, <1>8, <2>1, <2>2, ToFacts
  <2>3. CASE i # p
    <3>1. p < i /\ i \in 1 .. l BY <1>2, <2>3
    <3> QED BY <1>1, <2>1, <3>1 DEF SearchInv, ReachUp
  <2> QED BY <2>2, <2>3
<1>12. Closed \subseteq Vertices /\ \A u \in Closed : Succ[u] \subseteq Closed
  BY DEF SearchInv, ClosedIds, Closed
<1>13. ASSUME NEW u \in P PROVE v \in To[u]
  <2> DEFINE T == {k \in p .. l : stack[k] \in To[u]}
  <2>1. u \in Vertices BY <1>3
  <2>2. To[u] \subseteq P \cup Closed
    <3>1. P \cup Closed \in SUBSET Vertices BY <1>3, <1>12
    <3>2. \A x \in P \cup Closed : Succ[x] \subseteq P \cup Closed BY <1>10, <1>12
    <3> HIDE DEF P, Closed
    <3> QED BY <1>8, <1>13, <2>1, <3>1, <3>2, ToFacts
  <2>3. u \in To[u] BY <1>8, <2>1, ToFacts
  <2>4. T # {}
    <3>1. PICK i \in p .. l : u = stack[i] OBVIOUS
    <3> QED BY <2>3, <3>1
  <2>5. T \subseteq Nat BY <1>1
  <2> HIDE DEF T
  <2>6. PICK m \in T : \A k \in T : m <= k BY <2>4, <2>5, LeastNatural
  <2>7. m \in p .. l /\ stack[m] \in To[u] BY <2>6 DEF T
  <2>8. CASE m = p BY <1>1, <2>7, <2>8
  <2>9. CASE m # p
    <3>1. m \in 1 .. l /\ ~Active(m) BY <1>2, <2>7, <2>9
    <3>2. PICK q \in 1 .. l : q < m /\ stack[q] \in To[stack[m]]
      BY <1>1, <3>1 DEF SearchInv, ReachDown
    <3>3. stack[q] \in To[u] BY <1>8, <2>1, <2>7, <3>2, ToFacts
    <3>4. stack[q] \notin Closed BY <1>1, <3>2 DEF Closed
    <3>5. PICK k \in p .. l : stack[q] = stack[k] BY <2>2, <3>3, <3>4
    <3>6. q = k BY <1>1, <1>2, <3>2, <3>5
    <3>7. q \in T BY <3>3, <3>5, <3>6 DEF T
    <3>8. m <= q BY <2>6, <3>7
    <3> QED BY <1>1, <3>1, <3>2, <3>8
  <2> QED BY <2>8, <2>9
<1> HIDE DEF P
<1>14. /\ P \subseteq Vertices /\ P \cap Closed = {}
       /\ \A u \in P : Succ[u] \subseteq P \cup Closed
       /\ \A u \in P : v \in To[u] /\ u \in To[v]
  BY <1>3, <1>4, <1>10, <1>11, <1>13
<1> QED BY <1>14 DEF P

LEMMA PopClosed ==
    ASSUME SearchInv, PopComponent
    PROVE  ClosedIds'
<1>1. PICK n, l, p, v : PoppedAt(n, l, p, v) BY PopFacts
<1> DEFINE P == {stack[k] : k \in p .. l}
<1>2. /\ Closed' = Closed \cup P
      /\ \A u \in Closed : low'[u] = low[u] /\ id'[u] = id[u]
      /\ Succ' = Succ /\ To' = To /\ V' = V /\ count' = count + 1
  BY <1>1, PopParts
<1>3. /\ P \subseteq Vertices /\ P \cap Closed = {}
      /\ \A u \in P : Succ[u] \subseteq P \cup Closed
      /\ \A u \in P : v \in To[u] /\ u \in To[v]
  BY <1>1, PoppedIsComponent
<1>4. \A u \in P : low'[u] = V /\ id'[u] = count
  <2> SUFFICES ASSUME NEW u \in P PROVE low'[u] = V /\ id'[u] = count OBVIOUS
  <2>1. u \in Vertices /\ \E k \in p .. l : stack[k] = u BY <1>3
  <2> QED BY <1>1, <2>1 DEF PoppedAt
<1>5. count \in Nat BY StateFacts
<1>6. v \in Vertices /\ cg \in CallGraphs BY <1>1 DEF PoppedAt, SearchInv
<1>7. \A u \in Closed : u \in Vertices /\ id[u] \in Int
  <2>1. Closed \subseteq Vertices BY DEF Closed
  <2> HIDE DEF Closed
  <2> QED BY <2>1, StateFacts
<1>8. /\ \A u \in Closed : low[u] = V /\ id[u] < count /\ \A w \in Succ[u] : w \in Closed /\ id[w] <= id[u]
      /\ \A u, w \in Closed : id[u] = id[w] => w \in To[u]
  BY DEF SearchInv, ClosedIds
<1> HIDE DEF P, Closed
<1>9. ASSUME NEW u \in Closed \cup P
      PROVE  /\ low'[u] = V /\ id'[u] < count + 1
             /\ \A w \in Succ[u] : w \in Closed \cup P /\ id'[w] <= id'[u]
  <2>1. CASE u \in Closed
    <3>1. low'[u] = V /\ id'[u] = id[u] /\ id[u] < count /\ id[u] \in Int BY <1>2, <1>7, <1>8, <2>1
    <3>2. \A w \in Succ[u] : w \in Closed /\ id'[w] <= id'[u] BY <1>2, <1>8, <2>1
    <3> QED BY <1>5, <3>1, <3>2
  <2>2. CASE u \in P
    <3>1. low'[u] = V /\ id'[u] = count BY <1>4, <2>2
    <3>2. ASSUME NEW w \in Succ[u] PROVE w \in Closed \cup P /\ id'[w] <= count
      <4>1. CASE w \in Closed
        <5>1. id'[w] = id[w] /\ id[w] < count /\ id[w] \in Int BY <1>2, <1>7, <1>8, <4>1
        <5> QED BY <1>5, <4>1, <5>1
      <4>2. CASE w \in P
        <5>1. id'[w] = count BY <1>4, <4>2
        <5> QED BY <1>5, <4>2, <5>1
      <4> QED BY <1>3, <2>2, <4>1, <4>2
    <3> QED BY <1>5, <3>1, <3>2
  <2> QED BY <2>1, <2>2
<1>10. ASSUME NEW u \in Closed \cup P, NEW w \in Closed \cup P, id'[u] = id'[w] PROVE w \in To[u]
  <2>1. CASE u \in Closed /\ w \in Closed BY <1>2, <1>8, <1>10, <2>1
  <2>2. CASE u \in P /\ w \in P
    <3>1. v \in To[u] /\ w \in To[v] /\ u \in Vertices BY <1>3, <2>2
    <3> QED BY <1>6, <3>1, ToFacts
  <2>3. CASE (u \in Closed /\ w \in P) \/ (u \in P /\ w \in Closed)
    <3>1. \A x \in Closed : id'[x] # count BY <1>2, <1>5, <1>7, <1>8
    <3> QED BY <1>4, <1>10, <2>3, <3>1
  <2> QED BY <2>1, <2>2, <2>3
<1> QED BY <1>2, <1>9, <1>10 DEF ClosedIds

-----------------------------------------------------------------------------
(* The search starts in the invariant ...                                  *)
LEMMA InitInv == Init => SearchInv
<1> SUFFICES ASSUME Init PROVE SearchInv OBVIOUS
<1>1. cg \in CallGraphs /\ pre = 0 /\ count = 0 /\ stack = <<>> /\ frames = <<>>
  BY DEF Init
<1>2. V \in Nat BY <1>1, GraphFacts
<1>3. DOMAIN stack = {} /\ DOMAIN frames = {} /\ Len(stack) = 0 /\ Len(frames) = 0 BY <1>1
<1>4. Marked = {} BY DEF Init, Marked
<1>5. Closed = {} BY DEF Init, Closed
<1>6. TypeOK BY <1>2, <1>3 DEF Init, TypeOK
<1>7. stack \in Seq(Vertices) /\ frames \in Seq([v : Vertices, min : 0 .. V, adj : SUBSET Vertices])
  BY <1>1
<1>8. Shape BY <1>3, <1>7 DEF Shape
<1>9. Order BY <1>1, <1>3 DEF Order
<1>10. Counters BY <1>1, <1>3, <1>4, FS_EmptySet DEF Counters
<1>11. Walked BY <1>3, <1>4 DEF Walked
<1>12. Below /\ EdgesSeen /\ MinCovers BY <1>3 DEF Below, EdgesSeen, MinCovers
<1>13. ReachUp /\ ReachDown /\ LowReaches BY <1>3 DEF ReachUp, ReachDown, LowReaches
<1>14. ClosedIds
  <2> HIDE DEF Closed
  <2> QED BY <1>5 DEF ClosedIds
<1> QED BY <1>1, <1>6, <1>8, <1>9, <1>10, <1>11, <1>12, <1>13, <1>14 DEF SearchInv

(* ... and no step leaves it.                                              *)
LEMMA NextInv == SearchInv /\ [Next]_vars => SearchInv'
<1> SUFFICES ASSUME SearchInv, [Next]_vars PROVE SearchInv' OBVIOUS
<1>1. ASSUME NEW w \in Vertices, Root(w) \/ Descend(w) PROVE SearchInv'
  <2>1. Enter(w) /\ (frames # <<>> => w \in Running.adj) BY <1>1 DEF Root, Descend
  <2>2. cg' \in CallGraphs /\ TypeOK' /\ Shape' /\ Counters' BY <2>1, EnterTyped
  <2>3. Order' /\ Walked' BY <2>1, EnterOrder
  <2>4. Below' /\ EdgesSeen' /\ MinCovers' BY <2>1, EnterLows
  <2>5. ReachUp' /\ ReachDown' /\ LowReaches' /\ ClosedIds' BY <2>1, EnterReach
  <2> QED BY <2>2, <2>3, <2>4, <2>5 DEF SearchInv
<1>2. ASSUME NEW w \in Vertices, Compare(w) PROVE SearchInv'
  <2>1. /\ cg' \in CallGraphs /\ TypeOK' /\ Shape' /\ Counters' /\ Order' /\ Walked'
        /\ Below' /\ ReachUp' /\ ReachDown' /\ ClosedIds'
    BY <1>2, CompareTyped
  <2>2. EdgesSeen' /\ MinCovers' /\ LowReaches' BY <1>2, CompareLows
  <2> QED BY <2>1, <2>2 DEF SearchInv
<1>3. CASE ReturnLower
  <2>1. cg' \in CallGraphs /\ TypeOK' /\ Shape' /\ Counters' /\ Order' /\ Walked' /\ ClosedIds'
    BY <1>3, LowerTyped
  <2>2. Below' /\ EdgesSeen' /\ MinCovers' BY <1>3, LowerLows
  <2>3. ReachUp' /\ ReachDown' /\ LowReaches' BY <1>3, LowerReach
  <2> QED BY <2>1, <2>2, <2>3 DEF SearchInv
<1>4. CASE PopComponent
  <2>1. cg' \in CallGraphs /\ TypeOK' /\ Shape' /\ Counters' /\ Order' /\ Walked' BY <1>4, PopTyped
  <2>2. Below' /\ EdgesSeen' /\ MinCovers' /\ ReachUp' /\ ReachDown' /\ LowReaches' BY <1>4, PopLows
  <2>3. ClosedIds' BY <1>4, PopClosed
  <2> QED BY <2>1, <2>2, <2>3 DEF SearchInv
<1>5. CASE UNCHANGED vars
  <2>1. /\ cg' = cg /\ marked' = marked /\ low' = low /\ id' = id /\ pre' = pre /\ count' = count
        /\ stack' = stack /\ frames' = frames
    BY <1>5 DEF vars
  <2>2. Succ' = Succ /\ To' = To /\ Vertices' = Vertices /\ V' = V /\ Marked' = Marked /\ Closed' = Closed
    BY <2>1 DEF Succ, To, Vertices, V, Marked, Closed
  <2>3. \A k : Active(k)' <=> Active(k) BY <2>1 DEF Active
  <2>4. \A j, k : Segment(j, k)' <=> Segment(j, k) BY <2>1 DEF Segment
  <2> HIDE DEF Closed
  <2>5. cg' \in CallGraphs /\ TypeOK' BY <2>1, <2>2 DEF SearchInv, TypeOK
  <2>6. Shape' BY <2>1, <2>2 DEF SearchInv, Shape
  <2>7. Order' BY <2>1 DEF SearchInv, Order
  <2>8. Counters' BY <2>1, <2>2 DEF SearchInv, Counters
  <2>9. Walked' BY <2>1, <2>2 DEF SearchInv, Walked
  <2>10. Below' BY <2>1, <2>3 DEF SearchInv, Below
  <2>11. EdgesSeen' BY <2>1, <2>2, <2>3 DEF SearchInv, EdgesSeen
  <2>12. MinCovers' BY <2>1, <2>4 DEF SearchInv, MinCovers
  <2>13. ReachUp' BY <2>1, <2>2, <2>3 DEF SearchInv, ReachUp
  <2>14. ReachDown' BY <2>1, <2>2, <2>3 DEF SearchInv, ReachDown
  <2>15. LowReaches' BY <2>1, <2>2, <2>3 DEF SearchInv, LowReaches
  <2>16. ClosedIds' BY <2>1, <2>2 DEF SearchInv, ClosedIds
  <2> QED BY <2>5, <2>6, <2>7, <2>8, <2>9, <2>10, <2>11, <2>12, <2>13, <2>14, <2>15, <2>16 DEF SearchInv
<1> QED BY <1>1, <1>2, <1>3, <1>4, <1>5 DEF Next

(* The inductive invariant holds throughout the search.                    *)
THEOREM SearchInvariant == Spec => []SearchInv
<1> QED BY InitInv, NextInv, PTL DEF Spec

(* The variables of the search stay in their ranges: the counters never    *)
(* run past the number of functions, so low = V marks closed vertices only.*)
THEOREM SearchTypeCorrect == Spec => []TypeOK
<1>1. SearchInv => TypeOK BY DEF SearchInv
<1> QED BY <1>1, SearchInvariant, PTL

(* The invariant says what the ids of closed vertices mean.                *)
LEMMA ComponentsClosedFromInv == SearchInv => ComponentsClosed
<1> SUFFICES ASSUME SearchInv, NEW u \in Closed, NEW v \in Vertices
             PROVE  /\ SameComponent(u, v, Adj) => v \in Closed
                    /\ v \in Closed => (id[u] = id[v] <=> SameComponent(u, v, Adj))
  <2> HIDE DEF SameComponent, Closed
  <2> QED BY DEF ComponentsClosed
<1>1. cg \in CallGraphs BY DEF SearchInv
<1>2. Closed \subseteq Vertices BY DEF Closed
<1>3. u \in Vertices BY <1>2
<1>4. SameComponent(u, v, Adj) <=> v \in To[u] /\ u \in To[v]
  <2>1. To[u] = Reached(u) /\ To[v] = Reached(v) BY <1>1, <1>3, ToIsReach
  <2> QED BY <2>1 DEF SameComponent, Reached
<1>5. ASSUME NEW x \in Closed, NEW y \in To[x] PROVE y \in Closed /\ id[y] <= id[x]
  <2> DEFINE S == {w \in Closed : id[w] <= id[x]}
  <2>1. x \in S BY <1>2, StateFacts
  <2>2. S \in SUBSET Vertices BY <1>2
  <2>3. \A w \in S : Succ[w] \subseteq S
    <3> SUFFICES ASSUME NEW w \in S, NEW z \in Succ[w] PROVE z \in S OBVIOUS
    <3>1. w \in Closed /\ id[w] <= id[x] OBVIOUS
    <3>2. z \in Closed /\ id[z] <= id[w] BY <3>1 DEF SearchInv, ClosedIds
    <3>3. id[z] \in Int /\ id[w] \in Int /\ id[x] \in Int BY <1>2, <3>1, <3>2, StateFacts
    <3>4. id[z] <= id[x] BY <3>1, <3>2, <3>3
    <3> QED BY <3>2, <3>4
  <2>4. x \in Vertices BY <1>2
  <2> HIDE DEF S
  <2>5. To[x] \subseteq S BY <1>1, <2>1, <2>2, <2>3, <2>4, ToFacts
  <2>6. y \in S BY <2>5
  <2> QED BY <2>6 DEF S
<1>6. SameComponent(u, v, Adj) => v \in Closed BY <1>4, <1>5
<1>7. ASSUME v \in Closed PROVE id[u] = id[v] <=> SameComponent(u, v, Adj)
  <2>1. id[u] = id[v] => v \in To[u] /\ u \in To[v] BY <1>7 DEF SearchInv, ClosedIds
  <2>2. v \in To[u] /\ u \in To[v] => id[u] = id[v]
    <3> SUFFICES ASSUME v \in To[u], u \in To[v] PROVE id[u] = id[v] OBVIOUS
    <3>1. id[v] <= id[u] /\ id[u] <= id[v] BY <1>5, <1>7
    <3>2. id[v] \in Int /\ id[u] \in Int BY <1>3, StateFacts
    <3> QED BY <3>1, <3>2
  <2> QED BY <1>4, <2>1, <2>2
<1> QED BY <1>6, <1>7

(* dfs closes strongly connected components and nothing else, for every    *)
(* call graph and every order of the successors: two vertices that have    *)
(* left the stack carry one id exactly if each reaches the other, and no   *)
(* vertex of their component is left behind.                               *)
THEOREM SearchFindsComponents == Spec => []ComponentsClosed
<1> QED BY ComponentsClosedFromInv, SearchInvariant, PTL

-----------------------------------------------------------------------------
(* No function calls an unknown one.                                       *)
AllKnown == \A v \in Vertices : External \notin Callees(v)

(* Then calls and the edges dfs walks lead to the same functions.          *)
LEMMA CallsReach ==
    ASSUME cg \in CallGraphs, AllKnown, NEW v \in Vertices
    PROVE  Reach(v, Calls) = Reached(v)
<1> DEFINE F(r) == [k \in Nat |-> IF k = 0 THEN {v} ELSE r[k - 1] \cup UNION {Calls(u) : u \in r[k - 1]}]
           r0 == CHOOSE r : r = F(r)
<1>1. Reach(v, Calls) = r0[V] BY DEF Reach
<1>2. PICK f \in [Nat -> SUBSET Vertices] :
              /\ f[0] = {v}
              /\ \A n \in Nat : f[n + 1] = f[n] \cup UNION {Adj(u) : u \in f[n]}
              /\ Reached(v) = f[V]
  BY ReachUnfold
<1>3. \A u \in Vertices : Calls(u) = Adj(u) BY DEF AllKnown, Calls, Adj, Index
<1>4. \A s \in SUBSET Vertices : UNION {Calls(u) : u \in s} = UNION {Adj(u) : u \in s}
  <2> SUFFICES ASSUME NEW s \in SUBSET Vertices
               PROVE  UNION {Calls(u) : u \in s} = UNION {Adj(u) : u \in s}
    OBVIOUS
  <2>1. {Calls(u) : u \in s} = {Adj(u) : u \in s} BY <1>3
  <2> QED BY <2>1
<1>5. f = F(f)
  <2>1. ASSUME NEW k \in Nat PROVE f[k] = IF k = 0 THEN {v} ELSE f[k - 1] \cup UNION {Calls(u) : u \in f[k - 1]}
    <3>1. CASE k = 0 BY <3>1, <1>2
    <3>2. CASE k # 0
      <4>1. k - 1 \in Nat /\ (k - 1) + 1 = k BY <3>2
      <4>2. f[k] = f[k - 1] \cup UNION {Adj(u) : u \in f[k - 1]} BY <1>2, <4>1
      <4>3. f[k - 1] \in SUBSET Vertices BY <4>1
      <4> QED BY <1>4, <3>2, <4>2, <4>3
    <3> QED BY <3>1, <3>2
  <2> QED BY <2>1
<1>6. r0 = F(r0)
  <2> HIDE DEF F
  <2> QED BY <1>5
<1>7. r0[0] = {v} /\ \A n \in Nat : r0[n + 1] = r0[n] \cup UNION {Calls(u) : u \in r0[n]}
  <2> HIDE DEF r0
  <2>1. r0[0] = {v} BY <1>6
  <2>2. ASSUME NEW n \in Nat PROVE r0[n + 1] = r0[n] \cup UNION {Calls(u) : u \in r0[n]}
    <3>1. n + 1 \in Nat /\ n + 1 # 0 /\ (n + 1) - 1 = n OBVIOUS
    <3>2. F(r0)[n + 1] = r0[n] \cup UNION {Calls(u) : u \in r0[n]} BY <3>1
    <3> QED BY <1>6, <3>2
  <2> QED BY <2>1, <2>2
<1> HIDE DEF r0
<1>8. \A n \in Nat : r0[n] = f[n]
  <2> DEFINE S == {n \in Nat : r0[n] = f[n]}
  <2>1. 0 \in S BY <1>2, <1>7
  <2>2. ASSUME NEW n \in Nat, n \in S PROVE n + 1 \in S
    <3>1. r0[n] = f[n] /\ f[n] \in SUBSET Vertices BY <2>2
    <3>2. r0[n + 1] = f[n + 1] BY <1>2, <1>4, <1>7, <3>1
    <3> QED BY <3>2
  <2> HIDE DEF S
  <2>3. Nat \subseteq S BY <2>1, <2>2, NaturalsIn
  <2> QED BY <2>3 DEF S
<1>9. V \in Nat BY GraphFacts
<1> QED BY <1>1, <1>2, <1>8, <1>9

(* The ids are those of the components of the call graph whenever every    *)
(* callee is known: External is the only reason why the listing of         *)
(* buildSCC can be wrong.                                                  *)
THEOREM IdsAreSCCsOfKnownCalls == Spec => [](AllKnown => IdsAreSCCs)
<1>1. SearchInv /\ AllKnown => IdsAreSCCs
  <2> SUFFICES ASSUME SearchInv, AllKnown, Done, NEW u \in Vertices, NEW v \in Vertices
               PROVE  id[u] = id[v] <=> SameComponent(u, v, Calls)
    <3> HIDE DEF SameComponent, Done
    <3> QED BY DEF IdsAreSCCs
  <2>1. stack = <<>> BY DEF Done, SearchInv, Order
  <2>2. u \in Closed /\ v \in Closed BY <2>1 DEF Done, Closed
  <2>3. id[u] = id[v] <=> SameComponent(u, v, Adj)
    <3> HIDE DEF SameComponent, Closed
    <3> QED BY <2>2, ComponentsClosedFromInv DEF ComponentsClosed
  <2>4. Reach(u, Calls) = Reached(u) /\ Reach(v, Calls) = Reached(v) BY CallsReach DEF SearchInv
  <2> QED BY <2>3, <2>4 DEF SameComponent, Reached
<1> QED BY <1>1, SearchInvariant, PTL
==============================================================================
