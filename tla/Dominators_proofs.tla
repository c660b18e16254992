-------------------------- MODULE Dominators_proofs --------------------------
(***************************************************************************)
(* Proofs about Dominators, for flow graphs of every size.                 *)
(***************************************************************************)
EXTENDS Dominators, Induction

(* Sweeping only takes away, and never more than the equations allow.      *)
Shrinking ==
    /\ doms[Entry] = {Entry}
    /\ \A n \in Blocks \ {Entry} : Refined(n, doms) \subseteq doms[n]

(* No solution is ever lost.                                               *)
AboveSolutions ==
    \A d \in [Blocks -> SUBSET Blocks] :
        Solves(d) => \A n \in Blocks : d[n] \subseteq doms[n]

(* While a sweep has changed nothing, the blocks behind it are settled.    *)
Settled ==
    /\ ~changed => \A n \in (1 .. next - 1) \ {Entry} : doms[n] = Refined(n, doms)
    /\ pc = "done" => ~changed /\ next = Len(FlowGraphs[graph]) + 1

DomInv == TypeOK /\ Shrinking /\ AboveSolutions /\ Settled

-----------------------------------------------------------------------------
(* More dominators of the predecessors, more dominators of the block.      *)
LEMMA RefinedMonotone ==
    ASSUME NEW n, NEW c, NEW d,
           \A p \in Preds(n) : c[p] \subseteq d[p]
    PROVE  Refined(n, c) \subseteq Refined(n, d)
BY DEF Refined

LEMMA GraphFacts ==
    ASSUME graph \in DOMAIN FlowGraphs
    PROVE  /\ Len(FlowGraphs[graph]) \in Nat \ {0}
           /\ Blocks = 1 .. Len(FlowGraphs[graph])
           /\ Entry \in Blocks
           /\ \A n \in Blocks : Preds(n) \subseteq Blocks
<1>1. /\ FlowGraphs[graph] \in Seq(SUBSET (1 .. Len(FlowGraphs[graph])))
      /\ Len(FlowGraphs[graph]) > 0
  BY FlowGraphsAssumption
<1>2. /\ Len(FlowGraphs[graph]) \in Nat
      /\ \A n \in 1 .. Len(FlowGraphs[graph]) :
            FlowGraphs[graph][n] \in SUBSET (1 .. Len(FlowGraphs[graph]))
  BY <1>1
<1> QED BY <1>1, <1>2 DEF Blocks, Preds, Entry

LEMMA InitInv == Init => DomInv
<1> SUFFICES ASSUME Init PROVE DomInv OBVIOUS
<1> USE GraphFacts DEF Init
<1>1. TypeOK
  <2>1. next \in 1 .. Len(FlowGraphs[graph]) + 1 OBVIOUS
  <2>2. doms \in [Blocks -> SUBSET Blocks] OBVIOUS
  <2> QED BY <2>1, <2>2 DEF TypeOK
<1>2. Shrinking
  <2>1. \A n \in Blocks \ {Entry} : doms[n] = Blocks OBVIOUS
  <2>2. \A n \in Blocks : Refined(n, doms) \subseteq Blocks BY DEF Refined
  <2> QED BY <2>1, <2>2 DEF Shrinking
<1>3. AboveSolutions BY DEF AboveSolutions, Solves
<1>4. Settled BY DEF Settled
<1> QED BY <1>1, <1>2, <1>3, <1>4 DEF DomInv

(* One visit of a block.                                                   *)
LEMMA VisitInv ==
    ASSUME DomInv, VisitBlock
    PROVE  DomInv'
<1> USE DEF DomInv
<1>0. graph \in DOMAIN FlowGraphs /\ doms \in [Blocks -> SUBSET Blocks]
      /\ next \in Blocks /\ pc = "sweep"
  BY DEF TypeOK, VisitBlock
<1>a. graph' = graph /\ pc' = pc /\ next' = next + 1 BY DEF VisitBlock
<1>b. /\ Blocks' = Blocks
      /\ \A n : Preds(n)' = Preds(n)
  BY <1>a DEF Blocks, Preds
<1>c. \A n \in Blocks : Refined(n, doms) \subseteq Blocks BY DEF Refined
<1>d. /\ next # Entry => /\ doms'[next] = Refined(next, doms)
                         /\ \A n \in Blocks \ {next} : doms'[n] = doms[n]
                         /\ doms' \in [Blocks -> SUBSET Blocks]
      /\ next = Entry => doms' = doms
  BY <1>0, <1>c DEF VisitBlock
<1>e. \A n \in Blocks : doms'[n] \subseteq doms[n]
  BY <1>0, <1>d DEF Shrinking
<1>f. \A n \in Blocks : Refined(n, doms)' \subseteq Refined(n, doms)
  <2> SUFFICES ASSUME NEW n \in Blocks PROVE Refined(n, doms)' \subseteq Refined(n, doms) OBVIOUS
  <2>1. Refined(n, doms') \subseteq Refined(n, doms)
    BY <1>0, <1>e, GraphFacts, RefinedMonotone
  <2>2. Refined(n, doms)' = Refined(n, doms') BY <1>b DEF Refined
  <2> QED BY <2>1, <2>2
<1>g. changed' \in BOOLEAN /\ (~changed' => ~changed /\ doms' = doms /\
                                   (next # Entry => doms[next] = Refined(next, doms)))
  <2>1. CASE next = Entry BY <2>1 DEF VisitBlock, TypeOK
  <2>2. CASE next # Entry
    <3>1. changed' = (changed \/ Refined(next, doms) # doms[next])
          /\ doms' = [doms EXCEPT ![next] = Refined(next, doms)]
      BY <2>2 DEF VisitBlock
    <3>2. Refined(next, doms) = doms[next] => doms' = doms BY <1>0, <3>1
    <3> QED BY <3>1, <3>2 DEF TypeOK
  <2> QED BY <2>1, <2>2
<1>1. TypeOK'
  <2>1. next' \in 1 .. Len(FlowGraphs[graph]) + 1
    BY <1>0, <1>a, GraphFacts
  <2> QED BY <2>1, <1>0, <1>a, <1>b, <1>d, <1>g DEF TypeOK
<1>2. Shrinking'
  <2>1. doms'[Entry] = {Entry}
    BY <1>0, <1>d, GraphFacts DEF Shrinking
  <2>2. ASSUME NEW n \in Blocks \ {Entry} PROVE Refined(n, doms)' \subseteq doms'[n]
    <3>1. CASE n = next BY <3>1, <1>d, <1>f
    <3>2. CASE n # next
      <4>1. doms'[n] = doms[n] BY <3>2, <1>d
      <4> QED BY <4>1, <1>f DEF Shrinking
    <3> QED BY <3>1, <3>2
  <2> QED BY <2>1, <2>2, <1>b DEF Shrinking, Entry
<1>3. AboveSolutions'
  <2> SUFFICES ASSUME NEW d \in [Blocks -> SUBSET Blocks], Solves(d), NEW n \in Blocks
               PROVE  d[n] \subseteq doms'[n]
    BY <1>b DEF AboveSolutions, Solves, Refined, Entry
  <2>1. \A m \in Blocks : d[m] \subseteq doms[m] BY DEF AboveSolutions
  <2>2. CASE n = next /\ next # Entry
    <3>1. d[n] = Refined(n, d) BY <2>2 DEF Solves
    <3>2. Refined(n, d) \subseteq Refined(n, doms)
      BY <2>1, <1>0, GraphFacts, RefinedMonotone
    <3> QED BY <3>1, <3>2, <2>2, <1>d
  <2>3. CASE ~(n = next /\ next # Entry) BY <2>1, <2>3, <1>d
  <2> QED BY <2>2, <2>3
<1>4. Settled'
  <2>1. ASSUME ~changed', NEW n \in (1 .. next' - 1) \ {Entry}
        PROVE  doms'[n] = Refined(n, doms)'
    <3>1. doms' = doms /\ ~changed BY <2>1, <1>g
    <3>2. Refined(n, doms)' = Refined(n, doms) BY <3>1, <1>b DEF Refined
    <3>3. n = next \/ n \in (1 .. next - 1) \ {Entry} BY <1>0, <1>a, GraphFacts
    <3>4. n = next => doms[n] = Refined(n, doms) BY <2>1, <1>g
    <3>5. n \in (1 .. next - 1) \ {Entry} => doms[n] = Refined(n, doms)
      BY <3>1 DEF Settled
    <3> QED BY <3>1, <3>2, <3>3, <3>4, <3>5
  <2> QED BY <2>1, <1>0, <1>a DEF Settled, Entry
<1> QED BY <1>1, <1>2, <1>3, <1>4

LEMMA EndSweepInv ==
    ASSUME DomInv, EndSweep
    PROVE  DomInv'
<1> USE DEF DomInv
<1>0. graph \in DOMAIN FlowGraphs BY DEF TypeOK
<1>a. graph' = graph /\ doms' = doms BY DEF EndSweep
<1>b. /\ Blocks' = Blocks
      /\ \A n : Preds(n)' = Preds(n)
      /\ \A n, d : Refined(n, d)' = Refined(n, d')
  BY <1>a DEF Blocks, Preds, Refined
<1>1. TypeOK'
  <2>1. next' \in 1 .. Len(FlowGraphs[graph]) + 1 BY <1>0, GraphFacts DEF TypeOK, EndSweep
  <2>2. pc' \in {"sweep", "done"} /\ changed' \in BOOLEAN BY DEF TypeOK, EndSweep
  <2> QED BY <2>1, <2>2, <1>a, <1>b DEF TypeOK
<1>2. Shrinking' BY <1>a, <1>b DEF Shrinking, Refined, Entry
<1>3. AboveSolutions' BY <1>a, <1>b DEF AboveSolutions, Solves, Refined, Entry
<1>4. Settled'
  <2>1. CASE changed
    <3>1. next' = 1 /\ pc' = "sweep" BY <2>1 DEF EndSweep
    <3>2. (1 .. next' - 1) = {} BY <3>1
    <3> QED BY <3>1, <3>2 DEF Settled
  <2>2. CASE ~changed
    <3>1. next' = next /\ changed' = changed BY <2>2 DEF EndSweep
    <3>2. next = Len(FlowGraphs[graph]) + 1 BY <1>0, GraphFacts DEF TypeOK, EndSweep
    <3> QED BY <2>2, <3>1, <3>2, <1>a, <1>b DEF Settled, Refined, Entry
  <2> QED BY <2>1, <2>2
<1> QED BY <1>1, <1>2, <1>3, <1>4

(* The inductive invariant holds throughout.                               *)
THEOREM DominatorsInvariant == Spec => []DomInv
<1>1. ASSUME DomInv, [Next]_vars PROVE DomInv'
  <2>1. CASE VisitBlock BY <1>1, <2>1, VisitInv
  <2>2. CASE EndSweep BY <1>1, <2>2, EndSweepInv
  <2>3. CASE UNCHANGED vars
    <3> USE <2>3 DEF vars
    <3>1. Blocks' = Blocks /\ \A n : Preds(n)' = Preds(n) BY DEF Blocks, Preds
    <3> QED BY <1>1, <3>1
            DEF DomInv, TypeOK, Shrinking, AboveSolutions, Settled, Solves, Refined, Entry
  <2> QED BY <1>1, <2>1, <2>2, <2>3 DEF Next
<1> QED BY <1>1, InitInv, PTL DEF Spec

(* Every reachable state is well typed.                                    *)
THEOREM DominatorsTypeCorrect == Spec => []TypeOK
BY DominatorsInvariant, PTL DEF DomInv

(* setup ends in the greatest solution of the dominance equations,         *)
(* whatever the flow graph and the order of its blocks.                    *)
THEOREM GreatestSolutionFound == Spec => []GreatestSolution
<1>1. DomInv => GreatestSolution
  <2> SUFFICES ASSUME DomInv, pc = "done" PROVE GreatestSolution
    BY DEF GreatestSolution
  <2> USE DEF DomInv
  <2>1. \A n \in Blocks \ {Entry} : doms[n] = Refined(n, doms)
    <3>1. Blocks = 1 .. next - 1 BY GraphFacts DEF TypeOK, Settled
    <3> QED BY <3>1 DEF Settled
  <2> QED BY <2>1 DEF GreatestSolution, Solves, Shrinking, AboveSolutions
<1> QED BY <1>1, DominatorsInvariant, PTL

-----------------------------------------------------------------------------
(* The rounds of the recursive definition of Without.                      *)
LEMMA WithoutUnfold ==
    ASSUME graph \in DOMAIN FlowGraphs, NEW a
    PROVE  \E f \in [Nat -> SUBSET Blocks] :
              /\ f[0] = {Entry} \ {a}
              /\ \A k \in Nat : f[k + 1] = f[k] \cup {n \in Blocks \ {a} : Preds(n) \cap f[k] # {}}
              /\ Without(a) = f[Len(FlowGraphs[graph])]
<1> DEFINE D == SUBSET Blocks
           d == {Entry} \ {a}
           Grown(s) == s \cup {n \in Blocks \ {a} : Preds(n) \cap s # {}}
           F(r) == [k \in Nat |-> IF k = 0 THEN d ELSE Grown(r[k - 1])]
           reach == CHOOSE r : r = F(r)
           step == [s \in D |-> Grown(s)]
<1>1. Without(a) = reach[Len(FlowGraphs[graph])] BY DEF Without
<1>2. step \in [D -> D] /\ d \in D BY GraphFacts
<1>3. PICK f \in [Nat -> D] : f[0] = d /\ \A n \in Nat : f[n + 1] = step[f[n]]
  <2> HIDE DEF D, d, step
  <2>1. PICK f : Iterates(f, D, step, d) BY <1>2, Iteration
  <2> QED BY <2>1 DEF Iterates
<1>4. f = F(f)
  <2>1. ASSUME NEW k \in Nat PROVE f[k] = IF k = 0 THEN d ELSE Grown(f[k - 1])
    <3>1. CASE k = 0 BY <3>1, <1>3
    <3>2. CASE k # 0
      <4>1. k - 1 \in Nat /\ (k - 1) + 1 = k BY <3>2
      <4>2. f[k] = step[f[k - 1]] /\ f[k - 1] \in D BY <1>3, <4>1
      <4> QED BY <3>2, <4>2
    <3> QED BY <3>1, <3>2
  <2> QED BY <2>1
<1>5. reach = F(reach)
  <2> HIDE DEF F
  <2> QED BY <1>4
<1> HIDE DEF reach
<1>6. reach[0] = d /\ \A n \in Nat : reach[n + 1] = Grown(reach[n])
  <2>1. reach[0] = d BY <1>5
  <2>2. ASSUME NEW n \in Nat PROVE reach[n + 1] = Grown(reach[n])
    <3>1. n + 1 \in Nat /\ n + 1 # 0 /\ (n + 1) - 1 = n OBVIOUS
    <3>2. F(reach)[n + 1] = Grown(reach[n]) BY <3>1
    <3> QED BY <1>5, <3>2
  <2> QED BY <2>1, <2>2
<1>7. reach \in [Nat -> SUBSET Blocks]
  <2> DEFINE S == {n \in Nat : reach[n] \subseteq Blocks}
  <2>1. 0 \in S BY <1>2, <1>6
  <2>2. ASSUME NEW n \in Nat, n \in S PROVE n + 1 \in S BY <2>2, <1>6
  <2>3. Nat \subseteq S
    <3> HIDE DEF S
    <3> QED BY <2>1, <2>2, NaturalsIn
  <2>4. \A n \in Nat : reach[n] \in SUBSET Blocks BY <2>3
  <2>5. reach = [k \in Nat |-> reach[k]]
    <3>1. reach = F(reach) BY <1>5
    <3> QED BY <3>1
  <2> QED BY <2>4, <2>5
<1> QED BY <1>1, <1>6, <1>7

(* A block is reached without a exactly if it is another one, and is the   *)
(* entry block or has a predecessor that is reached; and there is no       *)
(* smaller set of blocks of which this is true.                            *)
LEMMA WithoutIsClosure ==
    ASSUME graph \in DOMAIN FlowGraphs, NEW a
    PROVE  /\ Without(a) \subseteq Blocks
           /\ \A n \in Blocks :
                 n \in Without(a) <=> n # a /\ (n = Entry \/ Preds(n) \cap Without(a) # {})
           /\ \A S : /\ {Entry} \ {a} \subseteq S
                     /\ \A n \in Blocks \ {a} : Preds(n) \cap S # {} => n \in S
                     => Without(a) \subseteq S
<1> DEFINE m == Len(FlowGraphs[graph])
           W == Without(a)
           E == [u \in Blocks |-> {n \in Blocks \ {a} : u \in Preds(n)}]
           D == {Entry} \ {a}
<1>1. PICK f \in [Nat -> SUBSET Blocks] :
              /\ f[0] = D
              /\ \A k \in Nat : f[k + 1] = f[k] \cup {n \in Blocks \ {a} : Preds(n) \cap f[k] # {}}
              /\ W = f[m]
  BY WithoutUnfold
<1>2. E \in [Blocks -> SUBSET Blocks] /\ D \in SUBSET Blocks BY GraphFacts
<1>3. \A k \in Nat : f[k + 1] = f[k] \cup UNION {E[u] : u \in f[k]}
  <2> SUFFICES ASSUME NEW k \in Nat
               PROVE  {n \in Blocks \ {a} : Preds(n) \cap f[k] # {}} = UNION {E[u] : u \in f[k]}
    BY <1>1
  <2>1. f[k] \subseteq Blocks OBVIOUS
  <2>2. \A u \in f[k] : E[u] = {n \in Blocks \ {a} : u \in Preds(n)} BY <2>1
  <2> HIDE DEF E
  <2>3. \A n \in Blocks \ {a} : Preds(n) \cap f[k] # {} <=> \E u \in f[k] : n \in E[u] BY <2>2
  <2>4. \A u \in f[k] : E[u] \subseteq Blocks \ {a} BY <2>2
  <2> QED BY <2>3, <2>4
<1>4. m \in Nat /\ IsFiniteSet(Blocks) /\ Cardinality(Blocks) <= m
  <2>1. m \in Nat /\ m > 0 /\ Blocks = 1 .. m BY GraphFacts
  <2> HIDE DEF m
  <2>2. IsFiniteSet(1 .. m) /\ Cardinality(1 .. m) = m BY <2>1, FS_Interval
  <2> QED BY <2>1, <2>2
<1>5. \A u \in Blocks : E[u] = {n \in Blocks \ {a} : u \in Preds(n)} OBVIOUS
<1>6. /\ D \subseteq W /\ W \subseteq Blocks
      /\ \A u \in W : E[u] \subseteq W
      /\ \A S : D \subseteq S /\ (\A u \in S \cap Blocks : E[u] \subseteq S) => W \subseteq S
  <2> HIDE DEF E, D, W, m
  <2>1. f[0] = D /\ W = f[m] BY <1>1
  <2>2. /\ f[0] \subseteq f[m] /\ f[m] \subseteq Blocks
        /\ \A u \in f[m] : E[u] \subseteq f[m]
        /\ \A S : f[0] \subseteq S /\ (\A u \in S \cap Blocks : E[u] \subseteq S) => f[m] \subseteq S
    BY <1>2, <1>3, <1>4, Closure
  <2> QED BY <2>1, <2>2
<1> HIDE DEF E, W
<1>7. ASSUME NEW n \in Blocks PROVE n \in W <=> n # a /\ (n = Entry \/ Preds(n) \cap W # {})
  <2>1. ASSUME n # a, n = Entry PROVE n \in W BY <2>1, <1>6
  <2>2. ASSUME n # a, Preds(n) \cap W # {} PROVE n \in W
    <3>1. PICK u \in W : u \in Preds(n) BY <2>2
    <3>2. u \in Blocks /\ n \in E[u] BY <3>1, <2>2, <1>5, <1>6
    <3> QED BY <3>1, <3>2, <1>6
  <2>3. ASSUME n \in W PROVE n # a /\ (n = Entry \/ Preds(n) \cap W # {})
    <3> DEFINE S == {x \in W : x # a /\ (x = Entry \/ Preds(x) \cap W # {})}
    <3>1. D \subseteq S BY <1>6
    <3>2. ASSUME NEW u \in S \cap Blocks, NEW x \in E[u] PROVE x \in S
      <4>1. x \in Blocks \ {a} /\ u \in Preds(x) BY <1>5
      <4>2. u \in W /\ x \in W BY <1>6
      <4> QED BY <4>1, <4>2
    <3>3. W \subseteq S
      <4> HIDE DEF S
      <4> QED BY <3>1, <3>2, <1>6
    <3> QED BY <2>3, <3>3
  <2> QED BY <2>1, <2>2, <2>3
<1>8. ASSUME NEW S, D \subseteq S, \A n \in Blocks \ {a} : Preds(n) \cap S # {} => n \in S
      PROVE  W \subseteq S
  <2>1. \A u \in S \cap Blocks : E[u] \subseteq S BY <1>5, <1>8
  <2> QED BY <1>6, <1>8, <2>1
<1> QED BY <1>6, <1>7, <1>8 DEF W

(* The blocks that must be passed solve the dominance equations, so the    *)
(* greatest solution has no block that can be passed by: clients are told  *)
(* of strict dominance, whatever the flow graph.                           *)
THEOREM DominanceIsStrict == Spec => []StrictDominance
<1>1. TypeOK /\ GreatestSolution => StrictDominance
  <2> SUFFICES ASSUME TypeOK, GreatestSolution, pc = "done",
                      NEW a \in Blocks, NEW b \in Without(0)
               PROVE  IsDominatorOf(a, b) <=> a # b /\ b \notin Without(a)
    BY DEF StrictDominance
  <2>1. graph \in DOMAIN FlowGraphs BY DEF TypeOK
  <2>2. b \in Blocks BY <2>1, WithoutIsClosure
  <2>3. Solves(doms) /\ \A d \in [Blocks -> SUBSET Blocks] :
                            Solves(d) => \A n \in Blocks : d[n] \subseteq doms[n]
    BY DEF GreatestSolution
  <2>4. ASSUME a # b, a \in doms[b] PROVE b \notin Without(a)
    <3> DEFINE S == {n \in Blocks : a \notin doms[n]}
    <3>1. {Entry} \ {a} \subseteq S BY <2>1, <2>3, GraphFacts DEF Solves
    <3>2. ASSUME NEW n \in Blocks \ {a}, Preds(n) \cap S # {} PROVE n \in S
      <4>1. CASE n = Entry BY <3>1, <4>1
      <4>2. CASE n # Entry BY <4>2, <2>3, <3>2 DEF Solves, Refined
      <4> QED BY <4>1, <4>2
    <3>3. Without(a) \subseteq S
      <4> HIDE DEF S
      <4> QED BY <2>1, <3>1, <3>2, WithoutIsClosure
    <3> QED BY <2>4, <3>3
  <2>5. ASSUME b \notin Without(a) PROVE a \in doms[b]
    <3> DEFINE d == [n \in Blocks |-> {x \in Blocks : n \notin Without(x)}]
    <3>1. d \in [Blocks -> SUBSET Blocks] OBVIOUS
    <3>2. d[Entry] = {Entry}
      <4>1. Entry \in Blocks BY <2>1, GraphFacts
      <4>2. \A x \in Blocks : Entry \in Without(x) <=> Entry # x
        BY <2>1, <4>1, WithoutIsClosure
      <4> QED BY <4>1, <4>2
    <3>3. ASSUME NEW n \in Blocks \ {Entry} PROVE d[n] = Refined(n, d)
      <4>1. Preds(n) \subseteq Blocks BY <2>1, GraphFacts
      <4>2. ASSUME NEW x \in Blocks
            PROVE  n \notin Without(x) <=> x = n \/ \A p \in Preds(n) : p \notin Without(x)
        BY <2>1, <3>3, WithoutIsClosure
      <4>3. \A p \in Preds(n) : \A x \in Blocks : x \in d[p] <=> p \notin Without(x) BY <4>1
      <4>4. d[n] = {x \in Blocks : n \notin Without(x)} OBVIOUS
      <4> HIDE DEF d
      <4> QED BY <4>2, <4>3, <4>4 DEF Refined
    <3>4. a \in d[b] BY <2>2, <2>5
    <3> HIDE DEF d
    <3>5. Solves(d) BY <3>2, <3>3 DEF Solves
    <3> QED BY <2>2, <2>3, <3>1, <3>4, <3>5
  <2> QED BY <2>2, <2>4, <2>5 DEF IsDominatorOf
<1> QED BY <1>1, DominatorsTypeCorrect, GreatestSolutionFound, PTL
=============================================================================
