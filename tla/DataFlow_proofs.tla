--------------------------- MODULE DataFlow_proofs ---------------------------
(***************************************************************************)
(* Proofs about DataFlow, for every flow graph and every client: nothing   *)
(* is assumed of meet and transfer.                                        *)
(***************************************************************************)
EXTENDS DataFlow, Induction, SequenceTheorems

(* A visited node that does not wait for another visit is up to date.      *)
UpToDate == \A n \in recSet \ wlist : Consistent(n, inSet, outSet)

(* Whoever depends on a visited node was visited or is waiting.            *)
Covered ==
    /\ flow.boundary \subseteq recSet \cup wlist
    /\ \A n \in recSet : Targets(n) \subseteq recSet \cup wlist

WalkInv == TypeOK /\ UpToDate /\ Covered

-----------------------------------------------------------------------------
(* What is met at m looks only at the sources of m.                        *)
LEMMA MeetsSources ==
    ASSUME NEW m, NEW c, NEW d,
           \A s \in Range(Sources(m)) : c[s] = d[s]
    PROVE  MeetAll(m, c) = MeetAll(m, d)
<1>1. \A k \in DOMAIN Sources(m) : c[Sources(m)[k]] = d[Sources(m)[k]]
  BY DEF Range
<1>2. [k \in DOMAIN Sources(m) |-> c[Sources(m)[k]]]
        = [k \in DOMAIN Sources(m) |-> d[Sources(m)[k]]]
  BY <1>1
<1> QED BY <1>2 DEF MeetAll

(* Sources and targets are the two ends of the same edges.                 *)
LEMMA EdgeEnds ==
    ASSUME WellFormed(flow), NEW n \in Nodes
    PROVE  /\ Targets(n) \subseteq Nodes
           /\ Sources(n) \in Seq(Nodes) /\ Range(Sources(n)) \subseteq Nodes
           /\ \A m \in Nodes : n \in Range(Sources(m)) <=> m \in Targets(n)
<1>1. flow.preds[n] \in Seq(Nodes) /\ flow.succs[n] \in Seq(Nodes)
  BY DEF WellFormed, Nodes
<1>2. \A s \in Seq(Nodes) : Range(s) \subseteq Nodes
  BY LenProperties, ElementOfSeq DEF Range
<1>3. Sources(n) \in Seq(Nodes) /\ Targets(n) \subseteq Nodes
  BY <1>1, <1>2 DEF Sources, Targets
<1>4. \A m \in Nodes : n \in Range(Sources(m)) <=> m \in Targets(n)
  <2>1. CASE flow.direction = FORWARD
    BY <2>1 DEF WellFormed, Targets, Sources, Nodes
  <2>2. CASE flow.direction # FORWARD
    BY <2>2 DEF WellFormed, Targets, Sources, Nodes
  <2> QED BY <2>1, <2>2
<1> QED BY <1>2, <1>3, <1>4

LEMMA InitInv == Init => WalkInv
<1> SUFFICES ASSUME Init PROVE WalkInv OBVIOUS
<1>1. WellFormed(flow) BY FlowProblemsAssumption DEF Init
<1>2. flow.boundary \subseteq Nodes BY <1>1 DEF WellFormed, Nodes
<1> QED BY <1>1, <1>2 DEF Init, WalkInv, TypeOK, UpToDate, Covered, Nodes

(* Both kinds of visit leave the worklist and the record as they should.   *)
LEMMA PropogateInv ==
    ASSUME TypeOK, Covered, NEW n \in wlist, NEW changed, Propogate(n, changed)
    PROVE  /\ wlist' \subseteq Nodes' /\ recSet' \subseteq Nodes'
           /\ Covered'
<1>1. flow' = flow BY DEF Propogate
<1>2. Nodes' = Nodes /\ \A m : Targets(m)' = Targets(m) BY <1>1 DEF Nodes, Targets
<1>3. n \in Nodes /\ WellFormed(flow) BY DEF TypeOK
<1>4. Targets(n) \subseteq Nodes BY <1>3, EdgeEnds
<1>5. recSet' \cup wlist' = recSet \cup wlist \cup (IF changed \/ n \notin recSet THEN Targets(n) ELSE {})
  BY DEF Propogate
<1>6. recSet' = recSet \cup {n} BY DEF Propogate
<1>7. n \notin recSet => Targets(n) \subseteq recSet' \cup wlist' BY <1>5
<1>8. \A m \in recSet' : Targets(m) \subseteq recSet' \cup wlist'
  BY <1>5, <1>6, <1>7 DEF Covered
<1>9. wlist' \subseteq Nodes /\ recSet' \subseteq Nodes
  BY <1>3, <1>4 DEF Propogate, TypeOK
<1> QED BY <1>1, <1>2, <1>5, <1>8, <1>9 DEF Covered

LEMMA ForwardInv ==
    ASSUME WalkInv, NEW n \in wlist, VisitForward(n)
    PROVE  WalkInv'
<1> DEFINE newIn  == MeetAll(n, outSet)
           newOut == Transfer(flow.client, n, newIn)
<1> USE DEF WalkInv
<1>1. /\ flow.direction = FORWARD
      /\ inSet' = [inSet EXCEPT ![n] = newIn]
      /\ outSet' = [outSet EXCEPT ![n] = newOut]
      /\ Propogate(n, newOut # outSet[n])
  BY DEF VisitForward
<1>2. flow' = flow BY <1>1 DEF Propogate
<1>3. n \in Nodes /\ WellFormed(flow) /\ DOMAIN inSet = Nodes /\ DOMAIN outSet = Nodes
  BY DEF TypeOK
<1> HIDE DEF newIn, newOut
<1>4. Nodes' = Nodes BY <1>2 DEF Nodes
<1>5. wlist' \subseteq Nodes' /\ recSet' \subseteq Nodes' /\ Covered'
  BY <1>1, PropogateInv
<1>6. TypeOK' BY <1>1, <1>2, <1>3, <1>4, <1>5 DEF TypeOK, WellFormed
<1>7. ASSUME NEW m \in recSet' \ wlist' PROVE Consistent(m, inSet, outSet)'
  <2>1. m \in Nodes BY <1>4, <1>5
  <2>2. \A s \in Range(Sources(m)) : outSet'[s] = outSet[s]
    <3> SUFFICES ASSUME NEW s \in Range(Sources(m)), outSet'[s] # outSet[s] PROVE FALSE
      OBVIOUS
    <3>1. s = n /\ newOut # outSet[n]
      <4>1. s \in Nodes BY <2>1, <1>3, EdgeEnds
      <4> QED BY <4>1, <1>1, <1>3
    <3>2. m \in Targets(n) BY <3>1, <2>1, <1>3, EdgeEnds
    <3>3. m \in wlist' BY <3>1, <3>2, <1>1 DEF Propogate
    <3> QED BY <3>3
  <2>3. MeetAll(m, outSet') = MeetAll(m, outSet)
    BY <2>2, MeetsSources
  <2>4. MeetAll(m, outSet)' = MeetAll(m, outSet')
    BY <1>2 DEF MeetAll, Sources
  <2>5. CASE m = n
    <3>1. inSet'[n] = newIn /\ outSet'[n] = newOut BY <1>1, <1>3
    <3>2. newIn = MeetAll(n, outSet) /\ newOut = Transfer(flow.client, n, newIn) BY DEF newIn, newOut
    <3> QED BY <3>1, <3>2, <2>3, <2>4, <2>5, <1>1, <1>2 DEF Consistent
  <2>6. CASE m # n
    <3>1. inSet'[m] = inSet[m] /\ outSet'[m] = outSet[m] BY <1>1, <1>3, <2>1, <2>6
    <3>2. m \in recSet \ wlist BY <2>6, <1>1 DEF Propogate
    <3>3. Consistent(m, inSet, outSet) BY <3>2 DEF UpToDate
    <3> QED BY <3>1, <3>3, <2>3, <2>4, <1>1, <1>2 DEF Consistent
  <2> QED BY <2>5, <2>6
<1> QED BY <1>5, <1>6, <1>7 DEF UpToDate

LEMMA BackwardInv ==
    ASSUME WalkInv, NEW n \in wlist, VisitBackward(n)
    PROVE  WalkInv'
<1> DEFINE newOut == MeetAll(n, inSet)
           newIn  == Transfer(flow.client, n, newOut)
<1> USE DEF WalkInv
<1>1. /\ flow.direction = BACKWARD /\ flow.direction # FORWARD
      /\ inSet' = [inSet EXCEPT ![n] = newIn]
      /\ outSet' = [outSet EXCEPT ![n] = newOut]
      /\ Propogate(n, newIn # inSet[n])
  BY DEF VisitBackward, FORWARD, BACKWARD
<1>2. flow' = flow BY <1>1 DEF Propogate
<1>3. n \in Nodes /\ WellFormed(flow) /\ DOMAIN inSet = Nodes /\ DOMAIN outSet = Nodes
  BY DEF TypeOK
<1> HIDE DEF newIn, newOut
<1>4. Nodes' = Nodes BY <1>2 DEF Nodes
<1>5. wlist' \subseteq Nodes' /\ recSet' \subseteq Nodes' /\ Covered'
  BY <1>1, PropogateInv
<1>6. TypeOK' BY <1>1, <1>2, <1>3, <1>4, <1>5 DEF TypeOK, WellFormed
<1>7. ASSUME NEW m \in recSet' \ wlist' PROVE Consistent(m, inSet, outSet)'
  <2>1. m \in Nodes BY <1>4, <1>5
  <2>2. \A s \in Range(Sources(m)) : inSet'[s] = inSet[s]
    <3> SUFFICES ASSUME NEW s \in Range(Sources(m)), inSet'[s] # inSet[s] PROVE FALSE
      OBVIOUS
    <3>1. s = n /\ newIn # inSet[n]
      <4>1. s \in Nodes BY <2>1, <1>3, EdgeEnds
      <4> QED BY <4>1, <1>1, <1>3
    <3>2. m \in Targets(n) BY <3>1, <2>1, <1>3, EdgeEnds
    <3>3. m \in wlist' BY <3>1, <3>2, <1>1 DEF Propogate
    <3> QED BY <3>3
  <2>3. MeetAll(m, inSet') = MeetAll(m, inSet)
    BY <2>2, MeetsSources
  <2>4. MeetAll(m, inSet)' = MeetAll(m, inSet')
    BY <1>2 DEF MeetAll, Sources
  <2>5. CASE m = n
    <3>1. inSet'[n] = newIn /\ outSet'[n] = newOut BY <1>1, <1>3
    <3>2. newOut = MeetAll(n, inSet) /\ newIn = Transfer(flow.client, n, newOut) BY DEF newIn, newOut
    <3> QED BY <3>1, <3>2, <2>3, <2>4, <2>5, <1>1, <1>2 DEF Consistent
  <2>6. CASE m # n
    <3>1. inSet'[m] = inSet[m] /\ outSet'[m] = outSet[m] BY <1>1, <1>3, <2>1, <2>6
    <3>2. m \in recSet \ wlist BY <2>6, <1>1 DEF Propogate
    <3>3. Consistent(m, inSet, outSet) BY <3>2 DEF UpToDate
    <3> QED BY <3>1, <3>3, <2>3, <2>4, <1>1, <1>2 DEF Consistent
  <2> QED BY <2>5, <2>6
<1> QED BY <1>5, <1>6, <1>7 DEF UpToDate

(* The inductive invariant holds throughout.                               *)
THEOREM WalkInvariant == Spec => []WalkInv
<1>1. ASSUME WalkInv, [Next]_vars PROVE WalkInv'
  <2>1. CASE Next BY <1>1, <2>1, ForwardInv, BackwardInv DEF Next
  <2>2. CASE UNCHANGED vars
    <3> USE <2>2 DEF vars
    <3>1. Nodes' = Nodes /\ \A m : Targets(m)' = Targets(m) BY DEF Nodes, Targets
    <3>2. \A m, c, d : Consistent(m, c, d)' <=> Consistent(m, c', d')
      BY DEF Consistent, MeetAll, Sources
    <3> QED BY <1>1, <3>1, <3>2 DEF WalkInv, TypeOK, UpToDate, Covered, WellFormed
  <2> QED BY <1>1, <2>1, <2>2
<1> QED BY <1>1, InitInv, PTL DEF Spec

(* Every reachable state is well typed.                                    *)
THEOREM DataFlowTypeCorrect == Spec => []TypeOK
BY WalkInvariant, PTL DEF WalkInv

(* When dataFlowWalking finds its worklist empty it has a solution of the  *)
(* data flow equations, for every client and every order of the visits.    *)
THEOREM EmptyWorklistSolves == Spec => []Solved
<1>1. WalkInv => Solved BY DEF WalkInv, UpToDate, Covered, Solved
<1> QED BY <1>1, WalkInvariant, PTL

-----------------------------------------------------------------------------
(* Folds                                                                   *)

LEMMA LargestNumber ==
    ASSUME NEW L \in Nat, NEW s \in SUBSET (1 .. L), s # {}
    PROVE  Max(s) \in s /\ \A y \in s : Max(s) >= y
<1> DEFINE T == {L - y : y \in s}
<1>1. T \subseteq Nat /\ T # {}
  <2>1. \A y \in s : y \in 1 .. L /\ L - y \in Nat OBVIOUS
  <2> QED BY <2>1
<1>2. PICK m \in T : \A n \in T : m <= n
  <2> HIDE DEF T
  <2> QED BY <1>1, LeastNatural
<1>3. PICK x \in s : m = L - x OBVIOUS
<1>4. ASSUME NEW y \in s PROVE x >= y
  <2>1. L - x <= L - y /\ x \in Nat /\ y \in Nat BY <1>2, <1>3
  <2> QED BY <2>1
<1> QED BY <1>4 DEF Max

(* What MapThenFoldSet iterates for FoldLeft.                              *)
Folding(f, c, L) ==
    f = [s \in SUBSET (1 .. L) |->
            IF s = {} THEN TOP ELSE Meet(f[s \ {Max(s)}], c[Max(s)])]

(* The recursive definition has a solution: repeat its right side as often *)
(* as there are indices.                                                   *)
LEMMA FoldingExists ==
    ASSUME MonotoneClient, NEW L \in Nat, NEW c \in [1 .. L -> Values]
    PROVE  \E f : Folding(f, c, L)
<1> DEFINE S == SUBSET (1 .. L)
           D == [S -> Values]
           right(g) == [s \in S |-> IF s = {} THEN TOP ELSE Meet(g[s \ {Max(s)}], c[Max(s)])]
           step == [g \in D |-> right(g)]
<1>1. \A s \in S : s # {} => Max(s) \in 1 .. L /\ s \ {Max(s)} \in S
  BY LargestNumber
<1>2. TOP \in Values /\ \A a, b \in Values : Meet(a, b) \in Values
  BY DEF MonotoneClient
<1>3. step \in [D -> D]
  <2> SUFFICES ASSUME NEW g \in D PROVE right(g) \in D OBVIOUS
  <2> SUFFICES ASSUME NEW s \in S, s # {} PROVE Meet(g[s \ {Max(s)}], c[Max(s)]) \in Values
    BY <1>2
  <2> QED BY <1>1, <1>2
<1> DEFINE d == [s \in S |-> TOP]
<1>4. d \in D BY <1>2
<1>5. \A g \in D : step[g] = right(g) OBVIOUS
<1> HIDE DEF step, d, D
<1>6. PICK g : Iterates(g, D, step, d) BY <1>3, <1>4, Iteration
<1>7. \A n \in Nat : g[n] \in D /\ g[n + 1] = right(g[n])
  BY <1>5, <1>6 DEF Iterates
<1> DEFINE settled == {n \in Nat : \A s \in S : s \subseteq 1 .. n => g[n + 1][s] = g[n][s]}
<1>8. 0 \in settled
  <2>1. \A s \in S : s \subseteq 1 .. 0 => s = {} OBVIOUS
  <2>2. {} \in S OBVIOUS
  <2>3. g[0][{}] = TOP BY <1>6, <2>2 DEF Iterates, d
  <2>4. g[0 + 1][{}] = TOP BY <1>7, <2>2
  <2> QED BY <2>1, <2>3, <2>4
<1>9. ASSUME NEW n \in Nat, n \in settled PROVE n + 1 \in settled
  <2> SUFFICES ASSUME NEW s \in S, s \subseteq 1 .. n + 1
               PROVE  g[(n + 1) + 1][s] = g[n + 1][s]
    OBVIOUS
  <2> HIDE DEF right
  <2>0. n + 1 \in Nat OBVIOUS
  <2>1. g[(n + 1) + 1] = right(g[n + 1]) /\ g[n + 1] = right(g[n]) BY <1>7, <2>0
  <2> USE DEF right
  <2>2. CASE s = {} BY <2>1, <2>2
  <2>3. CASE s # {}
    <3> DEFINE x == Max(s)
               t == s \ {x}
    <3>1. x \in s /\ (\A y \in s : x >= y) /\ t \in S BY <1>1, <2>3, LargestNumber
    <3>2. t \subseteq 1 .. n
      <4> HIDE DEF x
      <4>1. ASSUME NEW y \in t PROVE y \in 1 .. n
        <5>1. y \in 1 .. n + 1 /\ x \in 1 .. n + 1 /\ x >= y /\ y # x BY <3>1
        <5> QED BY <5>1
      <4> QED BY <4>1
    <3>3. g[n + 1][t] = g[n][t] BY <1>9, <3>1, <3>2
    <3>4. g[(n + 1) + 1][s] = Meet(g[n + 1][t], c[x]) BY <2>1, <2>3
    <3>5. g[n + 1][s] = Meet(g[n][t], c[x]) BY <2>1, <2>3
    <3> QED BY <3>3, <3>4, <3>5
  <2> QED BY <2>2, <2>3
<1>10. L \in settled
  <2> HIDE DEF settled
  <2>1. Nat \subseteq settled BY <1>8, <1>9, NaturalsIn
  <2> QED BY <2>1
<1>11. g[L] = right(g[L])
  <2> HIDE DEF S, right
  <2>0. L + 1 \in Nat OBVIOUS
  <2>1. g[L] \in [S -> Values] /\ g[L + 1] \in [S -> Values] BY <1>7, <2>0 DEF D
  <2>2. \A s \in S : g[L + 1][s] = g[L][s] BY <1>10 DEF S
  <2>3. g[L + 1] = g[L] BY <2>1, <2>2
  <2> QED BY <1>7, <2>3
<1> QED BY <1>11 DEF Folding

LEMMA FoldingFound ==
    ASSUME MonotoneClient, NEW L \in Nat, NEW c \in [1 .. L -> Values]
    PROVE  \E f : Folding(f, c, L) /\ FoldLeft(Meet, TOP, c) = f[1 .. L]
<1>1. \E f : Folding(f, c, L) BY FoldingExists
<1> DEFINE f == CHOOSE f : Folding(f, c, L)
<1>2. Folding(f, c, L) BY <1>1
<1>3. DOMAIN c = 1 .. L OBVIOUS
<1>4. FoldLeft(Meet, TOP, c) = f[1 .. L]
  BY <1>3 DEF FoldLeft, MapThenFoldSet, Folding
<1> QED BY <1>2, <1>4

-----------------------------------------------------------------------------
(* Monotone clients                                                        *)

(* A value is below what every function that is below gives.               *)
AllBelow(c, d) == \A n \in DOMAIN d : Below(c[n], d[n])

LEMMA MeetMonotone ==
    ASSUME MonotoneClient, NEW a \in Values, NEW b \in Values,
           NEW c \in Values, NEW d \in Values, Below(a, c), Below(b, d)
    PROVE  Below(Meet(a, b), Meet(c, d))
<1>1. /\ \A x, y \in Values : Meet(x, y) \in Values /\ Meet(x, y) = Meet(y, x)
      /\ \A x, y, z \in Values : Meet(x, Meet(y, z)) = Meet(Meet(x, y), z)
  <2>1. \A x, y \in Values :
           /\ Meet(x, y) \in Values
           /\ Meet(x, y) = Meet(y, x)
           /\ \A z \in Values : Meet(x, Meet(y, z)) = Meet(Meet(x, y), z)
    BY DEF MonotoneClient
  <2> QED BY <2>1
<1>2. Meet(Meet(a, b), Meet(c, d)) = Meet(Meet(a, Meet(b, c)), d)
  <2>1. Meet(Meet(a, b), Meet(c, d)) = Meet(Meet(Meet(a, b), c), d) BY <1>1
  <2> QED BY <1>1, <2>1
<1>3. Meet(a, Meet(b, c)) = Meet(Meet(a, c), b) BY <1>1
<1>4. Meet(Meet(a, Meet(b, c)), d) = Meet(a, Meet(b, d)) BY <1>1, <1>3 DEF Below
<1> QED BY <1>2, <1>4 DEF Below

(* Meeting what is below gives what is below.                              *)
LEMMA FoldMonotone ==
    ASSUME MonotoneClient, NEW L \in Nat,
           NEW c \in [1 .. L -> Values], NEW d \in [1 .. L -> Values], AllBelow(c, d)
    PROVE  /\ FoldLeft(Meet, TOP, c) \in Values /\ FoldLeft(Meet, TOP, d) \in Values
           /\ Below(FoldLeft(Meet, TOP, c), FoldLeft(Meet, TOP, d))
<1>1. PICK f : Folding(f, c, L) /\ FoldLeft(Meet, TOP, c) = f[1 .. L] BY FoldingFound
<1>2. PICK g : Folding(g, d, L) /\ FoldLeft(Meet, TOP, d) = g[1 .. L] BY FoldingFound
<1> DEFINE good(n) == f[1 .. n] \in Values /\ g[1 .. n] \in Values /\ Below(f[1 .. n], g[1 .. n])
           S == {n \in Nat : n <= L => good(n)}
<1>3. 0 \in S
  <2>1. 1 .. 0 = {} /\ {} \in SUBSET (1 .. L) OBVIOUS
  <2>2. f[{}] = TOP /\ g[{}] = TOP BY <1>1, <1>2, <2>1 DEF Folding
  <2>3. TOP \in Values /\ Below(TOP, TOP) BY DEF MonotoneClient, Below
  <2> QED BY <2>1, <2>2, <2>3
<1>4. ASSUME NEW n \in Nat, n \in S PROVE n + 1 \in S
  <2> SUFFICES ASSUME n + 1 <= L PROVE good(n + 1) OBVIOUS
  <2> DEFINE s == 1 .. n + 1
  <2>1. s \in SUBSET (1 .. L) /\ s # {} /\ n + 1 \in 1 .. L /\ n <= L OBVIOUS
  <2>2. Max(s) = n + 1
    <3>1. Max(s) \in s /\ \A y \in s : Max(s) >= y BY <2>1, LargestNumber
    <3>2. n + 1 \in s OBVIOUS
    <3> QED BY <3>1, <3>2
  <2>3. s \ {n + 1} = 1 .. n OBVIOUS
  <2> HIDE DEF s
  <2>4. f[s] = Meet(f[1 .. n], c[n + 1]) /\ g[s] = Meet(g[1 .. n], d[n + 1])
    BY <1>1, <1>2, <2>1, <2>2, <2>3 DEF Folding
  <2>5. good(n) BY <1>4, <2>1
  <2>6. c[n + 1] \in Values /\ d[n + 1] \in Values /\ Below(c[n + 1], d[n + 1])
    BY <2>1 DEF AllBelow
  <2>7. \A a, b \in Values : Meet(a, b) \in Values BY DEF MonotoneClient
  <2>8. f[s] \in Values /\ g[s] \in Values BY <2>4, <2>5, <2>6, <2>7
  <2>9. Below(f[s], g[s]) BY <2>4, <2>5, <2>6, MeetMonotone
  <2> QED BY <2>8, <2>9 DEF s
<1>5. L \in S
  <2> HIDE DEF S
  <2>1. Nat \subseteq S BY <1>3, <1>4, NaturalsIn
  <2> QED BY <2>1
<1>6. good(L) BY <1>5
<1> HIDE DEF good
<1>7. good(L) <=> f[1 .. L] \in Values /\ g[1 .. L] \in Values /\ Below(f[1 .. L], g[1 .. L])
  BY DEF good
<1> QED BY <1>1, <1>2, <1>6, <1>7

LEMMA MeetAllMonotone ==
    ASSUME MonotoneClient, WellFormed(flow), NEW n \in Nodes,
           NEW c \in [Nodes -> Values], NEW d \in [Nodes -> Values], AllBelow(c, d)
    PROVE  /\ MeetAll(n, c) \in Values /\ MeetAll(n, d) \in Values
           /\ Below(MeetAll(n, c), MeetAll(n, d))
<1>1. boundaryValue \in Values /\ Below(boundaryValue, boundaryValue)
  BY DEF MonotoneClient, Below
<1>2. Sources(n) \in Seq(Nodes) BY EdgeEnds
<1> DEFINE L == Len(Sources(n))
           met(e) == [k \in DOMAIN Sources(n) |-> e[Sources(n)[k]]]
<1>3. L \in Nat /\ DOMAIN Sources(n) = 1 .. L /\ \A k \in 1 .. L : Sources(n)[k] \in Nodes
  BY <1>2, LenProperties, ElementOfSeq
<1> HIDE DEF L
<1>4. met(c) \in [1 .. L -> Values] /\ met(d) \in [1 .. L -> Values] /\ AllBelow(met(c), met(d))
  BY <1>3 DEF AllBelow
<1> HIDE DEF met
<1>5. /\ FoldLeft(Meet, TOP, met(c)) \in Values /\ FoldLeft(Meet, TOP, met(d)) \in Values
      /\ Below(FoldLeft(Meet, TOP, met(c)), FoldLeft(Meet, TOP, met(d)))
  BY <1>3, <1>4, FoldMonotone
<1>6. CASE n \in flow.boundary BY <1>1, <1>6 DEF MeetAll
<1>7. CASE n \notin flow.boundary BY <1>5, <1>7 DEF MeetAll, met
<1> QED BY <1>6, <1>7

-----------------------------------------------------------------------------
(* Every solution at the visited nodes is below what the maps hold.        *)
Solves(in, out) == \A n \in recSet : Consistent(n, in, out)

AboveSolutions ==
    \A in, out \in [Nodes -> Values] :
        Solves(in, out) => AllBelow(in, inSet) /\ AllBelow(out, outSet)

BestInv ==
    /\ flow \in FlowProblems
    /\ wlist \subseteq Nodes
    /\ inSet \in [Nodes -> Values] /\ outSet \in [Nodes -> Values]
    /\ AboveSolutions

LEMMA InitBest == MonotoneClient /\ Init => BestInv
<1> SUFFICES ASSUME MonotoneClient, Init PROVE BestInv OBVIOUS
<1>1. TOP \in Values /\ \A v \in Values : Below(v, TOP) BY DEF MonotoneClient
<1>2. flow \in FlowProblems /\ WellFormed(flow) BY FlowProblemsAssumption DEF Init
<1>3. wlist \subseteq Nodes BY <1>2 DEF Init, WellFormed, Nodes
<1>4. inSet = [n \in Nodes |-> TOP] /\ outSet = [n \in Nodes |-> TOP] BY DEF Init
<1> QED BY <1>1, <1>2, <1>3, <1>4 DEF BestInv, AboveSolutions, AllBelow

(* Transferring and meeting again never gets below a solution.             *)
LEMMA VisitBest ==
    ASSUME MonotoneClient, BestInv, NEW n \in wlist, VisitForward(n) \/ VisitBackward(n)
    PROVE  BestInv'
<1>1. /\ flow \in FlowProblems /\ WellFormed(flow) /\ n \in Nodes
      /\ inSet \in [Nodes -> Values] /\ outSet \in [Nodes -> Values]
  BY FlowProblemsAssumption DEF BestInv
<1>2. n \in DOMAIN flow.succs BY <1>1 DEF Nodes
<1>3. flow' = flow /\ recSet' = recSet \cup {n} /\ wlist' \subseteq wlist \cup Targets(n)
  BY DEF VisitForward, VisitBackward, Propogate
<1>4. Nodes' = Nodes /\ wlist' \subseteq Nodes'
  BY <1>1, <1>3, EdgeEnds DEF Nodes, BestInv
<1>5. \A v, w \in Values :
          /\ Transfer(flow.client, n, v) \in Values
          /\ Below(v, w) => Below(Transfer(flow.client, n, v), Transfer(flow.client, n, w))
  BY <1>1, <1>2 DEF MonotoneClient
<1>6. \A v \in Values : Below(v, v) BY DEF MonotoneClient, Below
<1>7. ASSUME NEW in \in [Nodes -> Values], NEW out \in [Nodes -> Values], Solves(in, out)'
      PROVE  Solves(in, out) /\ Consistent(n, in, out)
  <2>1. \A m : Consistent(m, in, out)' <=> Consistent(m, in, out)
    BY <1>3 DEF Consistent, MeetAll, Sources
  <2> QED BY <1>3, <1>7, <2>1 DEF Solves
<1>8. CASE VisitForward(n)
  <2> DEFINE newIn == MeetAll(n, outSet)
             newOut == Transfer(flow.client, n, newIn)
  <2>1. /\ flow.direction = FORWARD
        /\ inSet' = [inSet EXCEPT ![n] = newIn] /\ outSet' = [outSet EXCEPT ![n] = newOut]
    BY <1>8 DEF VisitForward
  <2>2. AllBelow(outSet, outSet) BY <1>1, <1>6 DEF AllBelow
  <2>3. newIn \in Values /\ newOut \in Values BY <1>1, <1>5, <2>2, MeetAllMonotone
  <2>4. ASSUME NEW in \in [Nodes -> Values], NEW out \in [Nodes -> Values], Solves(in, out)'
        PROVE  AllBelow(in, inSet') /\ AllBelow(out, outSet')
    <3>1. Solves(in, out) /\ Consistent(n, in, out) BY <1>7, <2>4
    <3>2. AllBelow(in, inSet) /\ AllBelow(out, outSet) BY <3>1 DEF BestInv, AboveSolutions
    <3>3. in[n] = MeetAll(n, out) /\ out[n] = Transfer(flow.client, n, in[n])
      BY <2>1, <3>1 DEF Consistent
    <3>4. Below(in[n], newIn) BY <1>1, <3>2, <3>3, MeetAllMonotone
    <3> HIDE DEF newIn
    <3>5. Below(out[n], newOut) BY <1>1, <1>5, <2>3, <3>3, <3>4
    <3> HIDE DEF newOut
    <3> QED BY <1>1, <2>1, <3>2, <3>4, <3>5 DEF AllBelow
  <2> HIDE DEF newIn, newOut
  <2>5. inSet' \in [Nodes -> Values] /\ outSet' \in [Nodes -> Values] BY <1>1, <2>1, <2>3
  <2> QED BY <1>1, <1>3, <1>4, <2>4, <2>5 DEF BestInv, AboveSolutions
<1>9. CASE VisitBackward(n)
  <2> DEFINE newOut == MeetAll(n, inSet)
             newIn == Transfer(flow.client, n, newOut)
  <2>1. /\ flow.direction # FORWARD
        /\ inSet' = [inSet EXCEPT ![n] = newIn] /\ outSet' = [outSet EXCEPT ![n] = newOut]
    BY <1>9 DEF VisitBackward, FORWARD, BACKWARD
  <2>2. AllBelow(inSet, inSet) BY <1>1, <1>6 DEF AllBelow
  <2>3. newOut \in Values /\ newIn \in Values BY <1>1, <1>5, <2>2, MeetAllMonotone
  <2>4. ASSUME NEW in \in [Nodes -> Values], NEW out \in [Nodes -> Values], Solves(in, out)'
        PROVE  AllBelow(in, inSet') /\ AllBelow(out, outSet')
    <3>1. Solves(in, out) /\ Consistent(n, in, out) BY <1>7, <2>4
    <3>2. AllBelow(in, inSet) /\ AllBelow(out, outSet) BY <3>1 DEF BestInv, AboveSolutions
    <3>3. out[n] = MeetAll(n, in) /\ in[n] = Transfer(flow.client, n, out[n])
      BY <2>1, <3>1 DEF Consistent
    <3>4. Below(out[n], newOut) BY <1>1, <3>2, <3>3, MeetAllMonotone
    <3> HIDE DEF newOut
    <3>5. Below(in[n], newIn) BY <1>1, <1>5, <2>3, <3>3, <3>4
    <3> HIDE DEF newIn
    <3> QED BY <1>1, <2>1, <3>2, <3>4, <3>5 DEF AllBelow
  <2> HIDE DEF newIn, newOut
  <2>5. inSet' \in [Nodes -> Values] /\ outSet' \in [Nodes -> Values] BY <1>1, <2>1, <2>3
  <2> QED BY <1>1, <1>3, <1>4, <2>4, <2>5 DEF BestInv, AboveSolutions
<1> QED BY <1>8, <1>9

(***************************************************************************)
(* If meet is a meet and transfer is monotone, then dataFlowWalking loses  *)
(* nothing to the order in which the worklist yields the nodes: what it    *)
(* ends with is the greatest solution at the nodes it has visited.         *)
(***************************************************************************)
THEOREM MonotoneClientsBest ==
    ASSUME MonotoneClient
    PROVE  Spec => []BestSolution
<1>1. Init => BestInv BY InitBest
<1>2. BestInv /\ [Next]_vars => BestInv'
  <2> SUFFICES ASSUME BestInv, [Next]_vars PROVE BestInv' OBVIOUS
  <2>1. CASE Next BY <2>1, VisitBest DEF Next
  <2>2. CASE UNCHANGED vars
    <3> USE <2>2 DEF vars
    <3>1. Nodes' = Nodes BY DEF Nodes
    <3>2. \A in, out : Solves(in, out)' <=> Solves(in, out)
      BY DEF Solves, Consistent, MeetAll, Sources
    <3> QED BY <3>1, <3>2 DEF BestInv, AboveSolutions, AllBelow
  <2> QED BY <2>1, <2>2
<1>3. BestInv => BestSolution
  BY DEF BestInv, AboveSolutions, Solves, AllBelow, BestSolution
<1> QED BY <1>1, <1>2, <1>3, PTL DEF Spec
=============================================================================
